------------------------- MODULE CognitiveCommitProofs -------------------------
(***************************************************************************)
(* Proofs about CognitiveCommit, for any callers, tokens, methods, stores  *)
(* and bounds that satisfy the module's assumptions.                       *)
(***************************************************************************)
EXTENDS CognitiveCommit, FiniteSetTheorems, TLAPS

(* Sequences stay sequences of their elements. *)
LEMMA AppendType ==
  ASSUME NEW S, NEW s \in Seq(S), NEW x \in S
  PROVE  Append(s, x) \in Seq(S)
  OBVIOUS

(* What Append adds. *)
LEMMA AppendIndices ==
  ASSUME NEW S, NEW s \in Seq(S), NEW x \in S
  PROVE  /\ DOMAIN Append(s, x) = DOMAIN s \cup {Len(s) + 1}
         /\ Append(s, x)[Len(s) + 1] = x
         /\ \A i \in DOMAIN s : Append(s, x)[i] = s[i] /\ i # Len(s) + 1
  OBVIOUS

(* What a sequence holds. *)
LEMMA SeqElement ==
  ASSUME NEW S, NEW s \in Seq(S)
  PROVE  \A i \in DOMAIN s : s[i] \in S
  OBVIOUS

(* A sequence of one. *)
LEMMA SingletonType ==
  ASSUME NEW S, NEW x \in S
  PROVE  <<x>> \in Seq(S)
  OBVIOUS

(* Counting steps. *)
LEMMA Counting ==
  /\ 1 \in 1..MaxStaged
  /\ \A n \in Nat : n + 1 \in Nat /\ n <= n /\ n # n + 1
  /\ \A m, n \in Nat : m <= n => m <= n + 1 /\ m # n + 1
  /\ \A n \in 0..AppendAttempts : n < AppendAttempts => n + 1 \in 0..AppendAttempts
  BY BoundAssumption DEF AppendAttempts

(* A published call leaves a receipt that is not the empty one. *)
LEMMA RealReceipt == \A c \in Callers : \A i : [by |-> c, input |-> i] # NoReceipt
  BY NobodyAssumption DEF NoReceipt

(* What one reading returns is an observation. *)
LEMMA LookType == \A s \in Stores, t \in Tables : Look(s, t) \in Observations
  BY DEF Stores, Tables, Look, Observations

(* The operations a method may stage are operations on records. *)
LEMMA StageType ==
  ASSUME TypeOK, NEW c \in Callers, Len(staged[c]) < MaxStaged
  PROVE  StageableOps(c) \subseteq Operations
<1>1. NewRecord(c) \in Records
  BY RecordsAssumption, BoundAssumption DEF NewRecord, TypeOK
<1>2. ASSUME NEW t \in {"mind", "memory"}, NEW r, Known(c, t, r)
      PROVE  r \in Records
  <2>1. CASE \E o \in seen[c] : o.table = t /\ r \in o.content
    <3>1. PICK o \in seen[c] : o.table = t /\ r \in o.content
      BY <2>1
    <3>2. o \in Observations
      BY <3>1 DEF TypeOK
    <3>3. QED
      BY <3>1, <3>2 DEF Observations
  <2>2. CASE \E i \in DOMAIN staged[c] : staged[c][i].table = t /\ staged[c][i].after = r
    <3>1. PICK i \in DOMAIN staged[c] : staged[c][i].after = r
      BY <2>2
    <3>2. staged[c][i] \in Operations
      BY <3>1 DEF TypeOK
    <3>3. QED
      BY <3>1, <3>2 DEF Operations
  <2>3. QED
    BY <1>2, <2>1, <2>2 DEF Known
<1>3. ASSUME NEW op \in StageableOps(c)
      PROVE  op \in Operations
  <2>1. CASE op \in { Initialize(NewRecord(c)), AppendTo("memory", NewRecord(c)),
                      AppendTo("journal", NewRecord(c)) }
    BY <1>1, <2>1 DEF Initialize, AppendTo, Operations, Tables
  <2>2. CASE \E t \in {"mind", "memory"}, r \in View(c).mind \cup View(c).memory :
               op = Replace(t, r, NewRecord(c))
    <3>1. PICK t \in {"mind", "memory"}, r \in View(c).mind \cup View(c).memory :
            op = Replace(t, r, NewRecord(c))
      BY <2>2
    <3>2. Known(c, t, r)
      BY <3>1 DEF StageableOps, Replace
    <3>3. QED
      BY <1>1, <1>2, <3>1, <3>2 DEF Replace, Operations, Tables
  <2>3. QED
    BY <2>1, <2>2 DEF StageableOps
<1>4. QED
  BY <1>3

(* Type correctness: every variable keeps its kind through every step of    *)
(* every interleaving.                                                      *)
THEOREM TypeCorrect == Spec => []TypeOK
<1>1. Init => TypeOK
  BY StoresAssumption
     DEF Init, TypeOK, Phases, NoMethod, Unanswered, AppendAttempts, Observations, Operations
<1>2. TypeOK /\ [Next]_vars => TypeOK'
  <2> SUFFICES ASSUME TypeOK, [Next]_vars
               PROVE  TypeOK'
    OBVIOUS
  <2> USE DEF TypeOK, Goto, Answer, server, call, work, Phases, AppendAttempts
  <2>1. ASSUME NEW c \in Callers, NEW m \in Methods, NEW t \in Tokens \cup {NoToken},
               NEW i \in Inputs, BeginAtomic(c, m, t, i)
        PROVE  TypeOK'
    BY <2>1 DEF BeginAtomic
  <2>2. ASSUME NEW c \in Callers, BeginAppend(c)
        PROVE  TypeOK'
    <3>1. <<c, 1>> \in Records
      BY Counting, RecordsAssumption
    <3>2. AppendTo("journal", <<c, 1>>) \in Operations
      BY <3>1 DEF AppendTo, Operations, Tables
    <3>3. << AppendTo("journal", <<c, 1>>) >> \in Seq(Operations)
      BY <3>2, SingletonType
    <3>4. staged' \in [Callers -> Seq(Operations)]
      BY <2>2, <3>3 DEF BeginAppend
    <3>5. QED
      BY <2>2, <3>4 DEF BeginAppend
  <2>3. ASSUME NEW c \in Callers, ReplaySaved(c)
        PROVE  TypeOK'
    <3>1. ReceiptOf(c) \in [by: Callers, input: Inputs \cup {"nothing"}]
      BY <2>3 DEF ReplaySaved, ReceiptOf
    <3>2. QED
      BY <2>3, <3>1 DEF ReplaySaved, Returned, Raised
  <2>4. ASSUME NEW c \in Callers, NoSavedResult(c)
        PROVE  TypeOK'
    BY <2>4 DEF NoSavedResult
  <2>5. ASSUME NEW c \in Callers, ReadRevision(c)
        PROVE  TypeOK'
    <3>1. attempt' \in [Callers -> 0..AppendAttempts]
      <4>1. attempt[c] + 1 \in 0..AppendAttempts
        <5>1. attempt[c] \in 0..AppendAttempts /\ attempt[c] < AppendAttempts
          BY <2>5 DEF ReadRevision
        <5>2. QED
          BY <5>1, Counting
      <4>2. attempt' = attempt \/ attempt' = [attempt EXCEPT ![c] = attempt[c] + 1]
        BY <2>5 DEF ReadRevision
      <4>3. QED
        BY <4>1, <4>2
    <3>2. pc' \in [Callers -> Phases] /\ wire' \in [Callers -> {"none", "sent", "applied", "conflict", "failed"}]
      BY <2>5 DEF ReadRevision
    <3>3. base' \in [Callers -> Nat]
      BY <2>5 DEF ReadRevision
    <3>4. \A d \in Callers : pc'[d] \in {"idle", "receipt", "revision"} => attempt'[d] < AppendAttempts
      BY <2>5 DEF ReadRevision
    <3>5. QED
      BY <2>5, <3>1, <3>2, <3>3, <3>4 DEF ReadRevision
  <2>6. ASSUME NEW c \in Callers, NEW t \in Tables, ReadTable(c, t)
        PROVE  TypeOK'
    <3>1. Look(store, t) \in Observations
      BY LookType
    <3>2. QED
      BY <2>6, <3>1 DEF ReadTable
  <2>7. ASSUME NEW c \in Callers, Stage(c)
        PROVE  TypeOK'
    <3>1. PICK op \in StageableOps(c) : staged' = [staged EXCEPT ![c] = Append(@, op)]
      BY <2>7 DEF Stage
    <3>2. op \in Operations
      BY <2>7, <3>1, StageType DEF Stage
    <3>3. Append(staged[c], op) \in Seq(Operations)
      BY <3>2, AppendType
    <3>4. staged' \in [Callers -> Seq(Operations)]
      BY <3>1, <3>3
    <3>5. QED
      BY <2>7, <3>4 DEF Stage
  <2>8. ASSUME NEW c \in Callers, ReturnReading(c)
        PROVE  TypeOK'
    BY <2>8 DEF ReturnReading, Returned
  <2>9. ASSUME NEW c \in Callers, RequestCommit(c)
        PROVE  TypeOK'
    BY <2>9 DEF RequestCommit
  <2>10. ASSUME NEW c \in Callers, MethodRaises(c)
         PROVE  TypeOK'
    BY <2>10 DEF MethodRaises, Raised
  <2>11. ASSUME NEW c \in Callers, Publish(c)
         PROVE  TypeOK'
    <3>1. store' \in Stores
      BY <2>11 DEF Publish, Published
    <3>2. receipts' \in [Tokens -> [by: Callers, input: Inputs \cup {"nothing"}] \cup {NoReceipt}]
      BY <2>11 DEF Publish
    <3>3. [by |-> c, seen |-> seen[c], ops |-> staged[c]]
            \in [by: Callers, seen: SUBSET Observations, ops: Seq(Operations)]
      OBVIOUS
    <3>4. history' \in Seq([by: Callers, seen: SUBSET Observations, ops: Seq(Operations)])
      BY <2>11, <3>3, AppendType DEF Publish
    <3>5. wire' \in [Callers -> {"none", "sent", "applied", "conflict", "failed"}]
      BY <2>11 DEF Publish
    <3>6. version' \in Nat
      <4>1. version' = version + 1 /\ version \in Nat
        BY <2>11 DEF Publish
      <4>2. QED
        BY <4>1, Counting
    <3>7. QED
      BY <2>11, <3>1, <3>2, <3>4, <3>5, <3>6 DEF Publish
  <2>12. ASSUME NEW c \in Callers, Refuse(c)
         PROVE  TypeOK'
    BY <2>12 DEF Refuse
  <2>13. ASSUME NEW c \in Callers, Abort(c)
         PROVE  TypeOK'
    BY <2>13 DEF Abort
  <2>14. ASSUME NEW r \in Reflections, Remember(r)
         PROVE  TypeOK'
    <3>1. store' \in Stores
      BY <2>14, RecordsAssumption DEF Remember, Stores
    <3>2. QED
      BY <2>14, <3>1 DEF Remember
  <2>15. ASSUME NEW c \in Callers, Acknowledged(c)
         PROVE  TypeOK'
    BY <2>15 DEF Acknowledged, Returned
  <2>16. ASSUME NEW c \in Callers, CommitRaises(c)
         PROVE  TypeOK'
    BY <2>16 DEF CommitRaises
  <2>17. ASSUME NEW c \in Callers, Recover(c)
         PROVE  TypeOK'
    <3>1. ReceiptOf(c) # NoReceipt => ReceiptOf(c) \in [by: Callers, input: Inputs \cup {"nothing"}]
      BY DEF ReceiptOf
    <3>2. QED
      BY <2>17, <3>1 DEF Recover, Returned, Raised
  <2>18. ASSUME NEW c \in Callers, RecoverRaises(c)
         PROVE  TypeOK'
    BY <2>18 DEF RecoverRaises, Raised
  <2>19. ASSUME NEW c \in Callers, AppendAgain(c)
         PROVE  TypeOK'
    BY <2>19 DEF AppendAgain
  <2>20. ASSUME NEW c \in Callers, AppendRaises(c)
         PROVE  TypeOK'
    <3>1. answer' \in [Callers -> [kind: {"none", "result", "conflict", "error"},
                                    by: Callers \cup {"nobody"}]]
      <4>1. Raised("conflict") \in [kind: {"none", "result", "conflict", "error"},
                                     by: Callers \cup {"nobody"}]
        BY DEF Raised
      <4>2. Raised("error") \in [kind: {"none", "result", "conflict", "error"},
                                  by: Callers \cup {"nobody"}]
        BY DEF Raised
      <4>3. QED
        BY <2>20, <4>1, <4>2 DEF AppendRaises
    <3>2. QED
      BY <2>20, <3>1 DEF AppendRaises
  <2>21. ASSUME NEW c \in Callers, Crash(c)
         PROVE  TypeOK'
    BY <2>21 DEF Crash
  <2>22. CASE UNCHANGED vars
    BY <2>22 DEF vars
  <2>23. QED
    BY <2>1, <2>2, <2>3, <2>4, <2>5, <2>6, <2>7, <2>8, <2>9, <2>10, <2>11, <2>12, <2>13,
       <2>14, <2>15, <2>16, <2>17, <2>18, <2>19, <2>20, <2>21, <2>22
       DEF Next, CallStep, MethodStep, ServerStep
<1>3. QED
  BY <1>1, <1>2, PTL DEF Spec

(* A request is on its way only for a caller that waits or has left. *)
LEMMA RequestsStep == TypeOK /\ RequestsFollowCalls /\ [Next]_vars => RequestsFollowCalls'
<1> SUFFICES ASSUME TypeOK, RequestsFollowCalls, [Next]_vars
             PROVE  RequestsFollowCalls'
  OBVIOUS
<1>1. /\ pc \in [Callers -> Phases] /\ mode \in [Callers -> {"atomic", "append"}]
      /\ wire \in [Callers -> {"none", "sent", "applied", "conflict", "failed"}]
      /\ token \in [Callers -> Tokens \cup {NoToken}]
  BY DEF TypeOK
<1> USE <1>1 DEF Goto, server, call, work, RequestsFollowCalls
<1>2. ASSUME NEW c \in Callers, NEW m \in Methods, NEW t \in Tokens \cup {NoToken}, NEW i \in Inputs, BeginAtomic(c, m, t, i)
      PROVE  RequestsFollowCalls'
  BY <1>2 DEF BeginAtomic
<1>3. ASSUME NEW c \in Callers, NEW t \in Tables, ReadTable(c, t)
      PROVE  RequestsFollowCalls'
  BY <1>3 DEF ReadTable
<1>4. ASSUME NEW r \in Reflections, Remember(r)
      PROVE  RequestsFollowCalls'
  BY <1>4 DEF Remember
<1>5. ASSUME NEW c \in Callers, ReplaySaved(c)
      PROVE  RequestsFollowCalls'
  BY <1>5 DEF ReplaySaved
<1>6. ASSUME NEW c \in Callers, NoSavedResult(c)
      PROVE  RequestsFollowCalls'
  BY <1>6 DEF NoSavedResult
<1>7. ASSUME NEW c \in Callers, ReadRevision(c)
      PROVE  RequestsFollowCalls'
  BY <1>7 DEF ReadRevision
<1>8. ASSUME NEW c \in Callers, Stage(c)
      PROVE  RequestsFollowCalls'
  BY <1>8 DEF Stage
<1>9. ASSUME NEW c \in Callers, ReturnReading(c)
      PROVE  RequestsFollowCalls'
  BY <1>9 DEF ReturnReading
<1>10. ASSUME NEW c \in Callers, RequestCommit(c)
      PROVE  RequestsFollowCalls'
  BY <1>10 DEF RequestCommit
<1>11. ASSUME NEW c \in Callers, MethodRaises(c)
      PROVE  RequestsFollowCalls'
  BY <1>11 DEF MethodRaises
<1>12. ASSUME NEW c \in Callers, Publish(c)
      PROVE  RequestsFollowCalls'
  BY <1>12 DEF Publish
<1>13. ASSUME NEW c \in Callers, Refuse(c)
      PROVE  RequestsFollowCalls'
  BY <1>13 DEF Refuse
<1>14. ASSUME NEW c \in Callers, Abort(c)
      PROVE  RequestsFollowCalls'
  BY <1>14 DEF Abort
<1>15. ASSUME NEW c \in Callers, Acknowledged(c)
      PROVE  RequestsFollowCalls'
  BY <1>15 DEF Acknowledged
<1>16. ASSUME NEW c \in Callers, CommitRaises(c)
      PROVE  RequestsFollowCalls'
  BY <1>16 DEF CommitRaises
<1>17. ASSUME NEW c \in Callers, Recover(c)
      PROVE  RequestsFollowCalls'
  BY <1>17 DEF Recover, Recovering
<1>18. ASSUME NEW c \in Callers, RecoverRaises(c)
      PROVE  RequestsFollowCalls'
  BY <1>18 DEF RecoverRaises, Recovering
<1>19. ASSUME NEW c \in Callers, AppendAgain(c)
      PROVE  RequestsFollowCalls'
  BY <1>19 DEF AppendAgain
<1>20. ASSUME NEW c \in Callers, AppendRaises(c)
      PROVE  RequestsFollowCalls'
  BY <1>20 DEF AppendRaises
<1>21. ASSUME NEW c \in Callers, Crash(c)
      PROVE  RequestsFollowCalls'
  BY <1>21 DEF Crash
<1>22. ASSUME NEW c \in Callers, BeginAppend(c)
      PROVE  RequestsFollowCalls'
  BY <1>22 DEF BeginAppend
<1>23. CASE UNCHANGED vars
  BY <1>23 DEF vars
<1>24. QED
  BY <1>2, <1>3, <1>4, <1>5, <1>6, <1>7, <1>8, <1>9, <1>10, <1>11, <1>12, <1>13,
     <1>14, <1>15, <1>16, <1>17, <1>18, <1>19, <1>20, <1>21, <1>22, <1>23
     DEF Next, CallStep, MethodStep, ServerStep

(* Only a finished call has an answer. *)
LEMMA AnswersStep == TypeOK /\ AnswersEndCalls /\ RequestsFollowCalls /\ [Next]_vars => AnswersEndCalls'
<1> SUFFICES ASSUME TypeOK, AnswersEndCalls, RequestsFollowCalls, [Next]_vars
             PROVE  AnswersEndCalls'
  OBVIOUS
<1>1. /\ pc \in [Callers -> Phases]
      /\ wire \in [Callers -> {"none", "sent", "applied", "conflict", "failed"}]
      /\ answer \in [Callers -> [kind: {"none", "result", "conflict", "error"},
                                 by: Callers \cup {"nobody"}]]
  BY DEF TypeOK
<1> USE <1>1 DEF Goto, server, call, work, AnswersEndCalls, RequestsFollowCalls, Answer, Returned, Raised, Unanswered
<1>2. ASSUME NEW c \in Callers, NEW m \in Methods, NEW t \in Tokens \cup {NoToken}, NEW i \in Inputs, BeginAtomic(c, m, t, i)
      PROVE  AnswersEndCalls'
  BY <1>2 DEF BeginAtomic
<1>3. ASSUME NEW c \in Callers, NEW t \in Tables, ReadTable(c, t)
      PROVE  AnswersEndCalls'
  BY <1>3 DEF ReadTable
<1>4. ASSUME NEW r \in Reflections, Remember(r)
      PROVE  AnswersEndCalls'
  BY <1>4 DEF Remember
<1>5. ASSUME NEW c \in Callers, ReplaySaved(c)
      PROVE  AnswersEndCalls'
  BY <1>5 DEF ReplaySaved
<1>6. ASSUME NEW c \in Callers, NoSavedResult(c)
      PROVE  AnswersEndCalls'
  BY <1>6 DEF NoSavedResult
<1>7. ASSUME NEW c \in Callers, ReadRevision(c)
      PROVE  AnswersEndCalls'
  <2>1. answer' = answer /\ pc[c] # "answered" /\ pc'[c] # "answered"
    BY <1>7 DEF ReadRevision
  <2>2. \A d \in Callers : d # c => pc'[d] = pc[d] /\ wire'[d] = wire[d]
    BY <1>7 DEF ReadRevision
  <2>3. answer[c] = Unanswered /\ Unanswered.kind # "conflict"
    BY <2>1
  <2>4. QED
    BY <2>1, <2>2, <2>3
<1>8. ASSUME NEW c \in Callers, Stage(c)
      PROVE  AnswersEndCalls'
  BY <1>8 DEF Stage
<1>9. ASSUME NEW c \in Callers, ReturnReading(c)
      PROVE  AnswersEndCalls'
  BY <1>9 DEF ReturnReading
<1>10. ASSUME NEW c \in Callers, RequestCommit(c)
      PROVE  AnswersEndCalls'
  <2>1. answer' = answer /\ pc[c] # "answered" /\ pc'[c] # "answered"
    BY <1>10 DEF RequestCommit
  <2>2. \A d \in Callers : d # c => pc'[d] = pc[d] /\ wire'[d] = wire[d]
    BY <1>10 DEF RequestCommit
  <2>3. answer[c] = Unanswered /\ Unanswered.kind # "conflict"
    BY <2>1
  <2>4. QED
    BY <2>1, <2>2, <2>3
<1>11. ASSUME NEW c \in Callers, MethodRaises(c)
      PROVE  AnswersEndCalls'
  BY <1>11 DEF MethodRaises
<1>12. ASSUME NEW c \in Callers, Publish(c)
      PROVE  AnswersEndCalls'
  BY <1>12 DEF Publish
<1>13. ASSUME NEW c \in Callers, Refuse(c)
      PROVE  AnswersEndCalls'
  BY <1>13 DEF Refuse
<1>14. ASSUME NEW c \in Callers, Abort(c)
      PROVE  AnswersEndCalls'
  BY <1>14 DEF Abort
<1>15. ASSUME NEW c \in Callers, Acknowledged(c)
      PROVE  AnswersEndCalls'
  BY <1>15 DEF Acknowledged
<1>16. ASSUME NEW c \in Callers, CommitRaises(c)
      PROVE  AnswersEndCalls'
  BY <1>16 DEF CommitRaises
<1>17. ASSUME NEW c \in Callers, Recover(c)
      PROVE  AnswersEndCalls'
  BY <1>17 DEF Recover, Recovering
<1>18. ASSUME NEW c \in Callers, RecoverRaises(c)
      PROVE  AnswersEndCalls'
  BY <1>18 DEF RecoverRaises, Recovering
<1>19. ASSUME NEW c \in Callers, AppendAgain(c)
      PROVE  AnswersEndCalls'
  BY <1>19 DEF AppendAgain
<1>20. ASSUME NEW c \in Callers, AppendRaises(c)
      PROVE  AnswersEndCalls'
  <2>1. /\ pc' = [pc EXCEPT ![c] = "answered"] /\ wire' = wire
        /\ \A d \in Callers : d # c => answer'[d] = answer[d]
    BY <1>20 DEF AppendRaises
  <2>2. answer'[c].kind = "conflict" => wire[c] = "conflict"
    <3>1. CASE wire[c] = "conflict"
      BY <3>1
    <3>2. CASE wire[c] # "conflict"
      <4>1. answer' = [answer EXCEPT ![c] = Raised("error")]
        BY <1>20, <3>2 DEF AppendRaises
      <4>2. QED
        BY <4>1
    <3>3. QED
      BY <3>1, <3>2
  <2>3. QED
    BY <2>1, <2>2
<1>21. ASSUME NEW c \in Callers, Crash(c)
      PROVE  AnswersEndCalls'
  BY <1>21 DEF Crash
<1>22. ASSUME NEW c \in Callers, BeginAppend(c)
      PROVE  AnswersEndCalls'
  BY <1>22 DEF BeginAppend
<1>23. CASE UNCHANGED vars
  BY <1>23 DEF vars
<1>24. QED
  BY <1>2, <1>3, <1>4, <1>5, <1>6, <1>7, <1>8, <1>9, <1>10, <1>11, <1>12, <1>13,
     <1>14, <1>15, <1>16, <1>17, <1>18, <1>19, <1>20, <1>21, <1>22, <1>23
     DEF Next, CallStep, MethodStep, ServerStep

(* Nothing is read before the revision is. *)
LEMMA ReadingsStep == TypeOK /\ ReadingsFollowRevision /\ RequestsFollowCalls /\ [Next]_vars => ReadingsFollowRevision'
<1> SUFFICES ASSUME TypeOK, ReadingsFollowRevision, RequestsFollowCalls, [Next]_vars
             PROVE  ReadingsFollowRevision'
  OBVIOUS
<1>1. /\ pc \in [Callers -> Phases] /\ mode \in [Callers -> {"atomic", "append"}]
      /\ version \in Nat /\ base \in [Callers -> Nat]
      /\ seen \in [Callers -> SUBSET Observations]
  BY DEF TypeOK
<1> USE <1>1 DEF Goto, server, call, work, ReadingsFollowRevision, RequestsFollowCalls
<1>2. ASSUME NEW c \in Callers, NEW m \in Methods, NEW t \in Tokens \cup {NoToken}, NEW i \in Inputs, BeginAtomic(c, m, t, i)
      PROVE  ReadingsFollowRevision'
  BY <1>2 DEF BeginAtomic
<1>3. ASSUME NEW c \in Callers, NEW t \in Tables, ReadTable(c, t)
      PROVE  ReadingsFollowRevision'
  BY <1>3 DEF ReadTable
<1>4. ASSUME NEW r \in Reflections, Remember(r)
      PROVE  ReadingsFollowRevision'
  BY <1>4 DEF Remember
<1>5. ASSUME NEW c \in Callers, ReplaySaved(c)
      PROVE  ReadingsFollowRevision'
  BY <1>5 DEF ReplaySaved
<1>6. ASSUME NEW c \in Callers, NoSavedResult(c)
      PROVE  ReadingsFollowRevision'
  BY <1>6 DEF NoSavedResult
<1>7. ASSUME NEW c \in Callers, ReadRevision(c)
      PROVE  ReadingsFollowRevision'
  <2>1. version' = version /\ seen' = seen /\ mode' = mode /\ seen[c] = {}
    BY <1>7 DEF ReadRevision
  <2>2. base' = [base EXCEPT ![c] = version]
    BY <1>7 DEF ReadRevision
  <2>3. \A d \in Callers : base'[d] <= version
    BY <2>2, Counting
  <2>4. \A d \in Callers : d # c => pc'[d] = pc[d]
    BY <1>7 DEF ReadRevision
  <2>5. QED
    BY <2>1, <2>3, <2>4
<1>8. ASSUME NEW c \in Callers, Stage(c)
      PROVE  ReadingsFollowRevision'
  BY <1>8 DEF Stage
<1>9. ASSUME NEW c \in Callers, ReturnReading(c)
      PROVE  ReadingsFollowRevision'
  BY <1>9 DEF ReturnReading
<1>10. ASSUME NEW c \in Callers, RequestCommit(c)
      PROVE  ReadingsFollowRevision'
  BY <1>10 DEF RequestCommit
<1>11. ASSUME NEW c \in Callers, MethodRaises(c)
      PROVE  ReadingsFollowRevision'
  BY <1>11 DEF MethodRaises
<1>12. ASSUME NEW c \in Callers, Publish(c)
      PROVE  ReadingsFollowRevision'
  <2>1. version' = version + 1 /\ base' = base /\ pc' = pc /\ seen' = seen /\ mode' = mode
    BY <1>12 DEF Publish
  <2>2. \A d \in Callers : base[d] <= version + 1
    BY Counting
  <2>3. QED
    BY <2>1, <2>2
<1>13. ASSUME NEW c \in Callers, Refuse(c)
      PROVE  ReadingsFollowRevision'
  BY <1>13 DEF Refuse
<1>14. ASSUME NEW c \in Callers, Abort(c)
      PROVE  ReadingsFollowRevision'
  BY <1>14 DEF Abort
<1>15. ASSUME NEW c \in Callers, Acknowledged(c)
      PROVE  ReadingsFollowRevision'
  BY <1>15 DEF Acknowledged
<1>16. ASSUME NEW c \in Callers, CommitRaises(c)
      PROVE  ReadingsFollowRevision'
  BY <1>16 DEF CommitRaises
<1>17. ASSUME NEW c \in Callers, Recover(c)
      PROVE  ReadingsFollowRevision'
  BY <1>17 DEF Recover, Recovering
<1>18. ASSUME NEW c \in Callers, RecoverRaises(c)
      PROVE  ReadingsFollowRevision'
  BY <1>18 DEF RecoverRaises, Recovering
<1>19. ASSUME NEW c \in Callers, AppendAgain(c)
      PROVE  ReadingsFollowRevision'
  BY <1>19 DEF AppendAgain
<1>20. ASSUME NEW c \in Callers, AppendRaises(c)
      PROVE  ReadingsFollowRevision'
  BY <1>20 DEF AppendRaises
<1>21. ASSUME NEW c \in Callers, Crash(c)
      PROVE  ReadingsFollowRevision'
  BY <1>21 DEF Crash
<1>22. ASSUME NEW c \in Callers, BeginAppend(c)
      PROVE  ReadingsFollowRevision'
  BY <1>22 DEF BeginAppend
<1>23. CASE UNCHANGED vars
  BY <1>23 DEF vars
<1>24. QED
  BY <1>2, <1>3, <1>4, <1>5, <1>6, <1>7, <1>8, <1>9, <1>10, <1>11, <1>12, <1>13,
     <1>14, <1>15, <1>16, <1>17, <1>18, <1>19, <1>20, <1>21, <1>22, <1>23
     DEF Next, CallStep, MethodStep, ServerStep

(* History entries name callers. *)
LEMMA HistoryCallers == TypeOK => \A i \in DOMAIN history : history[i].by \in Callers
<1> SUFFICES ASSUME TypeOK
             PROVE  \A i \in DOMAIN history : history[i].by \in Callers
  OBVIOUS
<1>1. history \in Seq([by: Callers, seen: SUBSET Observations, ops: Seq(Operations)])
  BY DEF TypeOK
<1>2. \A i \in DOMAIN history :
        history[i] \in [by: Callers, seen: SUBSET Observations, ops: Seq(Operations)]
  BY <1>1, SeqElement
<1>3. QED
  BY <1>2

(* As long as no reply turns to or from "applied", the story stands. *)
LEMMA SameStory ==
  ASSUME TypeOK, HistoryIsApplied, UNCHANGED <<history, receipts, token, input>>,
         \A d \in Callers : wire'[d] = "applied" <=> wire[d] = "applied"
  PROVE  HistoryIsApplied'
<1>1. \A i \in DOMAIN history : history[i].by \in Callers
  BY HistoryCallers
<1>2. \A t \in Tokens : receipts[t] # NoReceipt => receipts[t].by \in Callers
  <2>1. receipts \in [Tokens -> [by: Callers, input: Inputs \cup {"nothing"}] \cup {NoReceipt}]
    BY DEF TypeOK
  <2>2. QED
    BY <2>1
<1>3. QED
  BY <1>1, <1>2 DEF HistoryIsApplied

(* Publishing adds one entry, one reply and, for a token, one receipt. *)
LEMMA PublishStory ==
  ASSUME TypeOK, HistoryIsApplied, NEW c \in Callers, Publish(c)
  PROVE  HistoryIsApplied'
<1> DEFINE t == [by |-> c, seen |-> seen[c], ops |-> staged[c]]
<1>1. \A d \in Callers : wire'[d] = IF d = c THEN "applied" ELSE wire[d]
  BY DEF Publish, TypeOK
<1>2. wire[c] = "sent" /\ UNCHANGED <<token, input>> /\ history' = Append(history, t)
  BY DEF Publish, call
<1>3. /\ DOMAIN history' = DOMAIN history \cup {Len(history) + 1}
      /\ history'[Len(history) + 1] = t
      /\ \A i \in DOMAIN history : history'[i] = history[i]
  <2>1. /\ t \in [by: Callers, seen: SUBSET Observations, ops: Seq(Operations)]
        /\ history \in Seq([by: Callers, seen: SUBSET Observations, ops: Seq(Operations)])
    BY DEF TypeOK
  <2>2. QED
    BY <1>2, <2>1, AppendIndices
<1>4. \A i \in DOMAIN history : history[i].by \in Callers /\ wire[history[i].by] = "applied"
  BY HistoryCallers DEF HistoryIsApplied
<1>5. \A k \in Tokens : receipts'[k] = IF k = token[c] THEN [by |-> c, input |-> input[c]]
                                                  ELSE receipts[k]
  BY NoTokenAssumption DEF Publish, TypeOK
<1>6. token[c] # NoToken => receipts[token[c]] = NoReceipt
  BY DEF Publish, Publishable, ReceiptOf
<1>7. \A i \in DOMAIN history' : wire'[history'[i].by] = "applied"
  BY <1>1, <1>2, <1>3, <1>4
<1>8. ASSUME NEW d \in Callers, wire'[d] = "applied"
      PROVE  \E i \in DOMAIN history' : history'[i].by = d
  <2>1. CASE d = c
    BY <1>3, <2>1
  <2>2. CASE d # c
    <3>1. PICK i \in DOMAIN history : history[i].by = d
      BY <1>1, <1>8, <2>2 DEF HistoryIsApplied
    <3>2. QED
      BY <1>3, <3>1
  <2>3. QED
    BY <2>1, <2>2
<1>9. ASSUME NEW d \in Callers, wire'[d] = "applied", token[d] # NoToken
      PROVE  receipts'[token[d]] = [by |-> d, input |-> input[d]]
  <2>1. token[d] \in Tokens
    BY <1>9 DEF TypeOK
  <2>2. CASE d = c
    BY <1>5, <2>1, <2>2
  <2>3. CASE d # c
    <3>1. receipts[token[d]] = [by |-> d, input |-> input[d]]
      BY <1>1, <1>9, <2>3 DEF HistoryIsApplied
    <3>2. token[d] # token[c]
      BY <1>6, <1>9, <3>1, RealReceipt
    <3>3. QED
      BY <1>5, <2>1, <3>1, <3>2
  <2>4. QED
    BY <2>2, <2>3
<1>10. ASSUME NEW k \in Tokens, receipts'[k] # NoReceipt
       PROVE  wire'[receipts'[k].by] = "applied"
  <2>1. CASE k = token[c]
    BY <1>1, <1>5, <2>1
  <2>2. CASE k # token[c]
    <3>1. receipts'[k] = receipts[k]
      BY <1>5, <2>2
    <3>2. receipts[k].by \in Callers /\ wire[receipts[k].by] = "applied"
      BY <1>10, <3>1 DEF TypeOK, HistoryIsApplied
    <3>3. QED
      BY <1>1, <3>1, <3>2
  <2>3. QED
    BY <2>1, <2>2
<1>11. QED
  BY <1>2, <1>7, <1>8, <1>9, <1>10 DEF HistoryIsApplied

(* The history, the receipts and the replies tell the same story. *)
LEMMA HistoryStep == TypeOK /\ HistoryIsApplied /\ RequestsFollowCalls /\ [Next]_vars => HistoryIsApplied'
<1> SUFFICES ASSUME TypeOK, HistoryIsApplied, RequestsFollowCalls, [Next]_vars
             PROVE  HistoryIsApplied'
  OBVIOUS
<1>1. /\ pc \in [Callers -> Phases]
      /\ wire \in [Callers -> {"none", "sent", "applied", "conflict", "failed"}]
      /\ token \in [Callers -> Tokens \cup {NoToken}]
      /\ input \in [Callers -> Inputs \cup {"nothing"}]
      /\ receipts \in [Tokens -> [by: Callers, input: Inputs \cup {"nothing"}] \cup {NoReceipt}]
      /\ history \in Seq([by: Callers, seen: SUBSET Observations, ops: Seq(Operations)])
  BY DEF TypeOK
<1> USE <1>1 DEF Goto, server, call, work, HistoryIsApplied, RequestsFollowCalls
<1>2. ASSUME NEW c \in Callers, NEW m \in Methods, NEW t \in Tokens \cup {NoToken}, NEW i \in Inputs, BeginAtomic(c, m, t, i)
      PROVE  HistoryIsApplied'
  BY <1>2 DEF BeginAtomic
<1>3. ASSUME NEW c \in Callers, NEW t \in Tables, ReadTable(c, t)
      PROVE  HistoryIsApplied'
  BY <1>3 DEF ReadTable
<1>4. ASSUME NEW r \in Reflections, Remember(r)
      PROVE  HistoryIsApplied'
  BY <1>4 DEF Remember
<1>5. ASSUME NEW c \in Callers, ReplaySaved(c)
      PROVE  HistoryIsApplied'
  BY <1>5 DEF ReplaySaved
<1>6. ASSUME NEW c \in Callers, NoSavedResult(c)
      PROVE  HistoryIsApplied'
  BY <1>6 DEF NoSavedResult
<1>7. ASSUME NEW c \in Callers, ReadRevision(c)
      PROVE  HistoryIsApplied'
  <2>1. \A d \in Callers : wire'[d] = "applied" <=> wire[d] = "applied"
    BY <1>7 DEF ReadRevision
  <2>2. UNCHANGED <<history, receipts, token, input>>
    BY <1>7 DEF ReadRevision
  <2>3. QED
    BY <2>1, <2>2, SameStory
<1>8. ASSUME NEW c \in Callers, Stage(c)
      PROVE  HistoryIsApplied'
  BY <1>8 DEF Stage
<1>9. ASSUME NEW c \in Callers, ReturnReading(c)
      PROVE  HistoryIsApplied'
  BY <1>9 DEF ReturnReading
<1>10. ASSUME NEW c \in Callers, RequestCommit(c)
      PROVE  HistoryIsApplied'
  <2>1. \A d \in Callers : wire'[d] = "applied" <=> wire[d] = "applied"
    BY <1>10 DEF RequestCommit
  <2>2. UNCHANGED <<history, receipts, token, input>>
    BY <1>10 DEF RequestCommit
  <2>3. QED
    BY <2>1, <2>2, SameStory
<1>11. ASSUME NEW c \in Callers, MethodRaises(c)
      PROVE  HistoryIsApplied'
  BY <1>11 DEF MethodRaises
<1>12. ASSUME NEW c \in Callers, Publish(c)
      PROVE  HistoryIsApplied'
  BY <1>12, PublishStory
<1>13. ASSUME NEW c \in Callers, Refuse(c)
      PROVE  HistoryIsApplied'
  <2>1. \A d \in Callers : wire'[d] = "applied" <=> wire[d] = "applied"
    BY <1>13 DEF Refuse
  <2>2. UNCHANGED <<history, receipts, token, input>>
    BY <1>13 DEF Refuse
  <2>3. QED
    BY <2>1, <2>2, SameStory
<1>14. ASSUME NEW c \in Callers, Abort(c)
      PROVE  HistoryIsApplied'
  <2>1. \A d \in Callers : wire'[d] = "applied" <=> wire[d] = "applied"
    BY <1>14 DEF Abort
  <2>2. UNCHANGED <<history, receipts, token, input>>
    BY <1>14 DEF Abort
  <2>3. QED
    BY <2>1, <2>2, SameStory
<1>15. ASSUME NEW c \in Callers, Acknowledged(c)
      PROVE  HistoryIsApplied'
  BY <1>15 DEF Acknowledged
<1>16. ASSUME NEW c \in Callers, CommitRaises(c)
      PROVE  HistoryIsApplied'
  BY <1>16 DEF CommitRaises
<1>17. ASSUME NEW c \in Callers, Recover(c)
      PROVE  HistoryIsApplied'
  BY <1>17 DEF Recover, Recovering
<1>18. ASSUME NEW c \in Callers, RecoverRaises(c)
      PROVE  HistoryIsApplied'
  BY <1>18 DEF RecoverRaises, Recovering
<1>19. ASSUME NEW c \in Callers, AppendAgain(c)
      PROVE  HistoryIsApplied'
  <2>1. \A d \in Callers : wire'[d] = "applied" <=> wire[d] = "applied"
    BY <1>19 DEF AppendAgain
  <2>2. UNCHANGED <<history, receipts, token, input>>
    BY <1>19 DEF AppendAgain
  <2>3. QED
    BY <2>1, <2>2, SameStory
<1>20. ASSUME NEW c \in Callers, AppendRaises(c)
      PROVE  HistoryIsApplied'
  BY <1>20 DEF AppendRaises
<1>21. ASSUME NEW c \in Callers, Crash(c)
      PROVE  HistoryIsApplied'
  BY <1>21 DEF Crash
<1>22. ASSUME NEW c \in Callers, BeginAppend(c)
      PROVE  HistoryIsApplied'
  BY <1>22 DEF BeginAppend
<1>23. CASE UNCHANGED vars
  BY <1>23 DEF vars
<1>24. QED
  BY <1>2, <1>3, <1>4, <1>5, <1>6, <1>7, <1>8, <1>9, <1>10, <1>11, <1>12, <1>13,
     <1>14, <1>15, <1>16, <1>17, <1>18, <1>19, <1>20, <1>21, <1>22, <1>23
     DEF Next, CallStep, MethodStep, ServerStep

(* The four supporting invariants hold in every reachable state. *)
THEOREM Supporting ==
  Spec => []( /\ TypeOK /\ RequestsFollowCalls /\ AnswersEndCalls
              /\ ReadingsFollowRevision /\ HistoryIsApplied )
<1>1. Init => /\ RequestsFollowCalls /\ AnswersEndCalls
              /\ ReadingsFollowRevision /\ HistoryIsApplied
  BY Counting DEF Init, RequestsFollowCalls, AnswersEndCalls, ReadingsFollowRevision,
                  HistoryIsApplied, Unanswered
<1>2. QED
  BY <1>1, TypeCorrect, RequestsStep, AnswersStep, ReadingsStep, HistoryStep, PTL DEF Spec

(* CommitConflict is final: nothing of the call was published, and no       *)
(* request of it is on its way.                                             *)
THEOREM ConflictsAreFinal == Spec => []ConflictIsFinal
<1>1. TypeOK /\ AnswersEndCalls /\ HistoryIsApplied => ConflictIsFinal
  BY DEF AnswersEndCalls, HistoryIsApplied, ConflictIsFinal, PublishedBy
<1>2. QED
  BY <1>1, Supporting, PTL

(* No call and no token is published twice. *)
LEMMA OnceStep ==
  ASSUME TypeOK, RequestsFollowCalls, HistoryIsApplied, AtMostOnce, [Next]_vars
  PROVE  AtMostOnce'
<1>1. ASSUME UNCHANGED history,
             \A i \in DOMAIN history : token'[history[i].by] = token[history[i].by]
      PROVE  AtMostOnce'
  BY <1>1 DEF AtMostOnce
<1>2. ASSUME NEW c \in Callers, NEW m \in Methods, NEW t \in Tokens \cup {NoToken},
             NEW i \in Inputs, BeginAtomic(c, m, t, i)
      PROVE  AtMostOnce'
  <2>1. history' = history /\ wire[c] = "none" /\ token' = [token EXCEPT ![c] = t]
    BY <1>2 DEF BeginAtomic, Goto, server, RequestsFollowCalls
  <2>2. \A j \in DOMAIN history : history[j].by \in Callers /\ history[j].by # c
    BY <2>1, HistoryCallers DEF HistoryIsApplied
  <2>3. QED
    BY <1>1, <2>1, <2>2 DEF TypeOK
<1>3. ASSUME NEW c \in Callers, Publish(c)
      PROVE  AtMostOnce'
  <2> DEFINE t == [by |-> c, seen |-> seen[c], ops |-> staged[c]]
  <2>1. wire[c] = "sent" /\ token' = token /\ history' = Append(history, t)
    BY <1>3 DEF Publish, call
  <2>2. /\ DOMAIN history' = DOMAIN history \cup {Len(history) + 1}
        /\ history'[Len(history) + 1] = t
        /\ \A i \in DOMAIN history : history'[i] = history[i]
    <3>1. /\ t \in [by: Callers, seen: SUBSET Observations, ops: Seq(Operations)]
          /\ history \in Seq([by: Callers, seen: SUBSET Observations, ops: Seq(Operations)])
      BY DEF TypeOK
    <3>2. QED
      BY <2>1, <3>1, AppendIndices
  <2>3. ASSUME NEW i \in DOMAIN history
        PROVE  /\ history[i].by # c
               /\ token[c] = NoToken \/ token[history[i].by] # token[c]
    <3>1. history[i].by \in Callers /\ wire[history[i].by] = "applied"
      BY HistoryCallers DEF HistoryIsApplied
    <3>2. ASSUME token[c] # NoToken, token[history[i].by] = token[c]
          PROVE  FALSE
      <4>1. receipts[token[c]] = NoReceipt
        BY <1>3, <3>2 DEF Publish, Publishable, ReceiptOf
      <4>2. receipts[token[c]] = [by |-> history[i].by, input |-> input[history[i].by]]
        BY <3>1, <3>2 DEF HistoryIsApplied
      <4>3. QED
        BY <3>1, <4>1, <4>2, RealReceipt
    <3>3. QED
      BY <2>1, <3>1, <3>2
  <2>4. QED
    BY <2>1, <2>2, <2>3 DEF AtMostOnce
<1>4. ASSUME UNCHANGED <<history, token>>
      PROVE  AtMostOnce'
  BY <1>1, <1>4
<1>5. CASE UNCHANGED vars
  BY <1>4, <1>5 DEF vars, server, call
<1>6. ASSUME NEW c \in Callers,
             \/ BeginAppend(c) \/ CallStep(c) \/ MethodStep(c) \/ Refuse(c) \/ Abort(c)
             \/ RecoverRaises(c) \/ Crash(c)
      PROVE  UNCHANGED <<history, token>>
  BY <1>6 DEF BeginAppend, CallStep, MethodStep, Refuse, Abort, RecoverRaises, Crash, ReplaySaved,
       NoSavedResult, ReadRevision, ReadTable, Stage, ReturnReading, RequestCommit, MethodRaises,
       Acknowledged, CommitRaises, Recover, AppendAgain, AppendRaises, server, call
<1>7. ASSUME NEW r \in Reflections, Remember(r)
      PROVE  UNCHANGED <<history, token>>
  BY <1>7 DEF Remember, call
<1>8. QED
  BY <1>2, <1>3, <1>4, <1>5, <1>6, <1>7 DEF Next, ServerStep

(* Every call and every idempotency token is published at most once. *)
THEOREM PublishedOnce == Spec => []AtMostOnce
<1>1. Init => AtMostOnce
  BY DEF Init, AtMostOnce
<1>2. TypeOK /\ RequestsFollowCalls /\ HistoryIsApplied /\ AtMostOnce /\ [Next]_vars => AtMostOnce'
  BY OnceStep
<1>3. QED
  BY <1>1, <1>2, Supporting, PTL DEF Spec

(* A reading of the store as it is, is true. *)
LEMMA FreshReading ==
  ASSUME TypeOK, NEW t \in Tables
  PROVE  Serial!Truthful(Look(store, t), store, unversioned)
  BY DEF Serial!Truthful, Look, Tables

(* Consolidation, which no revision counts, leaves every reading true. *)
LEMMA ReadingsSurvive ==
  ASSUME TypeOK, NEW o \in Observations, NEW r \in Reflections, Remember(r),
         Serial!Truthful(o, store, unversioned)
  PROVE  Serial!Truthful(o, store', unversioned')
<1>1. /\ store'.mind = store.mind /\ store'.journal = store.journal
      /\ store'.memory = store.memory \cup {r} /\ unversioned' = unversioned \cup {r}
  BY DEF Remember, TypeOK, Stores
<1>2. CASE o.table = "memory"
  BY <1>1, <1>2 DEF Serial!Truthful
<1>3. CASE o.table = "mind"
  BY <1>1, <1>3 DEF Serial!Truthful, Look
<1>4. CASE o.table = "journal"
  BY <1>1, <1>4 DEF Serial!Truthful, Look
<1>5. QED
  BY <1>2, <1>3, <1>4 DEF Observations

(* Every step keeps the readings of a caller current while its revision is. *)
LEMMA ReadingsCurrentStep ==
  ASSUME TypeOK, RequestsFollowCalls, ReadingsFollowRevision, ReadingsCurrent, [Next]_vars
  PROVE  ReadingsCurrent'
<1>1. ASSUME UNCHANGED <<store, version, unversioned, base, seen>>
      PROVE  ReadingsCurrent'
  BY <1>1 DEF ReadingsCurrent
<1>2. ASSUME NEW c \in Callers, ReadRevision(c)
      PROVE  ReadingsCurrent'
  <2>1. /\ seen[c] = {} /\ UNCHANGED <<store, version, unversioned, seen>>
        /\ base' = [base EXCEPT ![c] = version]
    BY <1>2 DEF ReadRevision, Goto, ReadingsFollowRevision, server
  <2>2. \A d \in Callers : d # c => base'[d] = base[d]
    BY <2>1 DEF TypeOK
  <2>3. QED
    BY <2>1, <2>2 DEF ReadingsCurrent
<1>3. ASSUME NEW c \in Callers, NEW t \in Tables, ReadTable(c, t)
      PROVE  ReadingsCurrent'
  <2>1. /\ UNCHANGED <<store, version, unversioned, base>>
        /\ seen' = [seen EXCEPT ![c] = seen[c] \cup {Look(store, t)}]
    BY <1>3 DEF ReadTable, server
  <2>2. \A d \in Callers : seen'[d] \subseteq seen[d] \cup {Look(store, t)}
    BY <2>1 DEF TypeOK
  <2>3. QED
    BY <2>1, <2>2, FreshReading DEF ReadingsCurrent
<1>4. ASSUME NEW c \in Callers, Publish(c)
      PROVE  ReadingsCurrent'
  <2>1. version' = version + 1 /\ base' = base
    BY <1>4 DEF Publish, work
  <2>2. \A d \in Callers : version' # base'[d]
    BY <2>1, Counting DEF ReadingsFollowRevision, TypeOK
  <2>3. QED
    BY <2>2 DEF ReadingsCurrent
<1>5. ASSUME NEW r \in Reflections, Remember(r)
      PROVE  ReadingsCurrent'
  <2>1. UNCHANGED <<version, base, seen>>
    BY <1>5 DEF Remember, work
  <2>2. ASSUME NEW c \in Callers, version = base[c], NEW o \in seen[c]
        PROVE  Serial!Truthful(o, store', unversioned')
    <3>1. o \in Observations
      BY <2>2 DEF TypeOK
    <3>2. Serial!Truthful(o, store, unversioned)
      BY <2>2 DEF ReadingsCurrent
    <3>3. QED
      BY <1>5, <3>1, <3>2, ReadingsSurvive
  <2>3. QED
    BY <2>1, <2>2 DEF ReadingsCurrent
<1>6. ASSUME NEW c \in Callers,
             \/ \E m \in Methods, t \in Tokens \cup {NoToken}, i \in Inputs : BeginAtomic(c, m, t, i)
             \/ BeginAppend(c) \/ ReplaySaved(c) \/ NoSavedResult(c) \/ Stage(c) \/ ReturnReading(c)
             \/ RequestCommit(c) \/ MethodRaises(c) \/ Refuse(c) \/ Abort(c) \/ Acknowledged(c)
             \/ CommitRaises(c) \/ Recover(c) \/ RecoverRaises(c) \/ AppendAgain(c)
             \/ AppendRaises(c) \/ Crash(c)
      PROVE  UNCHANGED <<store, version, unversioned, base, seen>>
  BY <1>6 DEF BeginAtomic, BeginAppend, ReplaySaved, NoSavedResult, Stage, ReturnReading,
       RequestCommit, MethodRaises, Refuse, Abort, Acknowledged, CommitRaises, Recover,
       RecoverRaises, AppendAgain, AppendRaises, Crash, server, work
<1>7. CASE UNCHANGED vars
  BY <1>1, <1>7 DEF vars, server, work
<1>8. QED
  BY <1>1, <1>2, <1>3, <1>4, <1>5, <1>6, <1>7 DEF Next, CallStep, MethodStep, ServerStep

(* While the revision a caller read is current, so is all it has read. *)
THEOREM ReadingsStayCurrent == Spec => []ReadingsCurrent
<1>1. Init => ReadingsCurrent
  BY DEF Init, ReadingsCurrent
<1>2. TypeOK /\ RequestsFollowCalls /\ ReadingsFollowRevision /\ ReadingsCurrent /\ [Next]_vars
        => ReadingsCurrent'
  BY ReadingsCurrentStep
<1>3. QED
  BY <1>1, <1>2, Supporting, PTL DEF Spec

(* The protocol implements SerialMind: a publication is one operation run   *)
(* alone, consolidation is consolidation, and every other step changes      *)
(* nothing of the mind.                                                     *)
THEOREM SerialImplemented == Spec => SerialHistory
<1>1. Init => Serial!Init
  BY DEF Init, Serial!Init
<1>2. TypeOK /\ ReadingsCurrent /\ [Next]_vars => [Serial!Next]_Serial!serialVars
  <2> SUFFICES ASSUME TypeOK, ReadingsCurrent, [Next]_vars
               PROVE  Serial!Next \/ UNCHANGED Serial!serialVars
    OBVIOUS
  <2>1. ASSUME NEW c \in Callers, Publish(c)
        PROVE  Serial!Next
    <3> DEFINE t == [by |-> c, seen |-> seen[c], ops |-> staged[c]]
    <3>1. /\ history' = Append(history, t) /\ version = base[c]
          /\ store' \in Published(store, t.ops) /\ UNCHANGED unversioned
      BY <2>1 DEF Publish, Publishable
    <3>2. /\ t \in [by: Callers, seen: SUBSET Observations, ops: Seq(Operations)]
          /\ history \in Seq([by: Callers, seen: SUBSET Observations, ops: Seq(Operations)])
      BY DEF TypeOK
    <3>3. Len(history') = Len(history) + 1 /\ history'[Len(history')] = t
      BY <3>1, <3>2
    <3>4. \A o \in t.seen : Serial!Truthful(o, store, unversioned)
      BY <3>1 DEF ReadingsCurrent
    <3>5. Serial!Execute
      BY <3>1, <3>3, <3>4 DEF Serial!Execute
    <3>6. QED
      BY <3>5 DEF Serial!Next
  <2>2. ASSUME NEW r \in Reflections, Remember(r)
        PROVE  Serial!Next
    <3>1. /\ r \notin store.memory /\ store' = [store EXCEPT !.memory = store.memory \cup {r}]
          /\ unversioned' = unversioned \cup {r} /\ UNCHANGED history
      BY <2>2 DEF Remember
    <3>2. store'.memory = store.memory \cup {r}
      BY <3>1 DEF TypeOK, Stores
    <3>3. Serial!Consolidate
      BY <3>1, <3>2 DEF Serial!Consolidate
    <3>4. QED
      BY <3>3 DEF Serial!Next
  <2>3. ASSUME NEW c \in Callers,
               \/ \E m \in Methods, t \in Tokens \cup {NoToken}, i \in Inputs : BeginAtomic(c, m, t, i)
               \/ BeginAppend(c) \/ CallStep(c) \/ MethodStep(c) \/ Refuse(c) \/ Abort(c)
               \/ RecoverRaises(c) \/ Crash(c)
        PROVE  UNCHANGED Serial!serialVars
    BY <2>3 DEF BeginAtomic, BeginAppend, CallStep, MethodStep, Refuse, Abort, RecoverRaises, Crash,
         ReplaySaved, NoSavedResult, ReadRevision, ReadTable, Stage, ReturnReading, RequestCommit,
         MethodRaises, Acknowledged, CommitRaises, Recover, AppendAgain, AppendRaises, server,
         Serial!serialVars
  <2>4. CASE UNCHANGED vars
    BY <2>4 DEF vars, server, Serial!serialVars
  <2>5. QED
    BY <2>1, <2>2, <2>3, <2>4 DEF Next, ServerStep
<1>3. QED
  BY <1>1, <1>2, TypeCorrect, ReadingsStayCurrent, PTL DEF Spec, SerialHistory, Serial!Spec

(* A token's result is the published one. *)
LEMMA DurableStep ==
  ASSUME TypeOK, RequestsFollowCalls, AnswersEndCalls, HistoryIsApplied, AnswerIsDurable,
         [Next]_vars
  PROVE  AnswerIsDurable'
<1> DEFINE Durable(c) ==
      /\ receipts[token[c]] = [by |-> answer[c].by, input |-> input[c]]
      /\ PublishedBy(answer[c].by) # {}
<1>1. ASSUME UNCHANGED <<receipts, history, answer>>,
             \A d \in Callers : answer[d].kind = "result" => token'[d] = token[d] /\ input'[d] = input[d]
      PROVE  AnswerIsDurable'
  BY <1>1 DEF AnswerIsDurable, PublishedBy
<1>2. ASSUME UNCHANGED <<receipts, history, token, input>>, NEW c \in Callers,
             \A d \in Callers : d # c => answer'[d] = answer[d],
             answer'[c].kind = "result" /\ token[c] # NoToken =>
               /\ receipts[token[c]] = [by |-> answer'[c].by, input |-> input[c]]
               /\ PublishedBy(answer'[c].by) # {}
      PROVE  AnswerIsDurable'
  BY <1>2 DEF AnswerIsDurable, PublishedBy
<1>3. ASSUME NEW c \in Callers, ReceiptOf(c) # NoReceipt, ReceiptOf(c).input = input[c],
             token[c] # NoToken
      PROVE  /\ receipts[token[c]] = [by |-> ReceiptOf(c).by, input |-> input[c]]
             /\ PublishedBy(ReceiptOf(c).by) # {}
  <2>1. /\ token[c] \in Tokens /\ ReceiptOf(c) = receipts[token[c]]
        /\ receipts[token[c]] \in [by: Callers, input: Inputs \cup {"nothing"}]
    BY <1>3 DEF ReceiptOf, TypeOK
  <2>2. wire[ReceiptOf(c).by] = "applied"
    BY <1>3, <2>1 DEF HistoryIsApplied
  <2>3. QED
    BY <1>3, <2>1, <2>2 DEF HistoryIsApplied, PublishedBy
<1>4. \A c \in Callers : ReceiptOf(c) # NoReceipt => token[c] # NoToken
  BY DEF ReceiptOf
<1>5. ASSUME NEW c \in Callers, NEW m \in Methods, NEW t \in Tokens \cup {NoToken},
             NEW i \in Inputs, BeginAtomic(c, m, t, i)
      PROVE  AnswerIsDurable'
  <2>1. /\ UNCHANGED <<receipts, history, answer>> /\ pc[c] = "idle"
        /\ token' = [token EXCEPT ![c] = t] /\ input' = [input EXCEPT ![c] = i]
    BY <1>5 DEF BeginAtomic, Goto, server
  <2>2. answer[c] = Unanswered /\ Unanswered.kind # "result"
    BY <2>1 DEF AnswersEndCalls, Unanswered
  <2>3. QED
    BY <1>1, <2>1, <2>2 DEF TypeOK
<1>6. ASSUME NEW c \in Callers, ReplaySaved(c)
      PROVE  AnswerIsDurable'
  <2>1. /\ UNCHANGED <<receipts, history, token, input>> /\ ReceiptOf(c) # NoReceipt
        /\ answer' = [answer EXCEPT ![c] = IF ReceiptOf(c).input = input[c]
                                            THEN Returned(ReceiptOf(c).by) ELSE Raised("conflict")]
    BY <1>6 DEF ReplaySaved, Answer, server, call
  <2>2. CASE ReceiptOf(c).input = input[c]
    <3>1. answer'[c].by = ReceiptOf(c).by
      BY <2>1, <2>2 DEF TypeOK, Returned
    <3>2. QED
      BY <1>2, <1>3, <1>4, <2>1, <2>2, <3>1 DEF TypeOK
  <2>3. CASE ReceiptOf(c).input # input[c]
    <3>1. answer'[c].kind = "conflict"
      BY <2>1, <2>3 DEF TypeOK, Raised
    <3>2. QED
      BY <1>2, <2>1, <3>1 DEF TypeOK
  <2>4. QED
    BY <2>2, <2>3
<1>7. ASSUME NEW c \in Callers, Recover(c)
      PROVE  AnswerIsDurable'
  <2>1. UNCHANGED <<receipts, history, token, input>>
    BY <1>7 DEF Recover, server, call
  <2>2. CASE ReceiptOf(c) # NoReceipt /\ ReceiptOf(c).input = input[c]
    <3>1. answer' = [answer EXCEPT ![c] = Returned(ReceiptOf(c).by)]
      BY <1>7, <2>2 DEF Recover, Answer
    <3>2. answer'[c].by = ReceiptOf(c).by
      BY <3>1 DEF TypeOK, Returned
    <3>3. QED
      BY <1>2, <1>3, <1>4, <2>1, <2>2, <3>1, <3>2 DEF TypeOK
  <2>3. CASE ~(ReceiptOf(c) # NoReceipt /\ ReceiptOf(c).input = input[c])
    <3>1. \E k \in {"conflict", "error"} : answer' = [answer EXCEPT ![c] = Raised(k)]
      BY <1>7, <2>3 DEF Recover, Answer
    <3>2. answer'[c].kind # "result"
      BY <3>1 DEF TypeOK, Raised
    <3>3. QED
      BY <1>2, <2>1, <3>1, <3>2 DEF TypeOK
  <2>4. QED
    BY <2>2, <2>3
<1>8. ASSUME NEW c \in Callers, Acknowledged(c)
      PROVE  AnswerIsDurable'
  <2>1. /\ UNCHANGED <<receipts, history, token, input>> /\ wire[c] = "applied"
        /\ answer' = [answer EXCEPT ![c] = Returned(c)]
    BY <1>8 DEF Acknowledged, Answer, server, call
  <2>2. answer'[c].by = c
    BY <2>1 DEF TypeOK, Returned
  <2>3. PublishedBy(c) # {} /\ (token[c] # NoToken => receipts[token[c]] = [by |-> c, input |-> input[c]])
    BY <2>1 DEF HistoryIsApplied, PublishedBy
  <2>4. QED
    BY <1>2, <2>1, <2>2, <2>3 DEF TypeOK
<1>9. ASSUME NEW c \in Callers, ReturnReading(c)
      PROVE  AnswerIsDurable'
  <2>1. /\ UNCHANGED <<receipts, history, token, input>> /\ token[c] = NoToken
        /\ answer' = [answer EXCEPT ![c] = Returned(c)]
    BY <1>9 DEF ReturnReading, Answer, server, call
  <2>2. QED
    BY <1>2, <2>1 DEF TypeOK
<1>10. ASSUME NEW c \in Callers, MethodRaises(c) \/ RecoverRaises(c) \/ AppendRaises(c)
       PROVE  AnswerIsDurable'
  <2>1. UNCHANGED <<receipts, history, token, input>>
    BY <1>10 DEF MethodRaises, RecoverRaises, AppendRaises, server, call
  <2>2. \E k \in {"conflict", "error"} : answer' = [answer EXCEPT ![c] = Raised(k)]
    BY <1>10 DEF MethodRaises, RecoverRaises, AppendRaises, Answer
  <2>3. answer'[c].kind # "result"
    BY <2>2 DEF TypeOK, Raised
  <2>4. QED
    BY <1>2, <2>1, <2>2, <2>3 DEF TypeOK
<1>11. ASSUME NEW c \in Callers, Publish(c)
       PROVE  AnswerIsDurable'
  <2> DEFINE t == [by |-> c, seen |-> seen[c], ops |-> staged[c]]
  <2>1. UNCHANGED <<token, input, answer>> /\ history' = Append(history, t) /\ ReceiptOf(c) = NoReceipt
    BY <1>11 DEF Publish, Publishable, call
  <2>2. \A i \in DOMAIN history : i \in DOMAIN history' /\ history'[i] = history[i]
    <3>1. /\ t \in [by: Callers, seen: SUBSET Observations, ops: Seq(Operations)]
          /\ history \in Seq([by: Callers, seen: SUBSET Observations, ops: Seq(Operations)])
      BY DEF TypeOK
    <3>2. QED
      BY <2>1, <3>1, AppendIndices
  <2>3. ASSUME NEW d \in Callers, answer[d].kind = "result", token[d] # NoToken
        PROVE  receipts'[token[d]] = [by |-> answer[d].by, input |-> input[d]] /\ PublishedBy(answer[d].by)' # {}
    <3>1. receipts[token[d]] = [by |-> answer[d].by, input |-> input[d]] /\ PublishedBy(answer[d].by) # {}
      BY <2>3 DEF AnswerIsDurable
    <3>2. PICK i \in DOMAIN history : history[i].by = answer[d].by
      BY <3>1 DEF PublishedBy
    <3>3. answer[d].by \in Callers
      BY <3>2, HistoryCallers
    <3>4. receipts[token[d]] # NoReceipt
      BY <3>1, <3>3, RealReceipt
    <3>5. token[c] = NoToken \/ token[c] # token[d]
      BY <2>1, <3>4 DEF ReceiptOf
    <3>6. receipts'[token[d]] = receipts[token[d]]
      BY <1>11, <2>3, <3>5 DEF Publish, TypeOK
    <3>7. PublishedBy(answer[d].by)' # {}
      BY <2>1, <2>2, <3>2 DEF PublishedBy
    <3>8. QED
      BY <3>1, <3>6, <3>7
  <2>4. QED
    BY <2>1, <2>3 DEF AnswerIsDurable
<1>12. ASSUME NEW c \in Callers,
             \/ \E t \in Tables : ReadTable(c, t)
             \/ BeginAppend(c) \/ NoSavedResult(c) \/ ReadRevision(c) \/ Stage(c) \/ RequestCommit(c)
             \/ Refuse(c) \/ Abort(c) \/ CommitRaises(c) \/ AppendAgain(c) \/ Crash(c)
       PROVE  UNCHANGED <<receipts, history, answer, token, input>>
  BY <1>12 DEF ReadTable, BeginAppend, NoSavedResult, ReadRevision, Stage, RequestCommit, Refuse,
       Abort, CommitRaises, AppendAgain, Crash, server, call
<1>13. ASSUME NEW r \in Reflections, Remember(r)
       PROVE  UNCHANGED <<receipts, history, answer, token, input>>
  BY <1>13 DEF Remember, call
<1>14. CASE UNCHANGED vars
  BY <1>1, <1>14 DEF vars, server, call
<1>15. ASSUME UNCHANGED <<receipts, history, answer, token, input>>
       PROVE  AnswerIsDurable'
  BY <1>1, <1>15
<1>16. QED
  BY <1>5, <1>6, <1>7, <1>8, <1>9, <1>10, <1>11, <1>12, <1>13, <1>14, <1>15
     DEF Next, CallStep, MethodStep, ServerStep

(* A result returned for a token is the one its receipt records. *)
THEOREM AnswersAreDurable == Spec => []AnswerIsDurable
<1>1. Init => AnswerIsDurable
  BY DEF Init, AnswerIsDurable, Unanswered
<1>2. TypeOK /\ RequestsFollowCalls /\ AnswersEndCalls /\ HistoryIsApplied /\ AnswerIsDurable
        /\ [Next]_vars => AnswerIsDurable'
  BY DurableStep
<1>3. QED
  BY <1>1, <1>2, Supporting, PTL DEF Spec

-----------------------------------------------------------------------------
(* What staged operations make of a store, one after the other.             *)

(* A set of numbers that is not empty has a least one: induction on places  *)
(* of a list looks at the least place where a claim fails.                  *)
LEMMA LeastPlace ==
  ASSUME NEW X \in SUBSET Nat, X # {}
  PROVE  \E n \in X : \A m \in X : n <= m
<1> DEFINE T == { 0..n : n \in X }
<1>1. T \subseteq FiniteSubsetsOf(Nat) /\ T # {}
  <2>1. \A n \in X : 0..n \in SUBSET Nat /\ IsFiniteSet(0..n)
    BY FS_Interval
  <2>2. QED
    BY <2>1 DEF FiniteSubsetsOf
<1>2. IsWellFoundedOn(StrictSubsetOrdering(Nat), FiniteSubsetsOf(Nat))
  BY FS_StrictSubsetOrderingWellFounded
<1>3. PICK t \in T : \A u \in T : ~(<<u, t>> \in StrictSubsetOrdering(Nat))
  <2> HIDE DEF T
  <2>1. QED
    BY <1>1, <1>2, WFMin
<1>4. PICK n \in X : t = 0..n
  BY <1>3
<1>5. ASSUME NEW m \in X, m < n
      PROVE  FALSE
  <2>1. 0..m \in T /\ 0..m \in SUBSET Nat /\ t \in SUBSET Nat
    BY <1>4
  <2>2. 0..m \subseteq t /\ n \in t /\ n \notin 0..m
    BY <1>4, <1>5
  <2>3. <<0..m, t>> \in StrictSubsetOrdering(Nat)
    BY <2>1, <2>2 DEF StrictSubsetOrdering
  <2>4. QED
    BY <1>3, <2>1, <2>3
<1>6. QED
  BY <1>5

(* The function that Laid defines by recursion exists. *)
LaidUpTo(g, s, ops, last) ==
  g = [n \in 0..last |-> IF n = 0 THEN s ELSE Effect(ops[n], g[n - 1])]

LEMMA LaidExists ==
  ASSUME NEW s, NEW ops, NEW last \in Nat
  PROVE  \E g : LaidUpTo(g, s, ops, last)
<1> USE DEF LaidUpTo
<1> DEFINE Good(k) == \E g : LaidUpTo(g, s, ops, k)
           X == { k \in Nat : ~Good(k) }
<1>1. SUFFICES ASSUME X # {} PROVE FALSE
  BY DEF X
<1>2. PICK k \in X : \A m \in X : k <= m
  <2>1. X \in SUBSET Nat
    OBVIOUS
  <2> HIDE DEF X
  <2>2. QED
    BY <1>1, <2>1, LeastPlace
<1>3. k \in Nat /\ ~Good(k)
  BY <1>2
<1>4. CASE k = 0
  <2> DEFINE g == [n \in 0..0 |-> s]
  <2>1. g = [n \in 0..0 |-> IF n = 0 THEN s ELSE Effect(ops[n], g[n - 1])]
    OBVIOUS
  <2>2. Good(0)
    BY <2>1
  <2>3. QED
    BY <1>3, <1>4, <2>2
<1>5. CASE k # 0
  <2>1. k - 1 \in Nat /\ ~(k <= k - 1)
    BY <1>3, <1>5
  <2>2. Good(k - 1)
    <3> HIDE DEF Good
    <3>1. QED
      BY <1>2, <2>1
  <2>3. PICK h : h = [n \in 0..(k - 1) |-> IF n = 0 THEN s ELSE Effect(ops[n], h[n - 1])]
    BY <2>2
  <2> DEFINE g == [n \in 0..k |-> IF n = 0 THEN s ELSE Effect(ops[n], h[n - 1])]
  <2>4. \A n \in 0..(k - 1) : g[n] = h[n]
    <3> SUFFICES ASSUME NEW n \in 0..(k - 1) PROVE g[n] = h[n]
      OBVIOUS
    <3>1. h[n] = IF n = 0 THEN s ELSE Effect(ops[n], h[n - 1])
      BY <2>3
    <3>2. n \in 0..k
      BY <1>3
    <3>3. QED
      BY <3>1, <3>2
  <2>5. \A n \in 0..k : n # 0 => n - 1 \in 0..(k - 1)
    BY <1>3
  <2>6. g = [n \in 0..k |-> IF n = 0 THEN s ELSE Effect(ops[n], g[n - 1])]
    BY <2>4, <2>5
  <2>7. Good(k)
    BY <2>6
  <2>8. QED
    BY <1>3, <2>7
<1>6. QED
  BY <1>4, <1>5

(* What it returns. *)
LEMMA LaidStep ==
  ASSUME NEW s, NEW ops \in Seq(Operations)
  PROVE  /\ Len(ops) \in Nat /\ DOMAIN ops = 1..Len(ops)
         /\ Laid(s, ops)[0] = s
         /\ \A n \in 1..Len(ops) : Laid(s, ops)[n] = Effect(ops[n], Laid(s, ops)[n - 1])
<1> DEFINE laid == Laid(s, ops)
<1>1. PICK last \in Nat : last = Len(ops)
  OBVIOUS
<1>2. \E g : LaidUpTo(g, s, ops, last)
  BY <1>1, LaidExists
<1>3. laid = [n \in 0..last |-> IF n = 0 THEN s ELSE Effect(ops[n], laid[n - 1])]
  BY <1>1, <1>2 DEF Laid, LaidUpTo
<1> HIDE DEF laid
<1>4. 0 \in 0..last /\ \A n \in 1..last : n \in 0..last /\ n # 0
  OBVIOUS
<1>5. laid[0] = s /\ \A n \in 1..last : laid[n] = Effect(ops[n], laid[n - 1])
  BY <1>3, <1>4
<1>6. QED
  BY <1>1, <1>5 DEF laid

(* A further operation changes nothing of what the others make. *)
LEMMA LaidAppend ==
  ASSUME NEW s, NEW ops \in Seq(Operations), NEW op \in Operations
  PROVE  /\ \A n \in 0..Len(ops) : Laid(s, Append(ops, op))[n] = Laid(s, ops)[n]
         /\ Laid(s, Append(ops, op))[Len(ops) + 1] = Effect(op, Laid(s, ops)[Len(ops)])
<1>1. PICK more \in Seq(Operations) : more = Append(ops, op)
  BY AppendType
<1>2. /\ Len(more) = Len(ops) + 1 /\ Len(ops) \in Nat
      /\ \A n \in 1..Len(ops) : more[n] = ops[n]
      /\ more[Len(ops) + 1] = op
  BY <1>1
<1> DEFINE f == Laid(s, more)
           g == Laid(s, ops)
<1>3. /\ f[0] = s /\ \A n \in 1..Len(more) : f[n] = Effect(more[n], f[n - 1])
      /\ g[0] = s /\ \A n \in 1..Len(ops) : g[n] = Effect(ops[n], g[n - 1])
  BY LaidStep
<1> HIDE DEF f, g
<1>4. \A n \in 0..Len(ops) : f[n] = g[n]
  <2> DEFINE X == { n \in 0..Len(ops) : f[n] # g[n] }
  <2>1. SUFFICES ASSUME X # {} PROVE FALSE
    OBVIOUS
  <2>2. PICK n \in X : \A m \in X : n <= m
    <3>1. X \in SUBSET Nat
      BY <1>2
    <3> HIDE DEF X
    <3>2. QED
      BY <2>1, <3>1, LeastPlace
  <2>3. n \in 0..Len(ops) /\ f[n] # g[n] /\ n # 0
    BY <1>3, <2>2
  <2>4. n - 1 \in 0..Len(ops) /\ ~(n <= n - 1) /\ n \in 1..Len(ops) /\ n \in 1..Len(more)
    BY <1>2, <2>3
  <2>5. f[n - 1] = g[n - 1]
    BY <2>2, <2>4
  <2>6. QED
    BY <1>2, <1>3, <2>3, <2>4, <2>5
<1>5. f[Len(ops) + 1] = Effect(op, g[Len(ops)])
  <2>1. Len(ops) + 1 \in 1..Len(more) /\ (Len(ops) + 1) - 1 = Len(ops) /\ Len(ops) \in 0..Len(ops)
    BY <1>2
  <2>2. QED
    BY <1>2, <1>3, <1>4, <2>1
<1>6. QED
  BY <1>1, <1>4, <1>5 DEF f, g

(* The operations fit, one after the other, and leave stores behind. *)
Publishes(s, ops) ==
  /\ \A n \in 0..Len(ops) : Laid(s, ops)[n] \in Stores
  /\ \A n \in 1..Len(ops) : Fits(ops[n], Laid(s, ops)[n - 1])

LEMMA PublishesPublished ==
  ASSUME NEW s, NEW ops \in Seq(Operations), Publishes(s, ops)
  PROVE  Published(s, ops) # {} /\ Overlay(s, ops) \in Stores
<1>1. Len(ops) \in 0..Len(ops) /\ DOMAIN ops = 1..Len(ops)
  BY LaidStep
<1>2. QED
  BY <1>1 DEF Publishes, Published, Overlay

LEMMA NothingPublishes ==
  ASSUME NEW s \in Stores
  PROVE  Publishes(s, <<>>)
<1>1. <<>> \in Seq(Operations) /\ Len(<<>>) = 0
  OBVIOUS
<1>2. Laid(s, <<>>)[0] = s
  BY <1>1, LaidStep
<1>3. QED
  BY <1>1, <1>2 DEF Publishes

(* What fits the overlay can be staged. *)
LEMMA MorePublishes ==
  ASSUME NEW s, NEW ops \in Seq(Operations), Publishes(s, ops), NEW op \in Operations,
         Fits(op, Overlay(s, ops)), Effect(op, Overlay(s, ops)) \in Stores
  PROVE  Publishes(s, Append(ops, op))
<1>1. PICK more : more = Append(ops, op)
  OBVIOUS
<1>2. /\ Len(more) = Len(ops) + 1 /\ Len(ops) \in Nat
      /\ \A n \in 1..Len(ops) : more[n] = ops[n]
      /\ more[Len(ops) + 1] = op
  BY <1>1
<1>3. /\ \A n \in 0..Len(ops) : Laid(s, more)[n] = Laid(s, ops)[n]
      /\ Laid(s, more)[Len(ops) + 1] = Effect(op, Overlay(s, ops))
  BY <1>1, LaidAppend DEF Overlay
<1>4. ASSUME NEW n \in 0..Len(more) PROVE Laid(s, more)[n] \in Stores
  <2>1. n \in 0..Len(ops) \/ n = Len(ops) + 1
    BY <1>2
  <2>2. QED
    BY <1>3, <2>1 DEF Publishes
<1>5. ASSUME NEW n \in 1..Len(more) PROVE Fits(more[n], Laid(s, more)[n - 1])
  <2>1. n - 1 \in 0..Len(ops) /\ (n \in 1..Len(ops) \/ n = Len(ops) + 1)
    BY <1>2
  <2>2. CASE n \in 1..Len(ops)
    BY <1>2, <1>3, <2>1, <2>2 DEF Publishes
  <2>3. CASE n = Len(ops) + 1
    BY <1>2, <1>3, <2>1, <2>3 DEF Overlay
  <2>4. QED
    BY <2>1, <2>2, <2>3
<1>6. QED
  BY <1>1, <1>4, <1>5 DEF Publishes

(* A store of which one table changes. *)
LEMMA StoreExcept ==
  ASSUME NEW m, NEW e, NEW j, NEW x
  PROVE  LET s == [mind |-> m, memory |-> e, journal |-> j]
         IN  /\ [s EXCEPT !.mind = x] = [mind |-> x, memory |-> e, journal |-> j]
             /\ [s EXCEPT !.memory = x] = [mind |-> m, memory |-> x, journal |-> j]
             /\ [s EXCEPT !.journal = x] = [mind |-> m, memory |-> e, journal |-> x]
  OBVIOUS

(* A store with more memories. *)
Richer(s, more) == s.mind = more.mind /\ s.memory \subseteq more.memory /\ s.journal = more.journal

LEMMA RicherEffect ==
  ASSUME NEW s \in Stores, NEW more \in Stores, Richer(s, more), NEW op \in Operations,
         Fits(op, s), Effect(op, s) \in Stores
  PROVE  Fits(op, more) /\ Effect(op, more) \in Stores /\ Richer(Effect(op, s), Effect(op, more))
<1>1. /\ op.table \in {"mind", "memory", "journal"} /\ op.after \in Records
      /\ op.operation \in {"initialize", "replace", "append"}
  BY DEF Operations, Tables
<1>2. Fits(op, more)
  BY <1>1 DEF Richer, Fits
<1>3. PICK m, few, many, j :
        /\ s = [mind |-> m, memory |-> few, journal |-> j]
        /\ more = [mind |-> m, memory |-> many, journal |-> j]
  <2>1. s = [mind |-> s.mind, memory |-> s.memory, journal |-> s.journal]
    BY DEF Stores
  <2>2. more = [mind |-> s.mind, memory |-> more.memory, journal |-> s.journal]
    BY DEF Richer, Stores
  <2>3. QED
    BY <2>1, <2>2
<1>4. /\ s.mind = m /\ s.memory = few /\ s.journal = j
      /\ more.mind = m /\ more.memory = many /\ more.journal = j
      /\ m \subseteq Records /\ few \subseteq many /\ many \subseteq Records /\ j \in Seq(Records)
  BY <1>3 DEF Richer, Stores
<1>5. CASE op.operation = "replace" /\ op.table = "mind"
  <2>1. PICK x, y : x = (m \ {op.before}) \cup {op.after} /\ y = x
    OBVIOUS
  <2>2. Effect(op, s) = [s EXCEPT !.mind = x] /\ Effect(op, more) = [more EXCEPT !.mind = y]
    BY <1>4, <1>5, <2>1 DEF Effect
  <2>3. /\ Effect(op, s) = [mind |-> x, memory |-> few, journal |-> j]
        /\ Effect(op, more) = [mind |-> y, memory |-> many, journal |-> j]
    BY <1>3, <2>2, StoreExcept
  <2>4. QED
    BY <1>1, <1>2, <1>4, <2>1, <2>3 DEF Richer, Stores
<1>6. CASE op.operation = "replace" /\ op.table = "memory"
  <2>1. PICK x, y : x = (few \ {op.before}) \cup {op.after} /\ y = (many \ {op.before}) \cup {op.after}
    OBVIOUS
  <2>2. Effect(op, s) = [s EXCEPT !.memory = x] /\ Effect(op, more) = [more EXCEPT !.memory = y]
    BY <1>4, <1>6, <2>1 DEF Effect
  <2>3. /\ Effect(op, s) = [mind |-> m, memory |-> x, journal |-> j]
        /\ Effect(op, more) = [mind |-> m, memory |-> y, journal |-> j]
    BY <1>3, <2>2, StoreExcept
  <2>4. QED
    BY <1>1, <1>2, <1>4, <2>1, <2>3 DEF Richer, Stores
<1>7. CASE op.operation = "replace" /\ op.table = "journal"
  <2>1. PICK x, y : x = (j \ {op.before}) \cup {op.after} /\ y = x
    OBVIOUS
  <2>2. Effect(op, s) = [s EXCEPT !.journal = x] /\ Effect(op, more) = [more EXCEPT !.journal = y]
    BY <1>4, <1>7, <2>1 DEF Effect
  <2>3. /\ Effect(op, s) = [mind |-> m, memory |-> few, journal |-> x]
        /\ Effect(op, more) = [mind |-> m, memory |-> many, journal |-> y]
    BY <1>3, <2>2, StoreExcept
  <2>4. x \in Seq(Records)
    BY <2>3 DEF Stores
  <2>5. QED
    BY <1>1, <1>2, <1>4, <2>1, <2>3, <2>4 DEF Richer, Stores
<1>8. CASE op.operation = "initialize"
  <2>1. PICK x, y : x = {op.after} /\ y = x
    OBVIOUS
  <2>2. Effect(op, s) = [s EXCEPT !.mind = x] /\ Effect(op, more) = [more EXCEPT !.mind = y]
    BY <1>4, <1>8, <2>1 DEF Effect
  <2>3. /\ Effect(op, s) = [mind |-> x, memory |-> few, journal |-> j]
        /\ Effect(op, more) = [mind |-> y, memory |-> many, journal |-> j]
    BY <1>3, <2>2, StoreExcept
  <2>4. QED
    BY <1>1, <1>2, <1>4, <2>1, <2>3 DEF Richer, Stores
<1>9. CASE op.operation = "append" /\ op.table = "memory"
  <2>1. PICK x, y : x = few \cup {op.after} /\ y = many \cup {op.after}
    OBVIOUS
  <2>2. Effect(op, s) = [s EXCEPT !.memory = x] /\ Effect(op, more) = [more EXCEPT !.memory = y]
    BY <1>4, <1>9, <2>1 DEF Effect
  <2>3. /\ Effect(op, s) = [mind |-> m, memory |-> x, journal |-> j]
        /\ Effect(op, more) = [mind |-> m, memory |-> y, journal |-> j]
    BY <1>3, <2>2, StoreExcept
  <2>4. QED
    BY <1>1, <1>2, <1>4, <2>1, <2>3 DEF Richer, Stores
<1>10. CASE op.operation = "append" /\ op.table # "memory"
  <2>1. PICK x, y : x = Append(j, op.after) /\ y = x
    OBVIOUS
  <2>2. Effect(op, s) = [s EXCEPT !.journal = x] /\ Effect(op, more) = [more EXCEPT !.journal = y]
    BY <1>4, <1>10, <2>1 DEF Effect
  <2>3. /\ Effect(op, s) = [mind |-> m, memory |-> few, journal |-> x]
        /\ Effect(op, more) = [mind |-> m, memory |-> many, journal |-> y]
    BY <1>3, <2>2, StoreExcept
  <2>4. x \in Seq(Records)
    BY <1>1, <1>4, <2>1, AppendType
  <2>5. QED
    BY <1>1, <1>2, <1>4, <2>1, <2>3, <2>4 DEF Richer, Stores
<1>11. QED
  BY <1>1, <1>5, <1>6, <1>7, <1>8, <1>9, <1>10

(* What can be published can still be when consolidation has added a memory. *)
LEMMA RicherPublishes ==
  ASSUME NEW s \in Stores, NEW more \in Stores, Richer(s, more), NEW ops \in Seq(Operations),
         Publishes(s, ops)
  PROVE  Publishes(more, ops)
<1> DEFINE f == Laid(s, ops)
           g == Laid(more, ops)
           Good(n) == /\ g[n] \in Stores /\ Richer(f[n], g[n])
                      /\ n # 0 => Fits(ops[n], g[n - 1])
<1>1. /\ Len(ops) \in Nat
      /\ f[0] = s /\ \A n \in 1..Len(ops) : f[n] = Effect(ops[n], f[n - 1])
      /\ g[0] = more /\ \A n \in 1..Len(ops) : g[n] = Effect(ops[n], g[n - 1])
      /\ \A n \in 1..Len(ops) : ops[n] \in Operations
  BY LaidStep, SeqElement
<1>2. /\ \A n \in 0..Len(ops) : f[n] \in Stores
      /\ \A n \in 1..Len(ops) : Fits(ops[n], f[n - 1])
  BY DEF Publishes
<1> HIDE DEF f, g
<1>3. \A n \in 0..Len(ops) : Good(n)
  <2> DEFINE X == { n \in 0..Len(ops) : ~Good(n) }
  <2>1. SUFFICES ASSUME X # {} PROVE FALSE
    OBVIOUS
  <2>2. PICK n \in X : \A m \in X : n <= m
    <3>1. X \in SUBSET Nat
      BY <1>1
    <3> HIDE DEF X
    <3>2. QED
      BY <2>1, <3>1, LeastPlace
  <2>3. n \in 0..Len(ops) /\ ~Good(n) /\ n # 0
    BY <1>1, <2>2
  <2>4. n - 1 \in 0..Len(ops) /\ ~(n <= n - 1) /\ n \in 1..Len(ops)
    BY <1>1, <2>3
  <2>5. Good(n - 1)
    <3> HIDE DEF Good
    <3>1. QED
      BY <2>2, <2>4
  <2>6. PICK x \in Stores, y \in Stores : x = f[n - 1] /\ y = g[n - 1]
    BY <1>2, <2>4, <2>5
  <2>7. PICK op \in Operations : op = ops[n]
    BY <1>1, <2>4
  <2>8. Richer(x, y) /\ Fits(op, x) /\ Effect(op, x) \in Stores
    BY <1>1, <1>2, <2>3, <2>4, <2>5, <2>6, <2>7
  <2>9. Fits(op, y) /\ Effect(op, y) \in Stores /\ Richer(Effect(op, x), Effect(op, y))
    BY <2>8, RicherEffect
  <2>10. QED
    BY <1>1, <2>3, <2>4, <2>6, <2>7, <2>9
<1>4. QED
  BY <1>3 DEF f, g, Publishes

-----------------------------------------------------------------------------
(* A conflict means that somebody else got through.                         *)

(* A call has staged nothing before its method runs; a raw append has its   *)
(* one entry from the start.                                                *)
Entry(c) == << AppendTo("journal", <<c, 1>>) >>

NotYet == {"idle", "receipt", "revision"}

StagedBefore ==
  \A c \in Callers :
    /\ mode[c] = "atomic" /\ pc[c] \in NotYet => staged[c] = <<>>
    /\ mode[c] = "append" => staged[c] = Entry(c)

(* As long as the revision a call read is the current one, the store takes  *)
(* what the call has staged.                                                *)
StagedPublishes ==
  \A c \in Callers : version = base[c] /\ (pc[c] = "method" \/ wire[c] = "sent") =>
    Publishes(store, staged[c])

LEMMA StagedBeforeStep == TypeOK /\ RequestsFollowCalls /\ StagedBefore /\ [Next]_vars => StagedBefore'
<1> SUFFICES ASSUME TypeOK, RequestsFollowCalls, StagedBefore, [Next]_vars, NEW d \in Callers
             PROVE  /\ mode'[d] = "atomic" /\ pc'[d] \in NotYet => staged'[d] = <<>>
                    /\ mode'[d] = "append" => staged'[d] = Entry(d)
  BY DEF StagedBefore
<1>1. /\ pc \in [Callers -> Phases] /\ mode \in [Callers -> {"atomic", "append"}]
      /\ staged \in [Callers -> Seq(Operations)]
  BY DEF TypeOK
<1>2. /\ mode[d] = "atomic" /\ pc[d] \in NotYet => staged[d] = <<>>
      /\ mode[d] = "append" => staged[d] = Entry(d)
      /\ mode[d] = "append" => pc[d] \notin {"idle", "receipt", "method"}
  BY DEF StagedBefore, RequestsFollowCalls
<1>3. ASSUME UNCHANGED <<mode, staged>>,
             pc'[d] \in NotYet => pc[d] \in NotYet \/ mode[d] = "append"
      PROVE  /\ mode'[d] = "atomic" /\ pc'[d] \in NotYet => staged'[d] = <<>>
             /\ mode'[d] = "append" => staged'[d] = Entry(d)
  BY <1>2, <1>3
<1>4. ASSUME NEW c \in Callers, NEW m \in Methods, NEW t \in Tokens \cup {NoToken}, NEW i \in Inputs,
             BeginAtomic(c, m, t, i)
      PROVE  /\ UNCHANGED <<mode, staged>>
             /\ pc'[d] \in NotYet => pc[d] \in NotYet
  BY <1>1, <1>4 DEF BeginAtomic, Goto, work, NotYet
<1>5. ASSUME NEW c \in Callers, BeginAppend(c)
      PROVE  /\ mode'[d] = "atomic" /\ pc'[d] \in NotYet => staged'[d] = <<>>
             /\ mode'[d] = "append" => staged'[d] = Entry(d)
  <2>1. /\ \A e \in Callers : e # c => mode'[e] = mode[e] /\ staged'[e] = staged[e] /\ pc'[e] = pc[e]
        /\ mode'[c] = "append" /\ staged'[c] = Entry(c)
    BY <1>1, <1>5 DEF BeginAppend, Goto, Entry
  <2>2. QED
    BY <1>2, <2>1
<1>6. ASSUME NEW c \in Callers, Stage(c)
      PROVE  /\ mode'[d] = "atomic" /\ pc'[d] \in NotYet => staged'[d] = <<>>
             /\ mode'[d] = "append" => staged'[d] = Entry(d)
  <2>1. /\ pc[c] = "method" /\ UNCHANGED <<pc, mode>>
        /\ \A e \in Callers : e # c => staged'[e] = staged[e]
    BY <1>1, <1>6 DEF Stage, call
  <2>2. QED
    BY <1>1, <1>2, <2>1 DEF NotYet
<1>7. ASSUME NEW c \in Callers, AppendAgain(c)
      PROVE  UNCHANGED <<mode, staged>> /\ mode[c] = "append" /\ \A e \in Callers : e # c => pc'[e] = pc[e]
  BY <1>1, <1>7 DEF AppendAgain, Goto, call, work
<1>8. ASSUME NEW c \in Callers,
             \/ ReplaySaved(c) \/ NoSavedResult(c) \/ ReadRevision(c) \/ ReturnReading(c)
             \/ RequestCommit(c) \/ MethodRaises(c) \/ Acknowledged(c) \/ CommitRaises(c)
             \/ Recover(c) \/ RecoverRaises(c) \/ AppendRaises(c) \/ Crash(c)
      PROVE  /\ UNCHANGED <<mode, staged>>
             /\ pc'[d] \in NotYet => pc[d] \in NotYet
  <2>1. CASE ReplaySaved(c) \/ NoSavedResult(c) \/ ReturnReading(c) \/ RequestCommit(c)
    BY <1>1, <2>1 DEF ReplaySaved, NoSavedResult, ReturnReading, RequestCommit, Goto, call, work, NotYet
  <2>2. CASE ReadRevision(c)
    BY <1>1, <2>2 DEF ReadRevision, Goto, call, NotYet
  <2>3. CASE MethodRaises(c) \/ Acknowledged(c) \/ Crash(c)
    BY <1>1, <2>3 DEF MethodRaises, Acknowledged, Crash, Goto, call, work, NotYet
  <2>4. CASE CommitRaises(c) \/ Recover(c) \/ RecoverRaises(c)
    BY <1>1, <2>4 DEF CommitRaises, Recover, RecoverRaises, call, work, NotYet
  <2>5. CASE AppendRaises(c)
    BY <1>1, <2>5 DEF AppendRaises, Goto, call, work, NotYet
  <2>6. QED
    BY <1>8, <2>1, <2>2, <2>3, <2>4, <2>5
<1>9. ASSUME NEW c \in Callers,
             (\E t \in Tables : ReadTable(c, t)) \/ Publish(c) \/ Refuse(c) \/ Abort(c)
      PROVE  UNCHANGED <<mode, staged, pc>>
  BY <1>9 DEF ReadTable, Publish, Refuse, Abort, call, work
<1>10. ASSUME NEW r \in Reflections, Remember(r)
       PROVE  UNCHANGED <<mode, staged, pc>>
  BY <1>10 DEF Remember, call, work
<1>11. CASE UNCHANGED vars
  BY <1>3, <1>11 DEF vars, call, work
<1>12. QED
  BY <1>3, <1>4, <1>5, <1>6, <1>7, <1>8, <1>9, <1>10, <1>11 DEF Next, CallStep, MethodStep, ServerStep

(* Whatever a method may stage fits the overlay it reads. *)
LEMMA StageableFits ==
  ASSUME TypeOK, NEW c \in Callers, Len(staged[c]) < MaxStaged, NEW op \in StageableOps(c),
         View(c) \in Stores
  PROVE  op \in Operations /\ Fits(op, View(c)) /\ Effect(op, View(c)) \in Stores
<1>1. op \in Operations /\ Fits(op, View(c))
  BY StageType DEF StageableOps
<1>2. op.after \in Records
  BY <1>1 DEF Operations
<1>3. PICK s \in Stores : s = View(c)
  OBVIOUS
<1>4. s.mind \subseteq Records /\ s.memory \subseteq Records /\ s.journal \in Seq(Records)
  BY DEF Stores
<1>5. CASE op = Initialize(NewRecord(c))
  <2>1. Effect(op, s) = [s EXCEPT !.mind = {op.after}]
    BY <1>5 DEF Initialize, Effect
  <2>2. QED
    BY <1>1, <1>2, <1>3, <2>1 DEF Stores
<1>6. CASE op = AppendTo("memory", NewRecord(c))
  <2>1. Effect(op, s) = [s EXCEPT !.memory = s.memory \cup {op.after}]
    BY <1>6 DEF AppendTo, Effect
  <2>2. QED
    BY <1>1, <1>2, <1>3, <1>4, <2>1 DEF Stores
<1>7. CASE op = AppendTo("journal", NewRecord(c))
  <2>1. Effect(op, s) = [s EXCEPT !.journal = Append(s.journal, op.after)]
    BY <1>7 DEF AppendTo, Effect
  <2>2. Append(s.journal, op.after) \in Seq(Records)
    BY <1>2, <1>4, AppendType
  <2>3. QED
    BY <1>1, <1>3, <2>1, <2>2 DEF Stores
<1>8. CASE \E t \in {"mind", "memory"}, r \in View(c).mind \cup View(c).memory :
             op = Replace(t, r, NewRecord(c))
  <2>1. PICK t \in {"mind", "memory"}, r \in View(c).mind \cup View(c).memory : op = Replace(t, r, NewRecord(c))
    BY <1>8
  <2>2. op.operation = "replace" /\ op.table = t
    BY <2>1 DEF Replace
  <2>3. Effect(op, s) = [s EXCEPT ![t] = (s[t] \ {op.before}) \cup {op.after}]
    BY <2>2 DEF Effect
  <2>4. QED
    BY <1>1, <1>2, <1>3, <1>4, <2>3 DEF Stores
<1>9. QED
  BY <1>5, <1>6, <1>7, <1>8 DEF StageableOps

(* A raw append fits any store. *)
LEMMA EntryPublishes ==
  ASSUME NEW s \in Stores, NEW r \in Records
  PROVE  Publishes(s, << AppendTo("journal", r) >>)
<1>1. PICK op : op = AppendTo("journal", r)
  OBVIOUS
<1>2. op \in Operations
  BY <1>1 DEF AppendTo, Operations, Tables
<1>3. <<>> \in Seq(Operations) /\ Len(<<>>) = 0 /\ Publishes(s, <<>>)
  BY NothingPublishes
<1>4. Overlay(s, <<>>) = s
  BY <1>3, LaidStep DEF Overlay
<1>5. Effect(op, s) = [s EXCEPT !.journal = Append(s.journal, r)]
  BY <1>1 DEF AppendTo, Effect
<1>6. Effect(op, s) \in Stores
  <2>1. Append(s.journal, r) \in Seq(Records)
    BY AppendType DEF Stores
  <2>2. QED
    BY <1>5, <2>1 DEF Stores
<1>7. Fits(op, s)
  BY <1>1 DEF AppendTo, Fits
<1>8. Publishes(s, Append(<<>>, op))
  BY <1>2, <1>3, <1>4, <1>6, <1>7, MorePublishes
<1>9. Append(<<>>, op) = << op >>
  OBVIOUS
<1>10. QED
  BY <1>1, <1>8, <1>9

LEMMA StagedPublishesStep ==
  TypeOK /\ RequestsFollowCalls /\ ReadingsFollowRevision /\ StagedBefore /\ StagedPublishes
    /\ [Next]_vars => StagedPublishes'
<1> SUFFICES ASSUME TypeOK, RequestsFollowCalls, ReadingsFollowRevision, StagedBefore,
                    StagedPublishes, [Next]_vars, NEW d \in Callers,
                    version' = base'[d], pc'[d] = "method" \/ wire'[d] = "sent"
             PROVE  Publishes(store', staged'[d])
  BY DEF StagedPublishes
<1>1. /\ pc \in [Callers -> Phases] /\ staged \in [Callers -> Seq(Operations)]
      /\ wire \in [Callers -> {"none", "sent", "applied", "conflict", "failed"}]
      /\ base \in [Callers -> Nat] /\ version \in Nat /\ store \in Stores
      /\ mode \in [Callers -> {"atomic", "append"}]
  BY DEF TypeOK
<1>2. ASSUME UNCHANGED <<store, version>>, staged'[d] = staged[d], base'[d] = base[d],
             pc[d] = "method" \/ wire[d] = "sent"
      PROVE  Publishes(store', staged'[d])
  BY <1>2 DEF StagedPublishes
<1>3. ASSUME NEW c \in Callers, NEW m \in Methods, NEW t \in Tokens \cup {NoToken}, NEW i \in Inputs,
             BeginAtomic(c, m, t, i)
      PROVE  Publishes(store', staged'[d])
  BY <1>1, <1>2, <1>3 DEF BeginAtomic, Goto, server, work
<1>4. ASSUME NEW c \in Callers, BeginAppend(c)
      PROVE  Publishes(store', staged'[d])
  <2>1. /\ UNCHANGED <<store, version, base, wire>> /\ pc[c] = "idle" /\ pc'[c] = "revision"
        /\ \A e \in Callers : e # c => pc'[e] = pc[e] /\ staged'[e] = staged[e]
    BY <1>1, <1>4 DEF BeginAppend, Goto, server
  <2>2. wire[c] = "none"
    BY <1>1, <2>1 DEF RequestsFollowCalls
  <2>3. d # c
    BY <2>1, <2>2
  <2>4. QED
    BY <1>2, <2>1, <2>3
<1>5. ASSUME NEW c \in Callers, ReadRevision(c)
      PROVE  Publishes(store', staged'[d])
  <2>1. /\ UNCHANGED <<store, version, staged>> /\ pc[c] = "revision"
        /\ \A e \in Callers : e # c => pc'[e] = pc[e] /\ wire'[e] = wire[e] /\ base'[e] = base[e]
    BY <1>1, <1>5 DEF ReadRevision, Goto, server
  <2>2. CASE d # c
    BY <1>2, <2>1, <2>2
  <2>3. CASE d = c /\ mode[c] = "atomic"
    <3>1. staged[d] = <<>>
      BY <2>1, <2>3 DEF StagedBefore, NotYet
    <3>2. Publishes(store, <<>>)
      BY <1>1, NothingPublishes
    <3>3. QED
      BY <2>1, <3>1, <3>2
  <2>4. CASE d = c /\ mode[c] = "append"
    <3>1. staged[d] = Entry(d)
      BY <1>1, <2>4 DEF StagedBefore
    <3>2. <<d, 1>> \in Records
      BY Counting, RecordsAssumption
    <3>3. Publishes(store, Entry(d))
      BY <1>1, <3>2, EntryPublishes DEF Entry
    <3>4. QED
      BY <2>1, <3>1, <3>3
  <2>5. QED
    BY <1>1, <2>2, <2>3, <2>4
<1>6. ASSUME NEW c \in Callers, Stage(c)
      PROVE  Publishes(store', staged'[d])
  <2>1. PICK op \in StageableOps(c) : staged' = [staged EXCEPT ![c] = Append(staged[c], op)]
    BY <1>6 DEF Stage
  <2>2. /\ UNCHANGED <<store, version, base, pc, wire>> /\ Len(staged[c]) < MaxStaged
        /\ pc[c] = "method"
    BY <1>6 DEF Stage, server
  <2>3. CASE d # c
    BY <1>1, <1>2, <2>1, <2>2, <2>3
  <2>4. CASE d = c
    <3>1. Publishes(store, staged[c]) /\ staged[c] \in Seq(Operations)
      BY <1>1, <2>2, <2>4 DEF StagedPublishes
    <3>2. View(c) = Overlay(store, staged[c]) /\ View(c) \in Stores
      BY <3>1, PublishesPublished DEF View
    <3>3. op \in Operations /\ Fits(op, View(c)) /\ Effect(op, View(c)) \in Stores
      BY <2>2, <3>2, StageableFits
    <3>4. Publishes(store, Append(staged[c], op))
      BY <3>1, <3>2, <3>3, MorePublishes
    <3>5. QED
      BY <1>1, <2>1, <2>2, <2>4, <3>4
  <2>5. QED
    BY <2>3, <2>4
<1>7. ASSUME NEW c \in Callers, Publish(c)
      PROVE  FALSE
  <2>1. version' = version + 1 /\ base'[d] = base[d]
    BY <1>7 DEF Publish, work
  <2>2. base[d] \in Nat /\ base[d] <= version
    BY <1>1 DEF ReadingsFollowRevision
  <2>3. base[d] = version + 1
    BY <2>1
  <2>4. QED
    BY <1>1, <2>2, <2>3
<1>8. ASSUME NEW r \in Reflections, Remember(r)
      PROVE  Publishes(store', staged'[d])
  <2>1. /\ store' = [store EXCEPT !.memory = store.memory \cup {r}]
        /\ UNCHANGED <<version, base, staged, pc, wire>>
    BY <1>8 DEF Remember, work
  <2>2. Publishes(store, staged[d])
    BY <2>1 DEF StagedPublishes
  <2>3. PICK more : more = store'
    OBVIOUS
  <2>4. more \in Stores /\ Richer(store, more)
    BY <1>1, <2>1, <2>3, RecordsAssumption DEF Stores, Richer
  <2>5. Publishes(more, staged[d])
    BY <1>1, <2>2, <2>4, RicherPublishes
  <2>6. QED
    BY <2>1, <2>3, <2>5
<1>9. ASSUME NEW c \in Callers, RequestCommit(c)
      PROVE  Publishes(store', staged'[d])
  BY <1>1, <1>2, <1>9 DEF RequestCommit, Goto, server, work
<1>10. ASSUME NEW c \in Callers,
             \/ ReplaySaved(c) \/ NoSavedResult(c) \/ ReturnReading(c) \/ MethodRaises(c)
             \/ Acknowledged(c) \/ CommitRaises(c) \/ Recover(c) \/ RecoverRaises(c)
             \/ AppendRaises(c) \/ Crash(c) \/ AppendAgain(c) \/ Refuse(c) \/ Abort(c)
             \/ \E t \in Tables : ReadTable(c, t)
      PROVE  /\ UNCHANGED <<store, version, base, staged>>
             /\ pc'[d] = "method" => pc[d] = "method"
             /\ wire'[d] = "sent" => wire[d] = "sent"
  <2>1. CASE ReplaySaved(c) \/ NoSavedResult(c) \/ ReturnReading(c) \/ MethodRaises(c)
    BY <1>1, <2>1 DEF ReplaySaved, NoSavedResult, ReturnReading, MethodRaises, Goto, server, work
  <2>2. CASE Acknowledged(c) \/ CommitRaises(c) \/ Crash(c)
    BY <1>1, <2>2 DEF Acknowledged, CommitRaises, Crash, Goto, server, work
  <2>3. CASE Recover(c) \/ RecoverRaises(c)
    BY <1>1, <2>3 DEF Recover, RecoverRaises, server, work
  <2>4. CASE AppendRaises(c) \/ AppendAgain(c)
    BY <1>1, <2>4 DEF AppendRaises, AppendAgain, Goto, server, work
  <2>5. CASE Refuse(c) \/ Abort(c) \/ \E t \in Tables : ReadTable(c, t)
    BY <1>1, <2>5 DEF Refuse, Abort, ReadTable, server, work
  <2>6. QED
    BY <1>10, <2>1, <2>2, <2>3, <2>4, <2>5
<1>11. CASE UNCHANGED vars
  BY <1>2, <1>11 DEF vars, server, work
<1>12. QED
  BY <1>2, <1>3, <1>4, <1>5, <1>6, <1>7, <1>8, <1>9, <1>10, <1>11
     DEF Next, CallStep, MethodStep, ServerStep

(* What a backend that compares refuses was not at its revision, or its      *)
(* token was used up.                                                        *)
RefusedWasCompared ==
  \A c \in Callers : wire[c] = "conflict" /\ ~BusyIsConflict =>
    version > base[c] \/ ReceiptOf(c) # NoReceipt


(* Where a conflict is what the backend compared, a refused call lost to     *)
(* another: what it staged would have been taken at the revision it read.    *)
LEMMA ProgressStep ==
  TypeOK /\ RequestsFollowCalls /\ ReadingsFollowRevision /\ StagedPublishes
    /\ RefusedWasCompared /\ [Next]_vars => RefusedWasCompared'
<1> SUFFICES ASSUME TypeOK, RequestsFollowCalls, ReadingsFollowRevision, StagedPublishes,
                    RefusedWasCompared, [Next]_vars, NEW d \in Callers,
                    wire'[d] = "conflict", ~BusyIsConflict
             PROVE  version' > base'[d] \/ ReceiptOf(d)' # NoReceipt
  BY DEF RefusedWasCompared
<1>1. /\ pc \in [Callers -> Phases] /\ staged \in [Callers -> Seq(Operations)]
      /\ wire \in [Callers -> {"none", "sent", "applied", "conflict", "failed"}]
      /\ base \in [Callers -> Nat] /\ version \in Nat
      /\ token \in [Callers -> Tokens \cup {NoToken}]
  BY DEF TypeOK
<1>2. wire[d] = "conflict" => version > base[d] \/ ReceiptOf(d) # NoReceipt
  BY DEF RefusedWasCompared
<1>3. ASSUME wire[d] = "conflict", base'[d] = base[d], token'[d] = token[d],
             UNCHANGED <<version, receipts>>
      PROVE  version' > base'[d] \/ ReceiptOf(d)' # NoReceipt
  BY <1>2, <1>3 DEF ReceiptOf
<1>4. ASSUME NEW c \in Callers, NEW m \in Methods, NEW t \in Tokens \cup {NoToken}, NEW i \in Inputs,
             BeginAtomic(c, m, t, i)
      PROVE  version' > base'[d] \/ ReceiptOf(d)' # NoReceipt
  <2>1. /\ UNCHANGED <<version, receipts, base, wire>> /\ pc[c] = "idle"
        /\ \A e \in Callers : e # c => token'[e] = token[e]
    BY <1>1, <1>4 DEF BeginAtomic, Goto, server, work
  <2>2. wire[c] = "none"
    BY <1>1, <2>1 DEF RequestsFollowCalls
  <2>3. QED
    BY <1>3, <2>1, <2>2
<1>5. ASSUME NEW c \in Callers, ReadRevision(c)
      PROVE  version' > base'[d] \/ ReceiptOf(d)' # NoReceipt
  <2>1. /\ UNCHANGED <<version, receipts, token>> /\ pc[c] = "revision"
        /\ wire'[c] \in {wire[c], "sent"}
        /\ \A e \in Callers : e # c => base'[e] = base[e] /\ wire'[e] = wire[e]
    BY <1>1, <1>5 DEF ReadRevision, Goto, server, call
  <2>2. wire[c] = "none"
    BY <1>1, <2>1 DEF RequestsFollowCalls
  <2>3. QED
    BY <1>3, <2>1, <2>2
<1>6. ASSUME NEW c \in Callers, Publish(c)
      PROVE  version' > base'[d] \/ ReceiptOf(d)' # NoReceipt
  <2>1. version' = version + 1 /\ UNCHANGED base
    BY <1>6 DEF Publish, work
  <2>2. base[d] <= version
    BY DEF ReadingsFollowRevision
  <2>3. QED
    BY <1>1, <2>1, <2>2
<1>7. ASSUME NEW c \in Callers, Refuse(c)
      PROVE  version' > base'[d] \/ ReceiptOf(d)' # NoReceipt
  <2>1. /\ UNCHANGED <<version, receipts, base, token>> /\ wire[c] = "sent"
        /\ ~Publishable(c)
        /\ \A e \in Callers : e # c => wire'[e] = wire[e]
    BY <1>1, <1>7 DEF Refuse, server, call, work
  <2>2. CASE d # c
    BY <1>3, <2>1, <2>2
  <2>3. CASE d = c
    <3>1. version = base[d] => Published(store, staged[d]) # {}
      BY <1>1, <2>1, <2>3, PublishesPublished DEF StagedPublishes
    <3>2. version # base[d] \/ ReceiptOf(d) # NoReceipt
      BY <2>1, <2>3, <3>1 DEF Publishable
    <3>3. base[d] <= version
      BY DEF ReadingsFollowRevision
    <3>4. QED
      BY <1>1, <2>1, <3>2, <3>3 DEF ReceiptOf
  <2>4. QED
    BY <2>2, <2>3
<1>8. ASSUME NEW c \in Callers,
             \/ BeginAppend(c) \/ ReplaySaved(c) \/ NoSavedResult(c) \/ Stage(c) \/ ReturnReading(c)
             \/ RequestCommit(c) \/ MethodRaises(c) \/ Abort(c) \/ Acknowledged(c)
             \/ CommitRaises(c) \/ Recover(c) \/ RecoverRaises(c) \/ AppendAgain(c)
             \/ AppendRaises(c) \/ Crash(c) \/ \E t \in Tables : ReadTable(c, t)
      PROVE  /\ UNCHANGED <<version, receipts, base, token>>
             /\ wire[d] = "conflict"
  <2>1. CASE BeginAppend(c) \/ ReplaySaved(c) \/ NoSavedResult(c)
    BY <1>1, <2>1 DEF BeginAppend, ReplaySaved, NoSavedResult, server, call, work
  <2>2. CASE Stage(c) \/ ReturnReading(c) \/ MethodRaises(c) \/ \E t \in Tables : ReadTable(c, t)
    BY <1>1, <2>2 DEF Stage, ReturnReading, MethodRaises, ReadTable, server, call, work
  <2>3. CASE RequestCommit(c) \/ Abort(c) \/ AppendAgain(c)
    BY <1>1, <2>3 DEF RequestCommit, Abort, AppendAgain, server, call, work
  <2>4. CASE Acknowledged(c) \/ CommitRaises(c) \/ Recover(c) \/ RecoverRaises(c)
    BY <1>1, <2>4 DEF Acknowledged, CommitRaises, Recover, RecoverRaises, server, call, work
  <2>5. CASE AppendRaises(c) \/ Crash(c)
    BY <1>1, <2>5 DEF AppendRaises, Crash, server, call, work
  <2>6. QED
    BY <1>8, <2>1, <2>2, <2>3, <2>4, <2>5
<1>9. ASSUME NEW r \in Reflections, Remember(r)
      PROVE  UNCHANGED <<version, receipts, base, token, wire>>
  BY <1>9 DEF Remember, call, work
<1>10. CASE UNCHANGED vars
  BY <1>3, <1>10 DEF vars, server, call, work
<1>11. QED
  BY <1>3, <1>4, <1>5, <1>6, <1>7, <1>8, <1>9, <1>10 DEF Next, CallStep, MethodStep, ServerStep

(* The revision counts the publications. *)
RevisionsCounted == version = Len(history)

LEMMA CountedStep == TypeOK /\ RevisionsCounted /\ [Next]_vars => RevisionsCounted'
<1>1. SUFFICES ASSUME TypeOK, RevisionsCounted, [Next]_vars
      PROVE  RevisionsCounted'
  OBVIOUS
<1>2. ASSUME NEW c \in Callers, Publish(c)
      PROVE  RevisionsCounted'
  <2>1. history \in Seq([by: Callers, seen: SUBSET Observations, ops: Seq(Operations)])
    BY <1>1 DEF TypeOK
  <2>2. PICK e : history' = Append(history, e)
    BY <1>2 DEF Publish
  <2>3. Len(history') = Len(history) + 1
    BY <2>1, <2>2
  <2>4. QED
    BY <1>1, <1>2, <2>3 DEF RevisionsCounted, Publish
<1>3. CASE UNCHANGED <<version, history>>
  BY <1>1, <1>3 DEF RevisionsCounted
<1>4. ASSUME NEW c \in Callers, CallStep(c)
      PROVE  UNCHANGED <<version, history>>
  BY <1>4 DEF CallStep, ReplaySaved, NoSavedResult, ReadRevision, Acknowledged, CommitRaises,
              Recover, AppendAgain, AppendRaises, server
<1>5. ASSUME NEW c \in Callers, MethodStep(c)
      PROVE  UNCHANGED <<version, history>>
  BY <1>5 DEF MethodStep, ReadTable, Stage, ReturnReading, RequestCommit, MethodRaises, server
<1>6. ASSUME NEW c \in Callers, Refuse(c) \/ Abort(c) \/ RecoverRaises(c) \/ Crash(c) \/ BeginAppend(c)
      PROVE  UNCHANGED <<version, history>>
  BY <1>6 DEF Refuse, Abort, RecoverRaises, Crash, BeginAppend, server
<1>7. ASSUME NEW c \in Callers, NEW m \in Methods, NEW t \in Tokens \cup {NoToken}, NEW i \in Inputs,
             BeginAtomic(c, m, t, i)
      PROVE  UNCHANGED <<version, history>>
  BY <1>7 DEF BeginAtomic, server
<1>8. ASSUME NEW r \in Reflections, Remember(r)
      PROVE  UNCHANGED <<version, history>>
  BY <1>8 DEF Remember
<1>9. CASE UNCHANGED vars
  BY <1>3, <1>9 DEF vars, server
<1>10. QED
  BY <1>1, <1>2, <1>3, <1>4, <1>5, <1>6, <1>7, <1>8, <1>9 DEF Next, ServerStep

(* A refused call is not in the history, so what it lost to is another's. *)
LEMMA RefusedLost ==
  ASSUME TypeOK, ReadingsFollowRevision, HistoryIsApplied, RevisionsCounted, RefusedWasCompared
  PROVE  ConflictMeansProgress
<1>1. SUFFICES ASSUME NEW c \in Callers, wire[c] = "conflict", ~BusyIsConflict
      PROVE  \E i \in DOMAIN history :
               history[i].by # c /\ (i > base[c] \/ ReceiptOf(c).by = history[i].by)
  BY DEF ConflictMeansProgress
<1>2. \A i \in DOMAIN history : history[i].by # c
  BY <1>1 DEF HistoryIsApplied
<1>3. CASE version > base[c]
  <2>1. /\ history \in Seq([by: Callers, seen: SUBSET Observations, ops: Seq(Operations)])
        /\ base[c] \in Nat
    BY <1>1 DEF TypeOK
  <2>2. Len(history) \in DOMAIN history /\ Len(history) > base[c]
    BY <1>3, <2>1 DEF RevisionsCounted
  <2>3. QED
    BY <1>2, <2>2
<1>4. CASE ReceiptOf(c) # NoReceipt
  <2>1. token[c] \in Tokens /\ ReceiptOf(c) = receipts[token[c]]
    BY <1>1, <1>4 DEF ReceiptOf, TypeOK
  <2>2. /\ receipts[token[c]] # NoReceipt
        /\ receipts[token[c]] \in [by: Callers, input: Inputs \cup {"nothing"}] \cup {NoReceipt}
    BY <1>4, <2>1 DEF TypeOK
  <2>3. receipts[token[c]].by \in Callers /\ wire[receipts[token[c]].by] = "applied"
    BY <2>1, <2>2 DEF HistoryIsApplied
  <2>4. \E i \in DOMAIN history : history[i].by = receipts[token[c]].by
    BY <2>3 DEF HistoryIsApplied
  <2>5. QED
    BY <1>2, <2>1, <2>4
<1>5. QED
  BY <1>1, <1>3, <1>4 DEF RefusedWasCompared

(* Some call always gets through: whoever is refused by a backend that calls *)
(* nothing else a conflict lost to a publication of somebody else, after the *)
(* revision it read or under its own token, since the operations it staged   *)
(* would have fitted.                                                        *)
THEOREM ConflictsMeanProgress == Spec => []ConflictMeansProgress
<1>1. Init => StagedBefore /\ StagedPublishes /\ RefusedWasCompared
  BY DEF Init, StagedBefore, StagedPublishes, RefusedWasCompared
<1>2. TypeOK /\ RequestsFollowCalls /\ StagedBefore /\ [Next]_vars => StagedBefore'
  BY StagedBeforeStep
<1>3. TypeOK /\ RequestsFollowCalls /\ ReadingsFollowRevision /\ StagedBefore /\ StagedPublishes
        /\ [Next]_vars => StagedPublishes'
  BY StagedPublishesStep
<1>4. TypeOK /\ RequestsFollowCalls /\ ReadingsFollowRevision /\ StagedPublishes
        /\ RefusedWasCompared /\ [Next]_vars => RefusedWasCompared'
  BY ProgressStep
<1>5. Init => RevisionsCounted
  BY DEF Init, RevisionsCounted
<1>6. TypeOK /\ RevisionsCounted /\ [Next]_vars => RevisionsCounted'
  BY CountedStep
<1>7. TypeOK /\ ReadingsFollowRevision /\ HistoryIsApplied /\ RevisionsCounted /\ RefusedWasCompared
        => ConflictMeansProgress
  BY RefusedLost
<1>8. QED
  BY <1>1, <1>2, <1>3, <1>4, <1>5, <1>6, <1>7, TypeCorrect, Supporting, PTL DEF Spec
================================================================================
