---------------------------- MODULE ContinuityBreaker ----------------------------
(***************************************************************************)
(* The Breaker: the circuit that decides whether an answer whose            *)
(* persistence failed is still presented (continuity_health.py), under a    *)
(* policy that each interaction takes from the Administrator's settings     *)
(* when it begins (continuity_settings.py).  Both live in runtime records   *)
(* that concurrent completions read, and later replace if nobody replaced   *)
(* them in between.                                                         *)
(*                                                                         *)
(* A turn is one interaction key.  An attempt is one call of                *)
(* complete_interaction() for a turn; a host may retry, so several attempts *)
(* can serve one turn, at the same time or long after each other.           *)
(***************************************************************************)
EXTENDS Naturals, Sequences, FiniteSets, SequencesExt

CONSTANTS
  Turns,          \* interaction keys
  NoTurn,         \* no call is running
  SelfKeyed,      \* the turns a host completes without having begun them
  BodyTurns,      \* the turns that HostRuntime begins and completes for a Body
  Attempts,       \* calls of complete_interaction
  Policies,       \* what the settings say: [consecutive, rolling, window]
  DefaultPolicy,
  Kept,           \* MAX_ROLLING_WINDOW_SIZE: outcomes the record keeps
  SnapshotLimit,  \* captured settings the record keeps
  Tries,          \* tries of a compare-and-replace loop
  MaxResets,      \* bound: resets by an Administrator
  MaxEdits        \* bound: edits of the settings

ASSUME BoundsAssumption ==
  /\ Kept \in Nat \ {0} /\ SnapshotLimit \in Nat \ {0} /\ Tries \in Nat \ {0}
  /\ MaxResets \in Nat /\ MaxEdits \in Nat
ASSUME PolicyAssumption ==
  /\ DefaultPolicy \in Policies
  /\ \A p \in Policies :
       /\ p = [consecutive |-> p.consecutive, rolling |-> p.rolling, window |-> p.window]
       /\ p.consecutive \in 1..p.rolling /\ p.rolling \in 1..p.window /\ p.window \in 1..Kept
ASSUME KeysAssumption ==
  SelfKeyed \subseteq Turns /\ BodyTurns \subseteq Turns /\ NoTurn \notin Turns

VARIABLES
  health,      \* the runtime record interaction_continuity_health
  settings,    \* the runtime record continuity_settings: revision and policy
  snapshots,   \* the runtime record continuity_settings_interactions
  phase,       \* where begin_interaction is, for each turn
  bound,       \* the settings a turn captured
  items,       \* the snapshots capture() read
  tried,       \* the tries of its loop
  pc,          \* where each attempt is
  work,        \* its interaction key, the policy it completes under, whether its
               \* persistence succeeded, the health record it read, and its tries
  answer,      \* the presentation decision it returned
  begun        \* turns in the order their settings were captured (observer)

records == <<health, settings, snapshots, begun>>
begins == <<phase, bound, items, tried>>
completions == <<pc, work, answer>>
vars == <<records, begins, completions>>

Absent == [exists |-> FALSE, outcomes |-> <<>>, resets |-> 0]
NoWork == [turn |-> NoTurn, policy |-> DefaultPolicy, succeeded |-> FALSE,
           current |-> Absent, tries |-> 0]
NoAnswer == [given |-> FALSE, presented |-> FALSE, available |-> FALSE]

Init ==
  /\ health = Absent
  /\ settings = [revision |-> 0, policy |-> DefaultPolicy]
  /\ snapshots = <<>>
  /\ phase = [t \in Turns |-> "idle"]
  /\ bound = [t \in Turns |-> settings]
  /\ items = [t \in Turns |-> <<>>]
  /\ tried = [t \in Turns |-> 0]
  /\ pc = [a \in Attempts |-> "idle"]
  /\ work = [a \in Attempts |-> NoWork]
  /\ answer = [a \in Attempts |-> NoAnswer]
  /\ begun = <<>>

Newest(s, n) == SubSeq(s, IF Len(s) > n THEN Len(s) - n + 1 ELSE 1, Len(s))

-----------------------------------------------------------------------------
(* The circuit. *)

Failed(o) == ~o.succeeded

Window(outcomes, p) == Newest(outcomes, p.window)

TrailingFailures(w) ==
  Cardinality({ i \in DOMAIN w : \A j \in i..Len(w) : Failed(w[j]) })

Failures(w) == Cardinality({ i \in DOMAIN w : Failed(w[i]) })

Open(outcomes, p) ==
  LET w == Window(outcomes, p) IN
    \/ TrailingFailures(w) >= p.consecutive
    \/ Len(w) >= p.window /\ Failures(w) >= p.rolling

Places(outcomes, t) == { i \in DOMAIN outcomes : outcomes[i].turn = t }

(* presentation.allowed: what the record says of the turn, as far as its    *)
(* policy's window shows it, and TRUE otherwise.                            *)
Presented(outcomes, t, p) ==
  \A i \in Places(Window(outcomes, p), t) : Window(outcomes, p)[i].allowed

(* Nothing more to record: the turn has succeeded, or fails once more. *)
Settled(outcomes, t, ok) ==
  \E i \in Places(outcomes, t) : outcomes[i].succeeded \/ ~ok

(* Faults: the failure that opens the circuit counts against itself; a      *)
(* retry is counted as an outcome of its own.                               *)
RecordedCountingItself(outcomes, t, ok, p) ==
  LET counted == Append(outcomes, [turn |-> t, succeeded |-> ok, allowed |-> ok])
      fresh == [turn |-> t, succeeded |-> ok, allowed |-> ok \/ ~Open(counted, p)] IN
  Newest(IF Places(outcomes, t) = {}
         THEN Append(outcomes, fresh)
         ELSE [i \in DOMAIN outcomes |->
                 IF outcomes[i].turn = t
                 THEN [turn |-> t, succeeded |-> TRUE, allowed |-> TRUE]
                 ELSE outcomes[i]],
         Kept)

RecordedEveryAttempt(outcomes, t, ok, p) ==
  Newest(Append(outcomes, [turn |-> t, succeeded |-> ok, allowed |-> ok \/ ~Open(outcomes, p)]),
         Kept)

Recorded(outcomes, t, ok, p) ==
  LET fresh == [turn |-> t, succeeded |-> ok, allowed |-> ok \/ ~Open(outcomes, p)] IN
  Newest(IF Places(outcomes, t) = {}
       THEN Append(outcomes, fresh)
       ELSE [i \in DOMAIN outcomes |->
               IF outcomes[i].turn = t
               THEN [turn |-> t, succeeded |-> TRUE, allowed |-> TRUE]
               ELSE outcomes[i]],
       Kept)

-----------------------------------------------------------------------------
(* begin_interaction: the settings are captured under a new key. *)

ReadSettings(t) ==
  /\ phase[t] = "idle" /\ t \notin SelfKeyed
  /\ phase' = [phase EXCEPT ![t] = "read"]
  /\ bound' = [bound EXCEPT ![t] = settings]
  /\ UNCHANGED <<records, items, tried, completions>>

ReadSnapshots(t) ==
  /\ phase[t] = "read"
  /\ phase' = [phase EXCEPT ![t] = "store"]
  /\ items' = [items EXCEPT ![t] = snapshots]
  /\ UNCHANGED <<records, bound, tried, completions>>

Captured(t) == [turn |-> t, settings |-> bound[t]]

(* A list without what it holds of a turn: one element at most, since each  *)
(* capture drops the turn's element before it adds one.                     *)
DropAt(s, places) == IF places = {} THEN s ELSE RemoveAt(s, CHOOSE i \in places : TRUE)

WithCapture(s, t) ==
  Newest(Append(DropAt(s, Places(s, t)), Captured(t)), SnapshotLimit)

StoreCapture(t) ==
  /\ phase[t] = "store"
  /\ snapshots' = WithCapture(items[t], t)
  /\ begun' = Append(DropAt(begun, { i \in DOMAIN begun : begun[i] = t }), t)

(* Fault: the record is replaced whoever replaced it in between. *)
StoreSnapshotBlindly(t) ==
  /\ StoreCapture(t)
  /\ phase' = [phase EXCEPT ![t] = "begun"]
  /\ UNCHANGED <<health, settings, bound, items, tried, completions>>

StoreSnapshot(t) ==
  /\ snapshots = items[t]
  /\ StoreCapture(t)
  /\ phase' = [phase EXCEPT ![t] = "begun"]
  /\ UNCHANGED <<health, settings, bound, items, tried, completions>>

(* Stored, and the reply lost: create() is found to have happened and the   *)
(* loop turns; after replace() begin_interaction raises.                    *)
StoreUnanswered(t) ==
  /\ snapshots = items[t]
  /\ StoreCapture(t)
  /\ tried' = [tried EXCEPT ![t] = @ + 1]
  /\ phase' = [phase EXCEPT ![t] = IF items[t] = <<>> /\ tried[t] + 1 < Tries
                                  THEN "read" ELSE "refused"]
  /\ UNCHANGED <<health, settings, bound, items, completions>>

(* The records cannot be reached, and no key is returned. *)
BeginFails(t) ==
  /\ phase[t] \in {"read", "store"}
  /\ phase' = [phase EXCEPT ![t] = "refused"]
  /\ UNCHANGED <<records, bound, items, tried, completions>>

(* Somebody else replaced the record: read it again, or give the turn up. *)
SnapshotLost(t) ==
  /\ phase[t] = "store"
  /\ snapshots # items[t]
  /\ tried' = [tried EXCEPT ![t] = @ + 1]
  /\ phase' = [phase EXCEPT ![t] = IF tried[t] + 1 < Tries THEN "read" ELSE "refused"]
  /\ UNCHANGED <<records, bound, items, completions>>

-----------------------------------------------------------------------------
(* Administration.  Each of these is one successful compare-and-replace. *)

SaveSettings(p) ==
  /\ settings.revision < MaxEdits
  /\ p # settings.policy
  /\ settings' = [revision |-> settings.revision + 1, policy |-> p]
  /\ UNCHANGED <<health, snapshots, begun, begins, completions>>

Reset ==
  /\ health.resets < MaxResets
  /\ health' = [exists |-> TRUE, outcomes |-> <<>>, resets |-> health.resets + 1]
  /\ UNCHANGED <<settings, snapshots, begun, begins, completions>>

-----------------------------------------------------------------------------
(* complete_interaction. *)

Goto(a, from, to) == pc[a] = from /\ pc' = [pc EXCEPT ![a] = to]

Known(t) == t \in SelfKeyed \/ phase[t] = "begun"

(* A Body's turn completes under the key of its request, and not under the  *)
(* one its begin_interaction made.                                          *)
CompletionKey(t) == IF t \in BodyTurns THEN NoTurn ELSE t

SnapshotsOf(t) == Places(snapshots, CompletionKey(t))

(* With its policy in hand an attempt persists the interaction, and that    *)
(* succeeds (a degraded review included) or fails.                          *)
Persist(a, t, p, ok) ==
  work' = [work EXCEPT ![a] = [NoWork EXCEPT !.turn = t, !.policy = p, !.succeeded = ok]]

(* Fault: the settings of the moment decide. *)
FindPolicyOfTheMoment(a, t, ok) ==
  /\ Known(t)
  /\ Goto(a, "idle", "read")
  /\ SnapshotsOf(t) # {}
  /\ Persist(a, t, settings.policy, ok)
  /\ UNCHANGED <<records, begins, answer>>

(* for_interaction: the captured settings... *)
FindPolicy(a, t, ok) ==
  /\ Known(t)
  /\ Goto(a, "idle", "read")
  /\ \E i \in SnapshotsOf(t) : Persist(a, t, snapshots[i].settings.policy, ok)
  /\ UNCHANGED <<records, begins, answer>>

(* ... or, when there are none, the settings of the moment. *)
NoSnapshot(a, t) ==
  /\ Known(t) /\ SnapshotsOf(t) = {}
  /\ Goto(a, "idle", "effective")
  /\ work' = [work EXCEPT ![a].turn = t]
  /\ UNCHANGED <<records, begins, answer>>

ReadEffective(a, ok) ==
  /\ Goto(a, "effective", "read")
  /\ Persist(a, work[a].turn, settings.policy, ok)
  /\ UNCHANGED <<records, begins, answer>>

Return(a, presented, available) ==
  /\ pc' = [pc EXCEPT ![a] = "answered"]
  /\ work' = [work EXCEPT ![a] = NoWork]
  /\ answer' = [answer EXCEPT ![a] =
                  [given |-> TRUE, presented |-> presented, available |-> available]]

Decide(a, outcomes) == Return(a, Presented(outcomes, work[a].turn, work[a].policy), TRUE)

(* _record_continuity_outcome swallows what record() raises. *)
Unavailable(a) == Return(a, TRUE, FALSE)

ReadHealth(a) ==
  /\ ~Settled(health.outcomes, work[a].turn, work[a].succeeded)
  /\ Goto(a, "read", "write")
  /\ work' = [work EXCEPT ![a].current = health]
  /\ UNCHANGED <<records, begins, answer>>

(* Fault: the answer to a retry does not look the turn up. *)
AlreadySettledUnseen(a) ==
  /\ pc[a] = "read"
  /\ Settled(health.outcomes, work[a].turn, work[a].succeeded)
  /\ Return(a, TRUE, TRUE)
  /\ UNCHANGED <<records, begins>>

AlreadySettled(a) ==
  /\ pc[a] = "read"
  /\ Settled(health.outcomes, work[a].turn, work[a].succeeded)
  /\ Decide(a, health.outcomes)
  /\ UNCHANGED <<records, begins>>

Updated(a) ==
  [work[a].current EXCEPT
     !.exists = TRUE,
     !.outcomes = Recorded(@, work[a].turn, work[a].succeeded, work[a].policy)]

(* Fault: the record is replaced whoever replaced it in between. *)
WriteHealthBlindly(a) ==
  /\ pc[a] = "write"
  /\ health' = Updated(a)
  /\ Decide(a, Updated(a).outcomes)
  /\ UNCHANGED <<settings, snapshots, begun, begins>>

WriteHealth(a) ==
  /\ pc[a] = "write"
  /\ health = work[a].current
  /\ health' = Updated(a)
  /\ Decide(a, Updated(a).outcomes)
  /\ UNCHANGED <<settings, snapshots, begun, begins>>

(* The loop turns, or its tries are spent and record() raises CommitConflict. *)
TryAgain(a) ==
  \/ /\ work[a].tries + 1 < Tries
     /\ Goto(a, "write", "read")
     /\ work' = [work EXCEPT ![a].tries = @ + 1, ![a].current = Absent]
     /\ UNCHANGED answer
  \/ /\ work[a].tries + 1 = Tries
     /\ pc[a] = "write"
     /\ Unavailable(a)

HealthLost(a) ==
  /\ health # work[a].current
  /\ TryAgain(a)
  /\ UNCHANGED <<records, begins>>

(* The record is written and the reply lost: create() is found to have     *)
(* happened, replace() is not looked at again.                              *)
WriteUnanswered(a) ==
  /\ pc[a] = "write"
  /\ health = work[a].current
  /\ health' = Updated(a)
  /\ IF health.exists THEN Unavailable(a) ELSE TryAgain(a)
  /\ UNCHANGED <<settings, snapshots, begun, begins>>

(* The records cannot be reached. *)
RecordsFail(a) ==
  /\ pc[a] \in {"read", "write"}
  /\ Unavailable(a)
  /\ UNCHANGED <<records, begins>>

-----------------------------------------------------------------------------
Next ==
  \/ \E t \in Turns :
       \/ ReadSettings(t) \/ ReadSnapshots(t) \/ StoreSnapshot(t) \/ SnapshotLost(t)
       \/ StoreUnanswered(t) \/ BeginFails(t)
  \/ \E p \in Policies : SaveSettings(p)
  \/ Reset
  \/ \E a \in Attempts :
       \/ \E t \in Turns : \/ NoSnapshot(a, t)
                         \/ \E ok \in BOOLEAN : FindPolicy(a, t, ok)
       \/ \E ok \in BOOLEAN : ReadEffective(a, ok)
       \/ ReadHealth(a) \/ AlreadySettled(a) \/ WriteHealth(a) \/ HealthLost(a)
       \/ WriteUnanswered(a) \/ RecordsFail(a)

Spec == Init /\ [][Next]_vars

-----------------------------------------------------------------------------
Outcomes == [turn: Turns, succeeded: BOOLEAN, allowed: BOOLEAN]
Settings == [revision: 0..MaxEdits, policy: Policies]
Captures == [turn: Turns, settings: Settings]
Records == [exists: BOOLEAN, outcomes: Seq(Outcomes), resets: 0..MaxResets]

(* The variables hold values of the program's kinds, no record outgrows its *)
(* limit, and no loop turns more often than its tries.                      *)
TypeOK ==
  /\ health \in Records /\ Len(health.outcomes) <= Kept
  /\ settings \in Settings
  /\ snapshots \in Seq(Captures) /\ Len(snapshots) <= SnapshotLimit
  /\ phase \in [Turns -> {"idle", "read", "store", "begun", "refused"}]
  /\ bound \in [Turns -> Settings]
  /\ items \in [Turns -> Seq(Captures)]
  /\ tried \in [Turns -> 0..Tries]
  /\ pc \in [Attempts -> {"idle", "effective", "read", "write", "answered"}]
  /\ work \in [Attempts -> [turn: Turns \cup {NoTurn}, policy: Policies, succeeded: BOOLEAN,
                           current: Records, tries: 0..(Tries - 1)]]
  /\ answer \in [Attempts -> [given: BOOLEAN, presented: BOOLEAN, available: BOOLEAN]]
  /\ begun \in Seq(Turns)

(* However often and however concurrently a turn is tried, the record       *)
(* counts it once: "one final persistence outcome per interaction key"      *)
(* (record(), line 164).                                                    *)
OneOutcomePerTurn ==
  \A i, j \in DOMAIN health.outcomes :
    i # j => health.outcomes[i].turn # health.outcomes[j].turn

(* Between resets no outcome is lost, but for the oldest of a full record,  *)
(* and a late failure never takes a success back (record(), lines 171-233). *)
OutcomesStand ==
  [][ health'.resets = health.resets =>
        \A i \in DOMAIN health.outcomes :
          \/ i = 1 /\ Len(health.outcomes) = Kept
          \/ \E o \in ToSet(health'.outcomes) :
               /\ o.turn = health.outcomes[i].turn
               /\ health.outcomes[i].succeeded => o.succeeded ]_vars

(* A turn's first outcome is withheld exactly when it failed and the        *)
(* circuit was open in the record it was added to: not the one some         *)
(* earlier read returned, and not counting itself (lines 192-205).          *)
DecidedOnTheRecord ==
  [][ \A o \in ToSet(health'.outcomes) : Places(health.outcomes, o.turn) = {} =>
        \E a \in Attempts :
          /\ pc[a] = "write" /\ work[a].turn = o.turn /\ work[a].succeeded = o.succeeded
          /\ o.allowed = (o.succeeded \/ ~Open(health.outcomes, work[a].policy)) ]_vars

(* What an attempt is told agrees with what the record says of its turn     *)
(* when it is told, until as many outcomes as its policy's window shows     *)
(* have joined the record after it: only then is a failure that was         *)
(* withheld presented to a retry, and never through a record that somebody  *)
(* replaced meanwhile (_public(), lines 66-72, 101-122).                    *)
AnswersFollowRecord ==
  [][ \A a \in Attempts : answer'[a].given /\ ~answer[a].given /\ answer'[a].available =>
        LET now == health'.outcomes IN
        answer'[a].presented
          = (\A i \in Places(now, work[a].turn) :
               Len(now) - i < work[a].policy.window => now[i].allowed) ]_vars

(* A later interaction "acts as the recovery check: ... another failure     *)
(* withholds it" (docs/0009, The Breaker): as long as the record says that  *)
(* a turn's failure was withheld, no attempt of that turn presents it.      *)
HeldStaysHeld ==
  [][ \A a \in Attempts : answer'[a].given /\ ~answer[a].given /\ answer'[a].available =>
        \A i \in Places(health'.outcomes, work[a].turn) :
          ~health'.outcomes[i].allowed => ~answer'[a].presented ]_vars

(* The snapshots are those of the newest turns, in the order their settings *)
(* were captured: concurrent begins do not overwrite each other (capture(), *)
(* lines 116-135).                                                          *)
CapturesKept ==
  snapshots = [i \in DOMAIN Newest(begun, SnapshotLimit) |-> Captured(Newest(begun, SnapshotLimit)[i])]

(* And through all of it the records, loops and answers stay well formed.   *)
CapturesHold == TypeOK /\ CapturesKept

(* An edit in the middle of a turn applies to later ones: whichever         *)
(* revisions its begin and its completion met, a turn that is among the     *)
(* newest, and completes under the key it began with, completes under the   *)
(* policy it began with (for_interaction, lines 143-155, against capture).  *)
EditsApplyLater ==
  \A a \in Attempts :
    pc[a] \in {"read", "write"} /\ work[a].turn \notin BodyTurns
    /\ work[a].turn \in ToSet(Newest(begun, SnapshotLimit)) =>
      work[a].policy = bound[work[a].turn].policy

(* An edit in the middle of a turn does not change the turn's policy:       *)
(* "Each interaction retains the settings revision captured at begin"       *)
(* (docs/0009, The Breaker).                                                *)
TurnKeepsPolicy ==
  \A a \in Attempts :
    pc[a] \in {"read", "write"} /\ work[a].turn \notin SelfKeyed =>
      work[a].policy = bound[work[a].turn].policy
================================================================================
