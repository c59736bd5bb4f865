----------------------------- MODULE StateLedger ----------------------------
(***************************************************************************)
(* The current-state ledger: the Mind's latest supported answers to who is  *)
(* speaking, who is present, what is going on.                              *)
(*                                                                          *)
(* Every revision is a checkpoint in the journal; the latest one by event   *)
(* time is the ledger.  Explicit state events (update_current_state, or     *)
(* apply_current_state_event) and every begun interaction load it, change a *)
(* copy and append it, in an atomic method that runs again when another one *)
(* committed meanwhile (CognitiveCommit).  Answers are told apart by value, *)
(* status and source; notes and times are left out.                         *)
(***************************************************************************)
EXTENDS Naturals, Sequences

CONSTANTS
    Editors,           \* calls that change the ledger
    Participants,      \* who a host may say takes part
    Inputs,            \* the events and begun interactions submitted
    MaxStates          \* bound: revisions of the ledger

VARIABLES
    checkpoints,       \* the ledger's checkpoints, in the order appended
    revisionsMade,     \* the commit revision
    store,             \* "memory", or "durable"
    ledgerClock,       \* the clock checkpoints are stamped with
    edit,              \* each call: the input it applies and what it loaded
    truth              \* the committed inputs applied in order, and the latest begun

ledgerVars == <<checkpoints, revisionsMade, store, ledgerClock, edit, truth>>

-----------------------------------------------------------------------------
(* The ledger.                                                              *)

\* Who is there, and what is going on: topic, context and task, the decisions and
\* open questions, the pending work.  Mood, skills, rules, capabilities, the
\* connection, the place and its scene are left out.
Fields == {"identity", "presence", "who_is_present", "who_is_speaking", "interlocutor",
           "topic", "context", "task", "questions", "pending"}

\* The events of apply_event that bear on these fields, and what each makes unknown.
Invalidated ==
    [session_started    |-> {"interlocutor", "presence", "topic", "task"},
     speaker_changed    |-> {"interlocutor", "presence", "who_is_speaking"},
     topic_changed      |-> {"topic", "context", "questions"},
     task_changed       |-> {"task", "pending"},
     connection_changed |-> {"pending"},
     scene_changed      |-> {"presence", "who_is_present"},
     state_refreshed    |-> {}]

Answer(value, status, from) == [value |-> value, status |-> status, from |-> from]

\* A value is a set of names; an unknown one is empty.
Unknown(why) == Answer({}, "unknown", why)

EmptyLedger == [fields |-> [f \in Fields |-> Unknown("nothing")], revision |-> 0]

Answered(ledger, changes) ==
    [ledger EXCEPT !.fields =
        [f \in Fields |-> IF f \in DOMAIN changes THEN changes[f] ELSE ledger.fields[f]]]

\* An explicit event makes its fields unknown, and those it names, then sets the
\* values it grounds; identity can be neither invalidated nor blanked.
ApplyEvent(ledger, input) ==
    LET gone == Invalidated[input.event] \cup input.invalidate
        cleared == Answered(ledger, [f \in gone |-> Unknown("event")])
    IN  [Answered(cleared, input.values) EXCEPT !.revision = @ + 1]

\* A participant named by the host is present and may be speaking; without one a
\* human leaves the speaker unknown, and anything else leaves who converses
\* unknown too.  Presence that only a conversation established does not outlive
\* it; sensed presence does.
Conversation(now, input) ==
    CASE input.participants # {} ->
           LET these == Answer(input.participants, "current", "participants")
           IN  [interlocutor |-> these, presence |-> these, who_is_present |-> these,
                who_is_speaking |-> IF input.speaker # {}
                                    THEN Answer(input.speaker, "current", "participants")
                                    ELSE Unknown("speaker")]
      [] input.participants = {} /\ input.from = "human" ->
           [who_is_speaking |-> Unknown("speaker"),
            interlocutor |-> Answer({"unresolved"}, "current", "human"),
            presence |-> IF now.presence.status = "unknown" \/ now.presence.from = "participants"
                         THEN Answer({"input"}, "current", "human") ELSE now.presence]
      [] input.participants = {} /\ input.from = "body" ->
           LET sensed == Answer(input.sensed, "current", "body")
           IN  [who_is_speaking |-> Unknown("nonhuman"),
                interlocutor |-> Unknown("nonhuman"),
                presence |-> IF input.sensed # {} THEN sensed
                             ELSE IF now.presence.status = "unknown"
                                     \/ now.presence.from \in {"human", "participants"}
                                  THEN Unknown("nonhuman") ELSE now.presence,
                who_is_present |-> IF input.sensed # {} THEN sensed ELSE now.who_is_present]

\* The identity is the Mind's.  The host's summary is the topic and the context;
\* without one, a topic that is unknown is what was said, and so is the context
\* that the first interaction finds.  What the host noted, a summary or open
\* references, are the decisions and questions; open references are work to do.
Topical(ledger, input) ==
    LET now   == ledger.fields
        said  == Answer({"message"}, "current", input.from)
        noted == Answer(input.notes, "current", "host")
        told  == "summary" \in input.notes
        open  == "references" \in input.notes
    IN  [identity  |-> Answer({"mind"}, "current", "mind"),
         task      |-> Answer({"reasoning"}, "current", input.from),
         topic     |-> IF told THEN Answer({"summary"}, "current", "host")
                       ELSE IF now.topic.status = "unknown" THEN said ELSE now.topic,
         context   |-> IF told THEN Answer({"summary"}, "current", "host")
                       ELSE IF ledger.revision = 0 THEN said ELSE now.context,
         questions |-> IF input.notes # {} THEN noted ELSE now.questions,
         pending   |-> IF open THEN Answer({"references"}, "current", "host")
                       ELSE IF now.pending.status = "unknown"
                            THEN Answer({"no_work"}, "current", "initial") ELSE now.pending]

\* A begun interaction makes a revision only if it changes an answer.
Refreshed(ledger, input) ==
    LET now  == ledger.fields
        next == Answered(Answered(ledger, Topical(ledger, input)), Conversation(now, input))
    IN  IF next.fields = now THEN ledger ELSE [next EXCEPT !.revision = @ + 1]

Applied(ledger, input) ==
    IF input.kind = "event" THEN ApplyEvent(ledger, input) ELSE Refreshed(ledger, input)

\* What a host submits.  A state event may name fields that are not supported any
\* more, and report a speaker or a dispute.
Events ==
    {[kind |-> "event", event |-> e, invalidate |-> gone, values |-> v] :
        e \in DOMAIN Invalidated, gone \in SUBSET (Fields \ {"identity"}),
        v \in {<<>>} \cup
              {[who_is_speaking |-> Answer({p}, "current", "event")] : p \in Participants} \cup
              {[presence |-> Answer({p}, "disputed", "event")] : p \in Participants}}
Notes == SUBSET {"summary", "references"}
HumanBegins ==
    {[kind |-> "begin", from |-> "human", participants |-> ps, speaker |-> s, sensed |-> {},
      notes |-> n] :
        ps \in SUBSET Participants, s \in {{p} : p \in Participants} \cup {{}}, n \in Notes}
Begins ==
    {x \in HumanBegins : x.speaker \subseteq x.participants} \cup
    {[kind |-> "begin", from |-> "body", participants |-> {}, speaker |-> {}, sensed |-> x,
      notes |-> n] :
        x \in SUBSET Participants, n \in Notes}

ASSUME InputsAssumption == Inputs \subseteq Events \cup Begins

-----------------------------------------------------------------------------
(* The journal.                                                             *)

\* Fault: of checkpoints of one time, any is taken.
LatestOfTime ==
    {i \in DOMAIN checkpoints : \A j \in DOMAIN checkpoints : checkpoints[j].at <= checkpoints[i].at}

\* latest_checkpoint: the latest event time; in memory, of equal times the one
\* appended last.  A durable store picks any of equal times.
Latest ==
    LET newest == {i \in DOMAIN checkpoints :
                      \A j \in DOMAIN checkpoints : checkpoints[j].at <= checkpoints[i].at}
    IN  IF store = "memory" THEN {i \in newest : \A j \in newest : j <= i} ELSE newest

Loaded == IF checkpoints = <<>> THEN {EmptyLedger} ELSE {checkpoints[i].ledger : i \in Latest}

NoEdit == [stage |-> "idle"]

LedgerInit ==
    /\ checkpoints = <<>> /\ revisionsMade = 0 /\ ledgerClock = 0
    /\ store \in {"memory", "durable"}
    /\ edit = [w \in Editors |-> NoEdit]
    /\ truth = [ledger |-> EmptyLedger, commits |-> 0, turn |-> {}]

\* An attempt of the atomic method: it loads the ledger and stages a checkpoint
\* stamped with the time.
Attempt(w, input) ==
    \E ledger \in Loaded :
        edit' = [edit EXCEPT ![w] = [stage |-> "staged", input |-> input, seen |-> revisionsMade,
                                     at |-> ledgerClock, before |-> ledger]]

BeginEdit(w) ==
    /\ edit[w].stage = "idle"
    /\ \E input \in Inputs : Attempt(w, input)
    /\ UNCHANGED <<checkpoints, revisionsMade, store, ledgerClock, truth>>

\* Nothing else committed: the checkpoint is appended, unless nothing changed.
\* A commit to a durable store takes longer than its clock's precision.
CommitEdit(w) ==
    LET call == edit[w]
        after == Applied(call.before, call.input)
    IN
    /\ call.stage = "staged" /\ call.seen = revisionsMade
    /\ truth.commits < MaxStates
    /\ truth' = [ledger |-> Applied(truth.ledger, call.input), commits |-> truth.commits + 1,
                 turn |-> IF call.input.kind = "begin" THEN call.input.participants
                          ELSE truth.turn]
    /\ IF after = call.before
       THEN UNCHANGED <<checkpoints, revisionsMade, ledgerClock>>
       ELSE /\ checkpoints' = Append(checkpoints, [at |-> call.at, ledger |-> after])
            /\ revisionsMade' = revisionsMade + 1
            /\ ledgerClock' = IF store = "durable" THEN ledgerClock + 1 ELSE ledgerClock
    /\ edit' = [edit EXCEPT ![w] = NoEdit]
    /\ UNCHANGED store

\* Something else committed: the method runs again, on the ledger as it is now.
RetryEdit(w) ==
    /\ edit[w].stage = "staged" /\ edit[w].seen # revisionsMade
    /\ Attempt(w, edit[w].input)
    /\ UNCHANGED <<checkpoints, revisionsMade, store, ledgerClock, truth>>

\* The call gives up after its last attempt, or its process stops.
AbandonEdit(w) ==
    /\ edit[w].stage = "staged"
    /\ edit' = [edit EXCEPT ![w] = NoEdit]
    /\ UNCHANGED <<checkpoints, revisionsMade, store, ledgerClock, truth>>

ClockTicks ==
    /\ ledgerClock < MaxStates
    /\ ledgerClock' = ledgerClock + 1
    /\ UNCHANGED <<checkpoints, revisionsMade, store, edit, truth>>

LedgerNext ==
    \/ \E w \in Editors : BeginEdit(w) \/ CommitEdit(w) \/ RetryEdit(w) \/ AbandonEdit(w)
    \/ ClockTicks

LedgerSpec == LedgerInit /\ [][LedgerNext]_ledgerVars

-----------------------------------------------------------------------------
(* Properties.                                                              *)

\* Every ledger stored answers every field, and an unknown answer has no value.
StateLedgerOK ==
    \A i \in DOMAIN checkpoints :
        \A f \in Fields :
            LET answer == checkpoints[i].ledger.fields[f]
            IN  answer.status = "unknown" <=> answer.value = {}

\* The ledger a reader loads is what the committed events and interactions make
\* of an empty one, applied one after another in commit order: no concurrent
\* call's answer is lost and no older checkpoint is taken for the latest.
LedgerIsReplay == Loaded = {truth.ledger}

\* What a conversation established about who speaks, who converses and whether
\* they are reached (who_is_speaking, interlocutor, presence) belongs to the
\* latest begun interaction: in these three fields an earlier one's participants
\* are never still current after the next turn began, whoever it came from.  The
\* field who_is_present is not one of them: a turn that names no participant
\* leaves it as it was (_refresh_current_state, lines 764-789), and of that
\* nothing is claimed.
ConversationIsThisTurns ==
    \A ledger \in Loaded : \A f \in {"who_is_speaking", "interlocutor", "presence"} :
        ledger.fields[f].from = "participants" =>
            ledger.fields[f].value # {} /\ ledger.fields[f].value \subseteq truth.turn

\* "Events that make a value unreliable must invalidate the affected field and
\* any dependent fields" (skills/axiom-current-state/SKILL.md, Core contract):
\* when a turn establishes no participant, nobody of an earlier conversation is
\* still listed in who_is_present.  The code does not do this.
PresentAreOfThisTurn ==
    \A ledger \in Loaded :
        ledger.fields["who_is_present"].from = "participants" =>
            ledger.fields["who_is_present"].value = truth.turn

\* Whatever edits raced, the stored ledger is well formed, is the replay of the
\* events it reports, and its speaker, interlocutor and presence are no earlier
\* conversation's.
LedgerHolds ==
    /\ StateLedgerOK
    /\ LedgerIsReplay
    /\ ConversationIsThisTurns
=============================================================================
