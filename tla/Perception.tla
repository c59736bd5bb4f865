----------------------------- MODULE Perception -----------------------------
(***************************************************************************)
(* What the Body perceives and what the Mind keeps of it.                   *)
(*                                                                          *)
(* MindBodyBridge.perceive preserves the media, admits a reference to it in *)
(* the journal, has it interpreted, journals the interpretation and, for a  *)
(* spoken or an expressed observation, enters one interaction and expresses *)
(* its answer (the presence it notes is in People).  Every await may fail,  *)
(* and a spoken turn may be cancelled at any of them when its browser goes. *)
(* Meanwhile an administrator deletes preserved media, the Mind re-examines *)
(* a piece of it, and a backup lists what the journal refers to and         *)
(* downloads it piece by piece.                                             *)
(***************************************************************************)
EXTENDS Naturals, FiniteSets

CONSTANTS
    Observers,     \* requests that bring an observation
    Evidence,      \* media, told apart by their hash and capture time
    NoEvidence,    \* no transcription, nothing under review
    MaxLooks,      \* bound: observations begun
    MaxUpsets      \* bound: deletions and damages

VARIABLES
    stored,        \* the evidence store
    damaged,       \* stored media whose bytes no longer match their hash
    deleted,       \* media an administrator deleted
    entries,       \* the journal: [status, evidence]
    look,          \* each observation under way
    looks,         \* how many were begun
    turns,         \* interactions entered: [evidence, words]
    upsets,        \* how many deletions and damages happened
    review,        \* the piece under review
    backup         \* the backup under way

perceptionVars == <<stored, damaged, deleted, upsets, entries, look, looks, turns,
                    review, backup>>

-----------------------------------------------------------------------------
(* Values.                                                                  *)

\* passive: express=False.  expressed: see or hear.  spoken: a spoken turn.
Ways == {"passive", "expressed", "spoken"}

Statuses == {"admitted", "interpreted", "reviewed"}

NoLook == [stage |-> "idle", evidence |-> NoEvidence, way |-> "passive",
           heard |-> NoEvidence]

NoBackup == [stage |-> "idle", index |-> {}, got |-> {}]

Entry(status, e) == [status |-> status, evidence |-> e]

\* The references a journal admits: evidence_references_from_journal.
References(journal) ==
    {x.evidence : x \in {y \in journal : y.status \in {"admitted", "interpreted"}}}

PerceptionInit ==
    /\ stored = {} /\ damaged = {} /\ deleted = {} /\ upsets = 0
    /\ entries = {}
    /\ look = [o \in Observers |-> NoLook] /\ looks = 0
    /\ turns = {}
    /\ review = NoEvidence
    /\ backup = NoBackup

To(o, stage) == look' = [look EXCEPT ![o].stage = stage]
\* The request is answered, well or with an error.
LookEnds(o) == look' = [look EXCEPT ![o] = NoLook]

Unlooked == UNCHANGED <<deleted, damaged, upsets, review, backup>>
Looking  == UNCHANGED <<look, looks, turns>>

-----------------------------------------------------------------------------
(* An observation.                                                          *)

\* Fault: the media is not kept before it is referred to.
PerceiveUnkept(o, e, way) ==
    /\ look[o].stage = "idle" /\ looks < MaxLooks
    /\ looks' = looks + 1
    /\ look' = [look EXCEPT ![o] = [NoLook EXCEPT
                    !.stage = "preserved", !.evidence = e, !.way = way]]
    /\ UNCHANGED <<stored, entries, turns>>
    /\ Unlooked

\* A handler accepts a percept and looks for media already preserved.
Perceive(o, e, way) ==
    /\ look[o].stage = "idle" /\ looks < MaxLooks
    /\ looks' = looks + 1
    /\ look' = [look EXCEPT ![o] = [NoLook EXCEPT
                    !.stage = IF e \in stored THEN "preserved" ELSE "preserving",
                    !.evidence = e, !.way = way]]
    /\ UNCHANGED <<stored, entries, turns>>
    /\ Unlooked

\* It was not there, so it is inserted.  Someone else's copy inserted meanwhile
\* makes MongoDB's unique index refuse this one; SurrealDB keeps both.
Preserve(o) ==
    /\ look[o].stage = "preserving"
    /\ \/ To(o, "preserved")
       \/ look[o].evidence \in stored /\ LookEnds(o)
    /\ stored' = stored \cup {look[o].evidence}
    /\ UNCHANGED <<entries, looks, turns>>
    /\ Unlooked

Admit(o) ==
    /\ look[o].stage = "preserved"
    /\ entries' = entries \cup {Entry("admitted", look[o].evidence)}
    /\ To(o, "admitted")
    /\ UNCHANGED <<stored, looks, turns>>
    /\ Unlooked

\* The interpreter answers; a spoken turn may come with a transcription, which
\* names the media it was made from.
Interpret(o) ==
    /\ look[o].stage = "admitted"
    /\ \E heard \in Evidence \cup {NoEvidence} :
          /\ look[o].way # "spoken" => heard = NoEvidence
          /\ look' = [look EXCEPT ![o].stage = "interpreted", ![o].heard = heard]
    /\ entries' = entries \cup {Entry("interpreted", look[o].evidence)}
    /\ UNCHANGED <<stored, looks, turns>>
    /\ Unlooked

\* A transcription of this very media is a turn; one of other media is an
\* error; none, or one of poor quality, leaves a spoken turn unanswered.
Understand(o) ==
    /\ look[o].stage = "interpreted"
    /\ \/ look[o].way = "passive" /\ LookEnds(o)
       \/ look[o].way = "expressed" /\ To(o, "turning")
       \/ look[o].way = "spoken" /\ look[o].heard = NoEvidence /\ LookEnds(o)
       \/ look[o].way = "spoken" /\ look[o].heard \notin {look[o].evidence, NoEvidence}
          /\ LookEnds(o)
       \/ look[o].way = "spoken" /\ look[o].heard = look[o].evidence
          /\ (LookEnds(o) \/ To(o, "turning"))
    /\ UNCHANGED <<stored, entries, looks, turns>>
    /\ Unlooked

\* One interaction with what was perceived, and its answer is expressed.
Turn(o) ==
    /\ look[o].stage = "turning"
    /\ turns' = turns \cup {[evidence |-> look[o].evidence, way |-> look[o].way,
                             words |-> look[o].heard]}
    /\ LookEnds(o)
    /\ UNCHANGED <<stored, entries, looks>>
    /\ Unlooked

\* A store, the interpreter or the interaction raises, or the browser of a
\* spoken turn disconnects and its task is cancelled.
Interrupted(o) ==
    /\ look[o].stage # "idle"
    /\ LookEnds(o)
    /\ UNCHANGED <<stored, entries, looks, turns>>
    /\ Unlooked

-----------------------------------------------------------------------------
(* The preserved media.                                                     *)

Delete(e) ==
    /\ e \in stored
    /\ stored' = stored \ {e} /\ damaged' = damaged \ {e}
    /\ deleted' = deleted \cup {e}
    /\ upsets < MaxUpsets /\ upsets' = upsets + 1
    /\ UNCHANGED <<entries, review, backup>> /\ Looking

\* The database returns other bytes than were preserved.
Damage(e) ==
    /\ e \in stored \ damaged
    /\ damaged' = damaged \cup {e}
    /\ upsets < MaxUpsets /\ upsets' = upsets + 1
    /\ UNCHANGED <<stored, deleted, entries, review, backup>> /\ Looking

\* The review tool finds a piece and verifies its hash and length.
StartReview(e) ==
    /\ review = NoEvidence
    /\ e \in stored \ damaged
    /\ review' = e
    /\ UNCHANGED <<stored, damaged, deleted, upsets, entries, backup>> /\ Looking

FinishReview ==
    /\ review # NoEvidence
    /\ \/ entries' = entries \cup {Entry("reviewed", review)}
       \/ UNCHANGED entries                       \* the interpreter fails
    /\ review' = NoEvidence
    /\ UNCHANGED <<stored, damaged, deleted, upsets, backup>> /\ Looking

\* admin_backup: one consistent snapshot of the journal gives the index.
Snapshot ==
    /\ backup.stage = "idle"
    /\ backup' = [stage |-> "copying", index |-> References(entries), got |-> {}]
    /\ UNCHANGED <<stored, damaged, deleted, upsets, entries, review>> /\ Looking

\* Its media follows one piece at a time; a piece that is missing, or whose
\* bytes do not match, fails the backup.
Download ==
    /\ backup.stage = "copying"
    /\ \/ \E e \in backup.index \ backup.got :
             backup' = IF e \in stored \ damaged THEN [backup EXCEPT !.got = @ \cup {e}]
                                                 ELSE [backup EXCEPT !.stage = "failed"]
       \/ backup.index = backup.got /\ backup' = [backup EXCEPT !.stage = "complete"]
    /\ UNCHANGED <<stored, damaged, deleted, upsets, entries, review>> /\ Looking

\* The next backup starts over.
Discard ==
    /\ backup.stage \in {"complete", "failed"}
    /\ backup' = NoBackup
    /\ UNCHANGED <<stored, damaged, deleted, upsets, entries, review>> /\ Looking

-----------------------------------------------------------------------------
ObserverSteps(o) ==
    \/ Preserve(o) \/ Admit(o) \/ Interpret(o) \/ Understand(o) \/ Turn(o)
    \/ Interrupted(o)

PerceptionNext ==
    \/ \E o \in Observers :
          \/ \E e \in Evidence, way \in Ways : Perceive(o, e, way)
          \/ ObserverSteps(o)
    \/ \E e \in Evidence : Delete(e) \/ Damage(e) \/ StartReview(e)
    \/ FinishReview \/ Snapshot \/ Download \/ Discard

PerceptionSpec == PerceptionInit /\ [][PerceptionNext]_perceptionVars

-----------------------------------------------------------------------------
(* Properties.                                                              *)

\* Every record holds what its stage allows.
PerceptionOK ==
    /\ damaged \subseteq stored
    /\ entries \subseteq [status : Statuses, evidence : Evidence]
    /\ \A o \in Observers : look[o].stage = "idle" => look[o] = NoLook
    /\ backup.got \subseteq backup.index

\* The media of everything the journal refers to is in the store unless an
\* administrator deleted it: a failure between the steps of perceive, or an
\* observation of the same media at the same time, never leaves a reference to
\* media that was never kept.
MediaBehindEveryReference == {x.evidence : x \in entries} \subseteq stored \cup deleted

\* A backup that cannot complete lists media an administrator deleted or the
\* database damaged: a snapshot taken in the middle of an observation, whose
\* media is then fetched separately, is never short of a piece.
BackupsFailForACause ==
    backup.stage = "failed" => backup.index \cap (deleted \cup damaged) # {}

\* A spoken turn says what was heard in the media it is about, and that media
\* was admitted and interpreted in the journal before the turn was entered.
TurnsRestOnTheirMedia ==
    \A t \in turns :
        /\ t.way = "spoken" => t.words = t.evidence
        /\ {Entry("admitted", t.evidence), Entry("interpreted", t.evidence)} \subseteq entries

\* What the journal, a turn and a backup say of sensory evidence is true of the
\* media, through deletions, interruptions and damage.
PerceptionHolds ==
    /\ PerceptionOK
    /\ MediaBehindEveryReference
    /\ BackupsFailForACause
    /\ TurnsRestOnTheirMedia
=============================================================================
