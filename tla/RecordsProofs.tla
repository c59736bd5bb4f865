----------------------------- MODULE RecordsProofs -----------------------------
(***************************************************************************)
(* Proofs about what the Mind records: the evidence of what it perceived    *)
(* (Perception), the settings administrators save (AdminSettings), who      *)
(* reasoned about a turn and the first choice of an identity                *)
(* (BodyReasoning), consolidations (Sleep), the current-state ledger        *)
(* (StateLedger), and beliefs: the journal that tells them, the evidence    *)
(* behind them and what they rest on (BeliefGovernance).  People and        *)
(* Accounts have proof modules of their own.                                *)
(*                                                                         *)
(* Each component is proved about for its own specification; the one that   *)
(* the run checks, in which one of them moves, implements each of them      *)
(* (RecordsMove).                                                           *)
(***************************************************************************)
EXTENDS MCRecords, FiniteSetTheorems, SequenceTheorems, TLAPS

-----------------------------------------------------------------------------
(* Perception and evidence *)

LookStages == {"idle", "preserving", "preserved", "admitted", "interpreted", "turning"}

PlookRecord == [stage : LookStages, evidence : Evidence \cup {NoEvidence}, way : Ways,
                heard : Evidence \cup {NoEvidence}]
PbackupRecord == [stage : {"idle", "copying", "failed", "complete"},
                  index : SUBSET Evidence, got : SUBSET Evidence]

PerceptionTyped ==
    /\ stored \subseteq Evidence
    /\ look \in [Observers -> PlookRecord]
    /\ backup \in PbackupRecord

\* Media that was preserved: it is in the store, or was deleted from there.
Preserved(e) == e \in stored \cup deleted

\* What the steps of an observation have left behind when it reaches a stage.
LookLeft(x) ==
    /\ x.stage = "idle" => x = NoLook
    /\ x.stage # "idle" => x.evidence \in Evidence
    /\ x.stage \in {"preserved", "admitted", "interpreted", "turning"} => Preserved(x.evidence)
    /\ x.stage \in {"admitted", "interpreted", "turning"} =>
          Entry("admitted", x.evidence) \in entries
    /\ x.stage \in {"interpreted", "turning"} => Entry("interpreted", x.evidence) \in entries
    /\ x.stage = "turning" /\ x.way = "spoken" => x.heard = x.evidence

PerceptionKept ==
    /\ PerceptionTyped
    /\ PerceptionHolds
    /\ \A o \in Observers : LookLeft(look[o])
    /\ review # NoEvidence => review \in Evidence /\ Preserved(review)
    /\ \A e \in backup.index : Preserved(e)

\* The journal and what was preserved only grow.
PerceptionGrows == entries \subseteq entries' /\ \A e : Preserved(e) => Preserved(e)'

LEMMA PerceptionStepsGrow ==
    ASSUME PerceptionNext
    PROVE  PerceptionGrows
<1>1. ASSUME NEW o \in Observers, ObserverSteps(o)
      PROVE  PerceptionGrows
  BY <1>1 DEF ObserverSteps, Preserve, Admit, Interpret, Understand, Turn, Interrupted, Unlooked,
              PerceptionGrows, Preserved
<1>2. ASSUME NEW o \in Observers, NEW e \in Evidence, NEW way \in Ways, Perceive(o, e, way)
      PROVE  PerceptionGrows
  BY <1>2 DEF Perceive, Unlooked, PerceptionGrows, Preserved
<1>3. ASSUME NEW e \in Evidence, Delete(e) \/ Damage(e) \/ StartReview(e)
      PROVE  PerceptionGrows
  BY <1>3 DEF Delete, Damage, StartReview, Looking, PerceptionGrows, Preserved
<1>4. ASSUME FinishReview \/ Snapshot \/ Download \/ Discard
      PROVE  PerceptionGrows
  BY <1>4 DEF FinishReview, Snapshot, Download, Discard, Looking, PerceptionGrows, Preserved
<1> QED BY <1>1, <1>2, <1>3, <1>4 DEF PerceptionNext

LEMMA LookLeftStays ==
    ASSUME PerceptionGrows, NEW x, LookLeft(x)
    PROVE  LookLeft(x)'
BY DEF PerceptionGrows, LookLeft, Preserved

\* A step of one observation: what it leaves is there, and so is the others'.
LEMMA LookMoves ==
    ASSUME PerceptionKept, PerceptionGrows, NEW o \in Observers, NEW x \in PlookRecord,
           LookLeft(x)', look' = [look EXCEPT ![o] = x]
    PROVE  look' \in [Observers -> PlookRecord] /\ \A p \in Observers : LookLeft(look[p])'
<1>1. look \in [Observers -> PlookRecord]
  BY DEF PerceptionKept, PerceptionTyped
<1>2. look' \in [Observers -> PlookRecord] /\ \A p \in Observers : look'[p] = IF p = o THEN x ELSE look[p]
  BY <1>1
<1>3. ASSUME NEW p \in Observers PROVE LookLeft(look[p])'
  <2>1. PICK y : y = look'[p]
    OBVIOUS
  <2>2. CASE p = o
    BY <1>2, <2>1, <2>2
  <2>3. CASE p # o
    <3>1. y = look[p] /\ LookLeft(y)
      BY <1>2, <2>1, <2>3 DEF PerceptionKept
    <3> QED BY <2>1, <3>1, LookLeftStays
  <2> QED BY <2>2, <2>3
<1> QED BY <1>2, <1>3

LEMMA LooksStay ==
    ASSUME PerceptionKept, PerceptionGrows, UNCHANGED look
    PROVE  look' \in [Observers -> PlookRecord] /\ \A p \in Observers : LookLeft(look[p])'
<1>1. ASSUME NEW p \in Observers PROVE LookLeft(look[p])'
  <2>1. PICK y : y = look[p]
    OBVIOUS
  <2>2. LookLeft(y)'
    BY <2>1, LookLeftStays DEF PerceptionKept
  <2> QED BY <2>1, <2>2
<1> QED BY <1>1 DEF PerceptionKept, PerceptionTyped

\* What every step leaves of the observations.
LEMMA LooksKept ==
    ASSUME PerceptionKept, PerceptionNext
    PROVE  look' \in [Observers -> PlookRecord] /\ \A p \in Observers : LookLeft(look[p])'
<1>0. PerceptionGrows
  BY PerceptionStepsGrow
<1>1. look \in [Observers -> PlookRecord] /\ stored \subseteq Evidence /\ NoLook \in PlookRecord
  BY DEF PerceptionKept, PerceptionTyped, NoLook, PlookRecord, LookStages, Ways
<1>2. ASSUME NEW o \in Observers, NEW e \in Evidence, NEW way \in Ways, Perceive(o, e, way)
      PROVE  look' \in [Observers -> PlookRecord] /\ \A p \in Observers : LookLeft(look[p])'
  <2> DEFINE x == [NoLook EXCEPT !.stage = IF e \in stored THEN "preserved" ELSE "preserving",
                                 !.evidence = e, !.way = way]
  <2>1. look' = [look EXCEPT ![o] = x]
    BY <1>2 DEF Perceive
  <2>2. x \in PlookRecord
    BY DEF NoLook, PlookRecord, LookStages
  <2>3. LookLeft(x)
    BY DEF NoLook, LookLeft, Preserved
  <2>4. PICK y : y = x
    OBVIOUS
  <2> HIDE DEF x
  <2>5. LookLeft(y)'
    BY <1>0, <2>3, <2>4, LookLeftStays
  <2> QED BY <1>0, <2>1, <2>2, <2>4, <2>5, LookMoves
<1>3. ASSUME NEW o \in Observers, LookEnds(o)
      PROVE  look' \in [Observers -> PlookRecord] /\ \A p \in Observers : LookLeft(look[p])'
  <2>1. LookLeft(NoLook)'
    BY DEF LookLeft, NoLook
  <2> QED BY <1>0, <1>1, <1>3, <2>1, LookMoves DEF LookEnds
<1>4. ASSUME NEW o \in Observers, ObserverSteps(o), ~LookEnds(o)
      PROVE  look' \in [Observers -> PlookRecord] /\ \A p \in Observers : LookLeft(look[p])'
  <2>1. PICK y : y = look[o]
    OBVIOUS
  <2>2. y \in PlookRecord /\ LookLeft(y)
    BY <1>1, <2>1 DEF PerceptionKept
  <2>3. LookLeft(y)'
    BY <1>0, <2>2, LookLeftStays
  <2>4. PICK z \in PlookRecord : LookLeft(z)' /\ look' = [look EXCEPT ![o] = z]
    <3>1. CASE Preserve(o)
      <4> DEFINE z == [y EXCEPT !.stage = "preserved"]
      <4>1. look' = [look EXCEPT ![o] = z] /\ y.stage = "preserving"
        BY <1>1, <1>4, <2>1, <3>1 DEF Preserve, To
      <4>2. z \in PlookRecord
        BY <2>2 DEF PlookRecord, LookStages
      <4>3. Preserved(y.evidence)' /\ y.evidence \in Evidence
        BY <2>1, <2>2, <3>1, <4>1 DEF Preserve, Preserved, LookLeft
      <4>4. LookLeft(z)'
        BY <2>2, <4>1, <4>3 DEF LookLeft, PlookRecord, Preserved
      <4> QED BY <4>1, <4>2, <4>4
    <3>2. CASE Admit(o)
      <4> DEFINE z == [y EXCEPT !.stage = "admitted"]
      <4>1. look' = [look EXCEPT ![o] = z] /\ y.stage = "preserved"
        BY <1>1, <2>1, <3>2 DEF Admit, To
      <4>2. z \in PlookRecord
        BY <2>2 DEF PlookRecord, LookStages
      <4>3. Preserved(y.evidence)' /\ y.evidence \in Evidence
            /\ Entry("admitted", y.evidence) \in entries'
        BY <2>1, <2>3, <3>2, <4>1 DEF Admit, LookLeft, Preserved
      <4>4. LookLeft(z)'
        BY <2>2, <4>1, <4>3 DEF LookLeft, PlookRecord, Preserved
      <4> QED BY <4>1, <4>2, <4>4
    <3>3. CASE Interpret(o)
      <4>1. PICK heard \in Evidence \cup {NoEvidence} :
               look' = [look EXCEPT ![o].stage = "interpreted", ![o].heard = heard]
        BY <3>3 DEF Interpret
      <4> DEFINE z == [y EXCEPT !.stage = "interpreted", !.heard = heard]
      <4>2. look' = [look EXCEPT ![o] = z] /\ y.stage = "admitted"
        BY <1>1, <2>1, <3>3, <4>1 DEF Interpret
      <4>3. z \in PlookRecord
        BY <2>2 DEF PlookRecord, LookStages
      <4>4. /\ Preserved(y.evidence)' /\ y.evidence \in Evidence
            /\ Entry("admitted", y.evidence) \in entries'
            /\ Entry("interpreted", y.evidence) \in entries'
        BY <2>1, <2>3, <3>3, <4>2 DEF Interpret, LookLeft, Preserved
      <4>5. LookLeft(z)'
        BY <2>2, <4>2, <4>4 DEF LookLeft, PlookRecord, Preserved
      <4> QED BY <4>2, <4>3, <4>5
    <3>4. CASE Understand(o)
      <4> DEFINE z == [y EXCEPT !.stage = "turning"]
      <4>1. look' = [look EXCEPT ![o] = z] /\ y.stage = "interpreted"
            /\ (y.way = "expressed" \/ y.heard = y.evidence)
        BY <1>1, <1>4, <2>1, <3>4 DEF Understand, To
      <4>2. z \in PlookRecord
        BY <2>2 DEF PlookRecord, LookStages
      <4>3. LookLeft(z)'
        BY <2>2, <2>3, <4>1 DEF LookLeft, PlookRecord, Preserved
      <4> QED BY <4>1, <4>2, <4>3
    <3> QED BY <1>4, <3>1, <3>2, <3>3, <3>4 DEF ObserverSteps, Turn, Interrupted
  <2> QED BY <1>0, <2>4, LookMoves
<1>5. ASSUME UNCHANGED look
      PROVE  look' \in [Observers -> PlookRecord] /\ \A p \in Observers : LookLeft(look[p])'
  BY <1>0, <1>5, LooksStay
<1>6. ASSUME NEW e \in Evidence, Delete(e) \/ Damage(e) \/ StartReview(e) PROVE UNCHANGED look
  BY <1>6 DEF Delete, Damage, StartReview, Looking
<1>7. ASSUME FinishReview \/ Snapshot \/ Download \/ Discard PROVE UNCHANGED look
  BY <1>7 DEF FinishReview, Snapshot, Download, Discard, Looking
<1> QED BY <1>2, <1>3, <1>4, <1>5, <1>6, <1>7 DEF PerceptionNext

\* What the journal and the turns say: each entry has its media behind it when it
\* is appended, and each turn its entries.
JournalTells ==
    /\ entries \subseteq [status : Statuses, evidence : Evidence]
    /\ \A x \in entries : Preserved(x.evidence)
    /\ TurnsRestOnTheirMedia

LEMMA JournalTellsStays ==
    ASSUME JournalTells, PerceptionGrows, UNCHANGED <<entries, turns>>
    PROVE  JournalTells'
BY DEF JournalTells, PerceptionGrows, TurnsRestOnTheirMedia, Preserved

LEMMA EntryAppended ==
    ASSUME JournalTells, PerceptionGrows, NEW status \in Statuses, NEW e \in Evidence, Preserved(e),
           entries' = entries \cup {Entry(status, e)}, UNCHANGED turns
    PROVE  JournalTells'
<1>1. Entry(status, e) \in [status : Statuses, evidence : Evidence] /\ Entry(status, e).evidence = e
  BY DEF Entry
<1>2. \A x \in entries' : Preserved(x.evidence)'
  BY <1>1 DEF JournalTells, PerceptionGrows, Preserved
<1>3. TurnsRestOnTheirMedia'
  BY DEF JournalTells, TurnsRestOnTheirMedia
<1> QED BY <1>1, <1>2, <1>3 DEF JournalTells

LEMMA JournalKept ==
    ASSUME PerceptionKept, PerceptionNext
    PROVE  JournalTells'
<1>0. PerceptionGrows
  BY PerceptionStepsGrow
<1>1. JournalTells
  BY DEF PerceptionKept, PerceptionHolds, PerceptionOK, MediaBehindEveryReference, JournalTells,
         Preserved
<1>2. ASSUME NEW o \in Observers, ObserverSteps(o)
      PROVE  JournalTells'
  <2>1. LookLeft(look[o]) /\ look[o] \in PlookRecord
    BY DEF PerceptionKept, PerceptionTyped
  <2>2. CASE Admit(o)
    <3>1. look[o].evidence \in Evidence /\ Preserved(look[o].evidence)
      BY <2>1, <2>2 DEF Admit, LookLeft
    <3> QED BY <1>0, <1>1, <2>2, <3>1, EntryAppended DEF Admit, Statuses
  <2>3. CASE Interpret(o)
    <3>1. look[o].evidence \in Evidence /\ Preserved(look[o].evidence)
      BY <2>1, <2>3 DEF Interpret, LookLeft
    <3> QED BY <1>0, <1>1, <2>3, <3>1, EntryAppended DEF Interpret, Statuses
  <2>4. CASE Turn(o)
    <3>1. /\ {Entry("admitted", look[o].evidence), Entry("interpreted", look[o].evidence)} \subseteq entries
          /\ look[o].way = "spoken" => look[o].heard = look[o].evidence
      BY <2>1, <2>4 DEF Turn, LookLeft
    <3>2. TurnsRestOnTheirMedia'
      BY <1>1, <2>4, <3>1 DEF JournalTells, TurnsRestOnTheirMedia, Turn
    <3> QED BY <1>0, <1>1, <2>4, <3>2 DEF JournalTells, PerceptionGrows, Preserved, Turn
  <2>5. CASE Preserve(o) \/ Understand(o) \/ Interrupted(o)
    BY <1>0, <1>1, <2>5, JournalTellsStays DEF Preserve, Understand, Interrupted
  <2> QED BY <1>2, <2>2, <2>3, <2>4, <2>5 DEF ObserverSteps
<1>3. ASSUME NEW o \in Observers, NEW e \in Evidence, NEW way \in Ways, Perceive(o, e, way)
      PROVE  JournalTells'
  BY <1>0, <1>1, <1>3, JournalTellsStays DEF Perceive
<1>4. ASSUME NEW e \in Evidence, Delete(e) \/ Damage(e) \/ StartReview(e)
      PROVE  JournalTells'
  BY <1>0, <1>1, <1>4, JournalTellsStays DEF Delete, Damage, StartReview, Looking
<1>5. CASE FinishReview
  <2>1. review \in Evidence /\ Preserved(review) /\ UNCHANGED turns
    BY <1>5 DEF FinishReview, Looking, PerceptionKept
  <2>2. CASE entries' = entries \cup {Entry("reviewed", review)}
    BY <1>0, <1>1, <2>1, <2>2, EntryAppended DEF Statuses
  <2>3. CASE UNCHANGED entries
    BY <1>0, <1>1, <2>1, <2>3, JournalTellsStays
  <2> QED BY <1>5, <2>2, <2>3 DEF FinishReview
<1>6. CASE Snapshot \/ Download \/ Discard
  BY <1>0, <1>1, <1>6, JournalTellsStays DEF Snapshot, Download, Discard, Looking
<1> QED BY <1>2, <1>3, <1>4, <1>5, <1>6 DEF PerceptionNext

\* The store, the review and the backup.
StoreKept ==
    /\ stored \subseteq Evidence /\ damaged \subseteq stored
    /\ review # NoEvidence => review \in Evidence /\ Preserved(review)
    /\ backup \in PbackupRecord
    /\ backup.got \subseteq backup.index
    /\ \A e \in backup.index : Preserved(e)
    /\ BackupsFailForACause

LEMMA StoreStaysKept ==
    ASSUME PerceptionKept, PerceptionNext
    PROVE  StoreKept'
<1>0. PerceptionGrows
  BY PerceptionStepsGrow
<1>1. StoreKept
  BY DEF PerceptionKept, PerceptionTyped, PerceptionHolds, PerceptionOK, StoreKept
<1>2. ASSUME NEW o \in Observers, ObserverSteps(o)
      PROVE  StoreKept'
  <2>1. stored' \subseteq Evidence /\ stored \subseteq stored'
    <3>1. look[o].stage = "preserving" => look[o].evidence \in Evidence
      BY DEF PerceptionKept, LookLeft
    <3> QED BY <1>1, <1>2, <3>1 DEF StoreKept, ObserverSteps, Preserve, Admit, Interpret, Understand, Turn,
                                  Interrupted
  <2>2. UNCHANGED <<deleted, damaged, review, backup>>
    BY <1>2 DEF ObserverSteps, Preserve, Admit, Interpret, Understand, Turn, Interrupted, Unlooked
  <2> QED BY <1>1, <2>1, <2>2 DEF StoreKept, Preserved, BackupsFailForACause
<1>3. ASSUME NEW o \in Observers, NEW e \in Evidence, NEW way \in Ways, Perceive(o, e, way)
      PROVE  StoreKept'
  BY <1>1, <1>3 DEF Perceive, Unlooked, StoreKept, Preserved, BackupsFailForACause
<1>4. ASSUME NEW e \in Evidence, Delete(e) \/ Damage(e) \/ StartReview(e)
      PROVE  StoreKept'
  BY <1>1, <1>4 DEF Delete, Damage, StartReview, StoreKept, Preserved, BackupsFailForACause
<1>5. CASE FinishReview
  BY <1>1, <1>5 DEF FinishReview, StoreKept, Preserved, BackupsFailForACause
<1>6. CASE Snapshot
  <2>1. References(entries) \subseteq Evidence /\ \A e \in References(entries) : Preserved(e)
    BY DEF References, PerceptionKept, PerceptionHolds, PerceptionOK, MediaBehindEveryReference,
           Preserved
  <2> QED BY <1>1, <1>6, <2>1 DEF Snapshot, StoreKept, PbackupRecord, Preserved, BackupsFailForACause
<1>7. CASE Download
  <2>1. PICK old \in PbackupRecord : old = backup
    BY <1>1 DEF StoreKept
  <2>2. old.got \subseteq old.index /\ \A e \in old.index : Preserved(e)
    BY <1>1, <2>1 DEF StoreKept
  <2>3. UNCHANGED <<stored, damaged, deleted, review>> /\ old.stage = "copying"
    BY <1>7, <2>1 DEF Download
  <2>4. CASE \E e \in old.index \ old.got : e \in stored \ damaged /\ backup' = [old EXCEPT !.got = @ \cup {e}]
    <3>1. PICK e \in old.index \ old.got : backup' = [old EXCEPT !.got = @ \cup {e}]
      BY <2>4
    <3>2. /\ backup' \in PbackupRecord /\ backup'.index = old.index /\ backup'.got \subseteq old.index
          /\ backup'.stage = "copying"
      BY <2>2, <2>3, <3>1 DEF PbackupRecord
    <3> QED BY <1>1, <2>2, <2>3, <3>2 DEF StoreKept, Preserved, BackupsFailForACause
  <2>5. CASE \E e \in old.index \ old.got : e \notin stored \ damaged
                                        /\ backup' = [old EXCEPT !.stage = "failed"]
    <3>1. PICK e \in old.index \ old.got : e \notin stored \ damaged /\ backup' = [old EXCEPT !.stage = "failed"]
      BY <2>5
    <3>2. /\ backup' \in PbackupRecord /\ backup'.index = old.index /\ backup'.got = old.got
      BY <3>1 DEF PbackupRecord
    <3>3. e \in deleted \cup damaged
      BY <2>2, <3>1 DEF Preserved
    <3> QED BY <1>1, <2>2, <2>3, <3>1, <3>2, <3>3 DEF StoreKept, Preserved, BackupsFailForACause
  <2>6. CASE backup' = [old EXCEPT !.stage = "complete"]
    <3>1. /\ backup' \in PbackupRecord /\ backup'.index = old.index /\ backup'.got = old.got
          /\ backup'.stage = "complete"
      BY <2>6 DEF PbackupRecord
    <3> QED BY <1>1, <2>2, <2>3, <3>1 DEF StoreKept, Preserved, BackupsFailForACause
  <2> QED BY <1>7, <2>1, <2>4, <2>5, <2>6 DEF Download
<1>8. CASE Discard
  BY <1>1, <1>8 DEF Discard, NoBackup, StoreKept, PbackupRecord, Preserved, BackupsFailForACause
<1> QED BY <1>2, <1>3, <1>4, <1>5, <1>6, <1>7, <1>8 DEF PerceptionNext

LEMMA PerceptionKeptHolds == PerceptionSpec => []PerceptionKept
<1>1. PerceptionInit => PerceptionKept
  BY DEF PerceptionInit, PerceptionKept, PerceptionTyped, PerceptionHolds, PerceptionOK, NoLook,
         PlookRecord, LookStages, Ways, NoBackup, PbackupRecord, MediaBehindEveryReference,
         BackupsFailForACause, TurnsRestOnTheirMedia, LookLeft
<1>2. PerceptionKept /\ [PerceptionNext]_perceptionVars => PerceptionKept'
  <2>1. ASSUME PerceptionKept, PerceptionNext PROVE PerceptionKept'
    <3>1. PerceptionOK'
      BY <2>1, LooksKept, JournalKept, StoreStaysKept DEF PerceptionOK, LookLeft, JournalTells, StoreKept
    <3>2. PerceptionHolds'
      BY <2>1, <3>1, JournalKept, StoreStaysKept
         DEF PerceptionHolds, MediaBehindEveryReference, JournalTells, StoreKept, Preserved
    <3> QED BY <2>1, <3>2, LooksKept, StoreStaysKept DEF PerceptionKept, PerceptionTyped, StoreKept
  <2>2. ASSUME PerceptionKept, UNCHANGED perceptionVars PROVE PerceptionKept'
    BY <2>2 DEF perceptionVars, PerceptionKept, PerceptionTyped, PerceptionHolds, PerceptionOK,
                MediaBehindEveryReference, BackupsFailForACause, TurnsRestOnTheirMedia, LookLeft,
                Preserved
  <2> QED BY <2>1, <2>2
<1> QED BY <1>1, <1>2, PTL DEF PerceptionSpec

\* What the journal, a turn and a backup say of sensory evidence is true of the
\* media, for any media and observers: a failure between the steps of perceive
\* leaves no reference without media, a backup that fails lists media that was
\* deleted or damaged, and a turn says what was heard in the media it is about.
THEOREM PerceptionAlwaysHolds == PerceptionSpec => []PerceptionHolds
<1>1. PerceptionKept => PerceptionHolds
  BY DEF PerceptionKept
<1> QED BY <1>1, PerceptionKeptHolds, PTL

-----------------------------------------------------------------------------
(* Administration *)

Setting == [rev : 0 .. MaxSaves, items : [Items -> Documents], revs : [Items -> Nat]]

OpenPage     == [step : {"open"}, seen : Setting]
SavingPage   == [step : {"saving"}, before : Setting \cup {Unsaved}, after : Setting,
                 checked : BOOLEAN, assigns : BOOLEAN]
ListPage     == [step : {"listed", "materializing"}, items : [Items -> Documents]]
AssignPage   == [step : {"assigning"}]
DocumentPage == [step : {"document"}, shown : Documents]

Pages == OpenPage \cup SavingPage \cup ListPage \cup AssignPage \cup DocumentPage

Replacement == [before : Documents, after : Documents]

SettingsTyped ==
    /\ shape \in Shapes
    /\ saved \in Setting \cup {Unsaved}
    /\ inline \in [Promoted -> Options \cup {Nothing}]
    /\ assigned \in BOOLEAN
    /\ identity \in Documents
    /\ history \in Seq(Replacement)
    /\ shelf \in [Admins -> {Shut} \cup Pages]

\* A record apart from what a catalog promotes.
PlainRecord(r) ==
    IF r = Unsaved
    THEN [rev |-> 0, revs |-> [i \in Items |-> 0], items |-> [i \in Items |-> Default]]
    ELSE r

\* What tables promote into a catalog is not part of its record.
Promotes(r) == shape = "catalog" /\ r = Unsaved

\* A record that a page shows is an earlier one of the setting: what has its
\* revision still has its content, unless that is promoted.
Earlier(seen, r) ==
    LET now == PlainRecord(r)
    IN  IF shape = "skills"
        THEN \A i \in Items : /\ seen.revs[i] <= now.revs[i]
                              /\ seen.revs[i] = now.revs[i] => seen.items[i] = now.items[i]
        ELSE /\ seen.rev <= now.rev
             /\ seen.rev = now.rev /\ ~Promotes(r) => seen.items = now.items

\* What a save is about to write follows what it read: by one revision, and under
\* a checked revision by one item.
SaveKept(p) ==
    p \in SavingPage =>
        LET base == PlainRecord(p.before)
        IN  /\ p.after.rev = base.rev + 1
            /\ shape = "skills" =>
                  \A i \in Items :
                      \/ p.after.revs[i] = base.revs[i] + 1
                      \/ p.after.revs[i] = base.revs[i] /\ p.after.items[i] = base.items[i]
            /\ p.checked /\ ~Promotes(p.before) =>
                  \E i \in Items : \A j \in Items \ {i} : p.after.items[j] = base.items[j]

PageKept(p) ==
    /\ p \in OpenPage => Earlier(p.seen, saved)
    /\ SaveKept(p)
    /\ p \in ListPage => shape = "catalog"

SettingsKept ==
    /\ SettingsTyped
    /\ \A w \in Admins : shelf[w] # Shut => PageKept(shelf[w])
    /\ HistoryTellsDocument

LEMMA EffectiveTyped ==
    ASSUME SettingsTyped, NEW r \in Setting \cup {Unsaved}
    PROVE  /\ Effective(r) \in Setting
           /\ Effective(r).rev = PlainRecord(r).rev /\ Effective(r).revs = PlainRecord(r).revs
           /\ ~Promotes(r) => Effective(r).items = PlainRecord(r).items
<1>1. CASE r = Unsaved
  <2>1. Packaged.items \in [Items -> Documents]
    <3>1. \A i \in Promoted : inline[i] \in Options \cup {Nothing}
      BY DEF SettingsTyped
    <3> QED BY <3>1 DEF Packaged, Documents
  <2>2. /\ Packaged = [rev |-> 0, revs |-> [i \in Items |-> 0], items |-> Packaged.items]
        /\ shape # "catalog" => Packaged.items = [i \in Items |-> Default]
    BY DEF Packaged
  <2>3. Packaged \in Setting
    BY <2>1, <2>2, SettingsAssumption DEF Setting
  <2> QED BY <1>1, <2>2, <2>3 DEF Effective, PlainRecord, Promotes
<1>2. CASE r # Unsaved
  BY <1>2 DEF Effective, PlainRecord
<1> QED BY <1>1, <1>2

LEMMA SettingsSaved ==
    ASSUME NEW r \in Setting
    PROVE  r # Unsaved
<1>1. r \in [rev : Nat, items : [Items -> Documents], revs : [Items -> Nat]]
  BY SettingsAssumption DEF Setting
<1> QED BY <1>1, SettingsAssumption

LEMMA PagesApart ==
    /\ \A p \in OpenPage : p.step = "open" /\ p \notin SavingPage \cup ListPage
    /\ \A p \in SavingPage : p.step = "saving" /\ p \notin OpenPage \cup ListPage
    /\ \A p \in DocumentPage : p.step = "document" /\ p \notin OpenPage \cup SavingPage \cup ListPage
    /\ \A p \in AssignPage : p.step = "assigning" /\ p \notin OpenPage \cup SavingPage \cup ListPage
    /\ \A p \in ListPage : p.step \in {"listed", "materializing"} /\ p \notin OpenPage \cup SavingPage
BY DEF OpenPage, SavingPage, DocumentPage, AssignPage, ListPage

LEMMA PageAt ==
    ASSUME SettingsTyped, NEW w \in Admins, NEW step, At(w, step)
    PROVE  /\ shelf[w] \in Pages /\ shelf[w] # Shut /\ shelf[w].step = step
           /\ step = "open" => shelf[w] \in OpenPage
           /\ step = "saving" => shelf[w] \in SavingPage
           /\ step \in {"listed", "materializing"} => shelf[w] \in ListPage
<1>1. PICK p : p = shelf[w]
  OBVIOUS
<1>2. p \in Pages /\ p # Shut /\ p.step = step
  BY <1>1 DEF SettingsTyped, At
<1> QED BY <1>1, <1>2, PagesApart DEF Pages

\* What a save writes is a setting, and whatever a page shows is an earlier one.
LEMMA SavedLater ==
    ASSUME NEW p \in SavingPage, SaveKept(p), NEW seen \in Setting, Earlier(seen, p.before)
    PROVE  Earlier(seen, p.after)
<1>1. PICK base : base = PlainRecord(p.before)
  OBVIOUS
<1>2. PICK later \in Setting : later = p.after
  BY DEF SavingPage
<1>3. PlainRecord(later) = later /\ later # Unsaved
  BY SettingsSaved DEF PlainRecord
<1>4. base.rev \in Nat /\ base.revs \in [Items -> Nat]
  <2>1. CASE p.before = Unsaved
    BY <1>1, <2>1 DEF PlainRecord
  <2>2. CASE p.before \in Setting
    BY <1>1, <2>2, SettingsSaved, SettingsAssumption DEF PlainRecord, Setting
  <2> QED BY <2>1, <2>2 DEF SavingPage
<1>5. CASE shape = "skills"
  <2>1. ASSUME NEW i \in Items
        PROVE  seen.revs[i] <= later.revs[i] /\ (seen.revs[i] = later.revs[i] => seen.items[i] = later.items[i])
    <3>1. seen.revs[i] <= base.revs[i] /\ (seen.revs[i] = base.revs[i] => seen.items[i] = base.items[i])
      BY <1>1, <1>5 DEF Earlier
    <3>2. seen.revs[i] \in Nat /\ base.revs[i] \in Nat
      BY <1>4 DEF Setting
    <3>3. \/ later.revs[i] = base.revs[i] + 1
          \/ later.revs[i] = base.revs[i] /\ later.items[i] = base.items[i]
      BY <1>1, <1>2, <1>5 DEF SaveKept
    <3> QED BY <3>1, <3>2, <3>3
  <2> QED BY <1>2, <1>3, <1>5, <2>1 DEF Earlier
<1>6. CASE shape # "skills"
  <2>1. seen.rev <= base.rev /\ seen.rev \in Nat
    BY <1>1, <1>6, SettingsAssumption DEF Earlier, Setting
  <2>2. later.rev = base.rev + 1
    BY <1>1, <1>2 DEF SaveKept
  <2>3. seen.rev <= later.rev /\ seen.rev # later.rev
    BY <1>4, <2>1, <2>2
  <2> QED BY <1>2, <1>3, <1>6, <2>3 DEF Earlier
<1> QED BY <1>5, <1>6

\* A step of one page: the page is well kept, and nothing it did takes a page of
\* anyone else's out of date in a way its revision does not tell.
LEMMA PageMoves ==
    ASSUME SettingsKept, UNCHANGED shape, NEW w \in Admins,
           NEW x \in {Shut} \cup Pages,
           x # Shut => PageKept(x)',
           PageBecomes(w, x),
           \A seen \in Setting : Earlier(seen, saved) => Earlier(seen, saved)'
    PROVE  /\ shelf' \in [Admins -> {Shut} \cup Pages]
           /\ \A v \in Admins : shelf'[v] # Shut => PageKept(shelf[v])'
<1>1. shelf \in [Admins -> {Shut} \cup Pages]
  BY DEF SettingsKept, SettingsTyped
<1>2. /\ shelf' \in [Admins -> {Shut} \cup Pages]
      /\ \A v \in Admins : shelf'[v] = IF v = w THEN x ELSE shelf[v]
  BY <1>1 DEF PageBecomes
<1>3. ASSUME NEW v \in Admins, shelf'[v] # Shut PROVE PageKept(shelf[v])'
  <2>1. PICK p : p = shelf'[v]
    OBVIOUS
  <2>2. CASE v = w
    BY <1>2, <1>3, <2>1, <2>2
  <2>3. CASE v # w
    <3>1. PageKept(p)
      BY <1>2, <1>3, <2>1, <2>3 DEF SettingsKept
    <3>2. p \in OpenPage => p.seen \in Setting
      BY DEF OpenPage
    <3>3. PageKept(p)'
      BY <3>1, <3>2 DEF PageKept, SaveKept, Promotes
    <3> QED BY <2>1, <3>3
  <2> QED BY <2>2, <2>3
<1> QED BY <1>2, <1>3

\* Nothing was saved: whatever was earlier still is.
LEMMA StillEarlier ==
    ASSUME UNCHANGED <<shape, saved>>
    PROVE  \A seen \in Setting : Earlier(seen, saved) => Earlier(seen, saved)'
BY DEF Earlier, Promotes

\* The page changes and nothing is saved.
LEMMA PageTurns ==
    ASSUME SettingsKept, UNCHANGED <<shape, saved>>, NEW w \in Admins,
           NEW x \in {Shut} \cup Pages, x # Shut => PageKept(x), PageBecomes(w, x)
    PROVE  /\ shelf' \in [Admins -> {Shut} \cup Pages]
           /\ \A v \in Admins : shelf'[v] # Shut => PageKept(shelf[v])'
<1>1. x # Shut => PageKept(x)'
  BY DEF PageKept, SaveKept, Earlier, Promotes
<1> QED BY <1>1, StillEarlier, PageMoves

\* The revision of what an administrator submits, and what it changes.
LEMMA RevisedKept ==
    ASSUME SettingsKept, NEW page \in OpenPage, PageKept(page), NEW i \in Items,
           NEW v \in Documents, NEW checked \in BOOLEAN, Effective(saved).rev < MaxSaves,
           checked => RevisionOf(page.seen, i) = RevisionOf(Effective(saved), i) /\ MayCheck
    PROVE  LET x == Saving(Revised(page.seen, i, v), checked, FALSE)
           IN  x \in SavingPage /\ SaveKept(x)
<1>1. SettingsTyped /\ saved \in Setting \cup {Unsaved}
  BY DEF SettingsKept, SettingsTyped
<1>2. PICK base \in Setting : base = Effective(saved)
  BY <1>1, EffectiveTyped
<1>3. PICK plain0 : plain0 = PlainRecord(saved)
  OBVIOUS
<1>4. /\ base.rev = plain0.rev /\ base.revs = plain0.revs
      /\ ~Promotes(saved) => base.items = plain0.items
  BY <1>1, <1>2, <1>3, EffectiveTyped
<1>5. /\ base.rev \in Nat /\ base.rev < MaxSaves
      /\ base.items \in [Items -> Documents] /\ base.revs \in [Items -> Nat]
      /\ page.seen \in Setting /\ page.seen.items \in [Items -> Documents]
  BY <1>2, SettingsAssumption DEF Setting, OpenPage
<1>6. PICK from \in [Items -> Documents] :
          from = IF shape \in {"fields", "skills"} THEN base.items ELSE page.seen.items
  BY <1>5
<1>7. PICK later \in [Items -> Documents] : later = [from EXCEPT ![i] = v]
  BY <1>6
<1>8. PICK revs \in [Items -> Nat] :
          revs = IF shape = "skills" THEN [base.revs EXCEPT ![i] = @ + 1] ELSE base.revs
  <2>1. base.revs[i] \in Nat /\ base.revs[i] + 1 \in Nat
    BY <1>5
  <2> QED BY <1>5, <2>1
<1>9. PICK after \in Setting :
          after = Revised(page.seen, i, v) /\ after.rev = base.rev + 1
          /\ after.items = later /\ after.revs = revs
  <2>1. Revised(page.seen, i, v) = [rev |-> base.rev + 1, items |-> later, revs |-> revs]
    BY <1>2, <1>6, <1>7, <1>8 DEF Revised
  <2>2. base.rev + 1 \in 0 .. MaxSaves
    BY <1>5, SettingsAssumption
  <2>3. [rev |-> base.rev + 1, items |-> later, revs |-> revs] \in Setting
    BY <2>2 DEF Setting
  <2> QED BY <2>1, <2>3
<1>10. PICK x \in SavingPage :
           x = Saving(after, checked, FALSE) /\ x.before = saved /\ x.after = after
           /\ x.checked = checked
  <2>1. PICK x : x = [step |-> "saving", before |-> saved, after |-> after, checked |-> checked,
                      assigns |-> FALSE]
    OBVIOUS
  <2>2. x \in SavingPage
    BY <1>1, <2>1 DEF SavingPage
  <2> QED BY <2>1, <2>2 DEF Saving
<1>11. shape = "skills" =>
          \A j \in Items : \/ after.revs[j] = base.revs[j] + 1
                           \/ after.revs[j] = base.revs[j] /\ after.items[j] = base.items[j]
  <2> SUFFICES ASSUME shape = "skills", NEW j \in Items
               PROVE  \/ after.revs[j] = base.revs[j] + 1
                      \/ after.revs[j] = base.revs[j] /\ after.items[j] = base.items[j]
      OBVIOUS
  <2>1. CASE j = i
    BY <1>5, <1>8, <1>9, <2>1
  <2>2. CASE j # i
    BY <1>5, <1>6, <1>7, <1>8, <1>9, <2>2
  <2> QED BY <2>1, <2>2
<1>12. checked /\ ~Promotes(saved) =>
           \A j \in Items \ {i} : after.items[j] = plain0.items[j]
  <2> SUFFICES ASSUME checked, ~Promotes(saved)
               PROVE  \A j \in Items \ {i} : after.items[j] = plain0.items[j]
      OBVIOUS
  <2>1. from = plain0.items
    <3>1. CASE shape \in {"fields", "skills"}
      BY <1>4, <1>6, <3>1
    <3>2. CASE shape \notin {"fields", "skills"}
      <4>1. page.seen.rev = plain0.rev
        BY <1>2, <1>4, <3>2 DEF RevisionOf
      <4>2. Earlier(page.seen, saved)
        BY DEF PageKept
      <4>3. page.seen.items = plain0.items
        BY <1>3, <3>2, <4>1, <4>2 DEF Earlier
      <4> QED BY <1>6, <3>2, <4>3
    <3> QED BY <3>1, <3>2
  <2> QED BY <1>6, <1>7, <1>9, <2>1
<1>13. SaveKept(x)
  <2>1. PlainRecord(x.before) = plain0 /\ x.after = after
    BY <1>3, <1>10
  <2>2. after.rev = plain0.rev + 1
    BY <1>4, <1>9
  <2>3. shape = "skills" =>
          \A j \in Items : \/ after.revs[j] = plain0.revs[j] + 1
                           \/ after.revs[j] = plain0.revs[j] /\ after.items[j] = plain0.items[j]
    <3>1. shape = "skills" => ~Promotes(saved)
      BY DEF Promotes
    <3> QED BY <1>4, <1>11, <3>1
  <2>4. x.checked /\ ~Promotes(x.before) =>
           \E k \in Items : \A j \in Items \ {k} : after.items[j] = plain0.items[j]
    BY <1>10, <1>12
  <2> QED BY <2>1, <2>2, <2>3, <2>4 DEF SaveKept
<1> QED BY <1>9, <1>10, <1>13

LEMMA PagesKept ==
    ASSUME SettingsKept, SettingsNext
    PROVE  /\ shape' \in Shapes /\ saved' \in Setting \cup {Unsaved}
           /\ inline' \in [Promoted -> Options \cup {Nothing}] /\ assigned' \in BOOLEAN
           /\ shelf' \in [Admins -> {Shut} \cup Pages]
           /\ \A v \in Admins : shelf'[v] # Shut => PageKept(shelf[v])'
<1> DEFINE Goal == /\ saved' \in Setting \cup {Unsaved}
                   /\ shelf' \in [Admins -> {Shut} \cup Pages]
                   /\ \A v \in Admins : shelf'[v] # Shut => PageKept(shelf[v])'
<1>1. /\ SettingsTyped /\ shape \in Shapes /\ saved \in Setting \cup {Unsaved}
      /\ inline \in [Promoted -> Options \cup {Nothing}] /\ assigned \in BOOLEAN
      /\ \A w \in Admins : shelf[w] \in {Shut} \cup Pages
      /\ identity \in Documents
  BY DEF SettingsKept, SettingsTyped
<1>2. PICK now \in Setting : now = Effective(saved)
  BY <1>1, EffectiveTyped
<1> USE DEF NoTables, NoDocuments, NoSettings
<1>3. UNCHANGED shape
  <2>1. ASSUME NEW w \in Admins,
               \/ OpenSetting(w) \/ Close(w) \/ Write(w) \/ OpenDocument(w)
               \/ \E i \in Items, v \in Settable : Submit(w, i, v)
        PROVE  UNCHANGED shape
    BY <2>1 DEF OpenSetting, Close, Write, OpenDocument, Submit
  <2>2. ASSUME NEW w \in Admins,
               \/ BeginAssignments(w) \/ Materialize(w) \/ Rewrite(w) \/ Assign(w)
               \/ \E v \in Options \cup {Default} : SaveDocument(w, v)
        PROVE  UNCHANGED shape
    BY <2>2 DEF BeginAssignments, Materialize, Rewrite, Assign, SaveDocument
  <2>3. ASSUME NEW i, NEW v, EditInline(i, v) PROVE UNCHANGED shape
    BY <2>3 DEF EditInline
  <2> QED BY <2>1, <2>2, <2>3 DEF SettingsNext
<1>4. inline' \in [Promoted -> Options \cup {Nothing}] /\ assigned' \in BOOLEAN
  <2>1. ASSUME NEW w \in Admins,
               \/ OpenSetting(w) \/ Close(w) \/ Write(w) \/ OpenDocument(w)
               \/ \E i \in Items, v \in Settable : Submit(w, i, v)
        PROVE  UNCHANGED <<inline, assigned>>
    BY <2>1 DEF OpenSetting, Close, Write, OpenDocument, Submit
  <2>2. ASSUME NEW w \in Admins,
               \/ BeginAssignments(w) \/ Materialize(w) \/ Rewrite(w)
               \/ \E v \in Options \cup {Default} : SaveDocument(w, v)
        PROVE  UNCHANGED <<inline, assigned>>
    BY <2>2 DEF BeginAssignments, Materialize, Rewrite, SaveDocument
  <2>3. ASSUME NEW w \in Admins, Assign(w) PROVE UNCHANGED inline /\ assigned' = TRUE
    BY <2>3 DEF Assign
  <2>4. ASSUME NEW i \in Promoted, NEW v \in Options \cup {Nothing}, EditInline(i, v)
        PROVE  inline' \in [Promoted -> Options \cup {Nothing}] /\ UNCHANGED assigned
    BY <1>1, <2>4 DEF EditInline
  <2> QED BY <1>1, <2>1, <2>2, <2>3, <2>4 DEF SettingsNext
<1>5. ASSUME NEW w \in Admins, PageBecomes(w, Shut), UNCHANGED saved PROVE Goal
  BY <1>1, <1>3, <1>5, PageTurns
<1>6. ASSUME NEW w \in Admins, NEW x \in ListPage \cup AssignPage \cup DocumentPage,
             x \in ListPage => shape = "catalog", PageBecomes(w, x), UNCHANGED saved
      PROVE  Goal
  <2>1. PageKept(x) /\ x \in Pages
    BY <1>6, PagesApart DEF PageKept, SaveKept, Pages
  <2> QED BY <1>1, <1>3, <1>6, <2>1, PageTurns
<1>7. ASSUME NEW w \in Admins, NEW x \in SavingPage, SaveKept(x), PageBecomes(w, x),
             UNCHANGED saved
      PROVE  Goal
  <2>1. PageKept(x) /\ x \in Pages
    BY <1>7, PagesApart DEF PageKept, Pages
  <2> QED BY <1>1, <1>3, <1>7, <2>1, PageTurns
<1>8. ASSUME NEW w \in Admins, OpenSetting(w) PROVE Goal
  <2>1. PICK x : x = [step |-> "open", seen |-> now]
    OBVIOUS
  <2>2. /\ x \in OpenPage /\ x \notin SavingPage /\ x.seen = now
        /\ PageBecomes(w, x) /\ UNCHANGED saved
    BY <1>2, <1>8, <2>1, PagesApart DEF OpenPage, OpenSetting
  <2>3. Earlier(now, saved)
    <3>1. /\ now.rev = PlainRecord(saved).rev /\ now.revs = PlainRecord(saved).revs
          /\ ~Promotes(saved) => now.items = PlainRecord(saved).items
      BY <1>1, <1>2, EffectiveTyped
    <3>2. now.rev \in Nat /\ now.revs \in [Items -> Nat]
      BY SettingsAssumption DEF Setting
    <3>3. \A i \in Items : now.revs[i] \in Nat
      BY <3>2
    <3>4. shape = "skills" => ~Promotes(saved)
      BY DEF Promotes
    <3> QED BY <3>1, <3>2, <3>3, <3>4 DEF Earlier
  <2>4. PageKept(x) /\ x \in Pages
    BY <2>2, <2>3, PagesApart DEF PageKept, SaveKept, Pages
  <2> QED BY <1>1, <1>3, <2>2, <2>4, PageTurns
<1>9. ASSUME NEW w \in Admins, OpenDocument(w) PROVE Goal
  <2>1. PICK x : x = [step |-> "document", shown |-> identity]
    OBVIOUS
  <2>2. x \in DocumentPage /\ x \notin ListPage /\ PageBecomes(w, x) /\ UNCHANGED saved
    BY <1>1, <1>9, <2>1, PagesApart DEF DocumentPage, OpenDocument
  <2> QED BY <1>6, <2>2
<1>10. ASSUME NEW w \in Admins, NEW i \in Items, NEW v \in Settable, Submit(w, i, v)
       PROVE  Goal
  <2>1. PICK p \in OpenPage : p = shelf[w] /\ PageKept(p)
    BY <1>1, <1>10, PageAt DEF Submit, Shows, SettingsKept
  <2>2. v \in Documents /\ Effective(saved).rev < MaxSaves /\ UNCHANGED saved
    BY <1>10 DEF Settable, Documents, Submit
  <2>3. CASE PageBecomes(w, Shut)
    BY <1>5, <2>2, <2>3
  <2>4. ASSUME NEW checked \in BOOLEAN,
               checked => RevisionOf(p.seen, i) = RevisionOf(Effective(saved), i) /\ MayCheck,
               PageBecomes(w, Saving(Revised(p.seen, i, v), checked, FALSE))
        PROVE  Goal
    <3>1. PICK x \in SavingPage : x = Saving(Revised(p.seen, i, v), checked, FALSE) /\ SaveKept(x)
      BY <2>1, <2>2, <2>4, RevisedKept
    <3> QED BY <1>7, <2>2, <2>4, <3>1
  <2>5. \/ PageBecomes(w, Shut)
        \/ \E checked \in BOOLEAN :
              /\ checked => RevisionOf(p.seen, i) = RevisionOf(Effective(saved), i) /\ MayCheck
              /\ PageBecomes(w, Saving(Revised(p.seen, i, v), checked, FALSE))
    BY <1>10, <2>1 DEF Submit, PageStale
  <2> QED BY <2>3, <2>4, <2>5
<1>11. ASSUME NEW w \in Admins, Write(w), saved = shelf[w].before PROVE Goal
  <2>1. PICK p \in SavingPage : p = shelf[w] /\ SaveKept(p) /\ p.before = saved
    BY <1>1, <1>11, PageAt DEF Write, SettingsKept, PageKept
  <2>2. PICK next \in Setting : next = p.after
    BY DEF SavingPage
  <2>3. PICK x \in {Shut} \cup AssignPage : PageBecomes(w, x) /\ saved' = next
    BY <1>11, <2>1, <2>2 DEF Write, AssignPage
  <2>4. \A seen \in Setting : Earlier(seen, saved) => Earlier(seen, next)
    BY <2>1, <2>2, SavedLater
  <2>5. \A seen \in Setting : Earlier(seen, saved) => Earlier(seen, saved)'
    BY <1>3, <2>3, <2>4 DEF Earlier, Promotes
  <2>6. x \in {Shut} \cup Pages /\ (x # Shut => PageKept(x)')
    BY PagesApart DEF PageKept, SaveKept, Pages
  <2>7. shelf' \in [Admins -> {Shut} \cup Pages] /\ \A v \in Admins : shelf'[v] # Shut => PageKept(shelf[v])'
    BY <1>3, <2>3, <2>5, <2>6, PageMoves
  <2> QED BY <2>3, <2>7
<1>12. ASSUME NEW w \in Admins, Write(w), saved # shelf[w].before PROVE Goal
  BY <1>5, <1>12 DEF Write
<1>13. ASSUME NEW w \in Admins, Close(w) \/ \E v \in Options \cup {Default} : SaveDocument(w, v)
       PROVE  Goal
  BY <1>5, <1>13 DEF Close, SaveDocument
<1>14. ASSUME NEW w \in Admins, BeginAssignments(w) PROVE Goal
  <2>1. PICK x : x = [step |-> "listed", items |-> now.items]
    OBVIOUS
  <2>2. x \in ListPage /\ shape = "catalog" /\ PageBecomes(w, x) /\ UNCHANGED saved
    BY <1>2, <1>14, <2>1 DEF ListPage, Setting, BeginAssignments
  <2> QED BY <1>6, <2>2
<1>15. ASSUME NEW w \in Admins, Materialize(w) PROVE Goal
  <2>1. PICK p \in ListPage : p = shelf[w] /\ shape = "catalog"
    BY <1>1, <1>15, PageAt DEF Materialize, SettingsKept, PageKept
  <2>2. [p EXCEPT !.step = "materializing"] \in ListPage /\ [step |-> "assigning"] \in AssignPage
    BY DEF ListPage, AssignPage
  <2>3. PICK x \in ListPage \cup AssignPage : PageBecomes(w, x) /\ UNCHANGED saved
    BY <1>15, <2>1, <2>2 DEF Materialize
  <2> QED BY <1>6, <2>1, <2>3
<1>16. ASSUME NEW w \in Admins, Rewrite(w) PROVE Goal
  <2>1. PICK items \in [Items -> Documents] : items = shelf[w].items /\ shape = "catalog"
    <3>1. PICK p \in ListPage : p = shelf[w] /\ shape = "catalog"
      BY <1>1, <1>16, PageAt DEF Rewrite, SettingsKept, PageKept
    <3> QED BY <3>1 DEF ListPage
  <2>2. now.rev \in Nat /\ now.rev < MaxSaves /\ now.rev + 1 \in 0 .. MaxSaves
    BY <1>2, <1>16, SettingsAssumption DEF Setting, Rewrite
  <2>3. PICK after \in Setting :
            /\ after = [now EXCEPT !.rev = @ + 1, !.items = items]
            /\ after.rev = now.rev + 1 /\ after.revs = now.revs
    <3>1. PICK r \in 0 .. MaxSaves, shown \in [Items -> Documents], revs \in [Items -> Nat] :
              now = [rev |-> r, items |-> shown, revs |-> revs]
      BY DEF Setting
    <3>2. now.revs \in [Items -> Nat]
      BY DEF Setting
    <3>3. PICK after : after = [rev |-> now.rev + 1, items |-> items, revs |-> now.revs]
      OBVIOUS
    <3>4. after \in Setting
      BY <2>2, <3>2, <3>3 DEF Setting
    <3>5. after = [now EXCEPT !.rev = @ + 1, !.items = items]
      <4>1. /\ DOMAIN now = {"rev", "items", "revs"} /\ DOMAIN after = {"rev", "items", "revs"}
            /\ after.rev = now.rev + 1 /\ after.items = items /\ after.revs = now.revs
        BY <3>1, <3>3
      <4> QED BY <3>1, <3>3, <4>1, Zenon
    <3> QED BY <3>3, <3>4, <3>5
  <2>4. PICK x \in SavingPage : x = Saving(after, FALSE, TRUE) /\ x.before = saved /\ x.after = after
                               /\ ~x.checked
    <3>1. PICK x : x = [step |-> "saving", before |-> saved, after |-> after, checked |-> FALSE,
                        assigns |-> TRUE]
      OBVIOUS
    <3>2. x \in SavingPage
      BY <1>1, <3>1 DEF SavingPage
    <3> QED BY <3>1, <3>2 DEF Saving
  <2>5. PageBecomes(w, x) /\ UNCHANGED saved
    BY <1>2, <1>16, <2>1, <2>3, <2>4 DEF Rewrite
  <2>6. SaveKept(x)
    BY <1>1, <1>2, <2>1, <2>3, <2>4, EffectiveTyped DEF SaveKept
  <2> QED BY <1>7, <2>5, <2>6
<1>17. ASSUME NEW w \in Admins, Assign(w) PROVE Goal
  BY <1>5, <1>17 DEF Assign
<1>18. ASSUME NEW i, NEW v, EditInline(i, v) PROVE Goal
  <2>1. UNCHANGED <<shape, saved, shelf>>
    BY <1>18 DEF EditInline
  <2> QED BY <2>1 DEF SettingsKept, SettingsTyped, PageKept, SaveKept, Earlier, Promotes
<1>19. Goal
  BY <1>8, <1>9, <1>10, <1>11, <1>12, <1>13, <1>14, <1>15, <1>16, <1>17, <1>18 DEF SettingsNext
<1> QED BY <1>1, <1>3, <1>4, <1>19

\* The journal of the governed document after one step.
LEMMA HistoryKept ==
    ASSUME SettingsKept, SettingsNext
    PROVE  identity' \in Documents /\ history' \in Seq(Replacement) /\ HistoryTellsDocument'
<1>1. identity \in Documents /\ history \in Seq(Replacement) /\ HistoryTellsDocument
  BY DEF SettingsKept, SettingsTyped
<1>2. ASSUME NEW w \in Admins, NEW v \in Options \cup {Default}, SaveDocument(w, v),
             identity = shelf[w].shown /\ v # identity
      PROVE  identity' \in Documents /\ history' \in Seq(Replacement) /\ HistoryTellsDocument'
  <2>1. PICK entry \in Replacement : entry = [before |-> identity, after |-> v]
    BY <1>1 DEF Replacement, Documents
  <2>2. identity' = v /\ history' = Append(history, entry) /\ entry.before = identity /\ entry.after = v
    BY <1>2, <2>1 DEF SaveDocument
  <2>3. /\ history' \in Seq(Replacement) /\ Len(history') = Len(history) + 1 /\ Len(history) \in Nat
        /\ history'[Len(history) + 1] = entry
        /\ \A k \in 1 .. Len(history) : history'[k] = history[k]
    BY <1>1, <2>2, AppendProperties, LenProperties
  <2>4. identity' = history'[Len(history')].after /\ history' # <<>>
    BY <2>2, <2>3, EmptySeq
  <2>5. ASSUME NEW k \in 1 .. Len(history')
        PROVE  history'[k].before = IF k = 1 THEN Default ELSE history'[k - 1].after
    <3>1. CASE k \in 1 .. Len(history)
      <4>1. history[k].before = IF k = 1 THEN Default ELSE history[k - 1].after
        BY <1>1, <3>1 DEF HistoryTellsDocument
      <4>2. history'[k] = history[k]
        BY <2>3, <3>1
      <4>3. k # 1 => history'[k - 1] = history[k - 1]
        <5>1. k # 1 => k - 1 \in 1 .. Len(history)
          BY <2>3, <3>1
        <5> QED BY <2>3, <5>1
      <4> QED BY <4>1, <4>2, <4>3
    <3>2. CASE k = Len(history) + 1
      <4>1. history'[k].before = identity
        BY <2>2, <2>3, <3>2
      <4>2. CASE history = <<>>
        BY <1>1, <3>2, <4>1, <4>2, <2>3, EmptySeq DEF HistoryTellsDocument
      <4>3. CASE history # <<>>
        <5>1. Len(history) >= 1 /\ k # 1 /\ k - 1 = Len(history) /\ k - 1 \in 1 .. Len(history)
          BY <1>1, <2>3, <3>2, <4>3, EmptySeq
        <5>2. identity = history[Len(history)].after
          BY <1>1, <4>3 DEF HistoryTellsDocument
        <5>3. history'[k - 1].after = identity
          BY <2>3, <5>1, <5>2
        <5> QED BY <4>1, <5>1, <5>3
      <4> QED BY <4>2, <4>3
    <3> QED BY <2>3, <3>1, <3>2
  <2>6. identity' \in Documents
    BY <2>2 DEF Documents
  <2> QED BY <2>2, <2>3, <2>4, <2>5, <2>6 DEF HistoryTellsDocument
<1>3. CASE UNCHANGED <<identity, history>>
  BY <1>1, <1>3 DEF HistoryTellsDocument
<1>4. ASSUME NEW w \in Admins, NEW v \in Options \cup {Default}, SaveDocument(w, v),
             ~(identity = shelf[w].shown /\ v # identity)
      PROVE  UNCHANGED <<identity, history>>
  BY <1>4 DEF SaveDocument, NoDocuments
<1>5. ASSUME NEW w \in Admins,
             \/ OpenSetting(w) \/ Write(w) \/ Close(w) \/ OpenDocument(w)
             \/ \E i \in Items, v \in Settable : Submit(w, i, v)
      PROVE  UNCHANGED <<identity, history>>
  BY <1>5 DEF OpenSetting, Write, Close, OpenDocument, Submit, NoDocuments
<1>6. ASSUME NEW w \in Admins,
             BeginAssignments(w) \/ Materialize(w) \/ Rewrite(w) \/ Assign(w)
      PROVE  UNCHANGED <<identity, history>>
  BY <1>6 DEF BeginAssignments, Materialize, Rewrite, Assign, NoDocuments
<1>7. ASSUME NEW i, NEW v, EditInline(i, v) PROVE UNCHANGED <<identity, history>>
  BY <1>7 DEF EditInline, NoDocuments
<1> QED BY <1>2, <1>3, <1>4, <1>5, <1>6, <1>7 DEF SettingsNext

LEMMA SettingsKeptHolds == SettingsSpec => []SettingsKept
<1>1. SettingsInit => SettingsKept
  <2> SUFFICES ASSUME SettingsInit PROVE SettingsKept
      OBVIOUS
  <2>1. SettingsTyped
    BY EmptySeq DEF SettingsInit, SettingsTyped, Documents
  <2>2. HistoryTellsDocument
    BY EmptySeq DEF SettingsInit, HistoryTellsDocument
  <2> QED BY <2>1, <2>2 DEF SettingsInit, SettingsKept
<1>2. SettingsKept /\ [SettingsNext]_settingsVars => SettingsKept'
  <2>1. ASSUME SettingsKept, SettingsNext PROVE SettingsKept'
    BY <2>1, PagesKept, HistoryKept DEF SettingsKept, SettingsTyped
  <2>2. ASSUME SettingsKept, UNCHANGED settingsVars PROVE SettingsKept'
    BY <2>2 DEF settingsVars, SettingsKept, SettingsTyped, PageKept, SaveKept, Earlier, Promotes,
                HistoryTellsDocument
  <2> QED BY <2>1, <2>2
<1> QED BY <1>1, <1>2, PTL DEF SettingsSpec

\* Administrators who save at once never lose track of what a revision or an entry
\* of the history stands for: for any items, options and pages, a page that is
\* still at the revision of what was saved shows what is saved, also of a catalog
\* that the task assignments rewrite and of endpoints saved without a revision, and
\* each journalled replacement of the identity replaced what the one before it
\* left.  Of a catalog that was never saved, whose content tables promote, nothing
\* is claimed.
THEOREM SettingsAlwaysHold == SettingsSpec => []SettingsHold
<1>1. SettingsKept => SettingsHold
  <2> SUFFICES ASSUME SettingsKept PROVE SettingsHold
      OBVIOUS
  <2>1. \A w \in Admins : Shows(w) => shelf[w] \in OpenPage /\ shelf[w] # Shut /\ PageKept(shelf[w])
    BY PageAt DEF Shows, SettingsKept
  <2>2. SettingsOK
    <3>1. \A r \in Setting : Record(r)
      BY DEF Setting, Record
    <3>2. \A p \in OpenPage : p.seen \in Setting
      BY DEF OpenPage
    <3> QED BY <2>1, <3>1, <3>2 DEF SettingsOK, SettingsKept, SettingsTyped
  <2>3. RevisionNamesContent
    <3> SUFFICES ASSUME NEW w \in Admins, NEW i \in Items, saved # Unsaved, Shows(w),
                        ~PageStale(w, i)
                 PROVE  IF shape = "skills"
                        THEN shelf[w].seen.items[i] = Effective(saved).items[i]
                        ELSE shelf[w].seen.items = Effective(saved).items
        BY DEF RevisionNamesContent
    <3>1. Earlier(shelf[w].seen, saved)
      BY <2>1 DEF PageKept
    <3>2. Effective(saved) = saved /\ PlainRecord(saved) = saved /\ ~Promotes(saved)
      BY DEF Effective, PlainRecord, Promotes
    <3> QED BY <3>1, <3>2 DEF Earlier, PageStale, RevisionOf
  <2> QED BY <2>2, <2>3 DEF SettingsHold, SettingsKept
<1> QED BY <1>1, SettingsKeptHolds, PTL

LEMMA AtMostOne ==
    ASSUME NEW S, NEW x, S \subseteq {x}
    PROVE  Cardinality(S) <= 1
<1>1. IsFiniteSet({x}) /\ Cardinality({x}) = 1
  BY FS_Singleton
<1> QED BY <1>1, FS_Subset

\* A page leaves its save only by writing.
LEMMA SavingEnds ==
    ASSUME SettingsKept, SettingsNext, NEW w \in Admins, At(w, "saving"), shelf'[w] # shelf[w]
    PROVE  Write(w)
<1>1. shelf \in [Admins -> {Shut} \cup Pages]
  BY DEF SettingsKept, SettingsTyped
<1>2. ASSUME NEW u \in Admins, u # w, NEW x, PageBecomes(u, x) PROVE FALSE
  BY <1>1, <1>2 DEF PageBecomes
<1>3. ASSUME NEW u \in Admins,
             \/ OpenSetting(u) \/ Close(u) \/ OpenDocument(u)
             \/ \E i \in Items, v \in Settable : Submit(u, i, v)
      PROVE  (\E x : PageBecomes(u, x)) /\ ~At(u, "saving")
  BY <1>3 DEF OpenSetting, Close, OpenDocument, Submit, At, Shows
<1>4. ASSUME NEW u \in Admins,
             \/ BeginAssignments(u) \/ Materialize(u) \/ Rewrite(u) \/ Assign(u)
             \/ \E v \in Options \cup {Default} : SaveDocument(u, v)
      PROVE  (\E x : PageBecomes(u, x)) /\ ~At(u, "saving")
  BY <1>4 DEF BeginAssignments, Materialize, Rewrite, Assign, SaveDocument, At
<1>5. ASSUME NEW u \in Admins, Write(u) PROVE \E x : PageBecomes(u, x)
  BY <1>5 DEF Write
<1>6. ASSUME NEW i, NEW v, EditInline(i, v) PROVE FALSE
  BY <1>6 DEF EditInline
<1> QED BY <1>2, <1>3, <1>4, <1>5, <1>6 DEF SettingsNext

\* What one page writes under a checked revision changes one item.
LEMMA CheckedChangesOne ==
    ASSUME SettingsKept, NEW w \in Admins, Write(w), shelf[w].checked, ~Promotes(saved)
    PROVE  Cardinality(Changed) <= 1
<1>1. SettingsTyped /\ saved \in Setting \cup {Unsaved}
  BY DEF SettingsKept, SettingsTyped
<1>2. PICK p \in SavingPage : p = shelf[w] /\ SaveKept(p)
  BY <1>1, PageAt DEF Write, SettingsKept, PageKept
<1>3. CASE saved = p.before
  <2>1. saved' = p.after /\ p.after \in Setting
    BY <1>2, <1>3 DEF Write, SavingPage
  <2>2. Effective(saved').items = p.after.items
    BY <2>1, SettingsSaved DEF Effective
  <2>3. Effective(saved).items = PlainRecord(saved).items
    BY <1>1, EffectiveTyped
  <2>4. PICK i \in Items : \A j \in Items \ {i} : p.after.items[j] = PlainRecord(saved).items[j]
    BY <1>2, <1>3 DEF SaveKept
  <2>5. Changed \subseteq {i}
    BY <2>2, <2>3, <2>4 DEF Changed
  <2> QED BY <2>5, AtMostOne
<1>4. CASE saved # p.before
  <2>1. UNCHANGED <<shape, saved, inline, assigned>>
    BY <1>2, <1>4 DEF Write, NoTables
  <2>2. Changed \subseteq {Default}
    BY <2>1 DEF Changed, Effective, Packaged
  <2> QED BY <2>2, AtMostOne
<1> QED BY <1>3, <1>4

\* A save that carries a revision changes the one item its administrator changed,
\* whatever others saved since its page was opened, with a revision or without:
\* for any items, options and pages (voice_settings.py, host_behaviors.py,
\* provider_endpoints.py, effective_skills.py).  Excepted is the first save of a
\* catalog.
THEOREM OthersEditsAlwaysStay == SettingsSpec => OthersEditsStay
<1> DEFINE OneItem == \A w \in Admins :
              (At(w, "saving") /\ shelf[w].checked /\ shelf'[w] # shelf[w]
                  /\ (shape = "catalog" => saved # Unsaved))
                    => Cardinality(Changed) <= 1
<1>1. SettingsKept /\ [SettingsNext]_settingsVars => [OneItem]_settingsVars
  <2> SUFFICES ASSUME SettingsKept, SettingsNext, NEW w \in Admins, At(w, "saving"),
                      shelf[w].checked, shelf'[w] # shelf[w], ~Promotes(saved)
               PROVE  Cardinality(Changed) <= 1
      BY DEF Promotes
  <2> QED BY SavingEnds, CheckedChangesOne
<1>2. OthersEditsStay <=> [][OneItem]_settingsVars
  BY PTL DEF OthersEditsStay
<1> QED BY <1>1, <1>2, SettingsKeptHolds, PTL DEF SettingsSpec

-----------------------------------------------------------------------------
(* Who reasons about a turn *)

TurnRecord ==
    [stage : {"idle", "host", "standalone", "specialist", "fallback", "handing",
              "choosing", "replying", "completing", "ended"},
     asked : SUBSET {"host", "standalone", "specialist", "fallback", "endpoint"},
     may : BOOLEAN, must : BOOLEAN, choosing : {"first", "again"}, tries : 0 .. 1,
     shown : BOOLEAN]

MindRecord == [entries : Nat, chosen : BOOLEAN, choices : 0 .. 1]

\* Who was asked about a turn of a kind, whatever its stage.
AskedOf(kind) ==
    IF kind = "interpret"
    THEN {{}, {"specialist"}, {"host"}, {"fallback"}, {"specialist", "host"}}
    ELSE {{}} \cup {{r} : r \in {"host", "standalone", "specialist", "fallback", "endpoint"}}

\* Who was asked when it reached its stage: nobody but a failed specialist of a
\* deliberate interpretation before it is handed on.
AskedSoFar(kind, x) ==
    /\ x.asked \in AskedOf(kind)
    /\ x.stage = "idle" => x = Unasked
    /\ x.stage = "specialist" => kind # "talk" /\ x.asked = {"specialist"}
    /\ x.stage = "handing" => /\ kind # "talk"
                              /\ x.asked = {} \/ (kind = "interpret" /\ x.asked = {"specialist"})
    /\ x.stage \in {"choosing", "replying", "completing"} => kind = "talk" /\ x.asked = {"endpoint"}

MindKept ==
    /\ mind \in MindRecord
    /\ mind.chosen <=> mind.choices = 1
    /\ mind.chosen => mind.entries >= Eligible

ReasoningKept ==
    /\ turn \in [Turns -> TurnRecord]
    /\ \A t \in Turns : AskedSoFar(KindOfTurn[t], turn[t])
    /\ MindKept

\* One call moves.
LEMMA TurnMoves ==
    ASSUME ReasoningKept, NEW t \in Turns, NEW x \in TurnRecord, AskedSoFar(KindOfTurn[t], x), Set(t, x)
    PROVE  turn' \in [Turns -> TurnRecord] /\ \A u \in Turns : AskedSoFar(KindOfTurn[u], turn[u])'
<1>1. turn \in [Turns -> TurnRecord]
  BY DEF ReasoningKept
<1>2. /\ turn' \in [Turns -> TurnRecord]
      /\ \A u \in Turns : turn'[u] = IF u = t THEN x ELSE turn[u]
  BY <1>1 DEF Set
<1>3. \A u \in Turns : AskedSoFar(KindOfTurn[u], turn'[u])
  BY <1>2 DEF ReasoningKept
<1> QED BY <1>2, <1>3 DEF AskedSoFar

LEMMA TurnEnds ==
    ASSUME ReasoningKept, NEW t \in Turns, NEW shown \in BOOLEAN, Ended(t, shown)
    PROVE  turn' \in [Turns -> TurnRecord] /\ \A u \in Turns : AskedSoFar(KindOfTurn[u], turn[u])'
<1>1. PICK y \in TurnRecord : y = turn[t] /\ AskedSoFar(KindOfTurn[t], y)
  BY DEF ReasoningKept
<1>2. PICK x : x = [y EXCEPT !.stage = "ended", !.shown = shown]
  OBVIOUS
<1>3. x \in TurnRecord /\ x.stage = "ended" /\ x.asked = y.asked
  BY <1>2 DEF TurnRecord
<1>4. AskedSoFar(KindOfTurn[t], x)
  BY <1>1, <1>3 DEF AskedSoFar
<1> QED BY <1>1, <1>2, <1>3, <1>4, TurnMoves DEF Ended

LEMMA ReasonerAsked ==
    ASSUME ReasoningKept, NEW t \in Turns, NEW r \in {"host", "standalone", "specialist", "fallback"},
           AskReasoner(t, r),
           r = "specialist" => KindOfTurn[t] # "talk",
           \/ turn[t].asked = {}
           \/ KindOfTurn[t] = "interpret" /\ r = "host" /\ turn[t].asked = {"specialist"},
           KindOfTurn[t] = "interpret" => r # "standalone"
    PROVE  turn' \in [Turns -> TurnRecord] /\ \A u \in Turns : AskedSoFar(KindOfTurn[u], turn[u])'
<1>1. PICK y \in TurnRecord : y = turn[t]
  BY DEF ReasoningKept
<1>2. PICK x : x = [y EXCEPT !.stage = r, !.asked = @ \cup {r}]
  OBVIOUS
<1>3. x \in TurnRecord /\ x.stage = r /\ x.asked = y.asked \cup {r}
  BY <1>2 DEF TurnRecord
<1>4. x.asked \in AskedOf(KindOfTurn[t])
  <2>1. CASE y.asked = {}
    <3>1. x.asked = {r}
      BY <1>3, <2>1
    <3> QED BY <1>1, <3>1 DEF AskedOf
  <2>2. CASE KindOfTurn[t] = "interpret" /\ r = "host" /\ y.asked = {"specialist"}
    <3>1. x.asked = {"specialist", "host"}
      BY <1>3, <2>2
    <3> QED BY <2>2, <3>1 DEF AskedOf
  <2> QED BY <1>1, <2>1, <2>2
<1>5. r = "specialist" => x.asked = {"specialist"}
  BY <1>1, <1>3
<1>6. AskedSoFar(KindOfTurn[t], x)
  BY <1>3, <1>4, <1>5 DEF AskedSoFar
<1> QED BY <1>1, <1>2, <1>3, <1>6, TurnMoves DEF AskReasoner

\* The endpoint's interaction goes on.
LEMMA EndpointGoesOn ==
    ASSUME ReasoningKept, NEW t \in Turns, NEW x \in TurnRecord, Set(t, x), KindOfTurn[t] = "talk",
           x.asked = {"endpoint"}, x.stage \in {"choosing", "replying", "completing"}
    PROVE  turn' \in [Turns -> TurnRecord] /\ \A u \in Turns : AskedSoFar(KindOfTurn[u], turn[u])'
<1>1. AskedSoFar(KindOfTurn[t], x)
  BY DEF AskedSoFar, AskedOf
<1> QED BY <1>1, TurnMoves

LEMMA TurnsKept ==
    ASSUME ReasoningKept, ReasoningNext
    PROVE  turn' \in [Turns -> TurnRecord] /\ \A u \in Turns : AskedSoFar(KindOfTurn[u], turn[u])'
<1> DEFINE Goal == turn' \in [Turns -> TurnRecord]
                   /\ \A u \in Turns : AskedSoFar(KindOfTurn[u], turn[u])'
<1>0. ASSUME NEW t \in Turns PROVE turn[t] \in TurnRecord /\ AskedSoFar(KindOfTurn[t], turn[t])
                                   /\ KindOfTurn[t] \in {"talk", "interpret", "automatic"}
  BY <1>0, ReasoningAssumption DEF ReasoningKept
<1>e. ASSUME NEW t \in Turns, Ended(t, TRUE) \/ Ended(t, FALSE) PROVE Goal
  BY <1>e, TurnEnds
<1>1. ASSUME NEW t \in Turns, Talk(t) PROVE Goal
  <2>1. PICK y \in TurnRecord : y = turn[t] /\ y = Unasked /\ KindOfTurn[t] = "talk"
    BY <1>0, <1>1 DEF Talk, AskedSoFar
  <2>2. y.asked = {}
    BY <2>1 DEF Unasked
  <2>3. ASSUME AskReasoner(t, "host") \/ AskReasoner(t, "standalone") PROVE Goal
    BY <2>1, <2>2, <2>3, ReasonerAsked
  <2>4. ASSUME Set(t, [turn[t] EXCEPT !.stage = "choosing", !.asked = {"endpoint"},
                                      !.may = MayChoose, !.must = MustChoose])
        PROVE  Goal
    <3>1. MayChoose \in BOOLEAN /\ MustChoose \in BOOLEAN
      BY DEF MayChoose, MustChoose
    <3>2. PICK x : x = [y EXCEPT !.stage = "choosing", !.asked = {"endpoint"},
                                 !.may = MayChoose, !.must = MustChoose]
      OBVIOUS
    <3>3. x \in TurnRecord /\ x.asked = {"endpoint"} /\ x.stage = "choosing"
      BY <3>1, <3>2 DEF TurnRecord
    <3> QED BY <2>1, <2>4, <3>2, <3>3, EndpointGoesOn
  <2> QED BY <1>1, <1>e, <2>3, <2>4 DEF Talk
<1>2. ASSUME NEW t \in Turns, InterpretTurn(t) PROVE Goal
  <2>1. PICK y \in TurnRecord : y = turn[t] /\ y = Unasked /\ KindOfTurn[t] # "talk"
    BY <1>0, <1>2 DEF InterpretTurn, AskedSoFar
  <2>2. y.asked = {}
    BY <2>1 DEF Unasked
  <2>3. CASE AskReasoner(t, "specialist")
    BY <2>1, <2>2, <2>3, ReasonerAsked
  <2>4. CASE Set(t, [y EXCEPT !.stage = "handing"])
    <3>1. PICK x : x = [y EXCEPT !.stage = "handing"]
      OBVIOUS
    <3>2. x \in TurnRecord /\ x.stage = "handing" /\ x.asked = {}
      BY <2>2, <3>1 DEF TurnRecord
    <3>3. AskedSoFar(KindOfTurn[t], x)
      BY <2>1, <3>2 DEF AskedSoFar, AskedOf
    <3> QED BY <2>4, <3>1, <3>2, <3>3, TurnMoves
  <2> QED BY <1>2, <2>1, <2>3, <2>4 DEF InterpretTurn
<1>3. ASSUME NEW t \in Turns, SpecialistAnswers(t) PROVE Goal
  <2>1. PICK y \in TurnRecord : y = turn[t] /\ y.asked = {"specialist"}
    BY <1>0, <1>3 DEF SpecialistAnswers, AskedSoFar
  <2>2. CASE KindOfTurn[t] = "interpret" /\ Set(t, [y EXCEPT !.stage = "handing"])
    <3>1. PICK x : x = [y EXCEPT !.stage = "handing"]
      OBVIOUS
    <3>2. x \in TurnRecord /\ x.stage = "handing" /\ x.asked = {"specialist"}
      BY <2>1, <3>1 DEF TurnRecord
    <3>3. AskedSoFar(KindOfTurn[t], x)
      BY <2>2, <3>2 DEF AskedSoFar, AskedOf
    <3> QED BY <2>2, <3>1, <3>2, <3>3, TurnMoves
  <2> QED BY <1>3, <1>e, <2>1, <2>2 DEF SpecialistAnswers
<1>4. ASSUME NEW t \in Turns, HandOn(t) PROVE Goal
  <2>1. /\ KindOfTurn[t] # "talk"
        /\ turn[t].asked = {} \/ (KindOfTurn[t] = "interpret" /\ turn[t].asked = {"specialist"})
    BY <1>0, <1>4 DEF HandOn, AskedSoFar
  <2>2. CASE AskReasoner(t, "host")
    BY <2>1, <2>2, ReasonerAsked
  <2>3. CASE AskReasoner(t, "fallback") /\ "specialist" \notin turn[t].asked
    BY <2>1, <2>3, ReasonerAsked
  <2> QED BY <1>4, <1>e, <2>2, <2>3 DEF HandOn
<1>5. ASSUME NEW t \in Turns, ReasonerAnswers(t) PROVE Goal
  BY <1>5, <1>e DEF ReasonerAnswers
<1>6. ASSUME NEW t \in Turns, NoChoice(t) \/ BadChoice(t) \/ Choice(t) \/ Reply(t) \/ CompleteTurn(t)
      PROVE  Goal
  <2>1. PICK y \in TurnRecord : /\ y = turn[t] /\ y.asked = {"endpoint"} /\ KindOfTurn[t] = "talk"
                                /\ y.stage \in {"choosing", "replying", "completing"}
    BY <1>0, <1>6 DEF NoChoice, BadChoice, Choice, Reply, CompleteTurn, AskedSoFar
  <2>2. ASSUME Chosen(t) PROVE Goal
    <3>1. PICK x : x = [y EXCEPT !.stage = IF y.choosing = "first" THEN "replying" ELSE "completing",
                                 !.tries = 0]
      OBVIOUS
    <3>2. x \in TurnRecord /\ x.asked = {"endpoint"} /\ x.stage \in {"replying", "completing"}
      <4>1. PICK stage \in {"replying", "completing"} :
               stage = IF y.choosing = "first" THEN "replying" ELSE "completing"
        OBVIOUS
      <4>2. PICK zero \in 0 .. 1 : zero = 0
        OBVIOUS
      <4>3. x = [y EXCEPT !.stage = stage, !.tries = zero]
        BY <3>1, <4>1, <4>2
      <4>4. x \in TurnRecord
        BY <4>3 DEF TurnRecord
      <4>5. x.asked = {"endpoint"} /\ x.stage = stage
        BY <2>1, <4>3 DEF TurnRecord
      <4> QED BY <4>4, <4>5
    <3>3. Set(t, x)
      BY <2>1, <2>2, <3>1 DEF Chosen
    <3> QED BY <2>1, <3>2, <3>3, EndpointGoesOn
  <2>3. CASE NoChoice(t)
    BY <2>2, <2>3 DEF NoChoice
  <2>4. CASE Choice(t)
    BY <1>e, <2>2, <2>4 DEF Choice
  <2>5. CASE BadChoice(t)
    <3>1. PICK x : x = [y EXCEPT !.tries = 1]
      OBVIOUS
    <3>2. x \in TurnRecord
      BY <3>1 DEF TurnRecord
    <3>4. x.asked = y.asked /\ x.stage = y.stage
      BY <3>1 DEF TurnRecord
    <3>3. Set(t, x) => Goal
      BY <2>1, <3>2, <3>4, EndpointGoesOn
    <3> QED BY <1>e, <2>1, <2>5, <3>1, <3>3 DEF BadChoice
  <2>6. CASE Reply(t)
    <3>1. PICK x : x = [y EXCEPT !.stage = "completing"]
      OBVIOUS
    <3>2. x \in TurnRecord /\ x.asked = {"endpoint"} /\ x.stage = "completing"
      BY <2>1, <3>1 DEF TurnRecord
    <3>3. Set(t, x) => Goal
      BY <2>1, <3>2, EndpointGoesOn
    <3> QED BY <1>e, <2>1, <2>6, <3>1, <3>3 DEF Reply
  <2>7. CASE CompleteTurn(t)
    <3>0. MayChoose \in BOOLEAN
      BY DEF MayChoose
    <3>1. PICK x : x = [y EXCEPT !.stage = "choosing", !.choosing = "again", !.may = MayChoose,
                                 !.must = TRUE]
      OBVIOUS
    <3>2. x \in TurnRecord /\ x.asked = {"endpoint"} /\ x.stage = "choosing"
      BY <2>1, <3>0, <3>1 DEF TurnRecord
    <3>3. Set(t, x) => Goal
      BY <2>1, <3>2, EndpointGoesOn
    <3>4. \/ Set(t, x) \/ Ended(t, TRUE) \/ Ended(t, FALSE)
      BY <2>1, <2>7, <3>1 DEF CompleteTurn
    <3> QED BY <1>e, <3>3, <3>4
  <2> QED BY <1>6, <2>3, <2>4, <2>5, <2>6, <2>7
<1>7. ASSUME UNCHANGED turn PROVE Goal
  BY <1>7 DEF ReasoningKept, AskedSoFar
<1>8. ASSUME HostFlips \/ Experience PROVE UNCHANGED turn
  BY <1>8 DEF HostFlips, Experience
<1> QED BY <1>1, <1>2, <1>3, <1>4, <1>5, <1>6, <1>7, <1>8 DEF ReasoningNext, TurnSteps

\* Experience only grows, and what a choice requires is looked at when it is made.
LEMMA MindStaysKept ==
    ASSUME MindKept, ReasoningNext
    PROVE  MindKept'
<1>0. mind.entries \in Nat /\ mind.chosen \in BOOLEAN /\ mind.choices \in 0 .. 1 /\ Eligible \in Nat
  BY ReasoningAssumption DEF MindKept, MindRecord
<1>1. CASE UNCHANGED mind
  BY <1>1 DEF MindKept
<1>2. ASSUME mind' = [mind EXCEPT !.entries = @ + 1] PROVE MindKept'
  <2>1. PICK m \in MindRecord : m = mind
    BY DEF MindKept
  <2>2. /\ mind' \in MindRecord /\ mind'.entries = mind.entries + 1
        /\ mind'.chosen = mind.chosen /\ mind'.choices = mind.choices
    BY <1>2, <2>1 DEF MindRecord
  <2> QED BY <1>0, <2>2 DEF MindKept
<1>3. ASSUME MayChoose, mind' = [mind EXCEPT !.chosen = TRUE, !.choices = @ + 1] PROVE MindKept'
  <2>1. PICK m \in MindRecord : m = mind
    BY DEF MindKept
  <2>2. mind.choices = 0 /\ mind.entries >= Eligible
    BY <1>0, <1>3 DEF MayChoose, MindKept
  <2>3. /\ mind' \in MindRecord /\ mind'.entries = mind.entries
        /\ mind'.chosen = TRUE /\ mind'.choices = 1
    <3>1. PICK one \in 0 .. 1 : one = 1
      OBVIOUS
    <3>2. mind' = [m EXCEPT !.chosen = TRUE, !.choices = one]
      <4>1. m.choices + 1 = one
        BY <2>1, <2>2, <3>1
      <4> QED BY <1>3, <2>1, <4>1
    <3>3. mind' \in MindRecord
      BY <3>2 DEF MindRecord
    <3>4. mind'.entries = m.entries /\ mind'.chosen = TRUE /\ mind'.choices = one
      BY <3>2 DEF MindRecord
    <3> QED BY <2>1, <3>1, <3>3, <3>4
  <2> QED BY <2>2, <2>3 DEF MindKept
<1>4. ASSUME NEW t \in Turns, TurnSteps(t)
      PROVE  \/ UNCHANGED mind \/ mind' = [mind EXCEPT !.entries = @ + 1]
             \/ MayChoose /\ mind' = [mind EXCEPT !.chosen = TRUE, !.choices = @ + 1]
  BY <1>4 DEF TurnSteps, Talk, InterpretTurn, SpecialistAnswers, HandOn, ReasonerAnswers,
              NoChoice, BadChoice, Choice, Reply, CompleteTurn
<1>5. ASSUME HostFlips \/ Experience
      PROVE  UNCHANGED mind \/ mind' = [mind EXCEPT !.entries = @ + 1]
  BY <1>5 DEF HostFlips, Experience
<1> QED BY <1>1, <1>2, <1>3, <1>4, <1>5 DEF ReasoningNext

LEMMA ReasoningKeptHolds == ReasoningSpec => []ReasoningKept
<1>1. ReasoningInit => ReasoningKept
  <2> SUFFICES ASSUME ReasoningInit PROVE ReasoningKept
      OBVIOUS
  <2>1. Unasked \in TurnRecord
    BY DEF Unasked, TurnRecord
  <2>2. \A kind : AskedSoFar(kind, Unasked)
    BY DEF Unasked, AskedSoFar, AskedOf
  <2>3. MindKept
    BY ReasoningAssumption DEF ReasoningInit, MindKept, MindRecord
  <2> QED BY <2>1, <2>2, <2>3 DEF ReasoningInit, ReasoningKept
<1>2. ReasoningKept /\ [ReasoningNext]_reasoningVars => ReasoningKept'
  <2>1. ASSUME ReasoningKept, ReasoningNext PROVE ReasoningKept'
    <3>1. MindKept'
      BY <2>1, MindStaysKept DEF ReasoningKept
    <3> QED BY <2>1, <3>1, TurnsKept DEF ReasoningKept
  <2>2. ASSUME ReasoningKept, UNCHANGED reasoningVars PROVE ReasoningKept'
    BY <2>2 DEF reasoningVars, ReasoningKept, AskedSoFar, MindKept
  <2> QED BY <2>1, <2>2
<1> QED BY <1>1, <1>2, PTL DEF ReasoningSpec

\* A turn of the Body is answered by one reasoner, whatever attaches, goes or
\* times out meanwhile, and the identity is chosen once and not before it may be:
\* for any calls and thresholds (HostAwareCore, HostAwareInterpreter).
THEOREM TurnsAlwaysReasoned == ReasoningSpec => []TurnsAreReasoned
<1>1. ReasoningKept => TurnsAreReasoned
  <2> SUFFICES ASSUME ReasoningKept PROVE TurnsAreReasoned
      OBVIOUS
  <2>1. BodyReasoningOK
    BY DEF BodyReasoningOK, ReasoningKept, AskedSoFar, TurnRecord
  <2>2. ReasonedOnce
    <3> SUFFICES ASSUME NEW t \in Turns, KindOfTurn[t] # "interpret"
                 PROVE  Cardinality(turn[t].asked) <= 1
        BY DEF ReasonedOnce, ReasoningKept, AskedSoFar, AskedOf
    <3>1. turn[t].asked = {} \/ \E r : turn[t].asked = {r}
      BY DEF ReasoningKept, AskedSoFar, AskedOf
    <3>2. \E r : turn[t].asked \subseteq {r}
      BY <3>1
    <3> QED BY <3>2, AtMostOne
  <2>3. ChosenOnce
    BY DEF ChosenOnce, ReasoningKept, MindKept, MindRecord
  <2> QED BY <2>1, <2>2, <2>3 DEF TurnsAreReasoned
<1> QED BY <1>1, ReasoningKeptHolds, PTL

-----------------------------------------------------------------------------
(* Sleep consolidation *)

\* R is a strict total order on S.
Orders(R, S) ==
    /\ \A x \in S : <<x, x>> \notin R
    /\ \A x, y, z \in S : <<x, y>> \in R /\ <<y, z>> \in R => <<x, z>> \in R
    /\ \A x, y \in S : x # y => <<x, y>> \in R \/ <<y, x>> \in R

\* The members that fewer than k others come before.
FirstOf(k, R, S) == {x \in S : Cardinality({y \in S : <<y, x>> \in R}) < k}

\* There are at most k of them.
LEMMA FirstFew ==
    ASSUME NEW S, IsFiniteSet(S), NEW R, Orders(R, S), NEW k \in Nat
    PROVE  IsFiniteSet(FirstOf(k, R, S)) /\ Cardinality(FirstOf(k, R, S)) <= k
<1> DEFINE below(x) == {y \in S : <<y, x>> \in R}
           few == {x \in S : Cardinality(below(x)) < k}
           rank == [x \in few |-> Cardinality(below(x))]
<1>1. \A x \in S : IsFiniteSet(below(x)) /\ Cardinality(below(x)) \in Nat
  <2> SUFFICES ASSUME NEW x \in S PROVE IsFiniteSet(below(x)) /\ Cardinality(below(x)) \in Nat
      OBVIOUS
  <2>1. below(x) \in SUBSET S
    OBVIOUS
  <2>2. IsFiniteSet(below(x))
    BY <2>1, FS_Subset
  <2> QED BY <2>2, FS_CardinalityType
<1>2. ASSUME NEW x \in S, NEW y \in S, <<x, y>> \in R
      PROVE  Cardinality(below(x)) < Cardinality(below(y))
  <2>1. below(x) \cup {x} \in SUBSET below(y) /\ x \notin below(x)
    BY <1>2 DEF Orders
  <2>2. Cardinality(below(x) \cup {x}) = Cardinality(below(x)) + 1
    BY <1>1, <2>1, FS_AddElement
  <2>3. Cardinality(below(x) \cup {x}) <= Cardinality(below(y))
    BY <1>1, <2>1, FS_Subset
  <2> HIDE DEF below
  <2> QED BY <1>1, <2>2, <2>3
<1>3. few \in SUBSET S
  OBVIOUS
<1>4. IsFiniteSet(few)
  BY <1>3, FS_Subset
<1>5. \A x \in few : Cardinality(below(x)) \in 0 .. (k - 1)
  <2>1. \A x \in few : x \in S /\ Cardinality(below(x)) < k
    OBVIOUS
  <2> HIDE DEF below, few
  <2> QED BY <1>1, <2>1
<1>6. \A x, y \in few : Cardinality(below(x)) = Cardinality(below(y)) => x = y
  <2> SUFFICES ASSUME NEW x \in few, NEW y \in few, x # y
               PROVE  Cardinality(below(x)) # Cardinality(below(y))
      OBVIOUS
  <2>1. x \in S /\ y \in S
    OBVIOUS
  <2>2. CASE <<x, y>> \in R
    <3>1. Cardinality(below(x)) < Cardinality(below(y))
      BY <1>2, <2>1, <2>2
    <3> QED BY <1>1, <2>1, <3>1
  <2>3. CASE <<y, x>> \in R
    <3>1. Cardinality(below(y)) < Cardinality(below(x))
      BY <1>2, <2>1, <2>3
    <3> QED BY <1>1, <2>1, <3>1
  <2> QED BY <2>1, <2>2, <2>3 DEF Orders
<1>7. rank \in Injection(few, 0 .. (k - 1))
  <2> HIDE DEF below, few
  <2>1. rank \in [few -> 0 .. (k - 1)]
    BY <1>5
  <2>2. \A x, y \in few : rank[x] = rank[y] => x = y
    BY <1>6
  <2> QED BY <2>1, <2>2 DEF Injection, IsInjective
<1>8. IsFiniteSet(0 .. (k - 1)) /\ Cardinality(0 .. (k - 1)) = k
  <2>1. 0 \in Int /\ k - 1 \in Int
    OBVIOUS
  <2> QED BY <2>1, FS_Interval
<1> HIDE DEF few, rank
<1>9. Cardinality(few) <= Cardinality(0 .. (k - 1))
  BY <1>7, <1>8, FS_Injection
<1> QED BY <1>4, <1>8, <1>9 DEF few, FirstOf

\* A finite set has a finite image that is no larger: f names each one's image.
LEMMA ImageIsFinite ==
    ASSUME NEW S, IsFiniteSet(S), NEW f
    PROVE  /\ IsFiniteSet({f[x] : x \in S})
           /\ Cardinality({f[x] : x \in S}) <= Cardinality(S)
<1> DEFINE T == {f[x] : x \in S}
           g == [x \in S |-> f[x]]
<1>1. g \in Surjection(S, T)
  BY DEF Surjection
<1> HIDE DEF T, g
<1>2. IsFiniteSet(T) /\ Cardinality(T) <= Cardinality(S)
  BY <1>1, FS_Surjection
<1> QED BY <1>2 DEF T

LEMMA BehindType ==
    ASSUME NEW M, IsFiniteSet(M), NEW x
    PROVE  Behind(M, x) \in Nat
<1> DEFINE K == {m \in M : x \in m.links}
           f == [m \in K |-> <<m.content, m.at>>]
<1>1. IsFiniteSet(K)
  <2>1. K \in SUBSET M
    OBVIOUS
  <2> QED BY <2>1, FS_Subset
<1>2. {<<m.content, m.at>> : m \in K} = {f[m] : m \in K}
  OBVIOUS
<1>3. IsFiniteSet({f[m] : m \in K})
  <2> HIDE DEF K, f
  <2> QED BY <1>1, ImageIsFinite
<1>4. Cardinality({<<m.content, m.at>> : m \in K}) \in Nat
  <2> HIDE DEF K, f
  <2> QED BY <1>2, <1>3, FS_CardinalityType
<1> QED BY <1>4 DEF Behind

\* Memories are only added, so what is behind an association only grows.
LEMMA BehindGrows ==
    ASSUME NEW M, NEW N, M \subseteq N, IsFiniteSet(N), NEW x
    PROVE  Behind(M, x) <= Behind(N, x)
<1> DEFINE K == {m \in M : x \in m.links}
           L == {m \in N : x \in m.links}
           f == [m \in L |-> <<m.content, m.at>>]
<1>1. IsFiniteSet(L)
  <2>1. L \in SUBSET N
    OBVIOUS
  <2> QED BY <2>1, FS_Subset
<1>2. {<<m.content, m.at>> : m \in L} = {f[m] : m \in L}
  OBVIOUS
<1>3. IsFiniteSet({f[m] : m \in L})
  <2> HIDE DEF L, f
  <2> QED BY <1>1, ImageIsFinite
<1>4. {<<m.content, m.at>> : m \in K} \in SUBSET {<<m.content, m.at>> : m \in L}
  OBVIOUS
<1>5. Cardinality({<<m.content, m.at>> : m \in K}) <= Cardinality({<<m.content, m.at>> : m \in L})
  <2> HIDE DEF K, L, f
  <2> QED BY <1>2, <1>3, <1>4, FS_Subset
<1> QED BY <1>5 DEF Behind

\* A pass finds at most the strongest patterns, each of them recurring.
LEMMA PatternsAreFew ==
    ASSUME NEW M, IsFiniteSet(M)
    PROVE  /\ IsFiniteSet(Patterns(M)) /\ Cardinality(Patterns(M)) <= Strongest
           /\ Patterns(M) \subseteq Recurring(M)
<1> DEFINE stronger(x, y) == \/ Behind(M, x) > Behind(M, y)
                             \/ Behind(M, x) = Behind(M, y) /\ Rank[x] < Rank[y]
           S == Recurring(M)
           R == {p \in S \X S : stronger(p[1], p[2])}
<1>1. /\ S \subseteq Links /\ IsFiniteSet(S) /\ Strongest \in Nat
      /\ \A x \in S : Rank[x] \in Nat /\ Behind(M, x) \in Nat
      /\ \A x, y \in S : Rank[x] = Rank[y] => x = y
  <2>1. S \in SUBSET Links
    BY DEF Recurring
  <2>2. IsFiniteSet(S)
    BY <2>1, SleepAssumption, FS_Subset
  <2> QED BY <2>1, <2>2, BehindType, SleepAssumption
<1>2. \A x, y \in S : <<x, y>> \in R <=> stronger(x, y)
  OBVIOUS
<1> HIDE DEF S, R
<1>3. \A x \in S : <<x, x>> \notin R
  BY <1>1, <1>2
<1>4. \A x, y, z \in S : <<x, y>> \in R /\ <<y, z>> \in R => <<x, z>> \in R
  BY <1>1, <1>2
<1>5. \A x, y \in S : x # y => <<x, y>> \in R \/ <<y, x>> \in R
  BY <1>1, <1>2
<1>6. Patterns(M) = FirstOf(Strongest, R, S)
  <2>1. \A x \in S : {y \in S : stronger(y, x)} = {y \in S : <<y, x>> \in R}
    BY <1>2
  <2>2. Patterns(M) = {x \in S : Cardinality({y \in S : stronger(y, x)}) < Strongest}
    BY DEF Patterns, S
  <2> QED BY <2>1, <2>2 DEF FirstOf
<1>7. IsFiniteSet(Patterns(M)) /\ Cardinality(Patterns(M)) <= Strongest
  <2>1. Orders(R, S)
    BY <1>3, <1>4, <1>5 DEF Orders
  <2> QED BY <1>1, <1>6, <2>1, FirstFew
<1> QED BY <1>6, <1>7 DEF S, FirstOf

SleepProduct == [link : Links, count : Nat]

\* The copies stored of a consolidation, and the passes that have yet to store one.
CopiesOf(x, n) == {q \in products : q.link = x /\ q.count = n}
WaitingFor(x, n) == {s \in Sleepers : pass[s].stage = "asleep" /\ Product(x, n) \in pass[s].todo}

Grounded(p) == Minimum <= p.count /\ p.count <= Behind(formed, p.link)

PassKept(r) ==
    r.stage = "asleep" =>
        /\ r.todo \subseteq SleepProduct /\ r.stored \subseteq SleepProduct
        /\ Cardinality(r.todo \cup r.stored) <= Strongest
        /\ \A p \in r.todo : Grounded(p)
        /\ \A p \in r.stored : Known(p.link, p.count)

SleepKept ==
    /\ IsFiniteSet(formed) /\ IsFiniteSet(products)
    /\ products \subseteq [link : Links, count : Nat, copy : Nat]
    /\ pass \in [Sleepers -> {Awake} \cup [stage : {"asleep"}, stored : SUBSET SleepProduct,
                                           todo : SUBSET SleepProduct]]
    /\ reports \subseteq SleepProduct
    /\ \A s \in Sleepers : PassKept(pass[s])
    /\ \A p \in products : Grounded(p) /\ p.copy <= Cardinality(Sleepers)
    /\ \A p \in reports : Known(p.link, p.count)
    /\ \A x \in Links, n \in Nat :
          Cardinality(CopiesOf(x, n)) + Cardinality(WaitingFor(x, n)) <= Cardinality(Sleepers)

\* What was stored stays stored, and stays grounded.
SleepGrows ==
    /\ \A p \in SleepProduct : Grounded(p) => Grounded(p)'
    /\ \A x, n : Known(x, n) => Known(x, n)'

LEMMA SleepStepsGrow ==
    ASSUME SleepKept, SleepNext
    PROVE  /\ SleepGrows /\ IsFiniteSet(formed')
           /\ \A p \in products : Grounded(p)'
<1>1. products \subseteq products'
  BY DEF SleepNext, Form, FallAsleep, Consolidate, WakeUp, Disturbed
<1>2. formed \subseteq formed' /\ IsFiniteSet(formed')
  <2>1. CASE UNCHANGED formed
    BY <2>1 DEF SleepKept
  <2>2. ASSUME NEW m, formed' = formed \cup {m} PROVE formed \subseteq formed' /\ IsFiniteSet(formed')
    BY <2>2, FS_AddElement DEF SleepKept
  <2> QED BY <2>1, <2>2 DEF SleepNext, Form, FallAsleep, Consolidate, WakeUp, Disturbed
<1>3. \A p : p.count \in Nat /\ Grounded(p) => Grounded(p)'
  <2> SUFFICES ASSUME NEW p, p.count \in Nat, Minimum <= p.count /\ p.count <= Behind(formed, p.link)
               PROVE  p.count <= Behind(formed', p.link)
      BY DEF Grounded
  <2>1. Behind(formed, p.link) <= Behind(formed', p.link)
    BY <1>2, BehindGrows
  <2>2. Behind(formed, p.link) \in Nat /\ Behind(formed', p.link) \in Nat
    BY <1>2, BehindType DEF SleepKept
  <2> QED BY <2>1, <2>2
<1>4. \A p \in products : Grounded(p)'
  BY <1>3 DEF SleepKept
<1>5. \A p \in SleepProduct : p.count \in Nat
  BY DEF SleepProduct
<1> QED BY <1>1, <1>2, <1>3, <1>4, <1>5 DEF SleepGrows, Known

LEMMA PassStaysKept ==
    ASSUME SleepGrows, NEW r, PassKept(r)
    PROVE  PassKept(r)'
BY DEF SleepGrows, PassKept

SleepPass == {Awake} \cup [stage : {"asleep"}, stored : SUBSET SleepProduct, todo : SUBSET SleepProduct]

\* One pass moves.
LEMMA PassMoves ==
    ASSUME SleepKept, SleepGrows, NEW s \in Sleepers, NEW r \in SleepPass, PassKept(r)',
           pass' = [pass EXCEPT ![s] = r]
    PROVE  pass' \in [Sleepers -> SleepPass] /\ \A z \in Sleepers : PassKept(pass[z])'
<1>1. pass \in [Sleepers -> SleepPass]
  BY DEF SleepKept, SleepPass
<1>2. pass' \in [Sleepers -> SleepPass] /\ \A z \in Sleepers : pass'[z] = IF z = s THEN r ELSE pass[z]
  BY <1>1
<1>3. ASSUME NEW z \in Sleepers PROVE PassKept(pass[z])'
  <2>1. PICK y : y = pass'[z]
    OBVIOUS
  <2>2. CASE z = s
    BY <1>2, <2>1, <2>2
  <2>3. CASE z # s
    <3>1. PassKept(y)
      BY <1>2, <2>1, <2>3 DEF SleepKept
    <3> QED BY <2>1, <3>1, PassStaysKept
  <2> QED BY <2>2, <2>3
<1> QED BY <1>2, <1>3

LEMMA PassesKept ==
    ASSUME SleepKept, SleepNext
    PROVE  pass' \in [Sleepers -> SleepPass] /\ \A z \in Sleepers : PassKept(pass[z])'
<1> DEFINE Goal == pass' \in [Sleepers -> SleepPass] /\ \A z \in Sleepers : PassKept(pass[z])'
<1>0. SleepGrows /\ \A z \in Sleepers : pass[z] \in SleepPass /\ PassKept(pass[z])
  BY SleepStepsGrow DEF SleepKept, SleepPass
<1>1. ASSUME UNCHANGED pass PROVE Goal
  <2>1. ASSUME NEW z \in Sleepers PROVE PassKept(pass[z])'
    <3>1. PICK y : y = pass[z]
      OBVIOUS
    <3>2. PassKept(y)'
      BY <1>0, <3>1, PassStaysKept
    <3> QED BY <1>1, <3>1, <3>2
  <2> QED BY <1>1, <2>1 DEF SleepKept, SleepPass
<1>2. ASSUME NEW s \in Sleepers, pass' = [pass EXCEPT ![s] = Awake] PROVE Goal
  <2>1. PassKept(Awake)'
    BY DEF PassKept, Awake
  <2> QED BY <1>0, <1>2, <2>1, PassMoves DEF SleepPass
<1>3. ASSUME NEW s \in Sleepers, FallAsleep(s) PROVE Goal
  <2> DEFINE f == [x \in Links |-> Product(x, Behind(formed, x))]
             new == {y \in Patterns(formed) : ~Known(y, Behind(formed, y))}
             todo == {Product(x, Behind(formed, x)) : x \in new}
             r == [stage |-> "asleep", stored |-> {}, todo |-> todo]
  <2>1. /\ IsFiniteSet(Patterns(formed)) /\ Cardinality(Patterns(formed)) <= Strongest
        /\ Patterns(formed) \subseteq Recurring(formed) /\ Recurring(formed) \subseteq Links
    BY PatternsAreFew DEF SleepKept, Recurring
  <2>2. IsFiniteSet(new) /\ Cardinality(new) <= Strongest
    <3>1. new \in SUBSET Patterns(formed)
      OBVIOUS
    <3>2. IsFiniteSet(new) /\ Cardinality(new) <= Cardinality(Patterns(formed))
      BY <2>1, <3>1, FS_Subset
    <3> QED BY <2>1, <3>2, FS_CardinalityType, SleepAssumption
  <2>3. todo = {f[x] : x \in new}
    BY <2>1
  <2>4. IsFiniteSet(todo) /\ Cardinality(todo) <= Strongest
    <3> HIDE DEF new, f, todo
    <3>1. IsFiniteSet(todo) /\ Cardinality(todo) <= Cardinality(new)
      BY <2>2, <2>3, ImageIsFinite
    <3> QED BY <2>2, <3>1, FS_CardinalityType, SleepAssumption
  <2>5. \A p \in todo : p \in SleepProduct /\ Grounded(p)
    <3> SUFFICES ASSUME NEW x \in new
                 PROVE  Product(x, Behind(formed, x)) \in SleepProduct
                        /\ Grounded(Product(x, Behind(formed, x)))
        OBVIOUS
    <3>1. x \in Links /\ Behind(formed, x) >= Minimum /\ Behind(formed, x) \in Nat
      BY <2>1, BehindType DEF Recurring, SleepKept
    <3>2. Minimum \in Nat
      BY SleepAssumption
    <3> QED BY <3>1, <3>2 DEF Product, SleepProduct, Grounded
  <2>6. pass' = [pass EXCEPT ![s] = r]
    BY <1>3 DEF FallAsleep
  <2>7. PICK y : y = r
    OBVIOUS
  <2>8. /\ y.stage = "asleep" /\ y.stored = {} /\ y.todo = todo
        /\ y \in SleepPass
    BY <2>5, <2>7 DEF SleepPass
  <2> HIDE DEF r, todo
  <2>9. PassKept(y)
    <3>1. y.todo \cup y.stored = todo
      BY <2>8
    <3> QED BY <2>4, <2>5, <2>8, <3>1 DEF PassKept
  <2> QED BY <1>0, <2>6, <2>7, <2>8, <2>9, PassStaysKept, PassMoves
<1>4. ASSUME NEW s \in Sleepers, Consolidate(s) PROVE Goal
  <2>1. PICK y \in SleepPass : y = pass[s] /\ y.stage = "asleep" /\ PassKept(y)
    BY <1>0, <1>4 DEF Consolidate
  <2>2. /\ y \in [stage : {"asleep"}, stored : SUBSET SleepProduct, todo : SUBSET SleepProduct]
    BY <2>1 DEF SleepPass, Awake
  <2>3. PICK p \in y.todo :
           /\ pass' = [pass EXCEPT ![s].todo = @ \ {p}, ![s].stored = @ \cup {p}]
           /\ products' = products \cup {[link |-> p.link, count |-> p.count,
                 copy |-> Cardinality({q \in products : q.link = p.link /\ q.count = p.count}) + 1]}
    BY <1>4, <2>1 DEF Consolidate
  <2>c. Known(p.link, p.count)'
    <3> DEFINE q == [link |-> p.link, count |-> p.count,
                     copy |-> Cardinality({x \in products : x.link = p.link /\ x.count = p.count}) + 1]
    <3>1. q \in products' /\ q.link = p.link /\ q.count = p.count
      BY <2>3
    <3> QED BY <3>1 DEF Known
  <2>4. PICK r : r = [y EXCEPT !.todo = @ \ {p}, !.stored = @ \cup {p}]
    OBVIOUS
  <2>5. pass' = [pass EXCEPT ![s] = r]
    BY <2>1, <2>3, <2>4 DEF SleepKept
  <2>6. /\ r \in SleepPass /\ r.todo = y.todo \ {p} /\ r.stored = y.stored \cup {p}
        /\ r.todo \subseteq SleepProduct /\ r.stored \subseteq SleepProduct
    BY <2>2, <2>3, <2>4 DEF SleepPass
  <2>7. r.todo \cup r.stored = y.todo \cup y.stored
    BY <2>3, <2>6
  <2>8. \A q \in r.todo : Grounded(q)'
    BY <1>0, <2>1, <2>2, <2>6 DEF PassKept, SleepGrows
  <2>9. \A q \in r.stored : Known(q.link, q.count)'
    BY <1>0, <2>1, <2>2, <2>3, <2>c, <2>6 DEF PassKept, SleepGrows
  <2>10. PassKept(r)'
    BY <2>1, <2>6, <2>7, <2>8, <2>9 DEF PassKept
  <2> QED BY <1>0, <2>5, <2>6, <2>10, PassMoves
<1> QED BY <1>1, <1>2, <1>3, <1>4 DEF SleepNext, Form, WakeUp, Disturbed

LEMMA CopiesFinite ==
    ASSUME IsFiniteSet(products), NEW x, NEW n
    PROVE  /\ IsFiniteSet(CopiesOf(x, n)) /\ Cardinality(CopiesOf(x, n)) \in Nat
           /\ IsFiniteSet(WaitingFor(x, n)) /\ Cardinality(WaitingFor(x, n)) \in Nat
           /\ Cardinality(WaitingFor(x, n)) <= Cardinality(Sleepers) /\ Cardinality(Sleepers) \in Nat
<1>1. CopiesOf(x, n) \in SUBSET products /\ WaitingFor(x, n) \in SUBSET Sleepers
  BY DEF CopiesOf, WaitingFor
<1>2. IsFiniteSet(CopiesOf(x, n))
  BY <1>1, FS_Subset
<1>3. IsFiniteSet(WaitingFor(x, n)) /\ Cardinality(WaitingFor(x, n)) <= Cardinality(Sleepers)
  BY <1>1, FS_Subset, SleepAssumption
<1> QED BY <1>2, <1>3, FS_CardinalityType, SleepAssumption

\* Fewer passes wait, and nothing is stored.
LEMMA CopiesStayFew ==
    ASSUME IsFiniteSet(products), UNCHANGED products, NEW x, NEW n,
           Cardinality(CopiesOf(x, n)) + Cardinality(WaitingFor(x, n)) <= Cardinality(Sleepers),
           WaitingFor(x, n)' \subseteq WaitingFor(x, n)
    PROVE  (Cardinality(CopiesOf(x, n)) + Cardinality(WaitingFor(x, n)) <= Cardinality(Sleepers))'
<1>1. CopiesOf(x, n)' = CopiesOf(x, n)
  BY DEF CopiesOf
<1>2. /\ IsFiniteSet(WaitingFor(x, n)) /\ Cardinality(CopiesOf(x, n)) \in Nat
      /\ Cardinality(WaitingFor(x, n)) \in Nat /\ Cardinality(Sleepers) \in Nat
  BY CopiesFinite
<1>3. PICK W : W = WaitingFor(x, n)'
  OBVIOUS
<1>4. IsFiniteSet(W) /\ Cardinality(W) <= Cardinality(WaitingFor(x, n)) /\ Cardinality(W) \in Nat
  <2>1. W \in SUBSET WaitingFor(x, n)
    BY <1>3
  <2> QED BY <1>2, <2>1, FS_Subset, FS_CardinalityType
<1> QED BY <1>1, <1>2, <1>3, <1>4

\* A pass takes up a consolidation only if no copy of it is stored, and every copy
\* stored later takes one of the passes that wait for it.
LEMMA CopiesKept ==
    ASSUME SleepKept, SleepNext, NEW x \in Links, NEW n \in Nat
    PROVE  (Cardinality(CopiesOf(x, n)) + Cardinality(WaitingFor(x, n)) <= Cardinality(Sleepers))'
<1> DEFINE Few == Cardinality(CopiesOf(x, n)) + Cardinality(WaitingFor(x, n)) <= Cardinality(Sleepers)
<1>1. /\ IsFiniteSet(products) /\ Few /\ pass \in [Sleepers -> SleepPass]
      /\ Cardinality(CopiesOf(x, n)) \in Nat /\ Cardinality(WaitingFor(x, n)) \in Nat
      /\ Cardinality(Sleepers) \in Nat
  BY CopiesFinite DEF SleepKept, SleepPass
<1>2. ASSUME UNCHANGED <<products, pass>> PROVE Few'
  <2>1. WaitingFor(x, n)' = WaitingFor(x, n)
    BY <1>2 DEF WaitingFor
  <2> QED BY <1>1, <1>2, <2>1, CopiesStayFew
<1>3. ASSUME NEW s \in Sleepers, pass' = [pass EXCEPT ![s] = Awake], UNCHANGED products PROVE Few'
  <2>1. WaitingFor(x, n)' \subseteq WaitingFor(x, n)
    BY <1>1, <1>3 DEF WaitingFor, Awake
  <2> QED BY <1>1, <1>3, <2>1, CopiesStayFew
<1>4. ASSUME NEW s \in Sleepers, FallAsleep(s) PROVE Few'
  <2>1. PICK todo :
           /\ todo = {Product(y, Behind(formed, y)) :
                        y \in {z \in Patterns(formed) : ~Known(z, Behind(formed, z))}}
           /\ pass' = [pass EXCEPT ![s] = [stage |-> "asleep", stored |-> {}, todo |-> todo]]
    BY <1>4 DEF FallAsleep
  <2>2. UNCHANGED products
    BY <1>4 DEF FallAsleep
  <2>3. CASE Product(x, n) \in todo
    <3>1. ~Known(x, n)
      BY <2>1, <2>3 DEF Product
    <3>2. CopiesOf(x, n) = {} /\ CopiesOf(x, n)' = {}
      BY <2>2, <3>1 DEF Known, CopiesOf
    <3>3. WaitingFor(x, n)' \in SUBSET Sleepers
      BY DEF WaitingFor
    <3>4. PICK W : W = WaitingFor(x, n)'
      OBVIOUS
    <3>5. IsFiniteSet(W) /\ Cardinality(W) <= Cardinality(Sleepers)
      BY <3>3, <3>4, FS_Subset, SleepAssumption
    <3>6. Cardinality(W) \in Nat
      BY <3>5, FS_CardinalityType
    <3>7. Cardinality(CopiesOf(x, n)') = 0
      BY <3>2, FS_EmptySet
    <3> QED BY <1>1, <3>4, <3>5, <3>6, <3>7
  <2>4. CASE Product(x, n) \notin todo
    <3>1. WaitingFor(x, n)' \subseteq WaitingFor(x, n)
      BY <1>1, <2>1, <2>4 DEF WaitingFor
    <3> QED BY <1>1, <2>2, <3>1, CopiesStayFew
  <2> QED BY <2>3, <2>4
<1>5. ASSUME NEW s \in Sleepers, Consolidate(s) PROVE Few'
  <2>1. PICK y \in SleepPass : y = pass[s] /\ y.stage = "asleep"
    BY <1>1, <1>5 DEF Consolidate
  <2>2. y \in [stage : {"asleep"}, stored : SUBSET SleepProduct, todo : SUBSET SleepProduct]
    BY <2>1 DEF SleepPass, Awake
  <2>3. PICK p \in y.todo :
           /\ pass' = [pass EXCEPT ![s].todo = @ \ {p}, ![s].stored = @ \cup {p}]
           /\ products' = products \cup {[link |-> p.link, count |-> p.count,
                 copy |-> Cardinality({q \in products : q.link = p.link /\ q.count = p.count}) + 1]}
    BY <1>5, <2>1 DEF Consolidate
  <2>4. /\ \A z \in Sleepers \ {s} : pass'[z] = pass[z]
        /\ pass'[s].stage = "asleep" /\ pass'[s].todo = y.todo \ {p}
    BY <1>1, <2>1, <2>2, <2>3 DEF SleepPass
  <2>5. PICK new : new = [link |-> p.link, count |-> p.count,
                 copy |-> Cardinality({q \in products : q.link = p.link /\ q.count = p.count}) + 1]
    OBVIOUS
  <2>6. products' = products \cup {new} /\ new.link = p.link /\ new.count = p.count
    BY <2>3, <2>5
  <2>7. CASE p = Product(x, n)
    <3>1. p.link = x /\ p.count = n
      BY <2>7 DEF Product
    <3>2. CopiesOf(x, n)' = CopiesOf(x, n) \cup {new}
      BY <2>6, <3>1 DEF CopiesOf
    <3>3. s \in WaitingFor(x, n) /\ WaitingFor(x, n)' = WaitingFor(x, n) \ {s}
      BY <2>1, <2>3, <2>4, <2>7 DEF WaitingFor
    <3>4. PICK C, W : C = CopiesOf(x, n) /\ W = WaitingFor(x, n)
      OBVIOUS
    <3>5. /\ IsFiniteSet(C) /\ IsFiniteSet(W) /\ s \in W
          /\ Cardinality(C) + Cardinality(W) <= Cardinality(Sleepers)
          /\ Cardinality(C) \in Nat /\ Cardinality(W) \in Nat
      BY <1>1, <3>3, <3>4, CopiesFinite
    <3>6. Cardinality(C \cup {new}) <= Cardinality(C) + 1 /\ Cardinality(C \cup {new}) \in Nat
      <4>1. Cardinality(C \cup {new}) = IF new \in C THEN Cardinality(C) ELSE Cardinality(C) + 1
        BY <3>5, FS_AddElement
      <4> QED BY <3>5, <4>1
    <3>7. Cardinality(W \ {s}) = Cardinality(W) - 1
      BY <3>5, FS_RemoveElement
    <3>8. Cardinality(C \cup {new}) + Cardinality(W \ {s}) <= Cardinality(Sleepers)
      BY <1>1, <3>5, <3>6, <3>7
    <3> QED BY <3>2, <3>3, <3>4, <3>8
  <2>8. CASE p # Product(x, n)
    <3>1. ~(p.link = x /\ p.count = n)
      <4>1. p \in SleepProduct
        BY <2>2, <2>3
      <4>2. p = [link |-> p.link, count |-> p.count]
        BY <4>1 DEF SleepProduct
      <4> QED BY <2>8, <4>2 DEF Product
    <3>2. CopiesOf(x, n)' = CopiesOf(x, n)
      BY <2>6, <3>1 DEF CopiesOf
    <3>3. WaitingFor(x, n)' = WaitingFor(x, n)
      BY <2>1, <2>4, <2>8 DEF WaitingFor
    <3> QED BY <1>1, <3>2, <3>3
  <2> QED BY <2>7, <2>8
<1> QED BY <1>2, <1>3, <1>4, <1>5 DEF SleepNext, Form, WakeUp, Disturbed

ProductsKept ==
    /\ IsFiniteSet(products)
    /\ products \subseteq [link : Links, count : Nat, copy : Nat]
    /\ \A p \in products : Grounded(p) /\ p.copy <= Cardinality(Sleepers)
    /\ reports \subseteq SleepProduct
    /\ \A p \in reports : Known(p.link, p.count)

LEMMA ProductsStayKept ==
    ASSUME SleepKept, SleepNext
    PROVE  ProductsKept'
<1>1. /\ SleepGrows /\ ProductsKept /\ \A p \in products : Grounded(p)'
      /\ \A z \in Sleepers : pass[z] \in SleepPass /\ PassKept(pass[z])
  BY SleepStepsGrow DEF SleepKept, SleepPass, ProductsKept
<1>2. CASE UNCHANGED <<products, reports>>
  BY <1>1, <1>2 DEF ProductsKept, Known
<1>3. ASSUME NEW s \in Sleepers, WakeUp(s) PROVE ProductsKept'
  <2>1. PICK y \in SleepPass : y = pass[s] /\ y.stage = "asleep" /\ PassKept(y)
    BY <1>1, <1>3 DEF WakeUp
  <2>2. UNCHANGED products /\ reports' = reports \cup y.stored
    BY <1>3, <2>1 DEF WakeUp
  <2> QED BY <1>1, <2>1, <2>2 DEF ProductsKept, PassKept, Known
<1>4. ASSUME NEW s \in Sleepers, Consolidate(s) PROVE ProductsKept'
  <2>1. PICK y \in SleepPass : y = pass[s] /\ y.stage = "asleep" /\ PassKept(y)
    BY <1>1, <1>4 DEF Consolidate
  <2>2. PICK p \in y.todo :
           products' = products \cup {[link |-> p.link, count |-> p.count,
                 copy |-> Cardinality({q \in products : q.link = p.link /\ q.count = p.count}) + 1]}
    BY <1>4, <2>1 DEF Consolidate
  <2>3. p \in SleepProduct /\ Grounded(p) /\ p.link \in Links /\ p.count \in Nat /\ p = Product(p.link, p.count)
    <3>1. p \in SleepProduct /\ Grounded(p)
      BY <2>1 DEF PassKept
    <3> QED BY <3>1 DEF SleepProduct, Product
  <2>4. PICK new : new = [link |-> p.link, count |-> p.count,
                          copy |-> Cardinality(CopiesOf(p.link, p.count)) + 1]
    OBVIOUS
  <2>5. products' = products \cup {new} /\ new.link = p.link /\ new.count = p.count
        /\ new.copy = Cardinality(CopiesOf(p.link, p.count)) + 1
    BY <2>2, <2>4 DEF CopiesOf
  <2>6. /\ Cardinality(CopiesOf(p.link, p.count)) \in Nat
        /\ Cardinality(CopiesOf(p.link, p.count)) + 1 <= Cardinality(Sleepers)
    <3>1. s \in WaitingFor(p.link, p.count)
      BY <2>1, <2>3 DEF WaitingFor
    <3>2. PICK C, W : C = CopiesOf(p.link, p.count) /\ W = WaitingFor(p.link, p.count)
      OBVIOUS
    <3>3. /\ IsFiniteSet(W) /\ Cardinality(C) \in Nat /\ Cardinality(W) \in Nat
          /\ Cardinality(Sleepers) \in Nat
      BY <1>1, <3>2, CopiesFinite DEF ProductsKept
    <3>4. Cardinality(C) + Cardinality(W) <= Cardinality(Sleepers)
      BY <2>3, <3>2 DEF SleepKept
    <3>5. Cardinality(W) # 0
      BY <3>1, <3>2, <3>3, FS_EmptySet
    <3>6. Cardinality(C) + 1 <= Cardinality(Sleepers)
      BY <3>3, <3>4, <3>5
    <3> QED BY <3>2, <3>3, <3>6
  <2>7. IsFiniteSet(products')
    BY <1>1, <2>5, FS_AddElement DEF ProductsKept
  <2>8. new \in [link : Links, count : Nat, copy : Nat]
    BY <2>3, <2>4, <2>6
  <2>9. Grounded(new)'
    <3>1. Grounded(p)'
      BY <1>1, <2>3 DEF SleepGrows
    <3> QED BY <2>5, <3>1 DEF Grounded
  <2>10. UNCHANGED reports
    BY <1>4 DEF Consolidate
  <2> QED BY <1>1, <2>5, <2>6, <2>7, <2>8, <2>9, <2>10 DEF ProductsKept, SleepGrows
<1> QED BY <1>2, <1>3, <1>4 DEF SleepNext, Form, FallAsleep, Disturbed

LEMMA SleepKeptHolds == SleepSpec => []SleepKept
<1>1. SleepInit => SleepKept
  <2> SUFFICES ASSUME SleepInit PROVE SleepKept
      OBVIOUS
  <2>1. ASSUME NEW x, NEW n
        PROVE  Cardinality(CopiesOf(x, n)) + Cardinality(WaitingFor(x, n)) <= Cardinality(Sleepers)
    <3>1. CopiesOf(x, n) = {}
      BY DEF SleepInit, CopiesOf
    <3>2. Cardinality(CopiesOf(x, n)) = 0
      BY <3>1, FS_EmptySet
    <3>3. IsFiniteSet(products)
      BY FS_EmptySet DEF SleepInit
    <3> QED BY <3>2, <3>3, CopiesFinite
  <2>2. IsFiniteSet(formed) /\ IsFiniteSet(products)
    BY FS_EmptySet DEF SleepInit
  <2>3. \A s \in Sleepers : PassKept(pass[s])
    BY DEF SleepInit, PassKept, Awake
  <2> QED BY <2>1, <2>2, <2>3 DEF SleepInit, SleepKept
<1>2. SleepKept /\ [SleepNext]_sleepVars => SleepKept'
  <2>1. ASSUME SleepKept, SleepNext PROVE SleepKept'
    BY <2>1, SleepStepsGrow, PassesKept, CopiesKept, ProductsStayKept
       DEF SleepKept, SleepPass, ProductsKept
  <2>2. ASSUME SleepKept, UNCHANGED sleepVars PROVE SleepKept'
    BY <2>2 DEF sleepVars, SleepKept, PassKept, Grounded, Known, CopiesOf, WaitingFor
  <2> QED BY <2>1, <2>2
<1> QED BY <1>1, <1>2, PTL DEF SleepSpec

\* What sleep adds to memory is grounded in distinct memories, repeated no more
\* often than passes can overlap, and reported only when it is stored, however
\* often passes run beside each other, fail halfway and run again: for any
\* associations, sleepers and thresholds (the sleep consolidation of the Mind).
THEOREM ConsolidationsAlwaysHold == SleepSpec => []ConsolidationsHold
<1>1. SleepKept => ConsolidationsHold
  BY DEF SleepKept, PassKept, Grounded, ConsolidationsHold, SleepOK, ClaimsAreGrounded, FewCopies,
         ReportsAreStored
<1> QED BY <1>1, SleepKeptHolds, PTL

-----------------------------------------------------------------------------
(* The current-state ledger *)

Names == Participants \cup {"mind", "reasoning", "unresolved", "input", "message", "summary",
                            "references", "no_work"}

\* An answer that says it is unknown has no value, and only such an answer.
Sources == {"nothing", "event", "mind", "human", "body", "participants", "speaker", "nonhuman",
            "host", "initial"}
LedgerAnswer ==
    {x \in [value : SUBSET Names, status : {"current", "unknown", "disputed"}, from : Sources] :
        x.status = "unknown" <=> x.value = {}}

LedgerRecord == [fields : [Fields -> LedgerAnswer], revision : Nat]

\* Changes to the answers of some fields.
Changes(changes) == DOMAIN changes \subseteq Fields /\ \A f \in DOMAIN changes : changes[f] \in LedgerAnswer

Conversing == {"who_is_speaking", "interlocutor", "presence"}

\* An answer that a conversation established is about that turn's participants.
OfTurn(answer, participants) ==
    answer.from = "participants" => answer.value # {} /\ answer.value \subseteq participants

LEMMA AnswerTyped ==
    ASSUME NEW value \in SUBSET Names, NEW status \in {"current", "disputed"}, NEW from \in Sources,
           value # {}
    PROVE  Answer(value, status, from) \in LedgerAnswer
BY DEF Answer, LedgerAnswer

LEMMA UnknownTyped ==
    ASSUME NEW why \in Sources
    PROVE  Unknown(why) \in LedgerAnswer
BY DEF Unknown, Answer, LedgerAnswer

LEMMA AnsweredTyped ==
    ASSUME NEW ledger \in LedgerRecord, NEW changes, Changes(changes)
    PROVE  /\ Answered(ledger, changes) \in LedgerRecord
           /\ Answered(ledger, changes).revision = ledger.revision
           /\ \A f \in Fields : Answered(ledger, changes).fields[f] =
                                    IF f \in DOMAIN changes THEN changes[f] ELSE ledger.fields[f]
<1> DEFINE fields == [f \in Fields |-> IF f \in DOMAIN changes THEN changes[f] ELSE ledger.fields[f]]
<1>1. fields \in [Fields -> LedgerAnswer]
  BY DEF LedgerRecord, Changes
<1>2. Answered(ledger, changes) = [ledger EXCEPT !.fields = fields]
  BY DEF Answered
<1>3. \A f \in Fields : fields[f] = IF f \in DOMAIN changes THEN changes[f] ELSE ledger.fields[f]
  OBVIOUS
<1> HIDE DEF fields
<1> QED BY <1>1, <1>2, <1>3 DEF LedgerRecord

LEMMA EventInputs ==
    ASSUME NEW input \in Inputs, input.kind = "event"
    PROVE  /\ input.event \in DOMAIN Invalidated
           /\ input.invalidate \subseteq Fields
           /\ Changes(input.values)
           /\ \A f \in DOMAIN input.values : input.values[f].from = "event"
<1>1. input \in Events
  BY InputsAssumption DEF Begins, HumanBegins
<1> DEFINE reported ==
       {<<>>} \cup {[who_is_speaking |-> Answer({p}, "current", "event")] : p \in Participants} \cup
       {[presence |-> Answer({p}, "disputed", "event")] : p \in Participants}
<1>2. PICK e \in DOMAIN Invalidated, gone \in SUBSET (Fields \ {"identity"}), v \in reported :
              input = [kind |-> "event", event |-> e, invalidate |-> gone, values |-> v]
  <2>1. Events = {[kind |-> "event", event |-> e, invalidate |-> gone, values |-> v] :
                    e \in DOMAIN Invalidated, gone \in SUBSET (Fields \ {"identity"}),
                    v \in reported}
    BY DEF Events
  <2> HIDE DEF reported
  <2> QED BY <1>1, <2>1
<1>3. CASE v = <<>>
  <2>1. DOMAIN v = {}
    BY <1>3, EmptySeq
  <2> QED BY <1>2, <2>1 DEF Changes
<1>4. ASSUME NEW p \in Participants, v = [who_is_speaking |-> Answer({p}, "current", "event")]
      PROVE  Changes(v) /\ \A f \in DOMAIN v : v[f].from = "event"
  <2>1. Answer({p}, "current", "event") \in LedgerAnswer
    <3>1. {p} \in SUBSET Names /\ {p} # {} /\ "event" \in Sources
      BY DEF Names, Sources
    <3> QED BY <3>1, AnswerTyped
  <2>2. Answer({p}, "current", "event").from = "event"
    BY DEF Answer
  <2> QED BY <1>4, <2>1, <2>2 DEF Changes, Fields
<1>5. ASSUME NEW p \in Participants, v = [presence |-> Answer({p}, "disputed", "event")]
      PROVE  Changes(v) /\ \A f \in DOMAIN v : v[f].from = "event"
  <2>1. Answer({p}, "disputed", "event") \in LedgerAnswer
    <3>1. {p} \in SUBSET Names /\ {p} # {} /\ "event" \in Sources
      BY DEF Names, Sources
    <3> QED BY <3>1, AnswerTyped
  <2>2. Answer({p}, "disputed", "event").from = "event"
    BY DEF Answer
  <2> QED BY <1>5, <2>1, <2>2 DEF Changes, Fields
<1> QED BY <1>2, <1>3, <1>4, <1>5

LEMMA BegunInputs ==
    ASSUME NEW input \in Inputs, input.kind # "event"
    PROVE  /\ input.kind = "begin" /\ input.from \in {"human", "body"}
           /\ input.participants \subseteq Participants /\ input.speaker \subseteq input.participants
           /\ input.sensed \subseteq Participants /\ input.notes \in SUBSET {"summary", "references"}
<1>1. input \in Begins
  <2>1. \A x \in Events : x.kind = "event"
    BY DEF Events
  <2> QED BY <2>1, InputsAssumption
<1>2. CASE input \in HumanBegins /\ input.speaker \subseteq input.participants
  <2>1. PICK ps \in SUBSET Participants, s \in {{p} : p \in Participants} \cup {{}}, n \in Notes :
               input = [kind |-> "begin", from |-> "human", participants |-> ps, speaker |-> s,
                        sensed |-> {}, notes |-> n]
    BY <1>2 DEF HumanBegins
  <2> QED BY <1>2, <2>1 DEF Notes
<1>3. CASE input \notin HumanBegins \/ ~(input.speaker \subseteq input.participants)
  <2>1. PICK x \in SUBSET Participants, n \in Notes :
               input = [kind |-> "begin", from |-> "body", participants |-> {}, speaker |-> {},
                        sensed |-> x, notes |-> n]
    BY <1>1, <1>3 DEF Begins
  <2> QED BY <2>1 DEF Notes
<1> QED BY <1>2, <1>3

\* An event or interaction as the journal of truth sees it.
LEMMA EventApplied ==
    ASSUME NEW ledger \in LedgerRecord, NEW input \in Inputs, input.kind = "event", NEW turnOf,
           \A f \in Conversing : OfTurn(ledger.fields[f], turnOf)
    PROVE  /\ ApplyEvent(ledger, input) \in LedgerRecord
           /\ \A f \in Conversing : OfTurn(ApplyEvent(ledger, input).fields[f], turnOf)
<1> DEFINE blank == [f \in Invalidated[input.event] \cup input.invalidate |-> Unknown("event")]
           cleared == Answered(ledger, blank)
           valued == Answered(cleared, input.values)
<1>1. Changes(blank) /\ \A f \in DOMAIN blank : blank[f].from = "event"
  <2>1. Unknown("event") \in LedgerAnswer
    BY UnknownTyped DEF Sources
  <2>3. Unknown("event").from = "event"
    BY DEF Unknown, Answer
  <2>2. Invalidated[input.event] \cup input.invalidate \subseteq Fields
    BY EventInputs DEF Invalidated, Fields
  <2> QED BY <2>1, <2>2, <2>3 DEF Changes
<1>2. Conversing \subseteq Fields
  BY DEF Conversing, Fields
<1>3. /\ Changes(input.values) /\ \A f \in DOMAIN input.values : input.values[f].from = "event"
  BY EventInputs
<1> HIDE DEF blank
<1>4. /\ cleared \in LedgerRecord
      /\ \A f \in Fields : cleared.fields[f] = IF f \in DOMAIN blank THEN blank[f] ELSE ledger.fields[f]
  BY <1>1, AnsweredTyped
<1> HIDE DEF cleared
<1>5. /\ valued \in LedgerRecord
      /\ \A f \in Fields : valued.fields[f] = IF f \in DOMAIN input.values THEN input.values[f]
                                              ELSE cleared.fields[f]
  BY <1>3, <1>4, AnsweredTyped
<1>6. ApplyEvent(ledger, input) = [valued EXCEPT !.revision = @ + 1]
  BY DEF ApplyEvent, blank, cleared
<1> HIDE DEF valued
<1>7. ApplyEvent(ledger, input) \in LedgerRecord /\ ApplyEvent(ledger, input).fields = valued.fields
  <2>1. valued.revision + 1 \in Nat
    BY <1>5 DEF LedgerRecord
  <2>2. PICK next \in Nat : next = valued.revision + 1
    BY <2>1
  <2>3. ApplyEvent(ledger, input) = [valued EXCEPT !.revision = next]
    BY <1>5, <1>6, <2>2 DEF LedgerRecord
  <2> QED BY <1>5, <2>3 DEF LedgerRecord
<1>8. ASSUME NEW f \in Conversing PROVE OfTurn(valued.fields[f], turnOf)
  BY <1>1, <1>2, <1>3, <1>4, <1>5, <1>8 DEF OfTurn
<1> QED BY <1>7, <1>8

\* What an interaction that begins says of the conversation, case by case.
LEMMA ConversationTyped ==
    ASSUME NEW now \in [Fields -> LedgerAnswer], NEW input \in Inputs, input.kind # "event"
    PROVE  /\ Changes(Conversation(now, input))
           /\ \A f \in Conversing : /\ f \in DOMAIN Conversation(now, input)
                                    /\ OfTurn(Conversation(now, input)[f], input.participants)
<1>1. /\ input.from \in {"human", "body"}
      /\ input.participants \subseteq Participants /\ input.speaker \subseteq input.participants
      /\ input.sensed \subseteq Participants
  BY BegunInputs
<1>2. now.presence \in LedgerAnswer /\ now.who_is_present \in LedgerAnswer
  BY DEF Fields
<1>3. /\ Unknown("speaker") \in LedgerAnswer /\ Unknown("nonhuman") \in LedgerAnswer
      /\ Unknown("speaker").from = "speaker" /\ Unknown("nonhuman").from = "nonhuman"
  <2>1. "speaker" \in Sources /\ "nonhuman" \in Sources
    BY DEF Sources
  <2>2. Unknown("speaker") \in LedgerAnswer /\ Unknown("nonhuman") \in LedgerAnswer
    BY <2>1, UnknownTyped
  <2>3. Unknown("speaker").from = "speaker" /\ Unknown("nonhuman").from = "nonhuman"
    BY DEF Unknown, Answer
  <2> QED BY <2>2, <2>3
<1>4. CASE input.participants # {}
  <2>1. PICK these : these = Answer(input.participants, "current", "participants")
    OBVIOUS
  <2>2. PICK speaker : speaker = IF input.speaker # {}
                                 THEN Answer(input.speaker, "current", "participants")
                                 ELSE Unknown("speaker")
    OBVIOUS
  <2>3. /\ these \in LedgerAnswer /\ OfTurn(these, input.participants)
    <3>1. input.participants \in SUBSET Names /\ "participants" \in Sources
      BY <1>1 DEF Names, Sources
    <3>2. these \in LedgerAnswer
      BY <1>4, <2>1, <3>1, AnswerTyped
    <3> QED BY <1>4, <2>1, <3>2 DEF OfTurn, Answer
  <2>4. speaker \in LedgerAnswer /\ OfTurn(speaker, input.participants)
    <3>1. CASE input.speaker # {}
      <4>1. input.speaker \in SUBSET Names /\ "participants" \in Sources
        BY <1>1 DEF Names, Sources
      <4>2. speaker = Answer(input.speaker, "current", "participants")
        BY <2>2, <3>1
      <4>3. speaker \in LedgerAnswer
        BY <3>1, <4>1, <4>2, AnswerTyped
      <4> QED BY <1>1, <3>1, <4>2, <4>3 DEF OfTurn, Answer
    <3>2. CASE input.speaker = {}
      BY <1>3, <2>2, <3>2 DEF OfTurn
    <3> QED BY <3>1, <3>2
  <2>5. PICK conversation :
           conversation = [interlocutor |-> these, presence |-> these, who_is_present |-> these,
                           who_is_speaking |-> speaker]
    OBVIOUS
  <2>6. Conversation(now, input) = conversation
    BY <1>4, <2>1, <2>2, <2>5 DEF Conversation
  <2> QED BY <2>3, <2>4, <2>5, <2>6 DEF Changes, Fields, Conversing
<1>5. CASE input.participants = {} /\ input.from = "human"
  <2>1. PICK unresolved : unresolved = Answer({"unresolved"}, "current", "human")
    OBVIOUS
  <2>2. PICK who : who = IF now.presence.status = "unknown"
                                      \/ now.presence.from = "participants"
                                   THEN Answer({"input"}, "current", "human") ELSE now.presence
    OBVIOUS
  <2>3. "human" \in Sources /\ {"unresolved"} \in SUBSET Names /\ {"input"} \in SUBSET Names
        /\ {"unresolved"} # {} /\ {"input"} # {}
    BY DEF Sources, Names
  <2>4. unresolved \in LedgerAnswer /\ OfTurn(unresolved, input.participants)
    <3>1. unresolved \in LedgerAnswer
      BY <2>1, <2>3, AnswerTyped
    <3>2. unresolved.from = "human"
      BY <2>1 DEF Answer
    <3> QED BY <3>1, <3>2 DEF OfTurn
  <2>5. who \in LedgerAnswer /\ OfTurn(who, input.participants)
    <3>1. Answer({"input"}, "current", "human") \in LedgerAnswer
      BY <2>3, AnswerTyped
    <3>2. Answer({"input"}, "current", "human").from = "human"
      BY DEF Answer
    <3> QED BY <1>2, <2>2, <3>1, <3>2 DEF OfTurn
  <2>6. PICK conversation :
           conversation = [who_is_speaking |-> Unknown("speaker"), interlocutor |-> unresolved,
                           presence |-> who]
    OBVIOUS
  <2>7. Conversation(now, input) = conversation
    BY <1>5, <2>1, <2>2, <2>6 DEF Conversation
  <2>8. OfTurn(Unknown("speaker"), input.participants)
    BY <1>3 DEF OfTurn
  <2> QED BY <1>3, <2>4, <2>5, <2>6, <2>7, <2>8 DEF Changes, Fields, Conversing
<1>6. CASE input.participants = {} /\ input.from = "body"
  <2>1. PICK sensed : sensed = Answer(input.sensed, "current", "body")
    OBVIOUS
  <2>2. PICK who : who = IF input.sensed # {} THEN sensed
                                   ELSE IF now.presence.status = "unknown"
                                           \/ now.presence.from \in {"human", "participants"}
                                        THEN Unknown("nonhuman") ELSE now.presence
    OBVIOUS
  <2>3. PICK present : present = IF input.sensed # {} THEN sensed ELSE now.who_is_present
    OBVIOUS
  <2>4. input.sensed # {} => sensed \in LedgerAnswer /\ sensed.from = "body"
    <3>1. "body" \in Sources /\ input.sensed \in SUBSET Names
      BY <1>1 DEF Sources, Names
    <3>2. sensed.from = "body"
      BY <2>1 DEF Answer
    <3> QED BY <2>1, <3>1, <3>2, AnswerTyped
  <2>5. who \in LedgerAnswer /\ OfTurn(who, input.participants)
    BY <1>2, <1>3, <2>2, <2>4 DEF OfTurn
  <2>6. present \in LedgerAnswer
    BY <1>2, <2>3, <2>4
  <2>7. PICK conversation :
           conversation = [who_is_speaking |-> Unknown("nonhuman"),
                           interlocutor |-> Unknown("nonhuman"), presence |-> who,
                           who_is_present |-> present]
    OBVIOUS
  <2>8. Conversation(now, input) = conversation
    BY <1>6, <2>1, <2>2, <2>3, <2>7 DEF Conversation
  <2>9. OfTurn(Unknown("nonhuman"), input.participants)
    BY <1>3 DEF OfTurn
  <2> QED BY <1>3, <2>5, <2>6, <2>7, <2>8, <2>9 DEF Changes, Fields, Conversing
<1> QED BY <1>1, <1>4, <1>5, <1>6

\* An interaction that begins leaves the conversation of no earlier one.
LEMMA InteractionApplied ==
    ASSUME NEW ledger \in LedgerRecord, NEW input \in Inputs, input.kind # "event"
    PROVE  /\ Refreshed(ledger, input) \in LedgerRecord
           /\ \A f \in Conversing : OfTurn(Refreshed(ledger, input).fields[f], input.participants)
<1> DEFINE now == ledger.fields
           topical == Topical(ledger, input)
           half == Answered(ledger, topical)
           conversation == Conversation(now, input)
           next == Answered(half, conversation)
<1>1. now \in [Fields -> LedgerAnswer] /\ Conversing \subseteq Fields
  BY DEF LedgerRecord, Conversing, Fields
<1>2. Changes(topical)
  <2>1. input.from \in Sources /\ "mind" \in Sources /\ "host" \in Sources /\ "initial" \in Sources
    BY BegunInputs DEF Sources
  <2>2. /\ {"mind"} \in SUBSET Names /\ {"reasoning"} \in SUBSET Names /\ {"message"} \in SUBSET Names
        /\ {"mind"} # {} /\ {"reasoning"} # {} /\ {"message"} # {}
    BY DEF Names
  <2>3. /\ {"summary"} \in SUBSET Names /\ {"references"} \in SUBSET Names /\ {"no_work"} \in SUBSET Names
        /\ {"summary"} # {} /\ {"references"} # {} /\ {"no_work"} # {}
    BY DEF Names
  <2>4. input.notes \in SUBSET Names
    BY BegunInputs DEF Names
  <2>5. PICK mindful, busy, said, noted :
           /\ mindful = Answer({"mind"}, "current", "mind")
           /\ busy = Answer({"reasoning"}, "current", input.from)
           /\ said = Answer({"message"}, "current", input.from)
           /\ noted = Answer(input.notes, "current", "host")
    OBVIOUS
  <2>6. PICK summed, referred, free :
           /\ summed = Answer({"summary"}, "current", "host")
           /\ referred = Answer({"references"}, "current", "host")
           /\ free = Answer({"no_work"}, "current", "initial")
    OBVIOUS
  <2>7. mindful \in LedgerAnswer /\ busy \in LedgerAnswer /\ said \in LedgerAnswer
    BY <2>1, <2>2, <2>5, AnswerTyped
  <2>8. summed \in LedgerAnswer /\ referred \in LedgerAnswer /\ free \in LedgerAnswer
    BY <2>1, <2>3, <2>6, AnswerTyped
  <2>9. input.notes # {} => noted \in LedgerAnswer
    BY <2>1, <2>4, <2>5, AnswerTyped
  <2>10. /\ now.topic \in LedgerAnswer /\ now.context \in LedgerAnswer
         /\ now.questions \in LedgerAnswer /\ now.pending \in LedgerAnswer
    BY <1>1 DEF Fields
  <2>11. PICK topic, context, questions, todo :
            /\ topic = IF "summary" \in input.notes THEN summed
                       ELSE IF now.topic.status = "unknown" THEN said ELSE now.topic
            /\ context = IF "summary" \in input.notes THEN summed
                         ELSE IF ledger.revision = 0 THEN said ELSE now.context
            /\ questions = IF input.notes # {} THEN noted ELSE now.questions
            /\ todo = IF "references" \in input.notes THEN referred
                         ELSE IF now.pending.status = "unknown" THEN free ELSE now.pending
    OBVIOUS
  <2>12. /\ topic \in LedgerAnswer /\ context \in LedgerAnswer
         /\ questions \in LedgerAnswer /\ todo \in LedgerAnswer
    BY <2>7, <2>8, <2>9, <2>10, <2>11
  <2>13. topical = [identity |-> mindful, task |-> busy, topic |-> topic, context |-> context,
                    questions |-> questions, pending |-> todo]
    BY <2>5, <2>6, <2>11 DEF Topical
  <2> HIDE DEF topical
  <2> QED BY <2>7, <2>12, <2>13 DEF Changes, Fields
<1>3. /\ Changes(conversation)
      /\ \A f \in Conversing : f \in DOMAIN conversation /\ OfTurn(conversation[f], input.participants)
  BY <1>1, ConversationTyped
<1> HIDE DEF topical, conversation
<1>4. half \in LedgerRecord
  BY <1>2, AnsweredTyped
<1> HIDE DEF half
<1>5. /\ next \in LedgerRecord
      /\ \A f \in Fields : next.fields[f] = IF f \in DOMAIN conversation THEN conversation[f]
                                            ELSE half.fields[f]
  BY <1>3, <1>4, AnsweredTyped
<1>6. Refreshed(ledger, input) = IF next.fields = now THEN ledger ELSE [next EXCEPT !.revision = @ + 1]
  BY DEF Refreshed, next, half, conversation, topical
<1> HIDE DEF next
<1>7. Refreshed(ledger, input) \in LedgerRecord /\ Refreshed(ledger, input).fields = next.fields
  <2>1. PICK r \in Nat : r = next.revision + 1
    BY <1>5 DEF LedgerRecord
  <2>2. Refreshed(ledger, input) = IF next.fields = now THEN ledger ELSE [next EXCEPT !.revision = r]
    BY <1>5, <1>6, <2>1 DEF LedgerRecord
  <2>3. [next EXCEPT !.revision = r] \in LedgerRecord /\ [next EXCEPT !.revision = r].fields = next.fields
    BY <1>5 DEF LedgerRecord
  <2> QED BY <2>2, <2>3
<1> QED BY <1>1, <1>3, <1>5, <1>7

Checkpoint == [at : Nat, ledger : LedgerRecord]
TruthRecord == [ledger : LedgerRecord, commits : Nat, turn : SUBSET Participants]
StagedEdit == [stage : {"staged"}, input : Inputs, seen : Nat, at : Nat, before : LedgerRecord]

\* Two times in the order of the journal.  A durable store's clock has moved on
\* when the next checkpoint is stamped.
Follows(later, earlier) == IF store = "durable" THEN earlier < later ELSE earlier <= later

\* The checkpoint appended last is the one with the latest time, and has not been
\* stamped with a time to come.
CheckpointsFollow ==
    /\ \A i \in DOMAIN checkpoints : Follows(ledgerClock, checkpoints[i].at)
    /\ \A i, j \in DOMAIN checkpoints : i < j => Follows(checkpoints[j].at, checkpoints[i].at)

\* A call that may still commit loaded the ledger as it is, after all checkpoints.
EditKept(e) ==
    e.stage = "staged" =>
        /\ e \in StagedEdit
        /\ e.at <= ledgerClock /\ e.seen <= revisionsMade
        /\ e.seen = revisionsMade =>
              /\ e.before = truth.ledger
              /\ \A i \in DOMAIN checkpoints : Follows(e.at, checkpoints[i].at)

LedgerTyped ==
    /\ checkpoints \in Seq(Checkpoint) /\ ledgerClock \in Nat /\ revisionsMade \in Nat
    /\ store \in {"memory", "durable"}
    /\ truth \in TruthRecord
    /\ edit \in [Editors -> {NoEdit} \cup StagedEdit]

\* The truth is what the journal says.
TruthIsLast ==
    truth.ledger = IF checkpoints = <<>> THEN EmptyLedger ELSE checkpoints[Len(checkpoints)].ledger

LedgerKept ==
    /\ LedgerTyped
    /\ CheckpointsFollow
    /\ TruthIsLast
    /\ \A f \in Conversing : OfTurn(truth.ledger.fields[f], truth.turn)
    /\ \A w \in Editors : EditKept(edit[w])

LEMMA EmptyLedgerTyped ==
    /\ EmptyLedger \in LedgerRecord
    /\ \A f \in Conversing : OfTurn(EmptyLedger.fields[f], {})
<1>1. "nothing" \in Sources
  BY DEF Sources
<1>2. Unknown("nothing") \in LedgerAnswer
  BY <1>1, UnknownTyped
<1>3. Unknown("nothing").from = "nothing"
  BY DEF Unknown, Answer
<1>4. Conversing \subseteq Fields
  BY DEF Conversing, Fields
<1> QED BY <1>2, <1>3, <1>4 DEF EmptyLedger, LedgerRecord, OfTurn

\* Whoever loads the ledger finds the one checkpoint that was appended last.
LEMMA LoadedIsTruth ==
    ASSUME LedgerTyped, CheckpointsFollow, TruthIsLast
    PROVE  Loaded = {truth.ledger}
<1>1. CASE checkpoints = <<>>
  BY <1>1 DEF Loaded, TruthIsLast
<1>2. CASE checkpoints # <<>>
  <2> DEFINE n == Len(checkpoints)
             newest == {i \in DOMAIN checkpoints :
                          \A j \in DOMAIN checkpoints : checkpoints[j].at <= checkpoints[i].at}
  <2>1. n \in Nat /\ n >= 1 /\ DOMAIN checkpoints = 1 .. n
        /\ \A i \in 1 .. n : checkpoints[i] \in Checkpoint
    BY <1>2, LenProperties, EmptySeq, ElementOfSeq DEF LedgerTyped
  <2>2. \A i \in 1 .. n : checkpoints[i].at \in Nat
    BY <2>1 DEF Checkpoint
  <2>3. \A i \in 1 .. n : i < n => Follows(checkpoints[n].at, checkpoints[i].at)
    BY <2>1 DEF CheckpointsFollow
  <2> HIDE DEF n
  <2>4. n \in newest /\ \A i \in newest : i \in 1 .. n
    <3>1. \A i \in 1 .. n : checkpoints[i].at <= checkpoints[n].at
      <4> SUFFICES ASSUME NEW i \in 1 .. n PROVE checkpoints[i].at <= checkpoints[n].at
          OBVIOUS
      <4>1. n \in 1 .. n /\ i <= n
        BY <2>1
      <4>2. CASE i = n
        BY <2>2, <4>1, <4>2
      <4>3. CASE i < n
        BY <2>2, <2>3, <4>1, <4>3 DEF Follows
      <4> QED BY <2>1, <4>1, <4>2, <4>3
    <3> QED BY <2>1, <3>1
  <2>5. store = "durable" => newest = {n}
    <3> SUFFICES ASSUME store = "durable", NEW i \in newest PROVE i = n
        BY <2>4
    <3>1. checkpoints[n].at <= checkpoints[i].at /\ i \in 1 .. n /\ n \in 1 .. n
      BY <2>1, <2>4
    <3>2. i < n => checkpoints[i].at < checkpoints[n].at
      BY <2>3, <3>1 DEF Follows
    <3> QED BY <2>1, <2>2, <3>1, <3>2
  <2>6. store = "memory" => {i \in newest : \A j \in newest : j <= i} = {n}
    <3>1. \A i \in newest : i <= n
      BY <2>1, <2>4
    <3>2. \A i \in newest : n <= i => i = n
      BY <2>1, <2>4
    <3> QED BY <2>4, <3>1, <3>2
  <2>7. Latest = {n}
    <3>1. Latest = IF store = "memory" THEN {i \in newest : \A j \in newest : j <= i} ELSE newest
      BY DEF Latest
    <3> HIDE DEF newest
    <3> QED BY <2>5, <2>6, <3>1 DEF LedgerTyped
  <2>8. truth.ledger = checkpoints[n].ledger
    BY <1>2 DEF TruthIsLast, n
  <2> QED BY <1>2, <2>7, <2>8 DEF Loaded
<1> QED BY <1>1, <1>2

\* An attempt stages what applies to the ledger as it is.
LEMMA AttemptKept ==
    ASSUME LedgerKept, NEW w \in Editors, NEW input \in Inputs, Attempt(w, input),
           UNCHANGED <<checkpoints, revisionsMade, store, ledgerClock, truth>>
    PROVE  LedgerKept'
<1>1. Loaded = {truth.ledger}
  BY LoadedIsTruth DEF LedgerKept
<1> DEFINE next == [stage |-> "staged", input |-> input, seen |-> revisionsMade,
                    at |-> ledgerClock, before |-> truth.ledger]
<1>2. edit' = [edit EXCEPT ![w] = next]
  BY <1>1 DEF Attempt
<1>3. next \in StagedEdit
  BY DEF LedgerKept, LedgerTyped, StagedEdit, TruthRecord
<1>4. LedgerTyped'
  BY <1>2, <1>3 DEF LedgerKept, LedgerTyped
<1>5. CheckpointsFollow' /\ TruthIsLast'
  BY DEF LedgerKept, CheckpointsFollow, Follows, TruthIsLast
<1>6. ASSUME NEW e \in Editors PROVE EditKept(edit[e])'
  <2>1. CASE e = w
    <3>1. edit'[e] = next
      BY <1>2, <2>1 DEF LedgerKept, LedgerTyped
    <3>2. next.at <= ledgerClock /\ next.seen <= revisionsMade /\ next.before = truth.ledger
          /\ next.at = ledgerClock
      BY DEF LedgerKept, LedgerTyped
    <3>3. \A i \in DOMAIN checkpoints : Follows(ledgerClock, checkpoints[i].at)
      BY DEF LedgerKept, CheckpointsFollow
    <3> HIDE DEF next
    <3> QED BY <1>3, <3>1, <3>2, <3>3 DEF EditKept, Follows
  <2>2. CASE e # w
    <3>1. edit'[e] = edit[e] /\ EditKept(edit[e])
      BY <1>2, <2>2 DEF LedgerKept, LedgerTyped
    <3> QED BY <3>1 DEF EditKept, Follows
  <2> QED BY <2>1, <2>2
<1> QED BY <1>4, <1>5, <1>6 DEF LedgerKept, OfTurn

\* What a committed call makes of the ledger as it was.
LEMMA CommitApplied ==
    ASSUME LedgerKept, NEW w \in Editors, CommitEdit(w)
    PROVE  /\ edit[w] \in StagedEdit /\ edit[w].before = truth.ledger
           /\ Applied(truth.ledger, edit[w].input) = truth'.ledger
           /\ truth' \in TruthRecord
           /\ \A f \in Conversing : OfTurn(truth'.ledger.fields[f], truth'.turn)
<1>1. edit[w].stage = "staged" /\ edit[w].seen = revisionsMade
  BY DEF CommitEdit
<1>2. edit[w] \in StagedEdit /\ edit[w].before = truth.ledger
  BY <1>1 DEF LedgerKept, EditKept
<1>3. PICK input \in Inputs : input = edit[w].input
  BY <1>2 DEF StagedEdit
<1>4. PICK commits \in Nat : commits = truth.commits + 1
  BY DEF LedgerKept, LedgerTyped, TruthRecord
<1>5. truth.ledger \in LedgerRecord /\ truth.turn \in SUBSET Participants
      /\ \A f \in Conversing : OfTurn(truth.ledger.fields[f], truth.turn)
  BY DEF LedgerKept, LedgerTyped, TruthRecord
<1>6. truth' = [ledger |-> Applied(truth.ledger, input), commits |-> commits,
                turn |-> IF input.kind = "begin" THEN input.participants ELSE truth.turn]
  BY <1>3, <1>4 DEF CommitEdit
<1>7. CASE input.kind = "event"
  <2>1. Applied(truth.ledger, input) = ApplyEvent(truth.ledger, input)
    BY <1>7 DEF Applied
  <2>2. truth'.turn = truth.turn /\ truth'.ledger = Applied(truth.ledger, input)
    BY <1>6, <1>7
  <2>3. /\ ApplyEvent(truth.ledger, input) \in LedgerRecord
        /\ \A f \in Conversing : OfTurn(ApplyEvent(truth.ledger, input).fields[f], truth.turn)
    BY <1>5, <1>7, EventApplied
  <2>4. truth' \in TruthRecord
    BY <1>5, <1>6, <1>7, <2>1, <2>3 DEF TruthRecord
  <2> QED BY <1>2, <1>3, <2>1, <2>2, <2>3, <2>4
<1>8. CASE input.kind # "event"
  <2>1. Applied(truth.ledger, input) = Refreshed(truth.ledger, input)
    BY <1>8 DEF Applied
  <2>2. input.kind = "begin" /\ input.participants \subseteq Participants
    BY <1>8, BegunInputs
  <2>3. truth'.turn = input.participants /\ truth'.ledger = Applied(truth.ledger, input)
    BY <1>6, <2>2
  <2>4. /\ Refreshed(truth.ledger, input) \in LedgerRecord
        /\ \A f \in Conversing : OfTurn(Refreshed(truth.ledger, input).fields[f], input.participants)
    BY <1>5, <1>8, InteractionApplied
  <2>5. truth' \in TruthRecord
    BY <1>6, <2>1, <2>2, <2>4 DEF TruthRecord
  <2> QED BY <1>2, <1>3, <2>1, <2>3, <2>4, <2>5
<1> QED BY <1>7, <1>8

LEMMA CommitKept ==
    ASSUME LedgerKept, NEW w \in Editors, CommitEdit(w)
    PROVE  LedgerKept'
<1>1. /\ edit[w] \in StagedEdit /\ edit[w].before = truth.ledger
      /\ Applied(truth.ledger, edit[w].input) = truth'.ledger
      /\ truth' \in TruthRecord
      /\ \A f \in Conversing : OfTurn(truth'.ledger.fields[f], truth'.turn)
  BY CommitApplied
<1>2. edit' = [edit EXCEPT ![w] = NoEdit] /\ store' = store
  BY DEF CommitEdit
<1>3. NoEdit.stage # "staged"
  BY DEF NoEdit
<1>4. CASE truth'.ledger = truth.ledger
  <2>1. UNCHANGED <<checkpoints, revisionsMade, ledgerClock>>
    BY <1>1, <1>4 DEF CommitEdit
  <2>2. LedgerTyped'
    BY <1>1, <1>2, <2>1 DEF LedgerKept, LedgerTyped
  <2>3. CheckpointsFollow' /\ TruthIsLast'
    BY <1>2, <1>4, <2>1 DEF LedgerKept, CheckpointsFollow, Follows, TruthIsLast
  <2>4. ASSUME NEW e \in Editors PROVE EditKept(edit[e])'
    <3>1. e # w => edit'[e] = edit[e]
      BY <1>2 DEF LedgerKept, LedgerTyped
    <3>2. e = w => edit'[e] = NoEdit
      BY <1>2 DEF LedgerKept, LedgerTyped
    <3>3. EditKept(edit[e])
      BY DEF LedgerKept
    <3> QED BY <1>2, <1>3, <1>4, <2>1, <3>1, <3>2, <3>3 DEF EditKept, Follows
  <2> QED BY <1>1, <2>2, <2>3, <2>4 DEF LedgerKept, OfTurn
<1>5. CASE truth'.ledger # truth.ledger
  <2> DEFINE new == [at |-> edit[w].at, ledger |-> truth'.ledger]
             n == Len(checkpoints)
  <2>1. /\ checkpoints' = Append(checkpoints, new)
        /\ revisionsMade' = revisionsMade + 1
        /\ ledgerClock' = IF store = "durable" THEN ledgerClock + 1 ELSE ledgerClock
    BY <1>1, <1>5 DEF CommitEdit
  <2>2. new \in Checkpoint
    BY <1>1 DEF Checkpoint, StagedEdit, TruthRecord
  <2>3. /\ edit[w].at \in Nat /\ edit[w].at <= ledgerClock
        /\ \A i \in DOMAIN checkpoints : Follows(edit[w].at, checkpoints[i].at)
    <3>1. edit[w].stage = "staged" /\ edit[w].seen = revisionsMade
      BY DEF CommitEdit
    <3> QED BY <1>1, <3>1 DEF LedgerKept, EditKept, StagedEdit
  <2>4. new.at = edit[w].at /\ new.ledger = truth'.ledger
    OBVIOUS
  <2> HIDE DEF new
  <2>5. /\ n \in Nat /\ DOMAIN checkpoints = 1 .. n /\ DOMAIN checkpoints' = 1 .. n + 1
        /\ checkpoints' \in Seq(Checkpoint) /\ checkpoints'[n + 1] = new
        /\ \A i \in 1 .. n : checkpoints'[i] = checkpoints[i]
        /\ Len(checkpoints') = n + 1
    BY <2>1, <2>2, AppendProperties, LenProperties DEF LedgerKept, LedgerTyped
  <2>6. ledgerClock \in Nat /\ ledgerClock' \in Nat /\ revisionsMade \in Nat
        /\ \A i \in 1 .. n : checkpoints[i].at \in Nat
    <3>1. \A i \in 1 .. n : checkpoints[i] \in Checkpoint
      BY <2>5, ElementOfSeq DEF LedgerKept, LedgerTyped
    <3> QED BY <2>1, <3>1 DEF LedgerKept, LedgerTyped, Checkpoint
  <2> HIDE DEF n
  <2>7. LedgerTyped'
    BY <1>1, <1>2, <2>1, <2>5, <2>6 DEF LedgerKept, LedgerTyped
  <2>8. CheckpointsFollow'
    <3>1. ASSUME NEW i \in 1 .. n + 1
          PROVE  Follows(ledgerClock, checkpoints[i].at)'
      <4>1. CASE i = n + 1
        BY <1>2, <2>1, <2>3, <2>4, <2>5, <2>6, <4>1 DEF Follows
      <4>2. CASE i \in 1 .. n
        <5>1. Follows(ledgerClock, checkpoints[i].at)
          BY <2>5, <4>2 DEF LedgerKept, CheckpointsFollow
        <5> QED BY <1>2, <2>1, <2>5, <2>6, <4>2, <5>1 DEF Follows
      <4> QED BY <2>5, <4>1, <4>2
    <3>2. ASSUME NEW i \in 1 .. n + 1, NEW j \in 1 .. n + 1, i < j
          PROVE  Follows(checkpoints[j].at, checkpoints[i].at)'
      <4>1. i \in 1 .. n
        BY <2>5, <3>2
      <4>2. CASE j = n + 1
        <5>1. Follows(edit[w].at, checkpoints[i].at)
          BY <2>3, <2>5, <4>1
        <5> QED BY <1>2, <2>4, <2>5, <4>1, <4>2, <5>1 DEF Follows
      <4>3. CASE j \in 1 .. n
        <5>1. Follows(checkpoints[j].at, checkpoints[i].at)
          BY <2>5, <3>2, <4>1, <4>3 DEF LedgerKept, CheckpointsFollow
        <5> QED BY <1>2, <2>5, <4>1, <4>3, <5>1 DEF Follows
      <4> QED BY <2>5, <4>2, <4>3
    <3> QED BY <2>5, <3>1, <3>2 DEF CheckpointsFollow
  <2>9. TruthIsLast'
    <3>1. checkpoints' # <<>>
      BY <2>5, EmptySeq
    <3> QED BY <2>4, <2>5, <3>1 DEF TruthIsLast
  <2>10. ASSUME NEW e \in Editors PROVE EditKept(edit[e])'
    <3>1. e # w => edit'[e] = edit[e]
      BY <1>2 DEF LedgerKept, LedgerTyped
    <3>2. e = w => edit'[e] = NoEdit
      BY <1>2 DEF LedgerKept, LedgerTyped
    <3>3. edit[e].stage = "staged" => /\ edit[e] \in StagedEdit
                                      /\ edit[e].at <= ledgerClock /\ edit[e].seen <= revisionsMade
      BY DEF LedgerKept, EditKept
    <3>4. edit[e].stage = "staged" => /\ edit[e].at <= ledgerClock'
                                      /\ edit[e].seen <= revisionsMade'
                                      /\ edit[e].seen # revisionsMade'
      BY <2>1, <2>6, <3>3 DEF StagedEdit
    <3> QED BY <1>3, <3>1, <3>2, <3>3, <3>4 DEF EditKept
  <2> QED BY <1>1, <2>7, <2>8, <2>9, <2>10 DEF LedgerKept, OfTurn
<1> QED BY <1>4, <1>5

\* The inductive invariant of the ledger: its checkpoints were stamped in the order
\* they were appended, and what may still be committed was loaded after them all.
THEOREM LedgerKeptHolds == LedgerSpec => []LedgerKept
<1>1. LedgerInit => LedgerKept
  <2> SUFFICES ASSUME LedgerInit PROVE LedgerKept
      OBVIOUS
  <2> USE DEF LedgerInit
  <2>1. truth \in TruthRecord /\ \A f \in Conversing : OfTurn(truth.ledger.fields[f], truth.turn)
    BY EmptyLedgerTyped DEF TruthRecord
  <2>2. DOMAIN checkpoints = {} /\ checkpoints \in Seq(Checkpoint)
    BY EmptySeq
  <2>3. \A w \in Editors : edit[w].stage # "staged"
    BY DEF NoEdit
  <2> QED BY <2>1, <2>2, <2>3 DEF LedgerKept, LedgerTyped, CheckpointsFollow, TruthIsLast, EditKept
<1>2. LedgerKept /\ [LedgerNext]_ledgerVars => LedgerKept'
  <2> SUFFICES ASSUME LedgerKept, [LedgerNext]_ledgerVars PROVE LedgerKept'
      OBVIOUS
  <2>1. ASSUME NEW w \in Editors, BeginEdit(w) PROVE LedgerKept'
    <3>1. PICK input \in Inputs : Attempt(w, input)
      BY <2>1 DEF BeginEdit
    <3> QED BY <2>1, <3>1, AttemptKept DEF BeginEdit
  <2>2. ASSUME NEW w \in Editors, CommitEdit(w) PROVE LedgerKept'
    BY <2>2, CommitKept
  <2>3. ASSUME NEW w \in Editors, RetryEdit(w) PROVE LedgerKept'
    <3>1. edit[w].input \in Inputs /\ Attempt(w, edit[w].input)
      BY <2>3 DEF RetryEdit, LedgerKept, EditKept, StagedEdit
    <3> QED BY <2>3, <3>1, AttemptKept DEF RetryEdit
  <2>4. ASSUME NEW w \in Editors, AbandonEdit(w) PROVE LedgerKept'
    <3>1. /\ edit' = [edit EXCEPT ![w] = NoEdit] /\ NoEdit.stage # "staged"
          /\ UNCHANGED <<checkpoints, revisionsMade, store, ledgerClock, truth>>
      BY <2>4 DEF AbandonEdit, NoEdit
    <3>2. \A e \in Editors : e # w => edit'[e] = edit[e]
      BY <3>1 DEF LedgerKept, LedgerTyped
    <3>3. edit'[w].stage # "staged"
      BY <3>1 DEF LedgerKept, LedgerTyped
    <3>4. LedgerTyped'
      BY <3>1 DEF LedgerKept, LedgerTyped
    <3>5. CheckpointsFollow' /\ TruthIsLast'
      BY <3>1 DEF LedgerKept, CheckpointsFollow, Follows, TruthIsLast
    <3>6. \A e \in Editors : EditKept(edit[e])'
      BY <3>1, <3>2, <3>3 DEF LedgerKept, EditKept, Follows
    <3> QED BY <3>1, <3>4, <3>5, <3>6 DEF LedgerKept, OfTurn
  <2>5. CASE ClockTicks
    <3>1. ledgerClock \in Nat /\ ledgerClock' = ledgerClock + 1
          /\ UNCHANGED <<checkpoints, revisionsMade, store, edit, truth>>
      BY <2>5 DEF ClockTicks, LedgerKept, LedgerTyped
    <3>2. LedgerTyped' /\ TruthIsLast'
      BY <3>1 DEF LedgerKept, LedgerTyped, TruthIsLast
    <3>3. CheckpointsFollow'
      <4>1. ASSUME NEW i \in DOMAIN checkpoints PROVE checkpoints[i].at \in Nat
        <5>1. checkpoints[i] \in Checkpoint
          BY LenProperties, ElementOfSeq DEF LedgerKept, LedgerTyped
        <5> QED BY <5>1 DEF Checkpoint
      <4> QED BY <3>1, <4>1 DEF LedgerKept, CheckpointsFollow, Follows
    <3>4. \A e \in Editors : EditKept(edit[e])'
      BY <3>1 DEF LedgerKept, EditKept, StagedEdit, Follows
    <3> QED BY <3>1, <3>2, <3>3, <3>4 DEF LedgerKept, OfTurn
  <2>6. CASE UNCHANGED ledgerVars
    BY <2>6 DEF ledgerVars, LedgerKept, LedgerTyped, CheckpointsFollow, TruthIsLast, EditKept,
                OfTurn, Follows
  <2> QED BY <2>1, <2>2, <2>3, <2>4, <2>5, <2>6 DEF LedgerNext
<1> QED BY <1>1, <1>2, PTL DEF LedgerSpec

\* The ledger that a reader loads is what the committed events and interactions made
\* of an empty one, whichever calls raced and retried.  Of no earlier conversation
\* does it say that it goes on: who converses, speaks and attends is current for
\* this turn only.  (Who is present in the room is not part of that: an earlier
\* answer stays.)  For any editors, participants and inputs (the current-state
\* ledger and its checkpoints).
THEOREM LedgerAlwaysHolds == LedgerSpec => []LedgerHolds
<1>1. LedgerKept => LedgerHolds
  <2> SUFFICES ASSUME LedgerKept PROVE LedgerHolds
      OBVIOUS
  <2>1. Loaded = {truth.ledger}
    BY LoadedIsTruth DEF LedgerKept
  <2>2. StateLedgerOK
    <3> SUFFICES ASSUME NEW i \in DOMAIN checkpoints, NEW f \in Fields
                 PROVE  checkpoints[i].ledger.fields[f] \in LedgerAnswer
        BY DEF StateLedgerOK, LedgerAnswer
    <3>1. checkpoints[i] \in Checkpoint
      BY LenProperties, ElementOfSeq DEF LedgerKept, LedgerTyped
    <3> QED BY <3>1 DEF Checkpoint, LedgerRecord
  <2>3. ConversationIsThisTurns
    BY <2>1 DEF LedgerKept, OfTurn, Conversing, ConversationIsThisTurns
  <2> QED BY <2>1, <2>2, <2>3 DEF LedgerHolds, LedgerIsReplay
<1> QED BY <1>1, LedgerKeptHolds, PTL

-----------------------------------------------------------------------------
(* Beliefs *)

TransitionRecord ==
    [from : Values, to : Values, scope : Scopes, revision : 1 .. MaxRevision, at : Nat]
ReframeRecord == [existing : Values, proposed : Values, revision : 1 .. MaxRevision, at : Nat]

\* A memory somebody proposed, with its artifacts.
Believed ==
    {m \in [content : {p.content : p \in Proposals}, value : Values, scope : Scopes,
            appraisal : {p.appraisal : p \in Proposals}, labels : SUBSET Scopes,
            status : [Scopes -> {None, "current", "superseded"}],
            deliberations : [Values -> Deliberation \cup {None}],
            transitions : Seq(TransitionRecord), reframes : Seq(ReframeRecord)] :
        /\ \E p \in Proposals : /\ m.content = p.content /\ m.value = p.value
                                /\ m.scope = p.scope /\ m.appraisal = p.appraisal
        /\ m.deliberations[m.value] = None}

\* The transitions and reframes that a memory carries.
Carried(m) == Range(m.transitions) \cup Range(m.reframes)
CarriedIn(memories) == UNION {Carried(m) : m \in Range(memories)}

Prolongs(longer, shorter) ==
    Len(shorter) <= Len(longer) /\ \A i \in 1 .. Len(shorter) : longer[i] = shorter[i]

\* A deliberation that comes after another retains its evidence.
Resumes(later, earlier) ==
    earlier # None => /\ later # None
                      /\ earlier.seen \subseteq later.seen
                      /\ earlier.revision <= later.revision

\* What may become of a memory.
Extends(new, old) ==
    /\ new.content = old.content /\ new.appraisal = old.appraisal
    /\ Prolongs(new.transitions, old.transitions) /\ Prolongs(new.reframes, old.reframes)
    /\ \A e \in Values : Resumes(new.deliberations[e], old.deliberations[e])

BeliefsTyped ==
    /\ kept \in Seq(Believed) /\ pending \in Seq(Believed)
    /\ evidence \in Seq(Observations) /\ recalled \in BOOLEAN
    /\ journal \in Seq(TransitionRecord \cup ReframeRecord)
    /\ events \in Seq(TransitionRecord \cup ReframeRecord)
    /\ DOMAIN staged \subseteq 1 .. Len(kept) + Len(pending)
    /\ \A i \in DOMAIN staged : staged[i] \in Believed
    /\ Len(kept) + Len(pending) <= MaxMemories
    /\ ~recalled => evidence = <<>> /\ pending = <<>> /\ events = <<>> /\ DOMAIN staged = {}

\* A revision staged for a durable memory keeps what that memory has.
RevisionsExtend == \A i \in DOMAIN staged : i <= Len(kept) => Extends(staged[i], kept[i])

\* What is reported is what memories carry: in the journal, and, unless a revision
\* of a proposed memory dooms the interaction, in what it is about to store.
ChangesAreCarried ==
    /\ Range(journal) = CarriedIn(kept)
    /\ DOMAIN staged \subseteq 1 .. Len(kept) =>
            Range(journal) \cup Range(events) = CarriedIn(Working)

BeliefsKept == BeliefsTyped /\ RevisionsExtend /\ ChangesAreCarried

LEMMA BelievedTyped ==
    ASSUME NEW m \in Believed
    PROVE  /\ m.value \in Values /\ m.scope \in Scopes /\ m.labels \subseteq Scopes
           /\ m.status \in [Scopes -> {None, "current", "superseded"}]
           /\ m.deliberations \in [Values -> Deliberation \cup {None}]
           /\ m.deliberations[m.value] = None
           /\ m.transitions \in Seq(TransitionRecord) /\ m.reframes \in Seq(ReframeRecord)
BY DEF Believed

LEMMA ProlongsOrdered ==
    ASSUME NEW S, NEW short \in Seq(S), NEW mid \in Seq(S), NEW long \in Seq(S)
    PROVE  /\ Prolongs(short, short)
           /\ Prolongs(long, mid) /\ Prolongs(mid, short) => Prolongs(long, short)
           /\ \A x \in S : Prolongs(Append(short, x), short)
           /\ Prolongs(long, short) => IsPrefix(short, long)
<1>1. Len(short) \in Nat /\ Len(mid) \in Nat /\ Len(long) \in Nat
  BY LenProperties
<1>2. Prolongs(short, short)
  BY <1>1 DEF Prolongs
<1>3. Prolongs(long, mid) /\ Prolongs(mid, short) => Prolongs(long, short)
  <2> SUFFICES ASSUME Prolongs(long, mid), Prolongs(mid, short) PROVE Prolongs(long, short)
      OBVIOUS
  <2>1. Len(short) <= Len(long) /\ 1 .. Len(short) \subseteq 1 .. Len(mid)
    BY <1>1 DEF Prolongs
  <2> QED BY <1>1, <2>1 DEF Prolongs
<1>4. ASSUME NEW x \in S PROVE Prolongs(Append(short, x), short)
  BY <1>1, AppendProperties DEF Prolongs
<1>5. Prolongs(long, short) => IsPrefix(short, long)
  <2> SUFFICES ASSUME Prolongs(long, short) PROVE SubSeq(long, 1, Len(short)) = short
      <3>1. SubSeq(short, 1, Len(short)) = short
        BY SubSeqFull
      <3> QED BY <3>1 DEF IsPrefix, Prolongs
  <2>1. \A i \in 1 .. Len(short) : long[i] \in S
    BY <1>1, ElementOfSeq DEF Prolongs
  <2>2. /\ SubSeq(long, 1, Len(short)) \in Seq(S)
        /\ Len(SubSeq(long, 1, Len(short))) = Len(short)
        /\ \A i \in 1 .. Len(short) : SubSeq(long, 1, Len(short))[i] = long[i]
    BY <1>1 DEF Prolongs
  <2> QED BY <1>1, <2>2, SeqEqual DEF Prolongs
<1> QED BY <1>2, <1>3, <1>4, <1>5

LEMMA ResumesOrdered ==
    ASSUME NEW first \in Deliberation \cup {None}, NEW second \in Deliberation \cup {None},
           NEW third \in Deliberation \cup {None}
    PROVE  /\ Resumes(first, first)
           /\ Resumes(third, second) /\ Resumes(second, first) => Resumes(third, first)
<1>1. \A d \in Deliberation : d.revision \in 1 .. MaxRevision
  BY DEF Deliberation
<1> QED BY <1>1, BoundAssumption DEF Resumes

LEMMA ExtendsOrdered ==
    ASSUME NEW first \in Believed, NEW second \in Believed, NEW third \in Believed
    PROVE  /\ Extends(first, first)
           /\ Extends(third, second) /\ Extends(second, first) => Extends(third, first)
<1>1. \A e \in Values : /\ first.deliberations[e] \in Deliberation \cup {None}
                        /\ second.deliberations[e] \in Deliberation \cup {None}
                        /\ third.deliberations[e] \in Deliberation \cup {None}
  BY BelievedTyped
<1>2. \A e \in Values :
        /\ Resumes(first.deliberations[e], first.deliberations[e])
        /\ Resumes(third.deliberations[e], second.deliberations[e])
              /\ Resumes(second.deliberations[e], first.deliberations[e])
           => Resumes(third.deliberations[e], first.deliberations[e])
  BY <1>1, ResumesOrdered
<1>3. /\ first.transitions \in Seq(TransitionRecord) /\ second.transitions \in Seq(TransitionRecord)
      /\ third.transitions \in Seq(TransitionRecord)
      /\ first.reframes \in Seq(ReframeRecord) /\ second.reframes \in Seq(ReframeRecord)
      /\ third.reframes \in Seq(ReframeRecord)
  BY BelievedTyped
<1>4. /\ Prolongs(first.transitions, first.transitions)
      /\ Prolongs(third.transitions, second.transitions)
            /\ Prolongs(second.transitions, first.transitions)
         => Prolongs(third.transitions, first.transitions)
  BY <1>3, ProlongsOrdered
<1>5. /\ Prolongs(first.reframes, first.reframes)
      /\ Prolongs(third.reframes, second.reframes)
            /\ Prolongs(second.reframes, first.reframes)
         => Prolongs(third.reframes, first.reframes)
  BY <1>3, ProlongsOrdered
<1> QED BY <1>2, <1>4, <1>5 DEF Extends

LEMMA ReadinessTyped ==
    ASSUME NEW existing \in Values, NEW proposed \in Values, NEW left, NEW right, NEW finding
    PROVE  LET ready == ResolutionReadiness(existing, proposed, left, right, finding)
           IN  /\ ready.status \in {"blocked", "candidate_ready", "reframe_required"}
               /\ ready.candidate \in Values \cup {None}
<1> DEFINE wins(side, other) == Corroborated(side) /\ StrictlyDominates(side, other)
           candidates == (IF wins(left, right) THEN {existing} ELSE {})
                           \cup (IF wins(right, left) THEN {proposed} ELSE {})
           chosen == CHOOSE v \in candidates : TRUE
<1>1. candidates \subseteq Values
  OBVIOUS
<1>2. ResolutionReadiness(existing, proposed, left, right, finding) =
        IF finding # NoFinding /\ finding.relation = "differ"
        THEN [status |-> "reframe_required", candidate |-> None]
        ELSE IF /\ Appraised(left) /\ Appraised(right)
                /\ finding # NoFinding /\ finding.relation = "same"
                /\ Cardinality(candidates) = 1
             THEN [status |-> "candidate_ready", candidate |-> chosen]
             ELSE [status |-> "blocked", candidate |-> None]
  BY DEF ResolutionReadiness
<1> HIDE DEF candidates
<1>3. Cardinality(candidates) = 1 => candidates # {}
  BY FS_EmptySet
<1>4. Cardinality(candidates) = 1 => chosen \in Values
  BY <1>1, <1>3
<1> HIDE DEF chosen
<1> QED BY <1>2, <1>4

\* A deliberation is of the stored kind and retains what the one before it did.
LEMMA Deliberated ==
    ASSUME NEW existing \in Values, NEW proposed \in Values, NEW scope, NEW memories,
           NEW current \in Seq(Observations), NEW side, NEW prior \in Deliberation \cup {None},
           prior # None => prior.revision < MaxRevision
    PROVE  LET next == DeliberateTension(existing, proposed, scope, memories, current, side, prior)
           IN  next \in Deliberation /\ next # None /\ Resumes(next, prior)
<1> DEFINE seen    == {current[i] : i \in Relevant(current, existing, proposed, scope)}
                         \cup (IF prior = None THEN {} ELSE prior.seen)
           finding == LatestFinding(current, existing, proposed, scope, prior)
           ready   == ResolutionReadiness(existing, proposed,
                          Side(memories, seen, existing, scope),
                          Side(memories, seen, proposed, scope) \cup side, finding)
           next    == [revision |-> IF prior = None THEN 1 ELSE prior.revision + 1, seen |-> seen,
                       finding |-> finding, status |-> ready.status, candidate |-> ready.candidate]
<1>1. next = DeliberateTension(existing, proposed, scope, memories, current, side, prior)
  BY DEF DeliberateTension
<1>2. \A i \in Relevant(current, existing, proposed, scope) : current[i] \in Observations
  BY LenProperties, ElementOfSeq DEF Relevant
<1>3. seen \subseteq Observations
  BY <1>2 DEF Deliberation
<1>4. finding \in {o.finding : o \in Observations} \cup {NoFinding}
  <2> DEFINE found  == {i \in Relevant(current, existing, proposed, scope) :
                          FindingMatches(current[i].finding, existing, proposed, scope)}
             newest == {i \in found : \A j \in found : j <= i}
             pick   == CHOOSE i \in newest : TRUE
  <2>1. finding = IF newest # {} THEN current[pick].finding
                  ELSE IF prior # None THEN prior.finding ELSE NoFinding
    BY DEF LatestFinding
  <2>2. newest \subseteq Relevant(current, existing, proposed, scope)
    OBVIOUS
  <2> HIDE DEF finding, newest
  <2>3. CASE newest # {}
    <3>1. pick \in newest
      BY <2>3
    <3> HIDE DEF pick
    <3> QED BY <1>2, <2>1, <2>2, <2>3, <3>1
  <2>4. CASE newest = {}
    BY <2>1, <2>4 DEF Deliberation
  <2> QED BY <2>3, <2>4
<1>5. /\ ready.status \in {"blocked", "candidate_ready", "reframe_required"}
      /\ ready.candidate \in Values \cup {None}
  BY ReadinessTyped
<1>6. PICK revision \in 1 .. MaxRevision :
         /\ revision = IF prior = None THEN 1 ELSE prior.revision + 1
         /\ prior # None => prior.revision <= revision
  <2>1. prior # None => prior.revision \in 1 .. MaxRevision
    BY DEF Deliberation
  <2> QED BY <2>1, BoundAssumption
<1>7. prior # None => prior.seen \subseteq seen
  OBVIOUS
<1> HIDE DEF seen, finding, ready
<1>8. next \in Deliberation /\ next.seen = seen /\ next.revision = revision
  BY <1>3, <1>4, <1>5, <1>6 DEF Deliberation
<1> HIDE DEF next
<1>9. next # None
  BY <1>8, NoneAssumption
<1> QED BY <1>1, <1>6, <1>7, <1>8, <1>9 DEF Resumes

\* The memories an interaction works on, from what it reads and writes.
WorkOn(lasting, revised, added) ==
    [i \in 1 .. Len(lasting) |-> IF i \in DOMAIN revised THEN revised[i] ELSE lasting[i]] \o added

LEMMA WorkTyped ==
    ASSUME NEW lasting \in Seq(Believed), NEW revised, NEW added \in Seq(Believed),
           \A i \in DOMAIN revised : revised[i] \in Believed
    PROVE  LET work == WorkOn(lasting, revised, added)
           IN  /\ work \in Seq(Believed) /\ Len(work) = Len(lasting) + Len(added)
               /\ DOMAIN work = 1 .. Len(lasting) + Len(added)
               /\ \A i \in 1 .. Len(lasting) :
                    work[i] = IF i \in DOMAIN revised THEN revised[i] ELSE lasting[i]
               /\ \A j \in 1 .. Len(added) : work[Len(lasting) + j] = added[j]
<1> DEFINE whole == [i \in 1 .. Len(lasting) |-> IF i \in DOMAIN revised THEN revised[i] ELSE lasting[i]]
<1>1. Len(lasting) \in Nat /\ Len(added) \in Nat /\ DOMAIN lasting = 1 .. Len(lasting)
      /\ DOMAIN added = 1 .. Len(added)
  BY LenProperties
<1>2. \A i \in 1 .. Len(lasting) : lasting[i] \in Believed
  BY <1>1, ElementOfSeq
<1>3. whole \in Seq(Believed) /\ Len(whole) = Len(lasting)
  <2>1. \A i \in 1 .. Len(lasting) : whole[i] \in Believed
    BY <1>2
  <2>2. whole \in [1 .. Len(lasting) -> Believed]
    BY <2>1
  <2>3. DOMAIN whole = 1 .. Len(lasting)
    OBVIOUS
  <2> HIDE DEF whole
  <2>4. whole \in Seq(Believed)
    BY <1>1, <2>2
  <2> QED BY <1>1, <2>3, <2>4, LenProperties
<1>4. \A i \in 1 .. Len(lasting) : whole[i] = IF i \in DOMAIN revised THEN revised[i] ELSE lasting[i]
  OBVIOUS
<1>5. WorkOn(lasting, revised, added) = whole \o added
  BY DEF WorkOn
<1> HIDE DEF whole
<1>6. /\ whole \o added \in Seq(Believed) /\ Len(whole \o added) = Len(lasting) + Len(added)
      /\ \A i \in 1 .. Len(lasting) + Len(added) :
            (whole \o added)[i] = IF i <= Len(whole) THEN whole[i] ELSE added[i - Len(whole)]
  <2>1. /\ whole \o added \in Seq(Believed) /\ Len(whole \o added) = Len(whole) + Len(added)
        /\ \A i \in 1 .. Len(whole) + Len(added) :
              (whole \o added)[i] = IF i <= Len(whole) THEN whole[i] ELSE added[i - Len(whole)]
    BY <1>3, ConcatProperties
  <2> QED BY <1>3, <2>1
<1>7. DOMAIN (whole \o added) = 1 .. Len(lasting) + Len(added)
  BY <1>6, LenProperties
<1>8. \A j \in 1 .. Len(added) : (whole \o added)[Len(lasting) + j] = added[j]
  BY <1>1, <1>3, <1>6
<1>9. \A i \in 1 .. Len(lasting) : (whole \o added)[i] = whole[i]
  BY <1>1, <1>3, <1>6
<1> QED BY <1>4, <1>5, <1>6, <1>7, <1>8, <1>9

\* A memory deliberated again carries what it did.
LEMMA Reassessing ==
    ASSUME NEW m \in Believed, NEW memories, NEW observations \in Seq(Observations),
           \A e \in Reassessed(m, observations) : m.deliberations[e].revision < MaxRevision
    PROVE  /\ Reassess(m, memories, observations) \in Believed
           /\ Extends(Reassess(m, memories, observations), m)
           /\ Carried(Reassess(m, memories, observations)) = Carried(m)
<1> DEFINE again(e) == DeliberateTension(e, m.value, m.scope, memories, observations, {},
                                         m.deliberations[e])
           deliberations == [e \in Values |-> IF e \in Reassessed(m, observations) THEN again(e)
                                              ELSE m.deliberations[e]]
           next == [m EXCEPT !.deliberations = deliberations]
<1>1. Reassess(m, memories, observations) = next
  BY DEF Reassess
<1>2. m.value \in Values /\ m.deliberations \in [Values -> Deliberation \cup {None}]
      /\ m.deliberations[m.value] = None
  BY BelievedTyped
<1>3. ASSUME NEW e \in Values
      PROVE  /\ deliberations[e] \in Deliberation \cup {None}
             /\ Resumes(deliberations[e], m.deliberations[e])
  <2>1. m.deliberations[e] \in Deliberation \cup {None}
    BY <1>2
  <2>2. CASE e \in Reassessed(m, observations)
    <3>1. m.deliberations[e].revision < MaxRevision
      BY <2>2
    <3>2. again(e) \in Deliberation /\ Resumes(again(e), m.deliberations[e])
      BY <1>2, <2>1, <3>1, Deliberated
    <3>3. deliberations[e] = again(e)
      BY <2>2
    <3> HIDE DEF again, deliberations
    <3> QED BY <3>2, <3>3
  <2>3. CASE e \notin Reassessed(m, observations)
    <3>1. deliberations[e] = m.deliberations[e]
      BY <2>3
    <3> HIDE DEF deliberations
    <3> QED BY <2>1, <3>1, ResumesOrdered
  <2> QED BY <2>2, <2>3
<1>4. deliberations[m.value] = None
  BY <1>2 DEF Reassessed
<1>5. deliberations \in [Values -> Deliberation \cup {None}]
  BY <1>3
<1> HIDE DEF deliberations
<1>6. next \in Believed
  BY <1>4, <1>5 DEF Believed
<1>7. /\ next.content = m.content /\ next.appraisal = m.appraisal
      /\ next.transitions = m.transitions /\ next.reframes = m.reframes
      /\ next.deliberations = deliberations
  BY DEF Believed
<1> HIDE DEF next
<1>8. Prolongs(m.transitions, m.transitions) /\ Prolongs(m.reframes, m.reframes)
  BY BelievedTyped, ProlongsOrdered
<1> QED BY <1>1, <1>3, <1>6, <1>7, <1>8 DEF Extends, Carried

LEMMA EmptyRange ==
    ASSUME NEW S, NEW s \in Seq(S), Range(s) = {}
    PROVE  s = <<>>
<1>1. Len(s) \in Nat /\ DOMAIN s = 1 .. Len(s)
  BY LenProperties
<1>2. DOMAIN s = {}
  BY DEF Range
<1>3. Len(s) = 0
  BY <1>1, <1>2
<1> QED BY <1>3, EmptySeq

LEMMA RangeOfAppend ==
    ASSUME NEW S, NEW s \in Seq(S), NEW x \in S
    PROVE  Range(Append(s, x)) = Range(s) \cup {x}
<1>1. /\ Len(s) \in Nat /\ DOMAIN s = 1 .. Len(s) /\ DOMAIN Append(s, x) = 1 .. Len(s) + 1
      /\ Append(s, x)[Len(s) + 1] = x
      /\ \A i \in 1 .. Len(s) : Append(s, x)[i] = s[i]
  BY LenProperties, AppendProperties
<1> QED BY <1>1 DEF Range

\* A memory that a transition concerns, or carries it.
WithTransition(m, scope, status, transitions) ==
    [m EXCEPT !.status[scope] = status, !.transitions = transitions]

LEMMA Transitioned ==
    ASSUME NEW m \in Believed, NEW scope \in Scopes, NEW status \in {None, "current", "superseded"},
           NEW t \in TransitionRecord, NEW transitions,
           transitions = m.transitions \/ transitions = Append(m.transitions, t)
    PROVE  /\ WithTransition(m, scope, status, transitions) \in Believed
           /\ Extends(WithTransition(m, scope, status, transitions), m)
           /\ Carried(WithTransition(m, scope, status, transitions)) =
                Range(transitions) \cup Range(m.reframes)
<1> DEFINE next == WithTransition(m, scope, status, transitions)
<1>1. m.transitions \in Seq(TransitionRecord) /\ m.reframes \in Seq(ReframeRecord)
      /\ \A e \in Values : m.deliberations[e] \in Deliberation \cup {None}
  BY BelievedTyped
<1>2. transitions \in Seq(TransitionRecord) /\ Prolongs(transitions, m.transitions)
      /\ Prolongs(m.reframes, m.reframes)
  <2>1. Prolongs(m.transitions, m.transitions) /\ Prolongs(Append(m.transitions, t), m.transitions)
    BY <1>1, ProlongsOrdered
  <2>2. Prolongs(m.reframes, m.reframes)
    BY <1>1, ProlongsOrdered
  <2>3. Append(m.transitions, t) \in Seq(TransitionRecord)
    BY <1>1, AppendProperties
  <2> QED BY <1>1, <2>1, <2>2, <2>3
<1>3. \A e \in Values : Resumes(m.deliberations[e], m.deliberations[e])
  BY <1>1, ResumesOrdered
<1>4. next \in Believed
  BY <1>2 DEF Believed, WithTransition
<1>5. /\ next.content = m.content /\ next.appraisal = m.appraisal
      /\ next.deliberations = m.deliberations /\ next.reframes = m.reframes
      /\ next.transitions = transitions
  BY DEF Believed, WithTransition
<1> HIDE DEF next
<1>6. Extends(next, m) /\ Carried(next) = Range(transitions) \cup Range(m.reframes)
  BY <1>2, <1>3, <1>5 DEF Extends, Carried
<1> QED BY <1>4, <1>6 DEF next

\* A memory that a transition from one value to another left with its status.
Turned(n, m, value, other, s) ==
    /\ n.value = m.value /\ n.scope = m.scope /\ n.appraisal = m.appraisal /\ n.labels = m.labels
    /\ n.reframes = m.reframes /\ n.deliberations = m.deliberations
    /\ \A x \in Scopes : n.status[x] = IF x # s THEN m.status[x]
                                       ELSE IF Holds(m, value, s) THEN "current"
                                       ELSE IF Holds(m, other, s) THEN "superseded"
                                       ELSE m.status[s]

LEMMA TransitionTurns ==
    ASSUME NEW m \in Believed, NEW scope \in Scopes, NEW value, NEW other, NEW transitions,
           NEW status, status = IF Holds(m, value, scope) THEN "current"
                                ELSE IF Holds(m, other, scope) THEN "superseded"
                                ELSE m.status[scope]
    PROVE  /\ Turned(WithTransition(m, scope, status, transitions), m, value, other, scope)
           /\ WithTransition(m, scope, status, transitions).transitions = transitions
           /\ ~Holds(m, value, scope) /\ ~Holds(m, other, scope) => Turned(m, m, value, other, scope)
<1> DEFINE next == WithTransition(m, scope, status, transitions)
<1>1. /\ next.value = m.value /\ next.scope = m.scope /\ next.appraisal = m.appraisal
      /\ next.labels = m.labels /\ next.reframes = m.reframes
      /\ next.deliberations = m.deliberations /\ next.transitions = transitions
      /\ next.status = [m.status EXCEPT ![scope] = status]
  BY DEF Believed, WithTransition
<1>2. \A x \in Scopes : next.status[x] = IF x = scope THEN status ELSE m.status[x]
  BY <1>1, BelievedTyped
<1> HIDE DEF next
<1>3. Turned(next, m, value, other, scope)
  BY <1>1, <1>2 DEF Turned
<1>4. ~Holds(m, value, scope) /\ ~Holds(m, other, scope) => Turned(m, m, value, other, scope)
  BY DEF Turned
<1> QED BY <1>1, <1>3, <1>4 DEF next

\* A memory whose scope a reframe names.
WithReframe(m, label, reframes) == [m EXCEPT !.labels = m.labels \cup {label}, !.reframes = reframes]

LEMMA Reframed ==
    ASSUME NEW m \in Believed, NEW label \in Scopes, NEW f \in ReframeRecord,
           NEW reframes, reframes = m.reframes \/ reframes = Append(m.reframes, f)
    PROVE  /\ WithReframe(m, label, reframes) \in Believed
           /\ Extends(WithReframe(m, label, reframes), m)
           /\ Carried(WithReframe(m, label, reframes)) = Range(m.transitions) \cup Range(reframes)
<1> DEFINE next == WithReframe(m, label, reframes)
<1>1. m.transitions \in Seq(TransitionRecord) /\ m.reframes \in Seq(ReframeRecord)
      /\ \A e \in Values : m.deliberations[e] \in Deliberation \cup {None}
  BY BelievedTyped
<1>2. reframes \in Seq(ReframeRecord) /\ Prolongs(reframes, m.reframes)
      /\ Prolongs(m.transitions, m.transitions)
  <2>1. Prolongs(m.reframes, m.reframes) /\ Prolongs(Append(m.reframes, f), m.reframes)
    BY <1>1, ProlongsOrdered
  <2>2. Prolongs(m.transitions, m.transitions)
    BY <1>1, ProlongsOrdered
  <2>3. Append(m.reframes, f) \in Seq(ReframeRecord)
    BY <1>1, AppendProperties
  <2> QED BY <1>1, <2>1, <2>2, <2>3
<1>3. \A e \in Values : Resumes(m.deliberations[e], m.deliberations[e])
  BY <1>1, ResumesOrdered
<1>4. next \in Believed
  BY <1>2 DEF Believed, WithReframe
<1>5. /\ next.content = m.content /\ next.appraisal = m.appraisal
      /\ next.deliberations = m.deliberations /\ next.transitions = m.transitions
      /\ next.reframes = reframes
  BY DEF Believed, WithReframe
<1> HIDE DEF next
<1>6. Extends(next, m) /\ Carried(next) = Range(m.transitions) \cup Range(reframes)
  BY <1>2, <1>3, <1>5 DEF Extends, Carried
<1> QED BY <1>4, <1>6 DEF next

\* A memory that a reframe gave a scope, or left.
Rescoped(n, m) ==
    /\ n.value = m.value /\ n.scope = m.scope /\ n.appraisal = m.appraisal
    /\ n.status = m.status /\ n.transitions = m.transitions /\ n.deliberations = m.deliberations
    /\ m.labels \subseteq n.labels /\ (Unscoped \notin m.labels => Unscoped \notin n.labels)

LEMMA ReframeRescopes ==
    ASSUME NEW m \in Believed, NEW label \in Scopes \ {Unscoped}, NEW reframes
    PROVE  /\ Rescoped(WithReframe(m, label, reframes), m) /\ Rescoped(m, m)
           /\ WithReframe(m, label, reframes).reframes = reframes
<1> DEFINE next == WithReframe(m, label, reframes)
<1>1. /\ next.value = m.value /\ next.scope = m.scope /\ next.appraisal = m.appraisal
      /\ next.labels = m.labels \cup {label} /\ next.reframes = reframes
      /\ next.deliberations = m.deliberations /\ next.transitions = m.transitions
      /\ next.status = m.status
  BY DEF Believed, WithReframe
<1> HIDE DEF next
<1>2. Rescoped(next, m) /\ Rescoped(m, m)
  BY <1>1 DEF Rescoped
<1> QED BY <1>1, <1>2 DEF next

LEMMA WorkingTyped ==
    ASSUME BeliefsTyped
    PROVE  /\ Len(kept) \in Nat /\ Len(pending) \in Nat
           /\ DOMAIN kept = 1 .. Len(kept) /\ DOMAIN pending = 1 .. Len(pending)
           /\ Working \in Seq(Believed) /\ Len(Working) = Len(kept) + Len(pending)
           /\ DOMAIN Working = 1 .. Len(kept) + Len(pending)
           /\ \A i \in DOMAIN Working : Working[i] \in Believed
           /\ \A i \in 1 .. Len(kept) :
                    Working[i] = IF i \in DOMAIN staged THEN staged[i] ELSE kept[i]
           /\ \A j \in 1 .. Len(pending) : Working[Len(kept) + j] = pending[j]
<1>1. kept \in Seq(Believed) /\ pending \in Seq(Believed)
      /\ \A i \in DOMAIN staged : staged[i] \in Believed
  BY DEF BeliefsTyped
<1>2. Working = WorkOn(kept, staged, pending)
  BY DEF Working, WorkOn
<1>3. /\ Working \in Seq(Believed) /\ Len(Working) = Len(kept) + Len(pending)
      /\ DOMAIN Working = 1 .. Len(kept) + Len(pending)
      /\ \A i \in 1 .. Len(kept) :
                    Working[i] = IF i \in DOMAIN staged THEN staged[i] ELSE kept[i]
      /\ \A j \in 1 .. Len(pending) : Working[Len(kept) + j] = pending[j]
  BY <1>1, <1>2, WorkTyped
<1>4. \A i \in DOMAIN Working : Working[i] \in Believed
  BY <1>3, ElementOfSeq
<1> QED BY <1>1, <1>3, <1>4, LenProperties

LEMMA WorkingTypedNext ==
    ASSUME BeliefsTyped' PROVE Working' \in Seq(Believed)
<1>1. PICK lasting \in Seq(Believed), added \in Seq(Believed) : lasting = kept' /\ added = pending'
  BY DEF BeliefsTyped
<1>2. PICK revised, work : revised = staged' /\ work = WorkOn(lasting, revised, added)
  OBVIOUS
<1>3. \A i \in DOMAIN revised : revised[i] \in Believed
  BY <1>2 DEF BeliefsTyped
<1>4. work \in Seq(Believed)
  BY <1>2, <1>3, WorkTyped
<1> QED BY <1>1, <1>2, <1>4 DEF Working, WorkOn

\* What staged changes make of the memories worked on.
LEMMA StagedWork ==
    ASSUME BeliefsTyped, RevisionsExtend, NEW changes, Stage(changes), kept' = kept,
           pending' \in Seq(Believed), Len(pending') = Len(pending),
           DOMAIN changes \subseteq DOMAIN Working,
           \A i \in DOMAIN changes : changes[i] \in Believed /\ Extends(changes[i], Working[i])
    PROVE  /\ DOMAIN staged' = DOMAIN changes \cup DOMAIN staged
           /\ DOMAIN staged' \subseteq DOMAIN Working
           /\ \A i \in DOMAIN staged' : staged'[i] \in Believed
           /\ RevisionsExtend'
           /\ DOMAIN Working' = DOMAIN Working
           /\ \A i \in 1 .. Len(kept) :
                    Working'[i] = IF i \in DOMAIN changes THEN changes[i] ELSE Working[i]
           /\ \A j \in 1 .. Len(pending) : Working'[Len(kept) + j] = pending'[j]
<1>1. /\ DOMAIN staged' = DOMAIN changes \cup DOMAIN staged
      /\ \A i \in DOMAIN staged' : staged'[i] = IF i \in DOMAIN changes THEN changes[i] ELSE staged[i]
  BY DEF Stage
<1>2. /\ Len(kept) \in Nat /\ Len(pending) \in Nat /\ DOMAIN kept = 1 .. Len(kept)
      /\ DOMAIN Working = 1 .. Len(kept) + Len(pending)
      /\ \A i \in DOMAIN Working : Working[i] \in Believed
      /\ \A i \in 1 .. Len(kept) :
            Working[i] = IF i \in DOMAIN staged THEN staged[i] ELSE kept[i]
  BY WorkingTyped
<1>3. /\ kept \in Seq(Believed) /\ DOMAIN staged \subseteq 1 .. Len(kept) + Len(pending)
      /\ \A i \in DOMAIN staged : staged[i] \in Believed
  BY DEF BeliefsTyped
<1>4. \A i \in DOMAIN staged' : staged'[i] \in Believed
  BY <1>1, <1>3
<1>5. ASSUME NEW i \in DOMAIN staged', i <= Len(kept) PROVE Extends(staged'[i], kept[i])
  <2>1. i \in 1 .. Len(kept)
    BY <1>1, <1>2, <1>3, <1>5
  <2>2. kept[i] \in Believed
    BY <1>2, <1>3, <2>1, ElementOfSeq
  <2>3. Working[i] \in Believed
    BY <1>2, <2>1
  <2>4. Extends(Working[i], kept[i])
    <3>1. CASE i \in DOMAIN staged
      BY <1>2, <2>1, <3>1 DEF RevisionsExtend
    <3>2. CASE i \notin DOMAIN staged
      BY <1>2, <2>1, <2>2, <3>2, ExtendsOrdered
    <3> QED BY <3>1, <3>2
  <2>5. CASE i \in DOMAIN changes
    <3>1. staged'[i] = changes[i] /\ changes[i] \in Believed /\ Extends(changes[i], Working[i])
      BY <1>1, <2>5
    <3> QED BY <2>2, <2>3, <2>4, <3>1, ExtendsOrdered
  <2>6. CASE i \notin DOMAIN changes
    <3>1. staged'[i] = staged[i] /\ i \in DOMAIN staged
      BY <1>1, <2>6
    <3> QED BY <1>5, <3>1 DEF RevisionsExtend
  <2> QED BY <2>5, <2>6
<1>6. RevisionsExtend'
  BY <1>5 DEF RevisionsExtend
<1>7. Working' = WorkOn(kept, staged', pending')
  BY DEF Working, WorkOn
<1>8. PICK revised : revised = staged'
  OBVIOUS
<1>9. PICK added \in Seq(Believed) : added = pending'
  OBVIOUS
<1>10. /\ DOMAIN Working' = 1 .. Len(kept) + Len(pending)
       /\ \A i \in 1 .. Len(kept) :
            Working'[i] = IF i \in DOMAIN staged' THEN staged'[i] ELSE kept[i]
       /\ \A j \in 1 .. Len(pending) : Working'[Len(kept) + j] = pending'[j]
  <2>1. \A i \in DOMAIN revised : revised[i] \in Believed
    BY <1>4, <1>8
  <2>2. PICK lasting \in Seq(Believed) : lasting = kept
    BY <1>3
  <2>3. PICK work : work = WorkOn(lasting, revised, added)
    OBVIOUS
  <2>4. /\ DOMAIN work = 1 .. Len(lasting) + Len(added)
        /\ \A i \in 1 .. Len(lasting) :
              work[i] = IF i \in DOMAIN revised THEN revised[i] ELSE lasting[i]
        /\ \A j \in 1 .. Len(added) : work[Len(lasting) + j] = added[j]
    BY <2>1, <2>3, WorkTyped
  <2>5. Working' = work
    BY <1>7, <1>8, <1>9, <2>2, <2>3
  <2> QED BY <1>8, <1>9, <2>2, <2>4, <2>5
<1>11. \A i \in 1 .. Len(kept) :
            Working'[i] = IF i \in DOMAIN changes THEN changes[i] ELSE Working[i]
  BY <1>1, <1>2, <1>10
<1> QED BY <1>1, <1>2, <1>3, <1>4, <1>6, <1>10, <1>11

\* Memories that carry what they did, or one of them a change more.
LEMMA CarriedBefore ==
    ASSUME NEW old, NEW new, DOMAIN new = DOMAIN old,
           \A i \in DOMAIN old : Carried(new[i]) = Carried(old[i])
    PROVE  CarriedIn(new) = CarriedIn(old)
BY DEF CarriedIn, Range

OneMore(new, old, d, x) ==
    /\ DOMAIN new = DOMAIN old /\ d \in DOMAIN old
    /\ \A i \in DOMAIN old : i # d => Carried(new[i]) = Carried(old[i])
    /\ Carried(new[d]) = Carried(old[d]) \cup {x}

LEMMA CarriedMore ==
    ASSUME NEW old, NEW new, NEW d, NEW x, OneMore(new, old, d, x)
    PROVE  CarriedIn(new) = CarriedIn(old) \cup {x}
<1>1. \A y : y \in CarriedIn(old) <=> \E i \in DOMAIN old : y \in Carried(old[i])
  BY DEF CarriedIn, Range
<1>2. \A y : y \in CarriedIn(new) <=> \E i \in DOMAIN new : y \in Carried(new[i])
  BY DEF CarriedIn, Range
<1>3. ASSUME NEW y PROVE y \in CarriedIn(new) <=> y \in CarriedIn(old) \/ y = x
  <2>1. ASSUME NEW i \in DOMAIN old PROVE y \in Carried(new[i]) <=> y \in Carried(old[i]) \/ (i = d /\ y = x)
    <3>1. CASE i = d
      BY <3>1 DEF OneMore
    <3>2. CASE i # d
      BY <3>2 DEF OneMore
    <3> QED BY <3>1, <3>2
  <2> QED BY <1>1, <1>2, <2>1 DEF OneMore
<1> QED BY <1>3

\* Evidence has tensions deliberated again; nobody's changes are touched.
LEMMA EvidenceKept ==
    ASSUME BeliefsKept, NEW o \in Observations, ConsiderEvidence(o)
    PROVE  /\ BeliefsKept' /\ DOMAIN Working' = DOMAIN Working
           /\ \A i \in DOMAIN Working :
                /\ Working'[i] \in {Working[i], Reassess(Working[i], Range(Working), Append(evidence, o))}
                /\ Extends(Working'[i], Working[i])
<1> DEFINE observations == Append(evidence, o)
           memories == Range(Working)
           revised(m) == Reassess(m, memories, observations)
           touched == {i \in 1 .. Len(kept) : Reassessed(Working[i], observations) # {}}
           changes == [i \in touched |-> revised(Working[i])]
<1>1. /\ recalled
      /\ \A m \in memories : \A e \in Reassessed(m, observations) :
            m.deliberations[e].revision < MaxRevision
      /\ evidence' = observations /\ Stage(changes)
      /\ pending' = [j \in 1 .. Len(pending) |-> revised(pending[j])]
      /\ UNCHANGED <<kept, journal, recalled, events>>
  BY DEF ConsiderEvidence
<1>2. BeliefsTyped /\ RevisionsExtend /\ ChangesAreCarried
  BY DEF BeliefsKept
<1>3. /\ Len(kept) \in Nat /\ Len(pending) \in Nat
      /\ DOMAIN Working = 1 .. Len(kept) + Len(pending)
      /\ \A i \in DOMAIN Working : Working[i] \in Believed
      /\ \A j \in 1 .. Len(pending) : Working[Len(kept) + j] = pending[j]
  BY <1>2, WorkingTyped
<1>4. observations \in Seq(Observations)
  BY <1>2, AppendProperties DEF BeliefsTyped
<1>5. PICK seen \in Seq(Observations) : seen = observations
  BY <1>4
<1>all. PICK all : all = memories
  OBVIOUS
<1>6. ASSUME NEW i \in DOMAIN Working
      PROVE  /\ revised(Working[i]) \in Believed
             /\ Extends(revised(Working[i]), Working[i])
             /\ Carried(revised(Working[i])) = Carried(Working[i])
  <2>1. PICK m \in Believed : m = Working[i]
    BY <1>3
  <2>2. \A e \in Reassessed(m, seen) : m.deliberations[e].revision < MaxRevision
    BY <1>1, <1>5, <2>1 DEF Range
  <2> QED BY <1>5, <1>all, <2>1, <2>2, Reassessing
<1> HIDE DEF revised
<1>7. \A j \in 1 .. Len(pending) : Len(kept) + j \in DOMAIN Working
  BY <1>3
<1>8. /\ pending' \in Seq(Believed) /\ Len(pending') = Len(pending)
      /\ \A j \in 1 .. Len(pending) : pending'[j] = revised(pending[j])
  <2>1. \A j \in 1 .. Len(pending) : revised(pending[j]) \in Believed
    BY <1>3, <1>6, <1>7
  <2>2. PICK added \in [1 .. Len(pending) -> Believed] :
             added = [j \in 1 .. Len(pending) |-> revised(pending[j])]
    BY <2>1
  <2>3. added \in Seq(Believed)
    BY <1>3, <2>2
  <2>4. Len(added) = Len(pending)
    <3>1. DOMAIN added = 1 .. Len(pending) /\ DOMAIN added = 1 .. Len(added) /\ Len(added) \in Nat
      BY <2>2, <2>3, LenProperties
    <3> QED BY <1>3, <3>1
  <2> QED BY <1>1, <2>2, <2>3, <2>4
<1>9. /\ DOMAIN changes \subseteq DOMAIN Working
      /\ \A i \in DOMAIN changes : /\ changes[i] = revised(Working[i])
                                   /\ changes[i] \in Believed /\ Extends(changes[i], Working[i])
  BY <1>3, <1>6
<1>10. DOMAIN changes \subseteq 1 .. Len(kept)
  OBVIOUS
<1> HIDE DEF changes, touched, observations, memories
<1>11. /\ DOMAIN staged' = DOMAIN changes \cup DOMAIN staged
       /\ DOMAIN staged' \subseteq DOMAIN Working
       /\ \A i \in DOMAIN staged' : staged'[i] \in Believed
       /\ RevisionsExtend'
       /\ DOMAIN Working' = DOMAIN Working
       /\ \A i \in 1 .. Len(kept) :
            Working'[i] = IF i \in DOMAIN changes THEN changes[i] ELSE Working[i]
       /\ \A j \in 1 .. Len(pending) : Working'[Len(kept) + j] = pending'[j]
  BY <1>1, <1>2, <1>8, <1>9, StagedWork
<1>12. BeliefsTyped'
  BY <1>1, <1>2, <1>3, <1>4, <1>8, <1>11 DEF BeliefsTyped
<1>13. ASSUME NEW i \in DOMAIN Working PROVE Working'[i] \in {Working[i], revised(Working[i])}
  <2>1. CASE i \in 1 .. Len(kept)
    BY <1>9, <1>11, <2>1
  <2>2. CASE i \notin 1 .. Len(kept)
    <3>1. i - Len(kept) \in 1 .. Len(pending) /\ Len(kept) + (i - Len(kept)) = i
      BY <1>3, <2>2
    <3>2. PICK j \in 1 .. Len(pending) : Len(kept) + j = i
      BY <3>1
    <3> QED BY <1>3, <1>8, <1>11, <3>2
  <2> QED BY <2>1, <2>2
<1>14. CarriedIn(Working') = CarriedIn(Working)
  BY <1>6, <1>11, <1>13, CarriedBefore
<1>15. ChangesAreCarried'
  BY <1>1, <1>2, <1>11, <1>14 DEF ChangesAreCarried
<1>16. \A i \in DOMAIN Working : Extends(Working'[i], Working[i])
  BY <1>3, <1>6, <1>13, ExtendsOrdered
<1> QED BY <1>11, <1>12, <1>13, <1>15, <1>16 DEF BeliefsKept, revised, memories, observations

\* A memory just proposed.
Fresh(new, M, observations) ==
    /\ new.labels = {} /\ new.transitions = <<>> /\ new.reframes = <<>>
    /\ \A s \in Scopes : new.status[s] = None
    /\ \A e \in Values : new.deliberations[e] # None =>
          /\ e # new.value /\ \E i \in DOMAIN M : Holds(M[i], e, new.scope)
          /\ new.deliberations[e] = DeliberateTension(e, new.value, new.scope, Range(M),
                                                      observations, {new.appraisal}, None)

\* A memory proposed carries no change of belief yet.
LEMMA ProposalKept ==
    ASSUME BeliefsKept, NEW p \in Proposals, ProposeMemory(p)
    PROVE  /\ BeliefsKept' /\ UNCHANGED <<kept, journal, recalled, evidence, staged, events>>
           /\ \E new \in Believed : Fresh(new, Working, evidence) /\ Working' = Append(Working, new)
<1> DEFINE fresh(e) == DeliberateTension(e, p.value, p.scope, Range(Working), evidence,
                                         {p.appraisal}, None)
           deliberations == [e \in Values |-> IF e \in Competing(p) THEN fresh(e) ELSE None]
           new == Proposed(p, deliberations)
<1>1. /\ recalled /\ Len(kept) + Len(pending) < MaxMemories
      /\ pending' = Append(pending, new)
      /\ UNCHANGED <<kept, journal, recalled, evidence, staged, events>>
  BY DEF ProposeMemory
<1>2. BeliefsTyped /\ RevisionsExtend /\ ChangesAreCarried
  BY DEF BeliefsKept
<1>3. p.value \in Values /\ p.scope \in Scopes
  BY ProposalAssumption
<1>4. deliberations \in [Values -> Deliberation \cup {None}]
  <2>1. ASSUME NEW e \in Values PROVE fresh(e) \in Deliberation
    BY <1>2, <1>3, Deliberated DEF BeliefsTyped
  <2> HIDE DEF fresh
  <2> QED BY <2>1
<1>5. deliberations[p.value] = None
  BY <1>3 DEF Competing
<1> HIDE DEF deliberations
<1>6. new \in Believed /\ new.transitions = <<>> /\ new.reframes = <<>>
  <2>1. <<>> \in Seq(TransitionRecord) /\ <<>> \in Seq(ReframeRecord)
    BY EmptySeq
  <2> QED BY <1>3, <1>4, <1>5, <2>1 DEF Believed, Proposed
<1>7. Carried(new) = {}
  BY <1>6, EmptySeq DEF Carried, Range
<1> HIDE DEF new
<1>8. /\ Len(kept) \in Nat /\ Len(pending) \in Nat /\ DOMAIN kept = 1 .. Len(kept)
      /\ DOMAIN Working = 1 .. Len(kept) + Len(pending)
      /\ \A i \in 1 .. Len(kept) : Working[i] = IF i \in DOMAIN staged THEN staged[i] ELSE kept[i]
      /\ \A j \in 1 .. Len(pending) : Working[Len(kept) + j] = pending[j]
  BY <1>2, WorkingTyped
<1>9. /\ pending' \in Seq(Believed) /\ Len(pending') = Len(pending) + 1
      /\ \A j \in 1 .. Len(pending) : pending'[j] = pending[j]
      /\ pending'[Len(pending) + 1] = new
  BY <1>1, <1>2, <1>6, AppendProperties DEF BeliefsTyped
<1>10. BeliefsTyped'
  BY <1>1, <1>2, <1>8, <1>9, BoundAssumption DEF BeliefsTyped
<1>11. RevisionsExtend'
  BY <1>1, <1>2 DEF RevisionsExtend
<1>12. /\ DOMAIN Working' = 1 .. Len(kept) + Len(pending) + 1
       /\ \A i \in 1 .. Len(kept) : Working'[i] = Working[i]
       /\ \A j \in 1 .. Len(pending) + 1 : Working'[Len(kept) + j] = pending'[j]
  <2>1. PICK lasting \in Seq(Believed), added \in Seq(Believed) : lasting = kept /\ added = pending'
    BY <1>2, <1>9 DEF BeliefsTyped
  <2>11. PICK revised, work : revised = staged /\ work = WorkOn(lasting, revised, added)
    OBVIOUS
  <2>2. \A i \in DOMAIN revised : revised[i] \in Believed
    BY <1>2, <2>11 DEF BeliefsTyped
  <2>3. /\ DOMAIN work = 1 .. Len(lasting) + Len(added)
        /\ \A i \in 1 .. Len(lasting) :
              work[i] = IF i \in DOMAIN revised THEN revised[i] ELSE lasting[i]
        /\ \A j \in 1 .. Len(added) : work[Len(lasting) + j] = added[j]
    BY <2>11, <2>2, WorkTyped
  <2>4. Working' = work
    BY <1>1, <2>1, <2>11 DEF Working, WorkOn
  <2>5. Len(lasting) = Len(kept) /\ Len(added) = Len(pending) + 1
        /\ Len(lasting) + Len(added) = Len(kept) + Len(pending) + 1
    <3>1. Len(lasting) = Len(kept) /\ Len(added) = Len(pending')
      BY <2>1
    <3>2. Len(added) = Len(pending) + 1
      BY <1>9, <3>1
    <3>3. Len(kept) \in Nat /\ Len(pending) \in Nat
      BY <1>8
    <3> QED BY <3>1, <3>2, <3>3
  <2>6. \A i \in 1 .. Len(kept) : Working'[i] = Working[i]
    BY <1>8, <2>1, <2>11, <2>3, <2>4, <2>5
  <2>7. \A j \in 1 .. Len(pending) + 1 : Working'[Len(kept) + j] = pending'[j]
    BY <2>1, <2>3, <2>4, <2>5
  <2> QED BY <2>3, <2>4, <2>5, <2>6, <2>7
<1>13. Working'[Len(kept) + Len(pending) + 1] = new
  BY <1>8, <1>9, <1>12
<1>14. \A i \in DOMAIN Working : i \in DOMAIN Working' /\ Working'[i] = Working[i]
  <2> SUFFICES ASSUME NEW i \in DOMAIN Working PROVE i \in DOMAIN Working' /\ Working'[i] = Working[i]
      OBVIOUS
  <2>1. CASE i \in 1 .. Len(kept)
    BY <1>8, <1>12, <2>1
  <2>2. CASE i \notin 1 .. Len(kept)
    <3>1. i - Len(kept) \in 1 .. Len(pending) /\ Len(kept) + (i - Len(kept)) = i
      BY <1>8, <2>2
    <3>2. PICK j \in 1 .. Len(pending) : Len(kept) + j = i
      BY <3>1
    <3> QED BY <1>8, <1>9, <1>12, <3>2
  <2> QED BY <2>1, <2>2
<1>15. \A i \in DOMAIN Working' : i \notin DOMAIN Working => i = Len(kept) + Len(pending) + 1
  BY <1>8, <1>12
<1>16. Working' \in Seq(Believed)
  BY <1>10, WorkingTypedNext
<1>17. Working' = Append(Working, new)
  <2>1. Working \in Seq(Believed) /\ Len(Working) = Len(kept) + Len(pending)
        /\ DOMAIN Working = 1 .. Len(kept) + Len(pending)
    BY <1>2, WorkingTyped
  <2>2. PICK old \in Seq(Believed), next \in Seq(Believed) : old = Working /\ next = Working'
    BY <1>16, <2>1
  <2>3. /\ Append(old, new) \in Seq(Believed) /\ Len(Append(old, new)) = Len(old) + 1
        /\ \A i \in 1 .. Len(old) : Append(old, new)[i] = old[i]
        /\ Append(old, new)[Len(old) + 1] = new
    BY <1>6, AppendProperties
  <2>4. Len(old) \in Nat /\ Len(next) = Len(old) + 1 /\ DOMAIN old = 1 .. Len(old)
    <3>1. Len(next) \in Nat /\ DOMAIN next = 1 .. Len(next)
      BY LenProperties
    <3>2. Len(old) \in Nat /\ DOMAIN old = 1 .. Len(old) /\ Len(old) = Len(kept) + Len(pending)
      BY <2>1, <2>2, LenProperties
    <3>3. DOMAIN next = 1 .. Len(old) + 1
      BY <1>12, <2>2, <3>2
    <3>4. Len(old) + 1 \in DOMAIN next
      BY <3>2, <3>3
    <3>5. Len(next) \in DOMAIN next
      BY <3>1, <3>4
    <3>6. Len(next) = Len(old) + 1
      <4>1. Len(old) + 1 \in 1 .. Len(next)
        BY <3>1, <3>4
      <4>2. Len(next) \in 1 .. Len(old) + 1
        BY <3>3, <3>5
      <4>3. \A m, n \in Nat : n + 1 \in 1 .. m /\ m \in 1 .. n + 1 => m = n + 1
        OBVIOUS
      <4> QED BY <3>1, <3>2, <4>1, <4>2, <4>3
    <3> QED BY <3>2, <3>6
  <2>5. ASSUME NEW i \in 1 .. Len(next) PROVE next[i] = Append(old, new)[i]
    <3>1. CASE i \in 1 .. Len(old)
      BY <1>14, <2>2, <2>3, <2>4, <3>1
    <3>2. CASE i = Len(old) + 1
      BY <1>13, <2>1, <2>2, <2>3, <3>2
    <3> QED BY <2>4, <3>1, <3>2
  <2> QED BY <2>2, <2>3, <2>4, <2>5, SeqEqual
<1>18. CarriedIn(Working') = CarriedIn(Working)
  <2>1. \A x : x \in CarriedIn(Working) <=> \E i \in DOMAIN Working : x \in Carried(Working[i])
    BY DEF CarriedIn, Range
  <2>2. \A x : x \in CarriedIn(Working') <=> \E i \in DOMAIN Working' : x \in Carried(Working'[i])
    BY DEF CarriedIn, Range
  <2>3. ASSUME NEW x PROVE x \in CarriedIn(Working') <=> x \in CarriedIn(Working)
    BY <1>7, <1>13, <1>14, <1>15, <2>1, <2>2
  <2> QED BY <2>3
<1>19. ChangesAreCarried'
  BY <1>1, <1>2, <1>18 DEF ChangesAreCarried
<1>20. Fresh(new, Working, evidence)
  <2>1. /\ new.labels = {} /\ \A s \in Scopes : new.status[s] = None
        /\ new.value = p.value /\ new.scope = p.scope /\ new.appraisal = p.appraisal
        /\ new.deliberations = deliberations
    BY DEF new, Proposed
  <2>2. ASSUME NEW e \in Values, deliberations[e] # None
        PROVE  /\ e # p.value /\ (\E i \in DOMAIN Working : Holds(Working[i], e, p.scope))
               /\ deliberations[e] = fresh(e)
    <3>1. e \in Competing(p) /\ deliberations[e] = fresh(e)
      BY <2>2 DEF deliberations
    <3>2. e # p.value /\ \E m \in Range(Working) : <<e, p.scope>> \in Meanings(m)
      BY <3>1 DEF Competing
    <3> QED BY <3>1, <3>2 DEF Holds, Range
  <2> QED BY <1>6, <2>1, <2>2 DEF Fresh
<1> QED BY <1>1, <1>6, <1>10, <1>11, <1>17, <1>19, <1>20 DEF BeliefsKept

\* A change of belief is staged with the memory that carries it, and reported.
LEMMA ChangeKept ==
    ASSUME BeliefsKept, recalled, NEW x \in TransitionRecord \cup ReframeRecord,
           NEW changes, Stage(changes), NEW d \in DOMAIN changes, events' = Append(events, x),
           UNCHANGED <<kept, journal, recalled, evidence, pending>>,
           DOMAIN changes \subseteq DOMAIN Working,
           \A i \in DOMAIN changes :
                /\ changes[i] \in Believed /\ Extends(changes[i], Working[i])
                /\ i # d => Carried(changes[i]) = Carried(Working[i]),
           Carried(changes[d]) = Carried(Working[d]) \cup {x}
    PROVE  /\ BeliefsKept' /\ DOMAIN Working' = DOMAIN Working
           /\ DOMAIN staged' \subseteq 1 .. Len(kept) => \A i \in DOMAIN Working :
                Working'[i] = IF i \in DOMAIN changes THEN changes[i] ELSE Working[i]
<1>1. BeliefsTyped /\ RevisionsExtend /\ ChangesAreCarried
  BY DEF BeliefsKept
<1>2. /\ Len(kept) \in Nat /\ Len(pending) \in Nat
      /\ DOMAIN Working = 1 .. Len(kept) + Len(pending)
      /\ \A j \in 1 .. Len(pending) : Working[Len(kept) + j] = pending[j]
  BY <1>1, WorkingTyped
<1>3. pending' \in Seq(Believed) /\ Len(pending') = Len(pending)
  BY <1>1 DEF BeliefsTyped
<1>4. /\ DOMAIN staged' = DOMAIN changes \cup DOMAIN staged
      /\ DOMAIN staged' \subseteq DOMAIN Working
      /\ \A i \in DOMAIN staged' : staged'[i] \in Believed
      /\ RevisionsExtend'
      /\ DOMAIN Working' = DOMAIN Working
      /\ \A i \in 1 .. Len(kept) :
            Working'[i] = IF i \in DOMAIN changes THEN changes[i] ELSE Working[i]
      /\ \A j \in 1 .. Len(pending) : Working'[Len(kept) + j] = pending'[j]
  BY <1>1, <1>3, StagedWork
<1>5. /\ events' \in Seq(TransitionRecord \cup ReframeRecord)
      /\ Range(events') = Range(events) \cup {x}
  <2>1. PICK S : S = TransitionRecord \cup ReframeRecord
    OBVIOUS
  <2>2. events \in Seq(S) /\ x \in S
    BY <1>1, <2>1 DEF BeliefsTyped
  <2>3. Append(events, x) \in Seq(S)
    BY <2>2, AppendProperties
  <2>4. Range(Append(events, x)) = Range(events) \cup {x}
    BY <2>2, RangeOfAppend
  <2> QED BY <2>1, <2>3, <2>4
<1>6. BeliefsTyped'
  BY <1>1, <1>2, <1>4, <1>5 DEF BeliefsTyped
<1>7. DOMAIN staged' \subseteq 1 .. Len(kept) => CarriedIn(Working') = CarriedIn(Working) \cup {x}
  <2> SUFFICES ASSUME DOMAIN staged' \subseteq 1 .. Len(kept)
               PROVE  CarriedIn(Working') = CarriedIn(Working) \cup {x}
      OBVIOUS
  <2>1. DOMAIN changes \subseteq 1 .. Len(kept)
    BY <1>4
  <2>2. Carried(Working'[d]) = Carried(Working[d]) \cup {x}
    BY <1>4, <2>1
  <2>3. ASSUME NEW i \in DOMAIN Working, i # d PROVE Carried(Working'[i]) = Carried(Working[i])
    <3>1. CASE i \in 1 .. Len(kept)
      BY <1>4, <2>3, <3>1
    <3>2. CASE i \notin 1 .. Len(kept)
      <4>1. i - Len(kept) \in 1 .. Len(pending) /\ Len(kept) + (i - Len(kept)) = i
        BY <1>2, <3>2
      <4>2. PICK j \in 1 .. Len(pending) : Len(kept) + j = i
        BY <4>1
      <4> QED BY <1>2, <1>4, <4>2
    <3> QED BY <3>1, <3>2
  <2>4. PICK old, new : old = Working /\ new = Working'
    OBVIOUS
  <2>5. /\ DOMAIN new = DOMAIN old /\ d \in DOMAIN old
        /\ Carried(new[d]) = Carried(old[d]) \cup {x}
    BY <1>4, <2>2, <2>4
  <2>6. \A i \in DOMAIN old : i # d => Carried(new[i]) = Carried(old[i])
    BY <2>3, <2>4
  <2>8. OneMore(new, old, d, x)
    BY <2>5, <2>6 DEF OneMore
  <2>7. CarriedIn(new) = CarriedIn(old) \cup {x}
    BY <2>8, CarriedMore
  <2> QED BY <2>4, <2>7
<1>8. ChangesAreCarried'
  <2>1. Range(journal') = CarriedIn(kept')
    BY <1>1 DEF ChangesAreCarried
  <2>2. DOMAIN staged' \subseteq 1 .. Len(kept') =>
            Range(journal') \cup Range(events') = CarriedIn(Working')
    BY <1>1, <1>4, <1>5, <1>7 DEF ChangesAreCarried
  <2> QED BY <2>1, <2>2 DEF ChangesAreCarried
<1>9. ASSUME DOMAIN staged' \subseteq 1 .. Len(kept), NEW i \in DOMAIN Working
      PROVE  Working'[i] = IF i \in DOMAIN changes THEN changes[i] ELSE Working[i]
  <2>1. CASE i \in 1 .. Len(kept)
    BY <1>4, <2>1
  <2>2. CASE i \notin 1 .. Len(kept)
    <3>1. i - Len(kept) \in 1 .. Len(pending) /\ Len(kept) + (i - Len(kept)) = i
      BY <1>2, <2>2
    <3>2. PICK j \in 1 .. Len(pending) : Len(kept) + j = i
      BY <3>1
    <3>3. i \notin DOMAIN changes
      BY <1>4, <1>9, <2>2
    <3> QED BY <1>2, <1>4, <3>2, <3>3
  <2> QED BY <2>1, <2>2
<1> QED BY <1>4, <1>6, <1>8, <1>9 DEF BeliefsKept

\* What a transition makes of the memories, if they will be stored.
Transits(value, scope) ==
    \E d \in MayTransition(value, scope) :
        LET other == IF value = d.existing THEN Working[d.on].value ELSE d.existing
            t == [from |-> other, to |-> value, scope |-> scope,
                  revision |-> d.latest.revision, at |-> Now]
        IN  /\ t \in TransitionRecord /\ events' = Append(events, t)
            /\ \A i \in DOMAIN Working :
                  /\ Turned(Working'[i], Working[i], value, other, scope)
                  /\ Extends(Working'[i], Working[i])
                  /\ Working'[i].transitions = IF i = d.on THEN Append(Working[i].transitions, t)
                                               ELSE Working[i].transitions

LEMMA TransitionKept ==
    ASSUME BeliefsKept, NEW value \in Values, NEW scope \in Scopes, TransitionBelief(value, scope)
    PROVE  /\ BeliefsKept' /\ DOMAIN Working' = DOMAIN Working
           /\ DOMAIN staged' \subseteq 1 .. Len(kept) => Transits(value, scope)
<1>1. PICK d \in MayTransition(value, scope) :
        LET other   == IF value = d.existing THEN Working[d.on].value ELSE d.existing
            t == [from |-> other, to |-> value, scope |-> scope,
                  revision |-> d.latest.revision, at |-> Now]
            supports(v) == {i \in DOMAIN Working : Holds(Working[i], v, scope)}
            status(i) == IF i \in supports(value) THEN "current"
                         ELSE IF i \in supports(other) THEN "superseded"
                         ELSE Working[i].status[scope]
        IN  /\ Stage([i \in supports(value) \cup supports(other) \cup {d.on} |->
                    [Working[i] EXCEPT !.status[scope] = status(i),
                                       !.transitions = IF i = d.on THEN Append(@, t) ELSE @]])
            /\ events' = Append(events, t)
  BY DEF TransitionBelief
<1>2. recalled /\ UNCHANGED <<kept, journal, recalled, evidence, pending>>
  BY DEF TransitionBelief
<1>3. BeliefsTyped
  BY DEF BeliefsKept
<1>4. /\ DOMAIN Working = 1 .. Len(kept) + Len(pending)
      /\ \A i \in DOMAIN Working : Working[i] \in Believed
  BY <1>3, WorkingTyped
<1>5. /\ d.on \in DOMAIN Working /\ d.existing \in Values
      /\ d.latest = Working[d.on].deliberations[d.existing] /\ d.latest # None
  BY DEF MayTransition, Deliberations
<1>6. d.latest.revision \in 1 .. MaxRevision
  <2>1. Working[d.on].deliberations[d.existing] \in Deliberation \cup {None}
    BY <1>4, <1>5, BelievedTyped
  <2> QED BY <1>5, <2>1 DEF Deliberation
<1>7. Now \in Nat
  <2>1. Len(journal) \in Nat /\ Len(events) \in Nat
    BY <1>3, LenProperties DEF BeliefsTyped
  <2> QED BY <2>1 DEF Now
<1> DEFINE other == IF value = d.existing THEN Working[d.on].value ELSE d.existing
           t == [from |-> other, to |-> value, scope |-> scope,
                 revision |-> d.latest.revision, at |-> Now]
           supports(v) == {i \in DOMAIN Working : Holds(Working[i], v, scope)}
           status(i) == IF i \in supports(value) THEN "current"
                        ELSE IF i \in supports(other) THEN "superseded"
                        ELSE Working[i].status[scope]
           transitions(i) == IF i = d.on THEN Append(Working[i].transitions, t)
                             ELSE Working[i].transitions
           concerned == supports(value) \cup supports(other) \cup {d.on}
           changed(i) == [Working[i] EXCEPT !.status[scope] = status(i),
                                            !.transitions = transitions(i)]
           changes == [i \in concerned |-> changed(i)]
<1>8. other \in Values
  <2>1. Working[d.on].value \in Values
    BY <1>4, <1>5, BelievedTyped
  <2> QED BY <1>5, <2>1
<1>9. t \in TransitionRecord
  <2> HIDE DEF other
  <2> QED BY <1>6, <1>7, <1>8 DEF TransitionRecord
<1>10. concerned \subseteq DOMAIN Working /\ d.on \in concerned
  BY <1>5
<1>11. ASSUME NEW i \in DOMAIN Working
       PROVE  status(i) \in {None, "current", "superseded"}
  <2>1. Working[i].status[scope] \in {None, "current", "superseded"}
    BY <1>4, BelievedTyped
  <2> QED BY <2>1
<1>12. /\ Stage(changes) /\ events' = Append(events, t)
  <2>1. changes = [i \in concerned |->
                    [Working[i] EXCEPT !.status[scope] = status(i),
                                       !.transitions = IF i = d.on THEN Append(@, t) ELSE @]]
    <3>1. ASSUME NEW i \in concerned
          PROVE  changed(i) = [Working[i] EXCEPT !.status[scope] = status(i),
                                       !.transitions = IF i = d.on THEN Append(@, t) ELSE @]
      <4>1. PICK m \in Believed : m = Working[i]
        BY <1>4, <1>10
      <4> HIDE DEF t, status, concerned
      <4> QED BY <4>1 DEF Believed
    <3> HIDE DEF concerned, changed
    <3> QED BY <3>1
  <2> QED BY <1>1, <2>1
<1> HIDE DEF status, t, supports, other
<1>13. ASSUME NEW i \in DOMAIN Working
       PROVE  /\ changed(i) \in Believed /\ Extends(changed(i), Working[i])
              /\ i # d.on => Carried(changed(i)) = Carried(Working[i])
              /\ i = d.on => Carried(changed(i)) = Carried(Working[i]) \cup {t}
  <2>1. PICK m \in Believed : m = Working[i]
    BY <1>4
  <2>2. PICK given \in {None, "current", "superseded"} : given = status(i)
    BY <1>11
  <2>3. PICK made \in {m.transitions, Append(m.transitions, t)} : made = transitions(i)
    BY <2>1
  <2>4. changed(i) = WithTransition(m, scope, given, made)
    BY <2>1, <2>2, <2>3 DEF WithTransition
  <2>5. /\ changed(i) \in Believed /\ Extends(changed(i), m)
        /\ Carried(changed(i)) = Range(made) \cup Range(m.reframes)
    <3>1. PICK event \in TransitionRecord : event = t
      BY <1>9
    <3>2. made = m.transitions \/ made = Append(m.transitions, event)
      BY <3>1
    <3> HIDE DEF changed, transitions
    <3>3. /\ WithTransition(m, scope, given, made) \in Believed
          /\ Extends(WithTransition(m, scope, given, made), m)
          /\ Carried(WithTransition(m, scope, given, made)) = Range(made) \cup Range(m.reframes)
      BY <3>2, Transitioned
    <3> QED BY <2>4, <3>3
  <2>6. Range(Append(m.transitions, t)) = Range(m.transitions) \cup {t}
    BY <1>9, BelievedTyped, RangeOfAppend
  <2>7. i # d.on => made = m.transitions
    BY <2>1, <2>3
  <2>8. i = d.on => made = Append(m.transitions, t)
    BY <2>1, <2>3
  <2> HIDE DEF changed, transitions
  <2> QED BY <2>1, <2>5, <2>6, <2>7, <2>8 DEF Carried
<1>14. ASSUME NEW i \in DOMAIN Working
       PROVE  /\ Turned(changed(i), Working[i], value, other, scope)
              /\ changed(i).transitions = transitions(i)
              /\ i \notin concerned => /\ Turned(Working[i], Working[i], value, other, scope)
                                       /\ Extends(Working[i], Working[i])
  <2>1. PICK m \in Believed : m = Working[i]
    BY <1>4
  <2>2. PICK given, made : given = status(i) /\ made = transitions(i)
    OBVIOUS
  <2>3. changed(i) = WithTransition(m, scope, given, made)
    BY <2>1, <2>2 DEF WithTransition
  <2>4. given = IF Holds(m, value, scope) THEN "current"
                ELSE IF Holds(m, other, scope) THEN "superseded" ELSE m.status[scope]
    BY <2>1, <2>2 DEF status, supports
  <2>5. i \notin concerned => ~Holds(m, value, scope) /\ ~Holds(m, other, scope)
    BY <2>1 DEF supports
  <2> HIDE DEF changed, transitions, concerned
  <2> QED BY <2>1, <2>2, <2>3, <2>4, <2>5, TransitionTurns, ExtendsOrdered
<1> HIDE DEF changed, concerned
<1>15. /\ DOMAIN changes = concerned
       /\ \A i \in DOMAIN changes : changes[i] = changed(i)
  OBVIOUS
<1> HIDE DEF changes
<1>16. /\ BeliefsKept' /\ DOMAIN Working' = DOMAIN Working
       /\ DOMAIN staged' \subseteq 1 .. Len(kept) => \A i \in DOMAIN Working :
                Working'[i] = IF i \in DOMAIN changes THEN changes[i] ELSE Working[i]
  BY <1>2, <1>5, <1>9, <1>10, <1>12, <1>13, <1>15, ChangeKept
<1>17. ASSUME DOMAIN staged' \subseteq 1 .. Len(kept), NEW i \in DOMAIN Working
       PROVE  /\ Turned(Working'[i], Working[i], value, other, scope)
              /\ Extends(Working'[i], Working[i])
              /\ Working'[i].transitions = transitions(i)
  <2>1. CASE i \in concerned
    BY <1>13, <1>14, <1>15, <1>16, <1>17, <2>1
  <2>2. CASE i \notin concerned
    <3>1. transitions(i) = Working[i].transitions
      BY <1>10, <2>2
    <3> HIDE DEF transitions
    <3> QED BY <1>14, <1>15, <1>16, <1>17, <2>2, <3>1
  <2> QED BY <2>1, <2>2
<1>18. DOMAIN staged' \subseteq 1 .. Len(kept) => Transits(value, scope)
  BY <1>1, <1>9, <1>12, <1>17 DEF Transits, other, t
<1> QED BY <1>16, <1>18


LEMMA ReframeKept ==
    ASSUME BeliefsKept, NEW existing \in Values, NEW proposed \in Values,
           ReframeBelief(existing, proposed)
    PROVE  /\ BeliefsKept' /\ DOMAIN Working' = DOMAIN Working
           /\ \E x \in TransitionRecord \cup ReframeRecord : events' = Append(events, x)
           /\ DOMAIN staged' \subseteq 1 .. Len(kept) =>
                /\ \A i \in DOMAIN Working : /\ Rescoped(Working'[i], Working[i])
                                             /\ Extends(Working'[i], Working[i])
                /\ \E d \in DOMAIN Working : Working'[d].reframes # <<>>
<1>1. PICK d \in NewestDeliberation(existing, proposed) :
        LET latest   == Working[d].deliberations[existing]
            supports(v) == {i \in DOMAIN Working : Working[i].value = v}
            f == [existing |-> existing, proposed |-> proposed,
                  revision |-> latest.revision, at |-> Now]
            label(i) == IF Working[i].value = existing THEN latest.finding.existingScope
                        ELSE latest.finding.proposedScope
        IN  /\ latest.finding # NoFinding
            /\ None \notin {latest.finding.existingScope, latest.finding.proposedScope}
            /\ Stage([i \in supports(existing) \cup supports(proposed) |->
                    [Working[i] EXCEPT !.labels = @ \cup {label(i)},
                                       !.reframes = IF i = d THEN Append(@, f) ELSE @]])
            /\ events' = Append(events, f)
  BY DEF ReframeBelief
<1>2. recalled /\ UNCHANGED <<kept, journal, recalled, evidence, pending>>
  BY DEF ReframeBelief
<1>3. BeliefsTyped
  BY DEF BeliefsKept
<1>4. \A i \in DOMAIN Working : Working[i] \in Believed
  BY <1>3, WorkingTyped
<1>5. /\ d \in DOMAIN Working /\ Working[d].value = proposed
      /\ Working[d].deliberations[existing] # None
  BY DEF NewestDeliberation
<1>6. PICK latest \in Deliberation : latest = Working[d].deliberations[existing]
  <2>1. Working[d].deliberations[existing] \in Deliberation \cup {None}
    BY <1>4, <1>5, BelievedTyped
  <2> QED BY <1>5, <2>1
<1>7. Now \in Nat
  <2>1. Len(journal) \in Nat /\ Len(events) \in Nat
    BY <1>3, LenProperties DEF BeliefsTyped
  <2> QED BY <2>1 DEF Now
<1> DEFINE supports(v) == {i \in DOMAIN Working : Working[i].value = v}
           f == [existing |-> existing, proposed |-> proposed,
                 revision |-> latest.revision, at |-> Now]
           label(i) == IF Working[i].value = existing THEN latest.finding.existingScope
                       ELSE latest.finding.proposedScope
           reframes(i) == IF i = d THEN Append(Working[i].reframes, f) ELSE Working[i].reframes
           concerned == supports(existing) \cup supports(proposed)
           changed(i) == WithReframe(Working[i], label(i), reframes(i))
           changes == [i \in concerned |-> changed(i)]
<1>8. f \in ReframeRecord
  BY <1>7 DEF ReframeRecord, Deliberation
<1>9. concerned \subseteq DOMAIN Working /\ d \in concerned
  BY <1>5
<1>10. \A i \in DOMAIN Working : label(i) \in Scopes \ {Unscoped}
  <2>1. /\ latest.finding # NoFinding
        /\ None \notin {latest.finding.existingScope, latest.finding.proposedScope}
    BY <1>1, <1>6
  <2>2. PICK o \in Observations : latest.finding = o.finding
    BY <2>1 DEF Deliberation
  <2>3. {latest.finding.existingScope, latest.finding.proposedScope} \subseteq Scopes \ {Unscoped}
    BY <2>1, <2>2, FindingAssumption
  <2> QED BY <2>3
<1>11. Stage(changes) /\ events' = Append(events, f)
  <2>1. /\ Stage([i \in concerned |->
                    [Working[i] EXCEPT !.labels = @ \cup {label(i)},
                                       !.reframes = IF i = d THEN Append(@, f) ELSE @]])
        /\ events' = Append(events, f)
    BY <1>1, <1>6
  <2>2. ASSUME NEW i \in concerned
        PROVE  changed(i) = [Working[i] EXCEPT !.labels = @ \cup {label(i)},
                                       !.reframes = IF i = d THEN Append(@, f) ELSE @]
    <3>1. PICK m \in Believed : m = Working[i]
      BY <1>4, <1>9
    <3> HIDE DEF f, label, concerned
    <3> QED BY <3>1 DEF Believed, WithReframe
  <2>3. changes = [i \in concerned |->
                    [Working[i] EXCEPT !.labels = @ \cup {label(i)},
                                       !.reframes = IF i = d THEN Append(@, f) ELSE @]]
    <3> HIDE DEF concerned, changed, f, label
    <3> QED BY <2>2
  <2> QED BY <2>1, <2>3
<1> HIDE DEF label, f, supports
<1>12. ASSUME NEW i \in DOMAIN Working
       PROVE  /\ changed(i) \in Believed /\ Extends(changed(i), Working[i])
              /\ i # d => Carried(changed(i)) = Carried(Working[i])
              /\ i = d => Carried(changed(i)) = Carried(Working[i]) \cup {f}
  <2>1. PICK m \in Believed : m = Working[i]
    BY <1>4
  <2>2. PICK given \in Scopes : given = label(i)
    BY <1>10
  <2>3. PICK made : made = reframes(i)
    OBVIOUS
  <2>4. changed(i) = WithReframe(m, given, made)
    BY <2>1, <2>2, <2>3
  <2>5. /\ changed(i) \in Believed /\ Extends(changed(i), m)
        /\ Carried(changed(i)) = Range(m.transitions) \cup Range(made)
    <3>1. PICK event \in ReframeRecord : event = f
      BY <1>8
    <3>2. made = m.reframes \/ made = Append(m.reframes, event)
      BY <2>1, <2>3, <3>1
    <3> HIDE DEF changed, reframes
    <3>3. /\ WithReframe(m, given, made) \in Believed
          /\ Extends(WithReframe(m, given, made), m)
          /\ Carried(WithReframe(m, given, made)) = Range(m.transitions) \cup Range(made)
      BY <3>2, Reframed
    <3> QED BY <2>4, <3>3
  <2>6. Range(Append(m.reframes, f)) = Range(m.reframes) \cup {f}
    BY <1>8, BelievedTyped, RangeOfAppend
  <2>7. i # d => made = m.reframes
    BY <2>1, <2>3
  <2>8. i = d => made = Append(m.reframes, f)
    BY <2>1, <2>3
  <2> HIDE DEF changed, reframes
  <2> QED BY <2>1, <2>5, <2>6, <2>7, <2>8 DEF Carried
<1>13. ASSUME NEW i \in DOMAIN Working
       PROVE  /\ Rescoped(changed(i), Working[i]) /\ Rescoped(Working[i], Working[i])
              /\ Extends(Working[i], Working[i])
  BY <1>4, <1>10, ReframeRescopes, ExtendsOrdered
<1>14. changed(d).reframes # <<>>
  <2>1. PICK m \in Believed : m = Working[d]
    BY <1>4, <1>5
  <2>2. PICK made \in Seq(ReframeRecord), event \in ReframeRecord :
             made = m.reframes /\ event = f
    BY <1>8, <2>1, BelievedTyped
  <2>3. Append(made, event) # <<>>
    <3>1. Len(made) \in Nat /\ Len(Append(made, event)) = Len(made) + 1
      BY LenProperties, AppendProperties
    <3>2. Len(<<>>) = 0
      BY EmptySeq
    <3> QED BY <3>1, <3>2
  <2>4. PICK given \in Scopes \ {Unscoped} : given = label(d)
    BY <1>5, <1>10
  <2>5. changed(d) = WithReframe(m, given, Append(made, event))
    BY <2>1, <2>2, <2>4
  <2> HIDE DEF changed
  <2> QED BY <2>3, <2>5, ReframeRescopes
<1> HIDE DEF changed, concerned
<1>15. /\ DOMAIN changes = concerned
       /\ \A i \in DOMAIN changes : changes[i] = changed(i)
  OBVIOUS
<1> HIDE DEF changes
<1>16. /\ BeliefsKept' /\ DOMAIN Working' = DOMAIN Working
       /\ DOMAIN staged' \subseteq 1 .. Len(kept) => \A i \in DOMAIN Working :
                Working'[i] = IF i \in DOMAIN changes THEN changes[i] ELSE Working[i]
  BY <1>2, <1>8, <1>9, <1>11, <1>12, <1>15, ChangeKept
<1>17. ASSUME DOMAIN staged' \subseteq 1 .. Len(kept), NEW i \in DOMAIN Working
       PROVE  Rescoped(Working'[i], Working[i]) /\ Extends(Working'[i], Working[i])
  BY <1>12, <1>13, <1>15, <1>16, <1>17
<1>18. DOMAIN staged' \subseteq 1 .. Len(kept) => Working'[d].reframes # <<>>
  BY <1>5, <1>9, <1>14, <1>15, <1>16
<1> QED BY <1>5, <1>8, <1>11, <1>16, <1>17, <1>18


\* What an interaction stores, memory by memory, extends what was there.
LEMMA WorkingExtends ==
    ASSUME BeliefsTyped, RevisionsExtend, NEW i \in DOMAIN kept
    PROVE  i \in DOMAIN Working /\ Working[i] \in Believed /\ kept[i] \in Believed
           /\ Extends(Working[i], kept[i])
<1>1. /\ i \in 1 .. Len(kept) /\ i \in DOMAIN Working /\ Working[i] \in Believed
      /\ Working[i] = IF i \in DOMAIN staged THEN staged[i] ELSE kept[i]
  BY WorkingTyped
<1>2. kept[i] \in Believed
  BY <1>1, ElementOfSeq DEF BeliefsTyped
<1>3. i \in DOMAIN staged => Extends(staged[i], kept[i])
  BY <1>1 DEF RevisionsExtend
<1> QED BY <1>1, <1>2, <1>3, ExtendsOrdered

\* Once everything is forgotten, there is what was stored to work on.
LEMMA NothingInHand ==
    ASSUME Forget, kept' \in Seq(Believed)
    PROVE  Working' = kept'
<1>1. pending' = <<>> /\ DOMAIN staged' = {}
  BY EmptySeq DEF Forget
<1>2. PICK lasting \in Seq(Believed) : lasting = kept'
  OBVIOUS
<1>3. \A revised : DOMAIN revised = {} => WorkOn(lasting, revised, <<>>) = lasting
  <2> SUFFICES ASSUME NEW revised, DOMAIN revised = {}
               PROVE  WorkOn(lasting, revised, <<>>) = lasting
      OBVIOUS
  <2>1. lasting = [i \in 1 .. Len(lasting) |-> lasting[i]]
    BY LenProperties
  <2>2. WorkOn(lasting, revised, <<>>) = lasting \o <<>>
    BY <2>1 DEF WorkOn
  <2> QED BY <2>2, ConcatEmptySeq
<1>4. Working' = WorkOn(kept', staged', pending')
  BY DEF Working, WorkOn
<1> QED BY <1>1, <1>2, <1>3, <1>4

LEMMA ForgottenKept ==
    ASSUME BeliefsKept, Forget, kept' \in Seq(Believed), Len(kept') <= MaxMemories,
           journal' \in Seq(TransitionRecord \cup ReframeRecord),
           Range(journal') = CarriedIn(kept')
    PROVE  BeliefsKept'
<1>1. /\ recalled' = FALSE /\ evidence' = <<>> /\ pending' = <<>> /\ events' = <<>>
      /\ DOMAIN staged' = {}
  BY EmptySeq DEF Forget
<1>2. Working' = kept'
  BY NothingInHand
<1>3. Range(events') = {}
  BY <1>1, EmptySeq DEF Range
<1>4. BeliefsTyped'
  <2>1. pending' \in Seq(Believed) /\ Len(pending') = 0
    BY <1>1, EmptySeq
  <2>2. evidence' \in Seq(Observations) /\ events' \in Seq(TransitionRecord \cup ReframeRecord)
    BY <1>1, EmptySeq
  <2>3. Len(kept') \in Nat
    BY LenProperties
  <2>4. Len(kept') + Len(pending') <= MaxMemories
    BY <2>1, <2>3
  <2> QED BY <1>1, <2>1, <2>2, <2>4 DEF BeliefsTyped
<1>5. RevisionsExtend'
  BY <1>1 DEF RevisionsExtend
<1>6. ChangesAreCarried'
  BY <1>2, <1>3 DEF ChangesAreCarried
<1> QED BY <1>4, <1>5, <1>6 DEF BeliefsKept

LEMMA BeliefsStart ==
    ASSUME BeliefsInit PROVE BeliefsKept /\ Working = <<>>
<1>1. /\ kept = <<>> /\ journal = <<>> /\ recalled = FALSE /\ evidence = <<>>
      /\ pending = <<>> /\ events = <<>> /\ staged = <<>> /\ DOMAIN staged = {}
  BY EmptySeq DEF BeliefsInit
<1>2. Working = <<>>
  <2>1. [i \in 1 .. 0 |-> IF i \in DOMAIN staged THEN staged[i] ELSE kept[i]] = <<>>
    OBVIOUS
  <2>2. Len(kept) = 0
    BY <1>1, EmptySeq
  <2>3. Working = [i \in 1 .. 0 |-> IF i \in DOMAIN staged THEN staged[i] ELSE kept[i]] \o <<>>
    BY <1>1, <2>2 DEF Working
  <2>4. <<>> \o <<>> = <<>>
    BY ConcatEmptySeq, EmptySeq
  <2> QED BY <2>1, <2>3, <2>4
<1>3. CarriedIn(<<>>) = {} /\ Range(<<>>) = {}
  BY EmptySeq DEF CarriedIn, Range
<1>4. BeliefsTyped
  <2>1. kept \in Seq(Believed) /\ pending \in Seq(Believed) /\ evidence \in Seq(Observations)
    BY <1>1, EmptySeq
  <2>2. /\ journal \in Seq(TransitionRecord \cup ReframeRecord)
        /\ events \in Seq(TransitionRecord \cup ReframeRecord)
    BY <1>1, EmptySeq
  <2>3. Len(kept) + Len(pending) <= MaxMemories
    <3>1. Len(kept) = 0 /\ Len(pending) = 0 /\ MaxMemories \in Nat
      BY <1>1, EmptySeq, BoundAssumption
    <3> QED BY <3>1
  <2> QED BY <1>1, <2>1, <2>2, <2>3 DEF BeliefsTyped
<1>5. RevisionsExtend
  BY <1>1 DEF RevisionsExtend
<1>6. ChangesAreCarried
  BY <1>1, <1>2, <1>3 DEF ChangesAreCarried
<1> QED BY <1>2, <1>4, <1>5, <1>6 DEF BeliefsKept

LEMMA BeliefsStay ==
    ASSUME BeliefsKept, [BeliefsNext]_beliefVars PROVE BeliefsKept'
<1>1. BeliefsTyped /\ RevisionsExtend /\ ChangesAreCarried
  BY DEF BeliefsKept
<1>2. CASE Recall
  <2>1. Working' = Working
    BY <1>2 DEF Recall, Working
  <2>2. BeliefsTyped'
    BY <1>1, <1>2 DEF Recall, BeliefsTyped
  <2> QED BY <1>1, <1>2, <2>1, <2>2 DEF Recall, BeliefsKept, RevisionsExtend, ChangesAreCarried
<1>3. CASE FinishInteraction
  <2>1. /\ recalled /\ DOMAIN staged \subseteq 1 .. Len(kept)
        /\ kept' = Working /\ journal' = journal \o events /\ Forget
    BY <1>3 DEF FinishInteraction
  <2>2. Working \in Seq(Believed) /\ Len(Working) = Len(kept) + Len(pending)
    BY <1>1, WorkingTyped
  <2>3. Range(journal \o events) = Range(journal) \cup Range(events)
        /\ journal \o events \in Seq(TransitionRecord \cup ReframeRecord)
    <3>1. PICK S : S = TransitionRecord \cup ReframeRecord
      OBVIOUS
    <3>2. journal \in Seq(S) /\ events \in Seq(S)
      BY <1>1, <3>1 DEF BeliefsTyped
    <3>3. journal \o events \in Seq(S)
      BY <3>2, ConcatProperties
    <3> QED BY <3>1, <3>2, <3>3, RangeConcatenation
  <2>4. Range(journal') = CarriedIn(kept')
    BY <1>1, <2>1, <2>3 DEF ChangesAreCarried
  <2>5. Len(kept') <= MaxMemories
    BY <1>1, <2>1, <2>2 DEF BeliefsTyped
  <2> QED BY <2>1, <2>2, <2>3, <2>4, <2>5, ForgottenKept
<1>4. CASE Abort
  <2>1. Forget /\ kept' = kept /\ journal' = journal
    BY <1>4 DEF Abort
  <2>2. kept' \in Seq(Believed) /\ journal' \in Seq(TransitionRecord \cup ReframeRecord)
    BY <1>1, <2>1 DEF BeliefsTyped
  <2>3. Range(journal') = CarriedIn(kept')
    BY <1>1, <2>1 DEF ChangesAreCarried
  <2>4. Len(kept') <= MaxMemories
    <3>1. Len(kept) \in Nat /\ Len(pending) \in Nat /\ MaxMemories \in Nat
      BY <1>1, WorkingTyped, BoundAssumption
    <3> QED BY <1>1, <2>1, <3>1 DEF BeliefsTyped
  <2> QED BY <2>1, <2>2, <2>3, <2>4, ForgottenKept
<1>5. CASE UNCHANGED beliefVars
  <2>1. Working' = Working
    BY <1>5 DEF beliefVars, Working
  <2> QED BY <1>1, <1>5, <2>1 DEF beliefVars, BeliefsKept, BeliefsTyped, RevisionsExtend,
                                  ChangesAreCarried
<1> QED BY <1>2, <1>3, <1>4, <1>5, EvidenceKept, ProposalKept, TransitionKept, ReframeKept
        DEF BeliefsNext

\* The inductive invariant of beliefs: what is staged and proposed are memories that
\* extend what is stored, and carry together what will have been reported.
THEOREM BeliefsKeptHolds == BeliefsSpec => []BeliefsKept
BY BeliefsStart, BeliefsStay, PTL DEF BeliefsSpec

\* What is stored are memories of the right shape, and the journal reports exactly the
\* transitions and reframes they carry, whatever was revised together, abandoned or
\* refused: for any proposals, evidence and findings (the steward's staged
\* replacements, and its complete).
THEOREM JournalAlwaysTellsBeliefs == BeliefsSpec => [](BeliefsOK /\ JournalMatchesMemories)
<1>1. BeliefsKept => BeliefsOK /\ JournalMatchesMemories
  <2> SUFFICES ASSUME BeliefsKept PROVE BeliefsOK /\ JournalMatchesMemories
      OBVIOUS
  <2>1. BeliefsTyped /\ ChangesAreCarried
    BY DEF BeliefsKept
  <2>2. ASSUME NEW m \in Range(kept) \cup Range(staged) \cup Range(pending) PROVE m \in Believed
    <3>1. Range(kept) \subseteq Believed /\ Range(pending) \subseteq Believed
      BY <2>1, RangeOfSeq DEF BeliefsTyped
    <3>2. Range(staged) \subseteq Believed
      BY <2>1 DEF BeliefsTyped, Range
    <3> QED BY <3>1, <3>2
  <2>3. DOMAIN staged \subseteq DOMAIN Working
    BY <2>1, WorkingTyped DEF BeliefsTyped
  <2>4. ~recalled => Len(evidence) + Len(pending) + Len(events) = 0 /\ DOMAIN staged = {}
    <3> SUFFICES ASSUME ~recalled
                 PROVE  Len(evidence) + Len(pending) + Len(events) = 0 /\ DOMAIN staged = {}
        OBVIOUS
    <3>1. evidence = <<>> /\ pending = <<>> /\ events = <<>> /\ DOMAIN staged = {}
      BY <2>1 DEF BeliefsTyped
    <3>2. Len(evidence) = 0 /\ Len(pending) = 0 /\ Len(events) = 0
      BY <3>1, EmptySeq
    <3> QED BY <3>1, <3>2
  <2>5. \A m \in Range(kept) \cup Range(staged) \cup Range(pending) :
            /\ \E p \in Proposals : /\ m.content = p.content /\ m.value = p.value
                                    /\ m.scope = p.scope /\ m.appraisal = p.appraisal
            /\ m.labels \subseteq Scopes
            /\ m.status \in [Scopes -> {None, "current", "superseded"}]
            /\ m.deliberations \in [Values -> Deliberation \cup {None}]
            /\ m.deliberations[m.value] = None
    BY <2>2 DEF Believed
  <2>6. BeliefsOK
    BY <2>1, <2>3, <2>4, <2>5 DEF BeliefsOK, BeliefsTyped
  <2>7. UNION {Carried(m) : m \in Range(kept)} =
            Transitions(Range(kept)) \cup Reframes(Range(kept))
    BY DEF Carried, Transitions, Reframes
  <2> QED BY <2>1, <2>6, <2>7 DEF ChangesAreCarried, CarriedIn, JournalMatchesMemories
<1> QED BY <1>1, BeliefsKeptHolds, PTL

\* Durable evidence is never rewritten: whatever an interaction revises, a memory stays
\* in its place, says what it said and keeps every transition, reframe and retained
\* observation: for any proposals, evidence and findings (the steward's staged
\* replacements and reassessments).
THEOREM EvidenceAlwaysPreserved == BeliefsSpec => EvidencePreserved
<1> DEFINE preserved ==
        \A i \in DOMAIN kept :
            /\ i \in DOMAIN kept'
            /\ kept'[i].content = kept[i].content /\ kept'[i].appraisal = kept[i].appraisal
            /\ IsPrefix(kept[i].transitions, kept'[i].transitions)
            /\ IsPrefix(kept[i].reframes, kept'[i].reframes)
            /\ \A e \in Values : kept[i].deliberations[e] # None =>
                /\ kept'[i].deliberations[e] # None
                /\ kept[i].deliberations[e].seen \subseteq kept'[i].deliberations[e].seen
                /\ kept[i].deliberations[e].revision <= kept'[i].deliberations[e].revision
<1>1. BeliefsKept /\ [BeliefsNext]_beliefVars => [preserved]_beliefVars
  <2> SUFFICES ASSUME BeliefsKept, BeliefsNext, NEW i \in DOMAIN kept
               PROVE  /\ i \in DOMAIN kept' /\ kept[i] \in Believed /\ kept'[i] \in Believed
                      /\ Extends(kept'[i], kept[i])
    <3>1. ASSUME BeliefsKept, BeliefsNext, NEW i \in DOMAIN kept PROVE
            /\ i \in DOMAIN kept'
            /\ kept'[i].content = kept[i].content /\ kept'[i].appraisal = kept[i].appraisal
            /\ IsPrefix(kept[i].transitions, kept'[i].transitions)
            /\ IsPrefix(kept[i].reframes, kept'[i].reframes)
            /\ \A e \in Values : Resumes(kept'[i].deliberations[e], kept[i].deliberations[e])
      <4>1. PICK old \in Believed, new \in Believed : old = kept[i] /\ new = kept'[i]
        BY <3>1
      <4>2. i \in DOMAIN kept' /\ Extends(new, old)
        BY <3>1, <4>1
      <4>3. /\ IsPrefix(old.transitions, new.transitions)
            /\ IsPrefix(old.reframes, new.reframes)
        BY <4>2, BelievedTyped, ProlongsOrdered DEF Extends
      <4> QED BY <4>1, <4>2, <4>3 DEF Extends
    <3> QED BY <3>1 DEF Resumes
  <2>1. BeliefsTyped /\ RevisionsExtend
    BY DEF BeliefsKept
  <2>2. /\ i \in DOMAIN Working /\ Working[i] \in Believed /\ kept[i] \in Believed
        /\ Extends(Working[i], kept[i])
    BY <2>1, WorkingExtends
  <2>3. CASE FinishInteraction
    BY <2>2, <2>3 DEF FinishInteraction
  <2>4. CASE UNCHANGED kept
    BY <2>2, <2>4, ExtendsOrdered
  <2> QED BY <2>3, <2>4 DEF BeliefsNext, Recall, ConsiderEvidence, ProposeMemory,
                            TransitionBelief, ReframeBelief, Abort
<1>2. EvidencePreserved <=> [][preserved]_beliefVars
  BY PTL DEF EvidencePreserved
<1> QED BY <1>1, <1>2, BeliefsKeptHolds, PTL DEF BeliefsSpec

-----------------------------------------------------------------------------
(* What beliefs rest on *)

\* Nothing was reframed.
Whole(M) == \A i \in DOMAIN M : M[i].reframes = <<>>

\* The scopes a memory's value holds in.
Applies(m, s) == (s = m.scope /\ ~(s = Unscoped /\ m.labels # {})) \/ s \in m.labels

Labelled(M) ==
    \A i \in DOMAIN M : Unscoped \notin M[i].labels /\ (Whole(M) => M[i].labels = {})

\* Who speaks for a value: memories, and research that was retained.
SpeakFor(M, seen, v) ==
    {M[i].appraisal : i \in {j \in DOMAIN M : M[j].value = v}}
        \cup {o.appraisal : o \in {r \in seen : r.value = v}}

Backed(M, seen, v) ==
    \E x, y \in SpeakFor(M, seen, v) \ {NoAppraisal} : x.source # y.source

States(m, v, s) == m.value = v /\ m.scope = s

Beats(x, y) ==
    /\ x # NoAppraisal /\ y # NoAppraisal
    /\ x.confidence >= y.confidence /\ x.weight >= y.weight
    /\ x.confidence > y.confidence \/ x.weight > y.weight

\* When there were n memories, there were some of v and w, and the former beat the latter.
Outweighs(M, n, v, w, s) ==
    /\ \E i \in 1 .. n : States(M[i], v, s)
    /\ \E i \in 1 .. n : States(M[i], w, s)
    /\ \A i, j \in 1 .. n : States(M[i], v, s) /\ States(M[j], w, s) =>
            Beats(M[i].appraisal, M[j].appraisal)

Leads(M, v, w, s) == \E n \in DOMAIN M : Outweighs(M, n, v, w, s)

\* What a deliberation found still stands.
Stands(M, i, e, d) ==
    d # None =>
        /\ Whole(M) => \E j \in DOMAIN M : States(M[j], e, M[i].scope)
        /\ d.status = "candidate_ready" =>
              /\ d.candidate \in {e, M[i].value}
              /\ Backed(M, d.seen, d.candidate)
              /\ Whole(M) => Leads(M, d.candidate, IF d.candidate = e THEN M[i].value ELSE e,
                                   M[i].scope)

RetainedIn(M) ==
    UNION {UNION {M[i].deliberations[e].seen : e \in {v \in Values : M[i].deliberations[v] # None}} :
                i \in DOMAIN M}

ChangesIn(M) == UNION {Range(M[i].transitions) : i \in DOMAIN M}

\* And so does what a transition rests on.
Rests(M, t) ==
    /\ Backed(M, RetainedIn(M), t.to)
    /\ Whole(M) => Leads(M, t.to, t.from, t.scope)

Newest(M, t, v, s) ==
    \A u \in ChangesIn(M) : u.scope = s /\ v \in {u.from, u.to} => u.at <= t.at

\* A status was given where the value holds, or held before it was given a scope; it
\* is what the newest transition made of it.
Told(M, m, s) ==
    m.status[s] # None =>
        /\ Applies(m, s) \/ (s = Unscoped /\ m.labels # {})
        /\ Applies(m, s) => \E t \in ChangesIn(M) :
              /\ t.scope = s /\ m.value = (IF m.status[s] = "current" THEN t.to ELSE t.from)
              /\ Newest(M, t, m.value, s)

Stamped(M, now) == \A t \in ChangesIn(M) : t.at \in Nat /\ t.at <= now

Governed(M, now) ==
    /\ Labelled(M)
    /\ \A i \in DOMAIN M : \A e \in Values : Stands(M, i, e, M[i].deliberations[e])
    /\ \A t \in ChangesIn(M) : Rests(M, t)
    /\ Stamped(M, now)
    /\ \A i \in DOMAIN M : \A s \in Scopes : Told(M, M[i], s)

\* What becomes of the memories: more of them, that say what they did.
GrowsFrom(N, M) ==
    /\ M \in Seq(Believed) /\ N \in Seq(Believed) /\ Len(M) <= Len(N)
    /\ \A i \in DOMAIN M :
          /\ N[i].value = M[i].value /\ N[i].scope = M[i].scope
          /\ N[i].appraisal = M[i].appraisal
          /\ N[i].reframes = <<>> => M[i].reframes = <<>>
          /\ \A e \in Values : Resumes(N[i].deliberations[e], M[i].deliberations[e])

LEMMA GrowsInPlace ==
    ASSUME NEW N, NEW M, GrowsFrom(N, M)
    PROVE  /\ Len(M) \in Nat /\ Len(N) \in Nat /\ DOMAIN M = 1 .. Len(M) /\ DOMAIN N = 1 .. Len(N)
           /\ DOMAIN M \subseteq DOMAIN N
           /\ \A i \in DOMAIN M : M[i] \in Believed
           /\ \A i \in DOMAIN N : N[i] \in Believed
<1>1. /\ Len(M) \in Nat /\ Len(N) \in Nat /\ DOMAIN M = 1 .. Len(M) /\ DOMAIN N = 1 .. Len(N)
      /\ M \in Seq(Believed) /\ N \in Seq(Believed) /\ Len(M) <= Len(N)
  BY LenProperties DEF GrowsFrom
<1>2. (\A i \in DOMAIN M : M[i] \in Believed) /\ (\A i \in DOMAIN N : N[i] \in Believed)
  BY <1>1, ElementOfSeq
<1>3. DOMAIN M \subseteq DOMAIN N
  BY <1>1
<1> QED BY <1>1, <1>2, <1>3

LEMMA WholeBefore ==
    ASSUME NEW N, NEW M, GrowsFrom(N, M), Whole(N) PROVE Whole(M)
BY GrowsInPlace DEF GrowsFrom, Whole

LEMMA BackedStays ==
    ASSUME NEW N, NEW M, GrowsFrom(N, M), NEW seen, NEW more, seen \subseteq more, NEW v,
           Backed(M, seen, v)
    PROVE  Backed(N, more, v)
<1>1. \A i \in DOMAIN M : i \in DOMAIN N /\ N[i].value = M[i].value /\ N[i].appraisal = M[i].appraisal
  BY GrowsInPlace DEF GrowsFrom
<1>2. ASSUME NEW x \in SpeakFor(M, seen, v) PROVE x \in SpeakFor(N, more, v)
  <2>1. CASE \E i \in DOMAIN M : M[i].value = v /\ x = M[i].appraisal
    BY <1>1, <2>1 DEF SpeakFor
  <2>2. CASE \E o \in seen : o.value = v /\ x = o.appraisal
    BY <2>2 DEF SpeakFor
  <2> QED BY <2>1, <2>2 DEF SpeakFor
<1> QED BY <1>2 DEF Backed

LEMMA RetainedStays ==
    ASSUME NEW N, NEW M, GrowsFrom(N, M)
    PROVE  RetainedIn(M) \subseteq RetainedIn(N)
<1> SUFFICES ASSUME NEW o \in RetainedIn(M) PROVE o \in RetainedIn(N)
    OBVIOUS
<1>1. PICK i \in DOMAIN M, e \in Values :
         M[i].deliberations[e] # None /\ o \in M[i].deliberations[e].seen
  BY DEF RetainedIn
<1>2. i \in DOMAIN N /\ N[i].deliberations[e] # None /\ o \in N[i].deliberations[e].seen
  BY <1>1, GrowsInPlace DEF GrowsFrom, Resumes
<1> QED BY <1>2 DEF RetainedIn

LEMMA LeadStays ==
    ASSUME NEW N, NEW M, GrowsFrom(N, M), NEW v, NEW w, NEW s, Leads(M, v, w, s)
    PROVE  Leads(N, v, w, s)
<1>1. PICK n \in DOMAIN M : Outweighs(M, n, v, w, s)
  BY DEF Leads
<1>2. n \in DOMAIN N /\ \A i \in 1 .. n : i \in DOMAIN M
  BY GrowsInPlace
<1>3. ASSUME NEW i \in 1 .. n PROVE N[i].appraisal = M[i].appraisal /\ States(N[i], v, s) = States(M[i], v, s)
                                    /\ States(N[i], w, s) = States(M[i], w, s)
  BY <1>2 DEF GrowsFrom, States
<1>4. Outweighs(N, n, v, w, s)
  BY <1>1, <1>3 DEF Outweighs
<1> QED BY <1>2, <1>4 DEF Leads

\* What was found of an unchanged deliberation, or of a transition, still stands.
LEMMA FindingStays ==
    ASSUME NEW N, NEW M, GrowsFrom(N, M), NEW i \in DOMAIN M, NEW e, NEW d, Stands(M, i, e, d)
    PROVE  Stands(N, i, e, d)
<1> SUFFICES ASSUME d # None PROVE Stands(N, i, e, d)
    BY DEF Stands
<1>1. /\ N[i].value = M[i].value /\ N[i].scope = M[i].scope
      /\ \A j \in DOMAIN M : j \in DOMAIN N /\ N[j].value = M[j].value /\ N[j].scope = M[j].scope
  BY GrowsInPlace DEF GrowsFrom
<1>2. Whole(N) => \E j \in DOMAIN N : States(N[j], e, N[i].scope)
  BY <1>1, WholeBefore DEF Stands, States
<1>3. ASSUME d.status = "candidate_ready"
      PROVE  /\ d.candidate \in {e, N[i].value}
             /\ Backed(N, d.seen, d.candidate)
             /\ Whole(N) => Leads(N, d.candidate, IF d.candidate = e THEN N[i].value ELSE e,
                                  N[i].scope)
  <2>1. /\ d.candidate \in {e, M[i].value}
        /\ Backed(M, d.seen, d.candidate)
        /\ Whole(M) => Leads(M, d.candidate, IF d.candidate = e THEN M[i].value ELSE e,
                             M[i].scope)
    BY <1>3 DEF Stands
  <2>2. Backed(N, d.seen, d.candidate)
    BY <2>1, BackedStays
  <2>3. Whole(N) => Leads(N, d.candidate, IF d.candidate = e THEN M[i].value ELSE e, M[i].scope)
    BY <2>1, WholeBefore, LeadStays
  <2> QED BY <1>1, <2>1, <2>2, <2>3
<1> QED BY <1>2, <1>3 DEF Stands

LEMMA RestStays ==
    ASSUME NEW N, NEW M, GrowsFrom(N, M), NEW t, Rests(M, t) PROVE Rests(N, t)
<1>1. Backed(N, RetainedIn(N), t.to)
  BY RetainedStays, BackedStays DEF Rests
<1>2. Whole(N) => Leads(N, t.to, t.from, t.scope)
  BY WholeBefore, LeadStays DEF Rests
<1> QED BY <1>1, <1>2 DEF Rests

LEMMA HoldsWhere ==
    ASSUME NEW m, NEW v, NEW s
    PROVE  /\ Holds(m, v, s) <=> v = m.value /\ Applies(m, s)
           /\ <<v, s>> \in Meanings(m) <=> v = m.value /\ Applies(m, s)
BY DEF Holds, Meanings, Applies

LEMMA AppraisalTyped ==
    ASSUME NEW m \in Believed, m.appraisal # NoAppraisal
    PROVE  m.appraisal.confidence \in Nat /\ m.appraisal.weight \in Nat
BY AppraisalAssumption DEF Believed

\* Of two values of a scope one leads at most: those that were there when either
\* took the lead still are.
LEMMA OneLeads ==
    ASSUME NEW M \in Seq(Believed), NEW v, NEW w, NEW s, Leads(M, v, w, s)
    PROVE  ~Leads(M, w, v, s)
<1> SUFFICES ASSUME Leads(M, w, v, s) PROVE FALSE
    OBVIOUS
<1>1. /\ Len(M) \in Nat /\ DOMAIN M = 1 .. Len(M) /\ \A i \in DOMAIN M : M[i] \in Believed
  BY LenProperties, ElementOfSeq
<1>2. PICK n \in DOMAIN M : Outweighs(M, n, v, w, s)
  BY DEF Leads
<1>3. PICK k \in DOMAIN M : Outweighs(M, k, w, v, s)
  BY DEF Leads
<1>4. PICK least \in DOMAIN M : /\ least \in {n, k}
                               /\ 1 .. least \subseteq 1 .. n /\ 1 .. least \subseteq 1 .. k
  <2>1. n \in Nat /\ k \in Nat
    BY <1>1
  <2>2. CASE n <= k
    BY <2>1, <2>2
  <2>3. CASE ~(n <= k)
    BY <2>1, <2>3
  <2> QED BY <2>2, <2>3
<1>5. PICK i \in 1 .. least : States(M[i], v, s)
  BY <1>2, <1>3, <1>4 DEF Outweighs
<1>6. PICK j \in 1 .. least : States(M[j], w, s)
  BY <1>2, <1>3, <1>4 DEF Outweighs
<1>7. i \in 1 .. n /\ j \in 1 .. n /\ i \in 1 .. k /\ j \in 1 .. k
  BY <1>4
<1>8. PICK x, y : x = M[i].appraisal /\ y = M[j].appraisal
  OBVIOUS
<1>9. Beats(x, y) /\ Beats(y, x)
  BY <1>2, <1>3, <1>5, <1>6, <1>7, <1>8 DEF Outweighs
<1>10. i \in DOMAIN M /\ j \in DOMAIN M
  BY <1>1, <1>4
<1>11. x.confidence \in Nat /\ x.weight \in Nat /\ y.confidence \in Nat /\ y.weight \in Nat
  BY <1>1, <1>8, <1>9, <1>10, AppraisalTyped DEF Beats
<1> QED BY <1>9, <1>11 DEF Beats

LEMMA DominatingBeats ==
    ASSUME NEW left, NEW right, StrictlyDominates(left, right), NoAppraisal \notin left \cup right,
           NEW x \in left, NEW y \in right
    PROVE  Beats(x, y)
BY DEF StrictlyDominates, Beats

\* What wins was corroborated and dominates.
LEMMA WinnerStands ==
    ASSUME NEW existing, NEW proposed, NEW left, NEW right, NEW finding,
           NEW ready, ready = ResolutionReadiness(existing, proposed, left, right, finding),
           ready.status = "candidate_ready"
    PROVE  /\ NoAppraisal \notin left \cup right
           /\ \/ ready.candidate = existing /\ Corroborated(left) /\ StrictlyDominates(left, right)
              \/ ready.candidate = proposed /\ Corroborated(right) /\ StrictlyDominates(right, left)
<1> DEFINE wins(side, other) == Corroborated(side) /\ StrictlyDominates(side, other)
           candidates == (IF wins(left, right) THEN {existing} ELSE {})
                           \cup (IF wins(right, left) THEN {proposed} ELSE {})
           chosen == CHOOSE v \in candidates : TRUE
           winning == /\ Appraised(left) /\ Appraised(right)
                      /\ finding # NoFinding /\ finding.relation = "same"
                      /\ Cardinality(candidates) = 1
<1>1. ready = IF finding # NoFinding /\ finding.relation = "differ"
              THEN [status |-> "reframe_required", candidate |-> None]
              ELSE IF winning THEN [status |-> "candidate_ready", candidate |-> chosen]
                   ELSE [status |-> "blocked", candidate |-> None]
  BY DEF ResolutionReadiness
<1> HIDE DEF candidates
<1>2. Cardinality(candidates) = 1 => chosen \in candidates
  <2>1. Cardinality(candidates) = 1 => candidates # {}
    BY FS_EmptySet
  <2> QED BY <2>1
<1> HIDE DEF chosen
<1>3. winning => chosen \in candidates
  BY <1>2
<1>4. winning => NoAppraisal \notin left \cup right
  BY DEF Appraised
<1> HIDE DEF winning
<1>5. winning /\ ready.candidate = chosen
  BY <1>1
<1>6. chosen \in candidates /\ NoAppraisal \notin left \cup right
  BY <1>3, <1>4, <1>5
<1>7. (chosen = existing /\ wins(left, right)) \/ (chosen = proposed /\ wins(right, left))
  BY <1>6 DEF candidates
<1> QED BY <1>5, <1>6, <1>7

\* A deliberation about what memory i of N proposes hears the memories there are.
Hears(N, i, memories, side) ==
    /\ \A m \in memories : \E j \in DOMAIN N : N[j].value = m.value /\ N[j].appraisal = m.appraisal
    /\ side \subseteq {N[i].appraisal}
    /\ Whole(N) => \A j \in DOMAIN N :
          \/ j = i /\ N[i].appraisal \in side
          \/ \E m \in memories : /\ m.value = N[j].value /\ m.scope = N[j].scope /\ m.labels = {}
                                 /\ m.appraisal = N[j].appraisal

LEMMA DeliberationStands ==
    ASSUME NEW N \in Seq(Believed), NEW i \in DOMAIN N, NEW e \in Values, NEW memories,
           NEW current, NEW side, NEW prior, Hears(N, i, memories, side), e # N[i].value,
           Whole(N) => \E j \in DOMAIN N : States(N[j], e, N[i].scope)
    PROVE  Stands(N, i, e, DeliberateTension(e, N[i].value, N[i].scope, memories, current, side,
                                             prior))
<1>1. PICK v, s, d : /\ v = N[i].value /\ s = N[i].scope
                     /\ d = DeliberateTension(e, v, s, memories, current, side, prior)
  OBVIOUS
<1>2. PICK left, right, finding, seen :
         /\ left = Side(memories, seen, e, s) /\ right = Side(memories, seen, v, s) \cup side
         /\ LET ready == ResolutionReadiness(e, v, left, right, finding)
            IN  d.status = ready.status /\ d.candidate = ready.candidate
         /\ d.seen = seen
  <2> DEFINE heard == {current[k] : k \in Relevant(current, e, v, s)}
                        \cup (IF prior = None THEN {} ELSE prior.seen)
             found == LatestFinding(current, e, v, s, prior)
             ready == ResolutionReadiness(e, v, Side(memories, heard, e, s),
                                          Side(memories, heard, v, s) \cup side, found)
  <2>1. d = [revision |-> IF prior = None THEN 1 ELSE prior.revision + 1, seen |-> heard,
             finding |-> found, status |-> ready.status, candidate |-> ready.candidate]
    BY <1>1 DEF DeliberateTension
  <2> HIDE DEF heard, found
  <2>2. PICK l, r : l = Side(memories, heard, e, s) /\ r = Side(memories, heard, v, s) \cup side
    OBVIOUS
  <2>3. PICK answer : answer = ResolutionReadiness(e, v, l, r, found)
    OBVIOUS
  <2>4. d.status = answer.status /\ d.candidate = answer.candidate /\ d.seen = heard
    BY <2>1, <2>2, <2>3
  <2> QED BY <2>2, <2>3, <2>4
<1>3. PICK ready : ready = ResolutionReadiness(e, v, left, right, finding)
  OBVIOUS
<1>4. ASSUME NEW x, NEW w, x \in Side(memories, seen, w, s) PROVE x \in SpeakFor(N, seen, w)
  <2>1. CASE \E m \in memories : <<w, s>> \in Meanings(m) /\ x = m.appraisal
    <3>1. PICK m \in memories : <<w, s>> \in Meanings(m) /\ x = m.appraisal
      BY <2>1
    <3>2. m.value = w
      BY <3>1, HoldsWhere
    <3>3. PICK j \in DOMAIN N : N[j].value = w /\ N[j].appraisal = x
      BY <3>1, <3>2 DEF Hears
    <3> QED BY <3>3 DEF SpeakFor
  <2>2. CASE \E o \in seen : o.value = w /\ x = o.appraisal
    BY <2>2 DEF SpeakFor
  <2> QED BY <1>4, <2>1, <2>2 DEF Side
<1>5. \A x \in left : x \in SpeakFor(N, seen, e)
  BY <1>2, <1>4
<1>6. \A x \in right : x \in SpeakFor(N, seen, v)
  <2>1. side \subseteq SpeakFor(N, seen, v)
    BY <1>1 DEF Hears, SpeakFor
  <2> QED BY <1>2, <1>4, <2>1
<1>7. ASSUME Whole(N), NEW j \in DOMAIN N
      PROVE  /\ States(N[j], e, s) => N[j].appraisal \in left
             /\ States(N[j], v, s) => N[j].appraisal \in right
  <2>1. CASE j = i /\ N[i].appraisal \in side
    BY <1>1, <1>2, <2>1 DEF States
  <2>2. CASE \E m \in memories : /\ m.value = N[j].value /\ m.scope = N[j].scope /\ m.labels = {}
                                 /\ m.appraisal = N[j].appraisal
    <3>1. PICK m \in memories : /\ m.value = N[j].value /\ m.scope = N[j].scope /\ m.labels = {}
                                /\ m.appraisal = N[j].appraisal
      BY <2>2
    <3>2. Applies(m, m.scope)
      BY <3>1 DEF Applies
    <3>3. \A w : States(N[j], w, s) => <<w, s>> \in Meanings(m)
      BY <3>1, <3>2, HoldsWhere DEF States
    <3>4. \A w : States(N[j], w, s) => N[j].appraisal \in Side(memories, seen, w, s)
      BY <3>1, <3>3 DEF Side
    <3> QED BY <1>2, <3>4
  <2> QED BY <1>7, <2>1, <2>2 DEF Hears
<1>8. Len(N) \in Nat /\ Len(N) \in DOMAIN N /\ DOMAIN N = 1 .. Len(N)
  <2>1. Len(N) \in Nat /\ DOMAIN N = 1 .. Len(N)
    BY LenProperties
  <2> QED BY <2>1
<1>9. ASSUME d.status = "candidate_ready"
      PROVE  /\ d.candidate \in {e, v}
             /\ Backed(N, d.seen, d.candidate)
             /\ Whole(N) => Leads(N, d.candidate, IF d.candidate = e THEN v ELSE e, s)
  <2>1. /\ NoAppraisal \notin left \cup right
        /\ \/ ready.candidate = e /\ Corroborated(left) /\ StrictlyDominates(left, right)
           \/ ready.candidate = v /\ Corroborated(right) /\ StrictlyDominates(right, left)
    BY <1>2, <1>3, <1>9, WinnerStands
  <2>2. Whole(N) => /\ \E j \in DOMAIN N : States(N[j], e, s)
                    /\ \E j \in DOMAIN N : States(N[j], v, s)
    BY <1>1 DEF States
  <2>3. CASE d.candidate = e /\ Corroborated(left) /\ StrictlyDominates(left, right)
    <3>1. Backed(N, seen, e)
      BY <1>5, <2>1, <2>3 DEF Backed, Corroborated
    <3>2. ASSUME Whole(N) PROVE Outweighs(N, Len(N), e, v, s)
      <4>1. \A k, j \in DOMAIN N : States(N[k], e, s) /\ States(N[j], v, s) =>
                Beats(N[k].appraisal, N[j].appraisal)
        BY <1>7, <2>1, <2>3, <3>2, DominatingBeats
      <4> QED BY <1>8, <2>2, <3>2, <4>1 DEF Outweighs
    <3> QED BY <1>2, <1>8, <2>3, <3>1, <3>2 DEF Leads
  <2>4. CASE d.candidate = v /\ Corroborated(right) /\ StrictlyDominates(right, left)
    <3>1. Backed(N, seen, v)
      BY <1>6, <2>1, <2>4 DEF Backed, Corroborated
    <3>2. ASSUME Whole(N) PROVE Outweighs(N, Len(N), v, e, s)
      <4>1. \A k, j \in DOMAIN N : States(N[k], v, s) /\ States(N[j], e, s) =>
                Beats(N[k].appraisal, N[j].appraisal)
        BY <1>7, <2>1, <2>4, <3>2, DominatingBeats
      <4> QED BY <1>8, <2>2, <3>2, <4>1 DEF Outweighs
    <3>3. v # e
      BY <1>1
    <3> QED BY <1>2, <1>8, <2>4, <3>1, <3>2, <3>3 DEF Leads
  <2> QED BY <1>2, <1>3, <2>1, <2>3, <2>4
<1> QED BY <1>1, <1>9 DEF Stands

\* A status is told by the transitions there are.
LEMMA ToldStays ==
    ASSUME NEW M, NEW N, ChangesIn(N) = ChangesIn(M), NEW m, NEW n, NEW s, Told(M, m, s),
           n.value = m.value, n.scope = m.scope, n.labels = m.labels, n.status[s] = m.status[s]
    PROVE  Told(N, n, s)
BY DEF Told, Applies, Newest

\* A memory whose deliberations are repeated, and nothing else.
Reconsidered(n, m, memories, observations) ==
    /\ n.value = m.value /\ n.scope = m.scope /\ n.appraisal = m.appraisal /\ n.labels = m.labels
    /\ n.status = m.status /\ n.transitions = m.transitions /\ n.reframes = m.reframes
    /\ \A e \in Values :
          \/ n.deliberations[e] = m.deliberations[e]
          \/ /\ m.deliberations[e] # None
             /\ n.deliberations[e] = DeliberateTension(e, m.value, m.scope, memories, observations,
                                                       {}, m.deliberations[e])

LEMMA ReassessingReconsiders ==
    ASSUME NEW m \in Believed, NEW memories, NEW observations
    PROVE  /\ Reconsidered(Reassess(m, memories, observations), m, memories, observations)
           /\ Reconsidered(m, m, memories, observations)
<1> DEFINE again(e) == DeliberateTension(e, m.value, m.scope, memories, observations, {},
                                         m.deliberations[e])
           deliberations == [e \in Values |-> IF e \in Reassessed(m, observations) THEN again(e)
                                              ELSE m.deliberations[e]]
           next == [m EXCEPT !.deliberations = deliberations]
<1>1. Reassess(m, memories, observations) = next
  BY DEF Reassess
<1>2. \A e \in Values : \/ deliberations[e] = m.deliberations[e]
                        \/ m.deliberations[e] # None /\ deliberations[e] = again(e)
  BY DEF Reassessed
<1> HIDE DEF again, deliberations
<1>3. /\ next.value = m.value /\ next.scope = m.scope /\ next.appraisal = m.appraisal
      /\ next.labels = m.labels /\ next.status = m.status /\ next.transitions = m.transitions
      /\ next.reframes = m.reframes /\ next.deliberations = deliberations
  BY DEF Believed
<1> HIDE DEF next
<1>4. Reconsidered(next, m, memories, observations)
  BY <1>2, <1>3 DEF Reconsidered, again
<1>5. Reconsidered(m, m, memories, observations)
  BY DEF Reconsidered
<1> QED BY <1>1, <1>4, <1>5

LEMMA GovernedAgain ==
    ASSUME NEW M \in Seq(Believed), NEW N \in Seq(Believed), DOMAIN N = DOMAIN M,
           NEW observations,
           \A i \in DOMAIN M : /\ Reconsidered(N[i], M[i], Range(M), observations)
                               /\ Extends(N[i], M[i]),
           NEW now, Governed(M, now)
    PROVE  Governed(N, now)
<1>1. /\ Len(M) \in Nat /\ Len(N) = Len(M) /\ DOMAIN M = 1 .. Len(M)
      /\ \A i \in DOMAIN M : M[i] \in Believed
  BY LenProperties, ElementOfSeq
<1>2. ASSUME NEW i \in DOMAIN M
      PROVE  /\ N[i].value = M[i].value /\ N[i].scope = M[i].scope
             /\ N[i].appraisal = M[i].appraisal /\ N[i].labels = M[i].labels
             /\ N[i].status = M[i].status /\ N[i].transitions = M[i].transitions
             /\ N[i].reframes = M[i].reframes
  BY DEF Reconsidered
<1>3. GrowsFrom(N, M)
  BY <1>1, <1>2 DEF GrowsFrom, Extends
<1>4. ChangesIn(N) = ChangesIn(M)
  BY <1>2 DEF ChangesIn
<1>5. Whole(N) <=> Whole(M)
  BY <1>2 DEF Whole
<1>6. Labelled(N)
  BY <1>2, <1>5 DEF Labelled, Governed
<1>7. ASSUME NEW i \in DOMAIN N, NEW e \in Values PROVE Stands(N, i, e, N[i].deliberations[e])
  <2>1. Stands(M, i, e, M[i].deliberations[e])
    BY DEF Governed
  <2>2. CASE N[i].deliberations[e] = M[i].deliberations[e]
    BY <1>3, <2>1, <2>2, FindingStays
  <2>3. CASE /\ M[i].deliberations[e] # None
             /\ N[i].deliberations[e] = DeliberateTension(e, M[i].value, M[i].scope, Range(M),
                                                          observations, {}, M[i].deliberations[e])
    <3>1. e # N[i].value
      <4>1. M[i].deliberations[M[i].value] = None
        BY <1>1, BelievedTyped
      <4> QED BY <1>2, <2>3, <4>1
    <3>2. Whole(N) => \E j \in DOMAIN N : States(N[j], e, N[i].scope)
      <4>1. Whole(M) => \E j \in DOMAIN M : States(M[j], e, M[i].scope)
        BY <2>1, <2>3 DEF Stands
      <4> QED BY <1>2, <1>5, <4>1 DEF States
    <3>3. Hears(N, i, Range(M), {})
      <4>1. \A m \in Range(M) : \E j \in DOMAIN N : N[j].value = m.value /\ N[j].appraisal = m.appraisal
        BY <1>2 DEF Range
      <4>2. ASSUME Whole(N), NEW j \in DOMAIN N
            PROVE  \E m \in Range(M) : /\ m.value = N[j].value /\ m.scope = N[j].scope /\ m.labels = {}
                                       /\ m.appraisal = N[j].appraisal
        <5>1. M[j] \in Range(M) /\ M[j].labels = {}
          BY <1>5, <4>2 DEF Range, Governed, Labelled
        <5> QED BY <1>2, <5>1
      <4> QED BY <4>1, <4>2 DEF Hears
    <3>4. Stands(N, i, e, DeliberateTension(e, N[i].value, N[i].scope, Range(M), observations, {},
                                            M[i].deliberations[e]))
      BY <3>1, <3>2, <3>3, DeliberationStands
    <3> QED BY <1>2, <2>3, <3>4
  <2> QED BY <2>2, <2>3 DEF Reconsidered
<1>8. \A t \in ChangesIn(N) : Rests(N, t)
  BY <1>3, <1>4, RestStays DEF Governed
<1>9. Stamped(N, now)
  BY <1>4 DEF Stamped, Governed
<1>10. \A i \in DOMAIN N : \A s \in Scopes : Told(N, N[i], s)
  BY <1>2, <1>4, ToldStays DEF Governed
<1> QED BY <1>6, <1>7, <1>8, <1>9, <1>10 DEF Governed

LEMMA GovernedMore ==
    ASSUME NEW M \in Seq(Believed), NEW new \in Believed, NEW N, N = Append(M, new),
           NEW observations, Fresh(new, M, observations), NEW now, Governed(M, now)
    PROVE  Governed(N, now)
<1>1. /\ Len(M) \in Nat /\ DOMAIN M = 1 .. Len(M) /\ \A i \in DOMAIN M : M[i] \in Believed
  BY LenProperties, ElementOfSeq
<1>2. PICK last \in Nat : last = Len(M) + 1
  BY <1>1
<1>3. /\ N \in Seq(Believed) /\ Len(N) = last /\ DOMAIN N = 1 .. last
      /\ DOMAIN N = DOMAIN M \cup {last} /\ last \notin DOMAIN M
      /\ N[last] = new /\ \A i \in DOMAIN M : N[i] = M[i]
  <2>1. N \in Seq(Believed) /\ Len(N) = last /\ N[last] = new /\ \A i \in 1 .. Len(M) : N[i] = M[i]
    BY <1>1, <1>2, AppendProperties
  <2>2. DOMAIN N = 1 .. last
    BY <2>1, LenProperties
  <2>3. 1 .. last = (1 .. Len(M)) \cup {last} /\ last \notin 1 .. Len(M)
    BY <1>1, <1>2
  <2> QED BY <1>1, <2>1, <2>2, <2>3
<1>4. GrowsFrom(N, M)
  <2>1. \A i \in DOMAIN M : \A e \in Values : Resumes(M[i].deliberations[e], M[i].deliberations[e])
    BY <1>1, BelievedTyped, ResumesOrdered
  <2>2. Len(M) <= Len(N)
    BY <1>1, <1>2, <1>3
  <2> QED BY <1>3, <2>1, <2>2 DEF GrowsFrom
<1>5. ChangesIn(N) = ChangesIn(M)
  <2>1. Range(new.transitions) = {}
    BY EmptySeq DEF Fresh, Range
  <2> QED BY <1>3, <2>1 DEF ChangesIn
<1>6. Whole(N) => Whole(M)
  BY <1>4, WholeBefore
<1>7. Labelled(N)
  BY <1>3, <1>6 DEF Labelled, Governed, Fresh
<1>8. ASSUME NEW i \in DOMAIN M, NEW e \in Values PROVE Stands(N, i, e, N[i].deliberations[e])
  BY <1>3, <1>4, FindingStays DEF Governed
<1>9. ASSUME NEW e \in Values PROVE Stands(N, last, e, new.deliberations[e])
  <2>1. CASE new.deliberations[e] = None
    BY <2>1 DEF Stands
  <2>2. CASE new.deliberations[e] # None
    <3>1. /\ e # new.value
          /\ new.deliberations[e] = DeliberateTension(e, new.value, new.scope, Range(M),
                                                      observations, {new.appraisal}, None)
      BY <2>2 DEF Fresh
    <3>2. Whole(N) => \E j \in DOMAIN N : States(N[j], e, N[last].scope)
      <4>1. PICK i \in DOMAIN M : Holds(M[i], e, new.scope)
        BY <2>2 DEF Fresh
      <4>2. e = M[i].value /\ Applies(M[i], new.scope)
        BY <4>1, HoldsWhere
      <4>3. Whole(N) => M[i].labels = {}
        BY <1>6 DEF Governed, Labelled
      <4>4. Whole(N) => States(M[i], e, new.scope)
        BY <4>2, <4>3 DEF Applies, States
      <4> QED BY <1>3, <4>4
    <3>3. Hears(N, last, Range(M), {new.appraisal})
      <4>1. \A m \in Range(M) : \E j \in DOMAIN N : N[j].value = m.value /\ N[j].appraisal = m.appraisal
        BY <1>3 DEF Range
      <4>2. ASSUME Whole(N), NEW j \in DOMAIN M
            PROVE  \E m \in Range(M) : /\ m.value = N[j].value /\ m.scope = N[j].scope /\ m.labels = {}
                                       /\ m.appraisal = N[j].appraisal
        <5>1. M[j] \in Range(M) /\ M[j].labels = {}
          BY <1>6, <4>2 DEF Range, Governed, Labelled
        <5> QED BY <1>3, <5>1
      <4> QED BY <1>3, <4>1, <4>2 DEF Hears
    <3>4. Stands(N, last, e, DeliberateTension(e, N[last].value, N[last].scope, Range(M),
                                               observations, {new.appraisal}, None))
      BY <1>3, <3>1, <3>2, <3>3, DeliberationStands
    <3> QED BY <1>3, <3>1, <3>4
  <2> QED BY <2>1, <2>2
<1>10. \A t \in ChangesIn(N) : Rests(N, t)
  BY <1>4, <1>5, RestStays DEF Governed
<1>11. Stamped(N, now)
  BY <1>5 DEF Stamped, Governed
<1>12. \A i \in DOMAIN M : \A s \in Scopes : Told(N, N[i], s)
  BY <1>3, <1>5, ToldStays DEF Governed
<1>13. \A s \in Scopes : Told(N, N[last], s)
  BY <1>3 DEF Told, Fresh
<1> QED BY <1>3, <1>7, <1>8, <1>9, <1>10, <1>11, <1>12, <1>13 DEF Governed

LEMMA GovernedTransition ==
    ASSUME NEW M \in Seq(Believed), NEW N \in Seq(Believed), DOMAIN N = DOMAIN M,
           NEW value, NEW other, NEW s \in Scopes, NEW t, NEW now \in Nat, NEW next \in Nat,
           next = now + 1,
           \A i \in DOMAIN M : Turned(N[i], M[i], value, other, s) /\ Extends(N[i], M[i]),
           ChangesIn(N) = ChangesIn(M) \cup {t},
           t.from = other /\ t.to = value /\ t.scope = s /\ t.at = next,
           Governed(M, now), Rests(M, t)
    PROVE  Governed(N, next)
<1>1. /\ Len(M) \in Nat /\ Len(N) = Len(M) /\ DOMAIN M = 1 .. Len(M)
      /\ \A i \in DOMAIN M : M[i] \in Believed
  BY LenProperties, ElementOfSeq
<1>2. ASSUME NEW i \in DOMAIN M
      PROVE  /\ N[i].value = M[i].value /\ N[i].scope = M[i].scope
             /\ N[i].appraisal = M[i].appraisal /\ N[i].labels = M[i].labels
             /\ N[i].reframes = M[i].reframes /\ N[i].deliberations = M[i].deliberations
  BY DEF Turned
<1>3. GrowsFrom(N, M)
  BY <1>1, <1>2 DEF GrowsFrom, Extends
<1>4. Labelled(N)
  BY <1>2 DEF Labelled, Governed, Whole
<1>5. ASSUME NEW i \in DOMAIN N, NEW e \in Values PROVE Stands(N, i, e, N[i].deliberations[e])
  BY <1>2, <1>3, FindingStays DEF Governed
<1>6. \A u \in ChangesIn(N) : Rests(N, u)
  BY <1>3, RestStays DEF Governed
<1>7. Stamped(N, next) /\ \A u \in ChangesIn(N) : u.at <= t.at
  BY DEF Stamped, Governed
<1>8. ASSUME NEW i \in DOMAIN N, NEW x \in Scopes PROVE Told(N, N[i], x)
  <2>1. Told(M, M[i], x)
    BY DEF Governed
  <2>2. t \in ChangesIn(N)
    OBVIOUS
  <2>3. \A v : Newest(N, t, v, s)
    BY <1>7 DEF Newest
  <2>4. Applies(N[i], x) <=> Applies(M[i], x)
    BY <1>2 DEF Applies
  <2>5. CASE x = s /\ Holds(M[i], value, s)
    <3>1. N[i].status[x] = "current"
      BY <2>5 DEF Turned
    <3>2. N[i].value = value /\ Applies(N[i], x)
      <4>1. value = M[i].value /\ Applies(M[i], s)
        BY <2>5, HoldsWhere
      <4> QED BY <1>2, <2>4, <2>5, <4>1
    <3> QED BY <2>2, <2>3, <2>5, <3>1, <3>2 DEF Told
  <2>6. CASE x = s /\ ~Holds(M[i], value, s) /\ Holds(M[i], other, s)
    <3>1. N[i].status[x] = "superseded"
      BY <2>6 DEF Turned
    <3>2. N[i].value = other /\ Applies(N[i], x)
      <4>1. other = M[i].value /\ Applies(M[i], s)
        BY <2>6, HoldsWhere
      <4> QED BY <1>2, <2>4, <2>6, <4>1
    <3> QED BY <2>2, <2>3, <2>6, <3>1, <3>2 DEF Told
  <2>7. CASE x # s \/ (~Holds(M[i], value, s) /\ ~Holds(M[i], other, s))
    <3>1. N[i].status[x] = M[i].status[x]
      BY <2>7 DEF Turned
    <3>2. Applies(M[i], x) => ~(t.scope = x /\ M[i].value \in {t.from, t.to})
      BY <2>7, HoldsWhere
    <3>3. ASSUME Applies(M[i], x), NEW u, Newest(M, u, M[i].value, x)
          PROVE  Newest(N, u, M[i].value, x)
      BY <3>2, <3>3 DEF Newest
    <3> QED BY <1>2, <2>1, <2>4, <3>1, <3>3 DEF Told
  <2> QED BY <2>5, <2>6, <2>7
<1> QED BY <1>4, <1>5, <1>6, <1>7, <1>8 DEF Governed

LEMMA GovernedReframe ==
    ASSUME NEW M \in Seq(Believed), NEW N \in Seq(Believed), DOMAIN N = DOMAIN M,
           NEW now \in Nat,
           \A i \in DOMAIN M : Rescoped(N[i], M[i]) /\ Extends(N[i], M[i]),
           NEW d \in DOMAIN M, N[d].reframes # <<>>,
           Governed(M, now)
    PROVE  Governed(N, now + 1)
<1>1. /\ Len(M) \in Nat /\ Len(N) = Len(M) /\ DOMAIN M = 1 .. Len(M)
      /\ \A i \in DOMAIN M : M[i] \in Believed
      /\ \A i \in DOMAIN M : N[i] \in Believed
  BY LenProperties, ElementOfSeq
<1>2. ASSUME NEW i \in DOMAIN M
      PROVE  /\ N[i].value = M[i].value /\ N[i].scope = M[i].scope
             /\ N[i].appraisal = M[i].appraisal /\ N[i].status = M[i].status
             /\ N[i].transitions = M[i].transitions /\ N[i].deliberations = M[i].deliberations
  BY DEF Rescoped
<1>3. ASSUME NEW i \in DOMAIN M, N[i].reframes = <<>> PROVE M[i].reframes = <<>>
  <2>1. PICK long \in Seq(ReframeRecord), short \in Seq(ReframeRecord) :
             long = N[i].reframes /\ short = M[i].reframes
    BY <1>1, BelievedTyped
  <2>2. Len(short) \in Nat /\ Len(short) <= Len(long)
    BY <2>1, LenProperties DEF Extends, Prolongs
  <2>3. Len(long) = 0
    BY <1>3, <2>1, EmptySeq
  <2>4. Len(short) = 0
    BY <2>2, <2>3
  <2> QED BY <2>1, <2>4, EmptySeq
<1>4. GrowsFrom(N, M)
  BY <1>1, <1>2, <1>3 DEF GrowsFrom, Extends
<1>5. ~Whole(N)
  BY DEF Whole
<1>6. Labelled(N)
  BY <1>5 DEF Labelled, Governed, Rescoped
<1>7. ASSUME NEW i \in DOMAIN N, NEW e \in Values PROVE Stands(N, i, e, N[i].deliberations[e])
  BY <1>2, <1>4, FindingStays DEF Governed
<1>8. ChangesIn(N) = ChangesIn(M)
  BY <1>2 DEF ChangesIn
<1>9. \A u \in ChangesIn(N) : Rests(N, u)
  BY <1>4, <1>8, RestStays DEF Governed
<1>10. Stamped(N, now + 1)
  BY <1>8 DEF Stamped, Governed
<1>11. ASSUME NEW i \in DOMAIN N, NEW x \in Scopes PROVE Told(N, N[i], x)
  <2>1. Told(M, M[i], x)
    BY DEF Governed
  <2>2. /\ Unscoped \notin N[i].labels /\ M[i].labels \subseteq N[i].labels
        /\ Unscoped \notin M[i].labels
    BY DEF Governed, Labelled, Rescoped
  <2>3. Applies(M[i], x) => Applies(N[i], x) \/ (x = Unscoped /\ N[i].labels # {})
    BY <1>2, <2>2 DEF Applies
  <2>4. x = Unscoped /\ M[i].labels # {} /\ ~Applies(M[i], x) => ~Applies(N[i], x) /\ N[i].labels # {}
    BY <1>2, <2>2 DEF Applies
  <2>5. \A u, v : Newest(M, u, v, x) => Newest(N, u, v, x)
    BY <1>8 DEF Newest
  <2> QED BY <1>2, <1>8, <2>1, <2>3, <2>4, <2>5 DEF Told
<1> QED BY <1>6, <1>7, <1>9, <1>10, <1>11 DEF Governed

LEMMA GrowsItself ==
    ASSUME NEW M \in Seq(Believed) PROVE GrowsFrom(M, M)
<1>1. /\ Len(M) \in Nat /\ \A i \in DOMAIN M : M[i] \in Believed
  BY LenProperties, ElementOfSeq
<1>2. \A i \in DOMAIN M : \A e \in Values : Resumes(M[i].deliberations[e], M[i].deliberations[e])
  BY <1>1, BelievedTyped, ResumesOrdered
<1> QED BY <1>1, <1>2 DEF GrowsFrom

\* What authorises a transition is a deliberation that stands.
LEMMA TransitionRests ==
    ASSUME BeliefsTyped, NEW value \in Values, NEW scope \in Scopes,
           NEW d \in MayTransition(value, scope), NEW now, Governed(Working, now),
           NEW t, t.from = IF value = d.existing THEN Working[d.on].value ELSE d.existing,
           t.to = value, t.scope = scope
    PROVE  Rests(Working, t)
<1>1. /\ d.on \in DOMAIN Working /\ Working[d.on].scope = scope /\ d.existing \in Values
      /\ d.latest = Working[d.on].deliberations[d.existing] /\ d.latest # None
      /\ d.latest.status = "candidate_ready" /\ d.latest.candidate = value
  BY DEF MayTransition, Deliberations
<1>2. PICK M, i, e, latest :
         M = Working /\ i = d.on /\ e = d.existing /\ latest = d.latest
  OBVIOUS
<1>3. M \in Seq(Believed)
  BY <1>2, WorkingTyped
<1>4. Stands(M, i, e, latest)
  BY <1>1, <1>2 DEF Governed
<1>5. /\ Backed(M, latest.seen, value)
      /\ Whole(M) => Leads(M, value, IF value = e THEN M[i].value ELSE e, scope)
  BY <1>1, <1>2, <1>4 DEF Stands
<1>6. latest.seen \subseteq RetainedIn(M)
  BY <1>1, <1>2 DEF RetainedIn
<1>7. Backed(M, RetainedIn(M), value)
  BY <1>5, <1>6, <1>3, GrowsItself, BackedStays
<1> QED BY <1>2, <1>5, <1>7 DEF Rests

LEMMA ChangeAdded ==
    ASSUME NEW M, NEW N, DOMAIN N = DOMAIN M, NEW d \in DOMAIN M, NEW t \in TransitionRecord,
           \A i \in DOMAIN M : /\ M[i] \in Believed
                               /\ N[i].transitions = IF i = d THEN Append(M[i].transitions, t)
                                                     ELSE M[i].transitions
    PROVE  ChangesIn(N) = ChangesIn(M) \cup {t}
<1>1. Range(N[d].transitions) = Range(M[d].transitions) \cup {t}
  <2>1. M[d].transitions \in Seq(TransitionRecord)
    BY BelievedTyped
  <2>2. PICK sent : sent = M[d].transitions
    OBVIOUS
  <2>3. Range(Append(sent, t)) = Range(sent) \cup {t}
    BY <2>1, <2>2, RangeOfAppend
  <2> QED BY <2>2, <2>3
<1>2. \A i \in DOMAIN M : i # d => Range(N[i].transitions) = Range(M[i].transitions)
  OBVIOUS
<1> QED BY <1>1, <1>2 DEF ChangesIn

\* The inductive invariant of what beliefs rest on: of what is stored, and of what the
\* interaction would store.
BeliefsHeld ==
    /\ BeliefsKept
    /\ Governed(kept, Len(journal))
    /\ DOMAIN staged \subseteq 1 .. Len(kept) => Governed(Working, Len(journal) + Len(events))

LEMMA Counted ==
    ASSUME BeliefsTyped
    PROVE  /\ Len(journal) \in Nat /\ Len(events) \in Nat /\ Len(journal) + Len(events) \in Nat
           /\ Now = Len(journal) + Len(events) + 1
           /\ \A x \in TransitionRecord \cup ReframeRecord :
                Len(Append(events, x)) = Len(events) + 1
           /\ Len(journal \o events) = Len(journal) + Len(events)
<1>1. PICK S : S = TransitionRecord \cup ReframeRecord
  OBVIOUS
<1>2. journal \in Seq(S) /\ events \in Seq(S)
  BY <1>1 DEF BeliefsTyped
<1>3. Len(journal) \in Nat /\ Len(events) \in Nat
  BY <1>2, LenProperties
<1>4. \A x \in S : Len(Append(events, x)) = Len(events) + 1
  BY <1>2, AppendProperties
<1>5. Len(journal \o events) = Len(journal) + Len(events)
  BY <1>2, ConcatProperties
<1> QED BY <1>1, <1>3, <1>4, <1>5 DEF Now

LEMMA EvidenceGoverned ==
    ASSUME BeliefsHeld, NEW o \in Observations, ConsiderEvidence(o) PROVE BeliefsHeld'
<1>1. /\ BeliefsKept' /\ DOMAIN Working' = DOMAIN Working
      /\ \A i \in DOMAIN Working :
            /\ Working'[i] \in {Working[i], Reassess(Working[i], Range(Working), Append(evidence, o))}
            /\ Extends(Working'[i], Working[i])
  BY EvidenceKept DEF BeliefsHeld
<1>2. UNCHANGED <<kept, journal, events>> /\ DOMAIN staged \subseteq DOMAIN staged'
  BY DEF ConsiderEvidence, Stage
<1>3. ASSUME DOMAIN staged' \subseteq 1 .. Len(kept)
      PROVE  Governed(Working', Len(journal) + Len(events))
  <2>1. PICK M, N, observations :
           M = Working /\ N = Working' /\ observations = Append(evidence, o)
    OBVIOUS
  <2>2. M \in Seq(Believed) /\ N \in Seq(Believed) /\ \A i \in DOMAIN M : M[i] \in Believed
    BY <1>1, <2>1, WorkingTyped, WorkingTypedNext DEF BeliefsHeld, BeliefsKept
  <2>3. \A i \in DOMAIN M : Reconsidered(N[i], M[i], Range(M), observations)
    BY <1>1, <2>1, <2>2, ReassessingReconsiders
  <2>4. Governed(M, Len(journal) + Len(events))
    BY <1>2, <1>3, <2>1 DEF BeliefsHeld
  <2>5. Governed(N, Len(journal) + Len(events))
    BY <1>1, <2>1, <2>2, <2>3, <2>4, GovernedAgain
  <2> QED BY <2>1, <2>5
<1> QED BY <1>1, <1>2, <1>3 DEF BeliefsHeld

LEMMA ProposalGoverned ==
    ASSUME BeliefsHeld, NEW p \in Proposals, ProposeMemory(p) PROVE BeliefsHeld'
<1>1. /\ BeliefsKept' /\ UNCHANGED <<kept, journal, recalled, evidence, staged, events>>
      /\ \E new \in Believed : Fresh(new, Working, evidence) /\ Working' = Append(Working, new)
  BY ProposalKept DEF BeliefsHeld
<1>2. PICK new \in Believed : Fresh(new, Working, evidence) /\ Working' = Append(Working, new)
  BY <1>1
<1>3. ASSUME DOMAIN staged' \subseteq 1 .. Len(kept)
      PROVE  Governed(Working', Len(journal) + Len(events))
  <2>1. PICK M, observations : M = Working /\ observations = evidence
    OBVIOUS
  <2>2. M \in Seq(Believed)
    BY <2>1, WorkingTyped DEF BeliefsHeld, BeliefsKept
  <2>3. Governed(M, Len(journal) + Len(events))
    BY <1>1, <1>3, <2>1 DEF BeliefsHeld
  <2>4. Governed(Append(M, new), Len(journal) + Len(events))
    BY <1>2, <2>1, <2>2, <2>3, GovernedMore
  <2> QED BY <1>2, <2>1, <2>4
<1> QED BY <1>1, <1>3 DEF BeliefsHeld

LEMMA TransitionGoverned ==
    ASSUME BeliefsHeld, NEW value \in Values, NEW scope \in Scopes, TransitionBelief(value, scope)
    PROVE  BeliefsHeld'
<1>1. /\ BeliefsKept' /\ DOMAIN Working' = DOMAIN Working
      /\ DOMAIN staged' \subseteq 1 .. Len(kept) => Transits(value, scope)
  BY TransitionKept DEF BeliefsHeld
<1>2. UNCHANGED <<kept, journal>> /\ DOMAIN staged \subseteq DOMAIN staged'
  BY DEF TransitionBelief, Stage
<1>3. BeliefsTyped
  BY DEF BeliefsHeld, BeliefsKept
<1>4. ASSUME DOMAIN staged' \subseteq 1 .. Len(kept)
      PROVE  Governed(Working', Len(journal') + Len(events'))
  <2>1. Governed(Working, Len(journal) + Len(events))
    BY <1>2, <1>4 DEF BeliefsHeld
  <2>2. PICK d \in MayTransition(value, scope) :
          LET other == IF value = d.existing THEN Working[d.on].value ELSE d.existing
              t == [from |-> other, to |-> value, scope |-> scope,
                    revision |-> d.latest.revision, at |-> Now]
          IN  /\ t \in TransitionRecord /\ events' = Append(events, t)
              /\ \A i \in DOMAIN Working :
                    /\ Turned(Working'[i], Working[i], value, other, scope)
                    /\ Extends(Working'[i], Working[i])
                    /\ Working'[i].transitions = IF i = d.on THEN Append(Working[i].transitions, t)
                                                 ELSE Working[i].transitions
    BY <1>1, <1>4 DEF Transits
  <2>3. PICK other : other = IF value = d.existing THEN Working[d.on].value ELSE d.existing
    OBVIOUS
  <2>4. PICK t : t = [from |-> other, to |-> value, scope |-> scope,
                      revision |-> d.latest.revision, at |-> Now]
    OBVIOUS
  <2>5. PICK M, N, on : M = Working /\ N = Working' /\ on = d.on
    OBVIOUS
  <2>6. /\ t \in TransitionRecord /\ events' = Append(events, t)
        /\ \A i \in DOMAIN M : /\ Turned(N[i], M[i], value, other, scope)
                               /\ Extends(N[i], M[i])
        /\ \A i \in DOMAIN M : N[i].transitions = IF i = on THEN Append(M[i].transitions, t)
                                                  ELSE M[i].transitions
    BY <2>2, <2>3, <2>4, <2>5
  <2>7. /\ M \in Seq(Believed) /\ N \in Seq(Believed) /\ DOMAIN N = DOMAIN M
        /\ \A i \in DOMAIN M : M[i] \in Believed
    BY <1>1, <1>3, <2>5, WorkingTyped, WorkingTypedNext DEF BeliefsKept
  <2>8. on \in DOMAIN M
    BY <2>5 DEF MayTransition, Deliberations
  <2>9. ChangesIn(N) = ChangesIn(M) \cup {t}
    BY <2>6, <2>7, <2>8, ChangeAdded
  <2>10. Rests(M, t)
    BY <1>3, <2>1, <2>3, <2>4, <2>5, TransitionRests
  <2>11. PICK now \in Nat, next \in Nat :
             now = Len(journal) + Len(events) /\ next = now + 1 /\ next = Now
    BY <1>3, Counted
  <2>12. Len(journal') + Len(events') = next
    BY <1>2, <1>3, <2>6, <2>11, Counted
  <2>13. t.from = other /\ t.to = value /\ t.scope = scope /\ t.at = next
    BY <2>4, <2>11
  <2>14. Governed(M, now)
    BY <2>1, <2>5, <2>11
  <2>15. Governed(N, next)
    BY <2>6, <2>7, <2>9, <2>10, <2>11, <2>13, <2>14, GovernedTransition
  <2> QED BY <2>5, <2>12, <2>15
<1> QED BY <1>1, <1>2, <1>4 DEF BeliefsHeld

LEMMA ReframeGoverned ==
    ASSUME BeliefsHeld, NEW existing \in Values, NEW proposed \in Values,
           ReframeBelief(existing, proposed)
    PROVE  BeliefsHeld'
<1>1. /\ BeliefsKept' /\ DOMAIN Working' = DOMAIN Working
      /\ \E x \in TransitionRecord \cup ReframeRecord : events' = Append(events, x)
      /\ DOMAIN staged' \subseteq 1 .. Len(kept) =>
            /\ \A i \in DOMAIN Working : /\ Rescoped(Working'[i], Working[i])
                                         /\ Extends(Working'[i], Working[i])
            /\ \E d \in DOMAIN Working : Working'[d].reframes # <<>>
  BY ReframeKept DEF BeliefsHeld
<1>2. UNCHANGED <<kept, journal>> /\ DOMAIN staged \subseteq DOMAIN staged'
  BY DEF ReframeBelief, Stage
<1>3. BeliefsTyped
  BY DEF BeliefsHeld, BeliefsKept
<1>4. ASSUME DOMAIN staged' \subseteq 1 .. Len(kept)
      PROVE  Governed(Working', Len(journal') + Len(events'))
  <2>1. PICK M, N : M = Working /\ N = Working'
    OBVIOUS
  <2>2. M \in Seq(Believed) /\ N \in Seq(Believed) /\ DOMAIN N = DOMAIN M
    BY <1>1, <1>3, <2>1, WorkingTyped, WorkingTypedNext DEF BeliefsKept
  <2>3. PICK now \in Nat : now = Len(journal) + Len(events)
    BY <1>3, Counted
  <2>4. Governed(M, now)
    BY <1>2, <1>4, <2>1, <2>3 DEF BeliefsHeld
  <2>5. /\ \A i \in DOMAIN M : Rescoped(N[i], M[i]) /\ Extends(N[i], M[i])
        /\ \E d \in DOMAIN M : N[d].reframes # <<>>
    BY <1>1, <1>4, <2>1
  <2>6. Governed(N, now + 1)
    BY <2>2, <2>4, <2>5, GovernedReframe
  <2>7. Len(journal') + Len(events') = now + 1
    BY <1>1, <1>2, <1>3, <2>3, Counted
  <2> QED BY <2>1, <2>6, <2>7
<1> QED BY <1>1, <1>2, <1>4 DEF BeliefsHeld

\* What an interaction stores is what it worked on, and it goes on from there.
LEMMA ForgottenGoverned ==
    ASSUME BeliefsKept', Forget, Governed(kept', Len(journal'))
    PROVE  BeliefsHeld'
<1>1. Working' = kept' /\ Len(events') = 0 /\ Len(journal') \in Nat
  <2>1. kept' \in Seq(Believed) /\ journal' \in Seq(TransitionRecord \cup ReframeRecord)
    BY DEF BeliefsKept, BeliefsTyped
  <2> QED BY <2>1, NothingInHand, EmptySeq, LenProperties DEF Forget
<1>2. Governed(Working', Len(journal') + Len(events'))
  BY <1>1
<1> QED BY <1>2 DEF BeliefsHeld

THEOREM BeliefsHeldHolds == BeliefsSpec => []BeliefsHeld
<1>1. BeliefsInit => BeliefsHeld
  <2> SUFFICES ASSUME BeliefsInit PROVE BeliefsHeld
      OBVIOUS
  <2>1. BeliefsKept /\ Working = <<>> /\ kept = <<>>
    BY BeliefsStart DEF BeliefsInit
  <2>2. \A now : Governed(<<>>, now)
    <3>1. DOMAIN <<>> = {}
      BY EmptySeq
    <3>2. ChangesIn(<<>>) = {}
      BY <3>1 DEF ChangesIn
    <3> QED BY <3>1, <3>2 DEF Governed, Labelled, Stamped
  <2> QED BY <2>1, <2>2 DEF BeliefsHeld
<1>2. BeliefsHeld /\ [BeliefsNext]_beliefVars => BeliefsHeld'
  <2> SUFFICES ASSUME BeliefsHeld, [BeliefsNext]_beliefVars PROVE BeliefsHeld'
      OBVIOUS
  <2>1. BeliefsKept /\ BeliefsTyped /\ BeliefsKept'
    BY BeliefsStay DEF BeliefsHeld, BeliefsKept
  <2>2. CASE Recall
    <3>1. Working' = Working
      BY <2>2 DEF Recall, Working
    <3> QED BY <2>1, <2>2, <3>1 DEF Recall, BeliefsHeld
  <2>3. CASE FinishInteraction
    <3>1. /\ DOMAIN staged \subseteq 1 .. Len(kept)
          /\ kept' = Working /\ journal' = journal \o events /\ Forget
      BY <2>3 DEF FinishInteraction
    <3>2. Len(journal') = Len(journal) + Len(events)
      BY <2>1, <3>1, Counted
    <3>3. Governed(kept', Len(journal'))
      BY <3>1, <3>2 DEF BeliefsHeld
    <3> QED BY <2>1, <3>1, <3>3, ForgottenGoverned
  <2>4. CASE Abort
    <3>1. Forget /\ kept' = kept /\ journal' = journal
      BY <2>4 DEF Abort
    <3>2. Governed(kept', Len(journal'))
      BY <3>1 DEF BeliefsHeld
    <3> QED BY <2>1, <3>1, <3>2, ForgottenGoverned
  <2>5. CASE UNCHANGED beliefVars
    <3>1. Working' = Working
      BY <2>5 DEF beliefVars, Working
    <3> QED BY <2>1, <2>5, <3>1 DEF beliefVars, BeliefsHeld
  <2> QED BY <2>2, <2>3, <2>4, <2>5, EvidenceGoverned, ProposalGoverned, TransitionGoverned,
             ReframeGoverned DEF BeliefsNext
<1> QED BY <1>1, <1>2, PTL DEF BeliefsSpec

\* What is stored of a belief can be answered for: the journal and the statuses tell the
\* transitions there were, two sources of what the Mind keeps speak for each value that
\* won, and unless something was reframed no value wins over one that won over it: for
\* any proposals, evidence, findings and appraisals (the steward's
\* _resolution_readiness, _strictly_dominates and _consider_belief_transition).
THEOREM BeliefsAlwaysGoverned == BeliefsSpec => []BeliefsAreGoverned
<1>1. BeliefsHeld => StatusFollowsBelief /\ TransitionsAreCorroborated /\ NoWayBack
  <2> SUFFICES ASSUME BeliefsHeld
               PROVE  StatusFollowsBelief /\ TransitionsAreCorroborated /\ NoWayBack
      OBVIOUS
  <2>1. kept \in Seq(Believed) /\ Governed(kept, Len(journal))
    BY DEF BeliefsHeld, BeliefsKept, BeliefsTyped
  <2>2. Transitions(Range(kept)) = ChangesIn(kept)
    BY DEF Transitions, ChangesIn, Range
  <2>3. ASSUME NEW m \in Range(kept), NEW s \in Scopes, m.status[s] # None, Holds(m, m.value, s)
        PROVE  \E t \in ChangesIn(kept) :
                  /\ t.scope = s
                  /\ m.value = (IF m.status[s] = "current" THEN t.to ELSE t.from)
                  /\ \A u \in ChangesIn(kept) :
                        u.scope = s /\ m.value \in {u.from, u.to} => u.at <= t.at
    <3>1. PICK i \in DOMAIN kept : m = kept[i]
      BY DEF Range
    <3>2. Told(kept, m, s)
      BY <2>1, <3>1 DEF Governed
    <3>3. Applies(m, s)
      BY <2>3, HoldsWhere
    <3> QED BY <2>3, <3>2, <3>3 DEF Told, Newest
  <2>4. StatusFollowsBelief
    BY <2>2, <2>3 DEF StatusFollowsBelief
  <2>5. Retained = RetainedIn(kept)
    BY DEF Retained, RetainedIn, Range
  <2>6. ASSUME NEW v
        PROVE  SpeakFor(kept, Retained, v) =
                  {m.appraisal : m \in {n \in Range(kept) : n.value = v}}
                     \cup {o.appraisal : o \in {r \in Retained : r.value = v}}
    BY DEF SpeakFor, Range
  <2>7. TransitionsAreCorroborated
    <3>1. \A t \in ChangesIn(kept) : Backed(kept, Retained, t.to)
      BY <2>1, <2>5 DEF Governed, Rests
    <3>2. \A t \in ChangesIn(kept) : Corroborated(SpeakFor(kept, Retained, t.to) \ {NoAppraisal})
      BY <3>1 DEF Backed, Corroborated
    <3> QED BY <2>2, <2>6, <3>2 DEF TransitionsAreCorroborated
  <2>8. ASSUME Reframes(Range(kept)) = {} PROVE Whole(kept)
    <3>1. ASSUME NEW i \in DOMAIN kept PROVE kept[i].reframes = <<>>
      <4>1. PICK sent \in Seq(ReframeRecord) : sent = kept[i].reframes
        BY <2>1, ElementOfSeq, BelievedTyped
      <4>2. kept[i] \in Range(kept)
        BY DEF Range
      <4>3. Range(sent) = {}
        BY <2>8, <4>1, <4>2 DEF Reframes
      <4> QED BY <4>1, <4>3, EmptyRange
    <3> QED BY <3>1 DEF Whole
  <2>9. ASSUME Reframes(Range(kept)) = {}, NEW t \in ChangesIn(kept), NEW u \in ChangesIn(kept),
               t.scope = u.scope, t.from = u.to, t.to = u.from
        PROVE  FALSE
    <3>1. Leads(kept, t.to, t.from, t.scope) /\ Leads(kept, u.to, u.from, u.scope)
      BY <2>1, <2>8, <2>9 DEF Governed, Rests
    <3> QED BY <2>1, <2>9, <3>1, OneLeads
  <2>10. NoWayBack
    BY <2>2, <2>9 DEF NoWayBack
  <2> QED BY <2>4, <2>7, <2>10
<1> QED BY <1>1, BeliefsHeldHolds, JournalAlwaysTellsBeliefs, PTL DEF BeliefsAreGoverned

-----------------------------------------------------------------------------
(* What the run checks *)

\* A step of the composition is a step of each component, or leaves it alone.
LEMMA RecordsSteps ==
    [RecordsNext]_recordsVars =>
        /\ [BeliefsNext]_beliefVars /\ [LedgerNext]_ledgerVars /\ [SleepNext]_sleepVars
        /\ [PeopleNext]_peopleVars /\ [PerceptionNext]_perceptionVars
        /\ [SettingsNext]_settingsVars /\ [ReasoningNext]_reasoningVars
        /\ [AccountsNext]_accountVars
<1>1. CASE UNCHANGED recordsVars
  BY <1>1 DEF recordsVars
<1>2. ASSUME NEW name \in Components, Acting(name)
      PROVE  /\ [BeliefsNext]_beliefVars /\ [LedgerNext]_ledgerVars /\ [SleepNext]_sleepVars
             /\ [PeopleNext]_peopleVars /\ [PerceptionNext]_perceptionVars
             /\ [SettingsNext]_settingsVars /\ [ReasoningNext]_reasoningVars
             /\ [AccountsNext]_accountVars
  BY <1>2 DEF Acting
<1> QED BY <1>1, <1>2 DEF RecordsNext

\* The composition that the run checks, in which one component moves, implements
\* each of them: nothing is checked of them that they could not do on their own.
THEOREM RecordsMove ==
    RecordsSpec => /\ BeliefsSpec /\ LedgerSpec /\ SleepSpec /\ PeopleSpec /\ PerceptionSpec
                   /\ SettingsSpec /\ ReasoningSpec /\ AccountsSpec
<1>1. RecordsInit => /\ BeliefsInit /\ LedgerInit /\ SleepInit /\ PeopleInit /\ PerceptionInit
                     /\ SettingsInit /\ ReasoningInit /\ AccountsInit
  BY DEF RecordsInit
<1> QED BY <1>1, RecordsSteps, PTL DEF RecordsSpec, BeliefsSpec, LedgerSpec, SleepSpec, PeopleSpec,
           PerceptionSpec, SettingsSpec, ReasoningSpec, AccountsSpec

\* Durable evidence is not rewritten, nor what another administrator saved by a save
\* that carries a revision.
THEOREM NothingIsEverRewritten == RecordsSpec => NothingIsRewritten
BY RecordsMove, EvidenceAlwaysPreserved, OthersEditsAlwaysStay DEF NothingIsRewritten
================================================================================
