----------------------------- MODULE PeopleProofs -----------------------------
(***************************************************************************)
(* Proofs about People: linked encounters stay, and sessions do not mix,    *)
(* for any sessions, evidence, people and linking calls.                    *)
(***************************************************************************)
EXTENDS People, TLAPS

\* Evidence that one Body session captured.
OfOneSession(encounter) == \A e, f \in encounter : SeenAt[e] = SeenAt[f]

Tracks == [evidence : SUBSET Sights, resolution : Resolutions,
           person : Persons \cup Strangers \cup {NoPerson}]
Calls == [stage : {"idle", "linking"}, person : Persons \cup {NoPerson},
          read : SUBSET SUBSET Sights, seen : SUBSET Sights]

\* The types of the variables.
PeopleTypes ==
    /\ presence \in [Places -> Tracks]
    /\ registry \in [Persons -> SUBSET SUBSET Sights]
    /\ linking \in [Registrars -> Calls]
    /\ linked \in [Persons -> SUBSET SUBSET Sights]

\* A track's evidence was captured in its session, and is there before anybody
\* is thought to be the one seen.
TracksAreLocal ==
    \A p \in Places :
        /\ \A e \in presence[p].evidence : SeenAt[e] = p
        /\ presence[p].resolution # "unknown" => presence[p].evidence # {}
        /\ presence[p].resolution = "resolved" => presence[p].person \in Persons

\* A call that links has a person, and took its evidence from one track.
CallsAreLocal ==
    \A r \in Registrars :
        /\ linking[r].stage = "idle" => linking[r] = NotLinking
        /\ linking[r].stage = "linking" =>
              linking[r].person \in Persons /\ OfOneSession(linking[r].seen)

\* None of the parts of EncountersHold is inductive alone: what is recorded was
\* with a call before, and in a track before that.
Encountered ==
    /\ PeopleTypes
    /\ TracksAreLocal
    /\ CallsAreLocal
    /\ EncountersAreKept
    /\ OneSessionPerEncounter

-----------------------------------------------------------------------------
LEMMA InitiallyEncountered == PeopleInit => Encountered
<1> SUFFICES ASSUME PeopleInit PROVE Encountered
    OBVIOUS
<1>1. PeopleTypes
    BY DEF PeopleInit, PeopleTypes, Tracks, Calls, NotSeen, NotLinking, Resolutions
<1>2. TracksAreLocal
    BY DEF PeopleInit, TracksAreLocal, NotSeen
<1>3. CallsAreLocal
    BY DEF PeopleInit, CallsAreLocal, NotLinking
<1>4. EncountersAreKept /\ OneSessionPerEncounter
    BY DEF PeopleInit, EncountersAreKept, OneSessionPerEncounter
<1> QED
    BY <1>1, <1>2, <1>3, <1>4 DEF Encountered

\* A step that changes one track only, to one that is as local as the others.
LEMMA TrackChanges ==
    ASSUME Encountered, NEW p \in Places, NEW t \in Tracks, Track(p, t),
           \A e \in t.evidence : SeenAt[e] = p,
           t.resolution # "unknown" => t.evidence # {},
           t.resolution = "resolved" => t.person \in Persons,
           UNCHANGED <<registry, linking, linked>>
    PROVE  Encountered'
<1> USE DEF Encountered
<1>1. PeopleTypes'
    BY DEF PeopleTypes, Track
<1>2. TracksAreLocal'
  <2> SUFFICES ASSUME NEW q \in Places
               PROVE  /\ \A e \in presence'[q].evidence : SeenAt[e] = q
                      /\ presence'[q].resolution # "unknown" => presence'[q].evidence # {}
                      /\ presence'[q].resolution = "resolved" => presence'[q].person \in Persons
      BY DEF TracksAreLocal
  <2>1. presence'[q] = IF q = p THEN t ELSE presence[q]
      BY DEF Track, PeopleTypes
  <2> QED
      BY <2>1 DEF TracksAreLocal
<1>3. CallsAreLocal' /\ EncountersAreKept' /\ OneSessionPerEncounter'
    BY DEF CallsAreLocal, EncountersAreKept, OneSessionPerEncounter
<1> QED
    BY <1>1, <1>2, <1>3

LEMMA ObserveStep ==
    ASSUME Encountered, NEW e \in Sights, Observe(e) PROVE Encountered'
<1> DEFINE p == SeenAt[e]
           t == [presence[p] EXCEPT !.evidence = @ \cup {e}]
<1>1. p \in Places
    BY PeopleAssumption
<1>2. presence[p] \in Tracks
    BY <1>1 DEF Encountered, PeopleTypes
<1>3. /\ t \in Tracks
      /\ t.evidence = presence[p].evidence \cup {e}
      /\ t.resolution = presence[p].resolution
      /\ t.person = presence[p].person
    BY <1>2 DEF Tracks
<1>4. /\ \A f \in t.evidence : SeenAt[f] = p
      /\ t.resolution # "unknown" => t.evidence # {}
      /\ t.resolution = "resolved" => t.person \in Persons
    BY <1>1, <1>3 DEF Encountered, TracksAreLocal
<1>5. Track(p, t) /\ UNCHANGED <<registry, linking, linked>>
    BY DEF Observe
<1> HIDE DEF p, t
<1> QED
    BY <1>1, <1>3, <1>4, <1>5, TrackChanges

LEMMA JudgeStep ==
    ASSUME Encountered, NEW p \in Places, NEW x \in Persons \cup Strangers,
           MarkCandidate(p, x) \/ Resolve(p, x)
    PROVE  Encountered'
<1> PICK how \in {"candidate", "resolved"} :
        /\ presence[p].evidence # {}
        /\ how = "resolved" => x \in Persons
        /\ Track(p, [presence[p] EXCEPT !.resolution = how, !.person = x])
        /\ UNCHANGED <<registry, linking, linked>>
    BY DEF MarkCandidate, Resolve
<1> DEFINE t == [presence[p] EXCEPT !.resolution = how, !.person = x]
<1>1. presence[p] \in Tracks
    BY DEF Encountered, PeopleTypes
<1>2. /\ t \in Tracks /\ t.evidence = presence[p].evidence
      /\ t.resolution = how /\ t.person = x
    BY <1>1 DEF Tracks, Resolutions
<1>3. \A e \in t.evidence : SeenAt[e] = p
    BY <1>2 DEF Encountered, TracksAreLocal
<1>4. Track(p, t)
    OBVIOUS
<1> HIDE DEF t
<1> QED
    BY <1>2, <1>3, <1>4, TrackChanges

LEMMA LeaveStep ==
    ASSUME Encountered, NEW p \in Places, Leave(p) PROVE Encountered'
<1>1. /\ NotSeen \in Tracks /\ NotSeen.evidence = {} /\ NotSeen.resolution = "unknown"
    BY DEF NotSeen, Tracks, Resolutions
<1>2. Track(p, NotSeen) /\ UNCHANGED <<registry, linking, linked>>
    BY DEF Leave
<1> QED
    BY <1>1, <1>2, TrackChanges

LEMMA ReadStep ==
    ASSUME Encountered, NEW r \in Registrars, NEW p \in Places, ReadPerson(r, p)
    PROVE  Encountered'
<1> DEFINE x == presence[p].person
           call == [stage |-> "linking", person |-> x, read |-> registry[x],
                    seen |-> presence[p].evidence]
<1>1. x \in Persons /\ presence[p] \in Tracks
    BY DEF ReadPerson, Encountered, PeopleTypes, TracksAreLocal
<1>2. call \in Calls /\ OfOneSession(call.seen)
    BY <1>1 DEF Calls, Tracks, OfOneSession, Encountered, PeopleTypes, TracksAreLocal
<1>3. linking' = [linking EXCEPT ![r] = call] /\ UNCHANGED <<presence, registry, linked>>
    BY DEF ReadPerson
<1>4. call.stage = "linking" /\ call.person \in Persons
    BY <1>1
<1> HIDE DEF call
<1>5. PeopleTypes'
    BY <1>2, <1>3 DEF Encountered, PeopleTypes
<1>6. CallsAreLocal'
    BY <1>2, <1>3, <1>4 DEF Encountered, PeopleTypes, CallsAreLocal
<1>7. TracksAreLocal' /\ EncountersAreKept' /\ OneSessionPerEncounter'
    BY <1>3 DEF Encountered, TracksAreLocal, EncountersAreKept, OneSessionPerEncounter
<1> QED
    BY <1>5, <1>6, <1>7 DEF Encountered

\* The only step that records anything: what it read is still the record.
LEMMA ReplaceStep ==
    ASSUME Encountered, NEW r \in Registrars, ReplacePerson(r) PROVE Encountered'
<1> DEFINE x == linking[r].person
           seen == linking[r].seen
<1>1. x \in Persons /\ OfOneSession(seen) /\ seen \in SUBSET Sights
    BY DEF Encountered, PeopleTypes, CallsAreLocal, ReplacePerson, Calls
<1>2. linking' = [linking EXCEPT ![r] = NotLinking] /\ UNCHANGED presence
    BY DEF ReplacePerson
<1>3. NotLinking \in Calls /\ NotLinking.stage = "idle"
    BY DEF NotLinking, Calls
<1>4. /\ linking' \in [Registrars -> Calls] /\ presence' \in [Places -> Tracks]
      /\ CallsAreLocal' /\ TracksAreLocal'
    BY <1>2, <1>3 DEF Encountered, PeopleTypes, CallsAreLocal, TracksAreLocal
<1>5. CASE UNCHANGED <<registry, linked>>
    BY <1>4, <1>5 DEF Encountered, PeopleTypes, EncountersAreKept, OneSessionPerEncounter
<1>6. CASE /\ registry' = [registry EXCEPT ![x] = @ \cup {seen}]
           /\ linked' = [linked EXCEPT ![x] = @ \cup {seen}]
  <2>1. /\ registry' \in [Persons -> SUBSET SUBSET Sights]
        /\ linked' \in [Persons -> SUBSET SUBSET Sights]
      BY <1>1, <1>6 DEF Encountered, PeopleTypes
  <2>2. EncountersAreKept'
      BY <1>1, <1>6 DEF Encountered, PeopleTypes, EncountersAreKept
  <2>3. OneSessionPerEncounter'
      BY <1>1, <1>6 DEF Encountered, PeopleTypes, OneSessionPerEncounter, OfOneSession
  <2> QED
      BY <1>4, <2>1, <2>2, <2>3 DEF Encountered, PeopleTypes
<1>7. \/ UNCHANGED <<registry, linked>>
      \/ /\ registry' = [registry EXCEPT ![x] = @ \cup {seen}]
         /\ linked' = [linked EXCEPT ![x] = @ \cup {seen}]
    BY <1>1 DEF ReplacePerson, Encountered, PeopleTypes
<1> QED
    BY <1>5, <1>6, <1>7

LEMMA PeopleStep == Encountered /\ [PeopleNext]_peopleVars => Encountered'
<1> SUFFICES ASSUME Encountered, [PeopleNext]_peopleVars PROVE Encountered'
    OBVIOUS
<1>1. CASE UNCHANGED peopleVars
    BY <1>1 DEF peopleVars, Encountered, PeopleTypes, TracksAreLocal, CallsAreLocal,
                EncountersAreKept, OneSessionPerEncounter
<1>2. ASSUME NEW e \in Sights, Observe(e) PROVE Encountered'
    BY <1>2, ObserveStep
<1>3. ASSUME NEW p \in Places, NEW x \in Persons \cup Strangers,
             MarkCandidate(p, x) \/ Resolve(p, x)
      PROVE  Encountered'
    BY <1>3, JudgeStep
<1>4. ASSUME NEW p \in Places, Leave(p) PROVE Encountered'
    BY <1>4, LeaveStep
<1>5. ASSUME NEW r \in Registrars, NEW p \in Places, ReadPerson(r, p) PROVE Encountered'
    BY <1>5, ReadStep
<1>6. ASSUME NEW r \in Registrars, ReplacePerson(r) PROVE Encountered'
    BY <1>6, ReplaceStep
<1> QED
    BY <1>1, <1>2, <1>3, <1>4, <1>5, <1>6 DEF PeopleNext

LEMMA EncounteredSuffices == Encountered => EncountersHold
<1> SUFFICES ASSUME Encountered PROVE EncountersHold
    OBVIOUS
<1>1. \A p \in Places : presence[p].resolution \in Resolutions
    BY DEF Encountered, PeopleTypes, Tracks
<1>2. PeopleOK
    BY <1>1 DEF Encountered, PeopleOK, TracksAreLocal, CallsAreLocal
<1> QED
    BY <1>2 DEF Encountered, EncountersHold

-----------------------------------------------------------------------------
\* However many calls link encounters of one person at once, whatever is observed,
\* resolved or forgotten meanwhile: what a call linked stays in the person's
\* record, and an encounter rests on what one Body session captured.
THEOREM EncountersAlwaysHold == PeopleSpec => []EncountersHold
<1>1. PeopleSpec => []Encountered
    BY InitiallyEncountered, PeopleStep, PTL DEF PeopleSpec
<1> QED
    BY <1>1, EncounteredSuffices, PTL
=============================================================================
