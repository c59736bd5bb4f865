------------------------------- MODULE People -------------------------------
(***************************************************************************)
(* Who seems to be present, and the encounters of the people the Mind knows.*)
(*                                                                          *)
(* PresenceResolver keeps one transient track per Mind, Body session and    *)
(* presence key (here one key per session).  MindBodyBridge adds a piece of *)
(* evidence to it when an interpretation speaks of a person.  A track with  *)
(* evidence may be resolved to a person with grounding; PersonRegistry then *)
(* links the encounter to that person's durable record by compare-and-swap. *)
(***************************************************************************)
EXTENDS Naturals, FiniteSets

CONSTANTS
    Places,        \* scopes: the Body sessions of one Mind or of several
    Sights,        \* sensory evidence
    SeenAt,        \* the scope each piece was captured in
    Persons,       \* people remembered, each with grounding
    Strangers,     \* identities without grounding
    Registrars,    \* calls that link an encounter
    NoPerson

ASSUME PeopleAssumption == SeenAt \in [Sights -> Places]

VARIABLES
    presence,      \* the track of each scope
    registry,      \* the encounters recorded for each person
    linking,       \* each linking call
    linked         \* what the calls that succeeded have linked

peopleVars == <<presence, registry, linking, linked>>

-----------------------------------------------------------------------------
NotSeen == [evidence |-> {}, resolution |-> "unknown", person |-> NoPerson]

NotLinking == [stage |-> "idle", person |-> NoPerson, read |-> {}, seen |-> {}]

Resolutions == {"unknown", "candidate", "resolved"}

PeopleInit ==
    /\ presence = [p \in Places |-> NotSeen]
    /\ registry = [x \in Persons |-> {}]
    /\ linking = [r \in Registrars |-> NotLinking]
    /\ linked = [x \in Persons |-> {}]

Track(place, t) == presence' = [presence EXCEPT ![place] = t]

-----------------------------------------------------------------------------
\* observe: the evidence joins the track; whom it was resolved to stays.
Observe(e) ==
    /\ Track(SeenAt[e], [presence[SeenAt[e]] EXCEPT !.evidence = @ \cup {e}])
    /\ UNCHANGED <<registry, linking, linked>>

\* mark_candidate: any identity, on any known track.
MarkCandidate(place, x) ==
    /\ presence[place].evidence # {}
    /\ Track(place, [presence[place] EXCEPT !.resolution = "candidate", !.person = x])
    /\ UNCHANGED <<registry, linking, linked>>

\* resolve: only with evidence, and only an identity with grounding.
Resolve(place, x) ==
    /\ presence[place].evidence # {}
    /\ x \in Persons
    /\ Track(place, [presence[place] EXCEPT !.resolution = "resolved", !.person = x])
    /\ UNCHANGED <<registry, linking, linked>>

\* forget, and expire_before for a track not observed for long.
Leave(place) ==
    /\ presence[place] # NotSeen
    /\ Track(place, NotSeen)
    /\ UNCHANGED <<registry, linking, linked>>

\* link: the encounter is the track as it is now; the person's record is read.
ReadPerson(r, place) ==
    /\ linking[r].stage = "idle"
    /\ presence[place].resolution = "resolved"
    /\ presence[place].evidence # {}
    /\ linking' = [linking EXCEPT ![r] =
                      [stage |-> "linking", person |-> presence[place].person,
                       read |-> registry[presence[place].person],
                       seen |-> presence[place].evidence]]
    /\ UNCHANGED <<presence, registry, linked>>

\* Fault: the record is replaced whoever replaced it in between.
ReplacePersonBlindly(r) ==
    LET call == linking[r] IN
    /\ call.stage = "linking"
    /\ registry' = [registry EXCEPT ![call.person] = call.read \cup {call.seen}]
    /\ linked' = [linked EXCEPT ![call.person] = @ \cup {call.seen}]
    /\ linking' = [linking EXCEPT ![r] = NotLinking]
    /\ UNCHANGED presence

\* The record with one more encounter replaces what was read, if it is still
\* that; otherwise the caller is told to retry.
ReplacePerson(r) ==
    LET call == linking[r] IN
    /\ call.stage = "linking"
    /\ IF registry[call.person] = call.read
       THEN /\ registry' = [registry EXCEPT ![call.person] = call.read \cup {call.seen}]
            /\ linked' = [linked EXCEPT ![call.person] = @ \cup {call.seen}]
       ELSE UNCHANGED <<registry, linked>>
    /\ linking' = [linking EXCEPT ![r] = NotLinking]
    /\ UNCHANGED presence

PeopleNext ==
    \/ \E e \in Sights : Observe(e)
    \/ \E p \in Places :
          \/ \E x \in Persons \cup Strangers : MarkCandidate(p, x) \/ Resolve(p, x)
          \/ Leave(p)
          \/ \E r \in Registrars : ReadPerson(r, p)
    \/ \E r \in Registrars : ReplacePerson(r)

PeopleSpec == PeopleInit /\ [][PeopleNext]_peopleVars

-----------------------------------------------------------------------------
\* Every record holds what its stage allows; a track resolved to a person, or
\* thought to be one, has evidence, and nobody without grounding is resolved.
PeopleOK ==
    /\ \A p \in Places :
          /\ presence[p].resolution \in Resolutions
          /\ presence[p].resolution # "unknown" => presence[p].evidence # {}
          /\ presence[p].resolution = "resolved" => presence[p].person \in Persons
    /\ \A r \in Registrars : linking[r].stage = "idle" => linking[r] = NotLinking

\* An encounter whose linking call succeeded stays recorded: of two calls that
\* read the same record, the second does not write the first one's away.
EncountersAreKept == \A x \in Persons : linked[x] \subseteq registry[x]

\* Tracks of two sessions never mix: an encounter rests on evidence that one
\* Body session captured.
OneSessionPerEncounter ==
    \A x \in Persons : \A encounter \in registry[x] :
        \A e, f \in encounter : SeenAt[e] = SeenAt[f]

\* A person's record keeps every encounter that was reported linked, and an
\* encounter belongs to one session.
EncountersHold ==
    /\ PeopleOK
    /\ EncountersAreKept
    /\ OneSessionPerEncounter
=============================================================================
