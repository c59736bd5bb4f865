-------------------------- MODULE BeliefGovernance --------------------------
(***************************************************************************)
(* The Memory Steward (memory_steward.py): how evidence becomes belief.    *)
(*                                                                         *)
(* All memories here speak of one subject and attribute, and differ in the *)
(* value they give it and in its scope.  Evidence is compared per scope.   *)
(* An interaction recalls, then considers evidence, proposes memories and  *)
(* asks for transitions and reframes in whatever order the host likes;     *)
(* everything is staged and stored at once when it completes.              *)
(* Interactions follow one another: that is what CognitiveCommit shows of  *)
(* atomic methods.  A memory gives one value; the artifacts that only      *)
(* annotate (equivalences, scope distinctions, questions) are left out.    *)
(***************************************************************************)
EXTENDS Naturals, Sequences, FiniteSets, SequencesExt

CONSTANTS
    Values,          \* what the attribute may be
    Scopes,          \* where a value may hold
    Unscoped,        \* the scope of a plain statement
    Proposals,       \* memories a host may propose: [content, value, scope, appraisal]
    Observations,    \* evidence it may submit: [value, scope, appraisal, finding]
    NoAppraisal,     \* evidence without provenance, confidence and weight
    NoFinding,       \* evidence without a finding about the tension
    None,
    MaxMemories,     \* bound: durable and pending memories
    MaxEvidence,     \* bound: observations of one interaction
    MaxRevision,     \* bound: deliberations of one tension
    MaxEvents        \* bound: transitions and reframes

ASSUME ScopeAssumption == Unscoped \in Scopes /\ None \notin Scopes \cup Values
ASSUME ProposalAssumption == \A p \in Proposals : p.value \in Values /\ p.scope \in Scopes
\* A finding's label names a scope, or is missing.
ASSUME FindingAssumption ==
    \A o \in Observations : o.finding # NoFinding =>
        {o.finding.existingScope, o.finding.proposedScope} \subseteq (Scopes \ {Unscoped}) \cup {None}
\* Confidence and weight are numbers, of which only the order counts.
ASSUME AppraisalAssumption ==
    \A x \in Proposals \cup Observations : x.appraisal # NoAppraisal =>
        x.appraisal.confidence \in Nat /\ x.appraisal.weight \in Nat
ASSUME BoundAssumption ==
    {MaxMemories, MaxEvidence, MaxRevision, MaxEvents} \subseteq Nat /\ MaxRevision > 0

\* What is stored of one deliberation; no deliberation is not one.
Deliberation == [revision : 1 .. MaxRevision, seen : SUBSET Observations,
                 finding : {o.finding : o \in Observations} \cup {NoFinding},
                 status : {"blocked", "candidate_ready", "reframe_required"},
                 candidate : Values \cup {None}]

ASSUME NoneAssumption == None \notin Deliberation

VARIABLES
    kept,       \* durable memories
    journal,    \* transitions and reframes the journal reports
    recalled,   \* the running interaction has consulted memory
    evidence,   \* what it has submitted
    staged,     \* its replacements: place of a memory -> the memory revised
    pending,    \* memories it has proposed
    events      \* transitions and reframes it has had accepted

beliefVars == <<kept, journal, recalled, evidence, staged, pending, events>>

(***************************************************************************)
(* Memories                                                                *)
(***************************************************************************)

\* The propositions a memory stands for.  A scope given by a reframe takes the
\* place of the unscoped statement.
Meanings(m) ==
    LET own == IF m.scope = Unscoped /\ m.labels # {} THEN {} ELSE {m.scope}
    IN  {<<m.value, s>> : s \in own \cup m.labels}

\* Durable memories as this interaction sees them, then the ones it proposes.
Working ==
    [i \in 1 .. Len(kept) |-> IF i \in DOMAIN staged THEN staged[i] ELSE kept[i]] \o pending

Proposed(p, deliberations) ==
    [content |-> p.content, value |-> p.value, scope |-> p.scope, appraisal |-> p.appraisal,
     labels |-> {}, status |-> [s \in Scopes |-> None], deliberations |-> deliberations,
     transitions |-> <<>>, reframes |-> <<>>]

(***************************************************************************)
(* Deliberation: what the evidence says of a tension.  A tension is a      *)
(* memory and the competing value that was there before it.                *)
(***************************************************************************)

\* The observations, by place, that bear on either value in that scope.
Relevant(observations, existing, proposed, scope) ==
    {i \in DOMAIN observations : /\ observations[i].value \in {existing, proposed}
                                 /\ observations[i].scope = scope}

FindingMatches(f, existing, proposed, scope) ==
    f # NoFinding /\ f.existing = existing /\ f.proposed = proposed /\ f.scope = scope

\* The newest matching finding, or the one the last deliberation had.
LatestFinding(observations, existing, proposed, scope, prior) ==
    LET found  == {i \in Relevant(observations, existing, proposed, scope) :
                      FindingMatches(observations[i].finding, existing, proposed, scope)}
        newest == {i \in found : \A j \in found : j <= i}
    IN  IF newest # {} THEN observations[CHOOSE i \in newest : TRUE].finding
        ELSE IF prior # None THEN prior.finding ELSE NoFinding

\* What supports a value in a scope: appraisals of memories and of retained research.
Side(memories, seen, value, scope) ==
    {m.appraisal : m \in {n \in memories : <<value, scope>> \in Meanings(n)}}
        \cup {o.appraisal : o \in {r \in seen : r.value = value /\ r.scope = scope}}

StrictlyDominates(candidate, competitor) ==
    /\ \A c \in candidate, d \in competitor : c.confidence >= d.confidence /\ c.weight >= d.weight
    /\ \/ \A c \in candidate, d \in competitor : c.confidence > d.confidence
       \/ \A c \in candidate, d \in competitor : c.weight > d.weight

Corroborated(side) == \E x, y \in side : x.source # y.source

Appraised(side) == side # {} /\ NoAppraisal \notin side

\* The gate before any change of belief.
ResolutionReadiness(existing, proposed, existingSide, proposedSide, finding) ==
    LET wins(side, other) == Corroborated(side) /\ StrictlyDominates(side, other)
        candidates == (IF wins(existingSide, proposedSide) THEN {existing} ELSE {})
                        \cup (IF wins(proposedSide, existingSide) THEN {proposed} ELSE {})
    IN  IF finding # NoFinding /\ finding.relation = "differ"
        THEN [status |-> "reframe_required", candidate |-> None]
        ELSE IF /\ Appraised(existingSide) /\ Appraised(proposedSide)
                /\ finding # NoFinding /\ finding.relation = "same"
                /\ Cardinality(candidates) = 1
             THEN [status |-> "candidate_ready", candidate |-> CHOOSE v \in candidates : TRUE]
             ELSE [status |-> "blocked", candidate |-> None]

DeliberateTension(existing, proposed, scope, memories, current, pendingSide, prior) ==
    LET seen    == {current[i] : i \in Relevant(current, existing, proposed, scope)}
                      \cup (IF prior = None THEN {} ELSE prior.seen)
        finding == LatestFinding(current, existing, proposed, scope, prior)
        ready   == ResolutionReadiness(existing, proposed,
                        Side(memories, seen, existing, scope),
                        Side(memories, seen, proposed, scope) \cup pendingSide, finding)
    IN  [revision |-> IF prior = None THEN 1 ELSE prior.revision + 1,
         seen |-> seen, finding |-> finding, status |-> ready.status, candidate |-> ready.candidate]

-----------------------------------------------------------------------------
BeliefsInit ==
    /\ kept = <<>> /\ journal = <<>>
    /\ recalled = FALSE
    /\ evidence = <<>> /\ staged = <<>> /\ pending = <<>> /\ events = <<>>

\* Nothing else is answered before memory was consulted.
Recall ==
    /\ ~recalled
    /\ recalled' = TRUE
    /\ UNCHANGED <<kept, journal, evidence, staged, pending, events>>

(***************************************************************************)
(* Evidence                                                                *)
(***************************************************************************)

\* A tension is closed on the memory that carries its transition or reframe.
Settled(m, existing) ==
    \/ \E t \in Range(m.transitions) : {t.from, t.to} = {existing, m.value} /\ t.scope = m.scope
    \/ \E f \in Range(m.reframes) : {f.existing, f.proposed} = {existing, m.value}

\* The tensions of a memory that this interaction's evidence reopens.
Reassessed(m, observations) ==
    {e \in Values : /\ m.deliberations[e] # None
                    /\ ~Settled(m, e)
                    /\ Relevant(observations, e, m.value, m.scope) # {}}

\* Fault: a tension is deliberated afresh, without what was retained of it.
ReassessAfresh(m, memories, observations) ==
    [m EXCEPT !.deliberations =
        [e \in Values |-> IF e \in Reassessed(m, observations)
                          THEN DeliberateTension(e, m.value, m.scope, memories, observations, {}, None)
                          ELSE m.deliberations[e]]]

\* Every observation has all tensions deliberated again on all evidence so far.
Reassess(m, memories, observations) ==
    [m EXCEPT !.deliberations =
        [e \in Values |-> IF e \in Reassessed(m, observations)
                          THEN DeliberateTension(e, m.value, m.scope, memories, observations, {},
                                                 m.deliberations[e])
                          ELSE m.deliberations[e]]]

\* Fault: the newest replacements are staged in place of the earlier ones.
StageOnly(changes) == staged' = changes

Stage(changes) == staged' = [i \in DOMAIN changes \cup DOMAIN staged |->
                                IF i \in DOMAIN changes THEN changes[i] ELSE staged[i]]

ConsiderEvidence(o) ==
    LET observations == Append(evidence, o)
        revised(m) == Reassess(m, Range(Working), observations)
        touched == {i \in 1 .. Len(kept) : Reassessed(Working[i], observations) # {}}
    IN  /\ recalled
        /\ Len(evidence) < MaxEvidence
        /\ \A m \in Range(Working) : \A e \in Reassessed(m, observations) :
                m.deliberations[e].revision < MaxRevision
        /\ evidence' = observations
        /\ Stage([i \in touched |-> revised(Working[i])])
        /\ pending' = [j \in 1 .. Len(pending) |-> revised(pending[j])]
        /\ UNCHANGED <<kept, journal, recalled, events>>

(***************************************************************************)
(* Proposals                                                               *)
(***************************************************************************)

AlreadyKnown(p) ==
    \E m \in Range(Working) : m.content = p.content /\ <<p.value, p.scope>> \in Meanings(m)

\* Values this one competes with: same scope, and not superseded where it is held.
Competing(p) ==
    {e \in Values \ {p.value} : \E m \in Range(Working) :
        <<e, p.scope>> \in Meanings(m) /\ m.status[p.scope] # "superseded"}

ProposeMemory(p) ==
    /\ recalled
    /\ Len(kept) + Len(pending) < MaxMemories
    /\ ~AlreadyKnown(p)
    /\ pending' = Append(pending, Proposed(p,
            [e \in Values |-> IF e \in Competing(p)
                THEN DeliberateTension(e, p.value, p.scope, Range(Working), evidence,
                                       {p.appraisal}, None)
                ELSE None]))
    /\ UNCHANGED <<kept, journal, recalled, evidence, staged, events>>

(***************************************************************************)
(* Changes of belief                                                       *)
(***************************************************************************)

\* Deliberations of the working memories that are about a scope.
Deliberations(scope) ==
    {[on |-> i, existing |-> e, latest |-> Working[i].deliberations[e]] :
        i \in {j \in DOMAIN Working : Working[j].scope = scope}, e \in Values}

\* Of the deliberations of one pair, the latest; of equal ones the first.
LatestOfPair(d, all) ==
    \A x \in all : /\ x.latest # None
                   /\ x.existing = d.existing
                   /\ Working[x.on].value = Working[d.on].value
        => \/ x.latest.revision < d.latest.revision
           \/ /\ x.latest.revision = d.latest.revision
              /\ d.on <= x.on

\* The deliberations that authorise a belief, when they are the latest of their pair.
MayTransition(value, scope) ==
    LET all == Deliberations(scope)
        ready == {d \in {x \in all : x.latest # None} :
                    /\ LatestOfPair(d, all)
                    /\ d.latest.status = "candidate_ready"
                    /\ d.latest.candidate = value}
    IN  {d \in ready : \A x \in ready : x.latest.revision <= d.latest.revision}

Transitions(memories) == UNION {Range(m.transitions) : m \in memories}
Reframes(memories) == UNION {Range(m.reframes) : m \in memories}

\* The latest transition of a scope.
CurrentBelief(memories, scope) ==
    LET mine == {t \in Transitions(memories) : t.scope = scope}
    IN  IF mine = {} THEN None ELSE CHOOSE t \in mine : \A u \in mine : u.at <= t.at

Holds(m, value, scope) == <<value, scope>> \in Meanings(m)

\* Where artifacts are appended, in time.
Now == Len(journal) + Len(events) + 1

TransitionBelief(value, scope) ==
    /\ recalled
    /\ Len(journal) + Len(events) < MaxEvents
    /\ \E d \in MayTransition(value, scope) :
        LET other   == IF value = d.existing THEN Working[d.on].value ELSE d.existing
            current == CurrentBelief(Range(Working), scope)
            t == [from |-> other, to |-> value, scope |-> scope,
                  revision |-> d.latest.revision, at |-> Now]
            supports(v) == {i \in DOMAIN Working : Holds(Working[i], v, scope)}
            status(i) == IF i \in supports(value) THEN "current"
                         ELSE IF i \in supports(other) THEN "superseded"
                         ELSE Working[i].status[scope]
        IN  /\ ~(current # None /\ current.to = value /\ current.revision >= d.latest.revision)
            /\ supports(value) # {} /\ supports(other) # {}
            /\ Stage([i \in supports(value) \cup supports(other) \cup {d.on} |->
                    [Working[i] EXCEPT !.status[scope] = status(i),
                                       !.transitions = IF i = d.on THEN Append(@, t) ELSE @]])
            /\ events' = Append(events, t)
    /\ UNCHANGED <<kept, journal, recalled, evidence, pending>>

\* The newest deliberation of a pair in whatever scope, the first of equal ones.
NewestDeliberation(existing, proposed) ==
    LET of(i) == Working[i].deliberations[existing]
        all == {i \in DOMAIN Working : Working[i].value = proposed /\ of(i) # None}
    IN  {i \in all : \A j \in all : \/ of(j).revision < of(i).revision
                                   \/ /\ of(j).revision = of(i).revision
                                      /\ i <= j}

ReframeBelief(existing, proposed) ==
    /\ recalled
    /\ Len(journal) + Len(events) < MaxEvents
    /\ \E d \in NewestDeliberation(existing, proposed) :
        LET latest   == Working[d].deliberations[existing]
            supports(v) == {i \in DOMAIN Working : Working[i].value = v}
            earlier  == {f \in Reframes(Range(Working)) :
                            f.existing = existing /\ f.proposed = proposed}
            f == [existing |-> existing, proposed |-> proposed,
                  revision |-> latest.revision, at |-> Now]
            label(i) == IF Working[i].value = existing THEN latest.finding.existingScope
                        ELSE latest.finding.proposedScope
        IN  /\ latest.status = "reframe_required"
            /\ latest.finding # NoFinding
            /\ None \notin {latest.finding.existingScope, latest.finding.proposedScope}
            /\ \A g \in earlier : (\A h \in earlier : h.at <= g.at) => g.revision < latest.revision
            /\ supports(existing) # {} /\ supports(proposed) # {}
            /\ Stage([i \in supports(existing) \cup supports(proposed) |->
                    [Working[i] EXCEPT !.labels = @ \cup {label(i)},
                                       !.reframes = IF i = d THEN Append(@, f) ELSE @]])
            /\ events' = Append(events, f)
    /\ UNCHANGED <<kept, journal, recalled, evidence, pending>>

(***************************************************************************)
(* The end of an interaction                                               *)
(***************************************************************************)

Forget ==
    /\ recalled' = FALSE
    /\ evidence' = <<>> /\ staged' = <<>> /\ pending' = <<>> /\ events' = <<>>

\* Replacements are stored before the proposed memories, so that one of a
\* proposed memory finds nothing to replace, and the operation is aborted.
FinishInteraction ==
    /\ recalled
    /\ DOMAIN staged \subseteq 1 .. Len(kept)
    /\ kept' = Working
    /\ journal' = journal \o events
    /\ Forget

\* complete() raises, or the interaction fails otherwise: nothing was stored.
Abort ==
    /\ recalled
    /\ Forget
    /\ UNCHANGED <<kept, journal>>

BeliefsNext ==
    \/ Recall
    \/ \E o \in Observations : ConsiderEvidence(o)
    \/ \E p \in Proposals : ProposeMemory(p)
    \/ \E v \in Values, s \in Scopes : TransitionBelief(v, s)
    \/ \E v, w \in Values : ReframeBelief(v, w)
    \/ FinishInteraction
    \/ Abort

BeliefsSpec == BeliefsInit /\ [][BeliefsNext]_beliefVars

-----------------------------------------------------------------------------
\* What is stored, staged and proposed are memories with artifacts of the right shape.
BeliefsOK ==
    /\ \A m \in Range(kept) \cup Range(staged) \cup Range(pending) :
        /\ \E p \in Proposals : /\ m.content = p.content /\ m.value = p.value
                                /\ m.scope = p.scope /\ m.appraisal = p.appraisal
        /\ m.labels \subseteq Scopes
        /\ m.status \in [Scopes -> {None, "current", "superseded"}]
        /\ m.deliberations \in [Values -> Deliberation \cup {None}]
        /\ m.deliberations[m.value] = None
    /\ Len(kept) + Len(pending) <= MaxMemories
    /\ DOMAIN staged \subseteq DOMAIN Working
    /\ evidence \in Seq(Observations) /\ recalled \in BOOLEAN
    /\ ~recalled => Len(evidence) + Len(pending) + Len(events) = 0 /\ DOMAIN staged = {}

\* The journal reports exactly the transitions and reframes that durable
\* memories carry: no accepted change is lost when several operations of one
\* interaction revise the same memory, and none is stored unreported
\* (_stage_replacement, complete).
JournalMatchesMemories == Range(journal) = Transitions(Range(kept)) \cup Reframes(Range(kept))

\* A memory's status is what the last transition of its value in that scope
\* made of it, through later reframes, reassessments and proposals
\* (_consider_belief_transition).
StatusFollowsBelief ==
    \A m \in Range(kept), s \in Scopes :
        m.status[s] # None /\ Holds(m, m.value, s) =>
            \E t \in Transitions(Range(kept)) :
                /\ t.scope = s
                /\ m.value = (IF m.status[s] = "current" THEN t.to ELSE t.from)
                /\ \A u \in Transitions(Range(kept)) :
                        u.scope = s /\ m.value \in {u.from, u.to} => u.at <= t.at

\* All research that deliberations of durable memories have retained.
Retained == UNION {UNION {m.deliberations[e].seen : e \in {v \in Values : m.deliberations[v] # None}} :
                        m \in Range(kept)}

\* A belief never changed on repeated reporting from one source: two sources
\* of what the Mind keeps, memories or retained research, speak for each value
\* that superseded another (_resolution_readiness, ADR 0014).
TransitionsAreCorroborated ==
    \A t \in Transitions(Range(kept)) :
        LET support == {m.appraisal : m \in {n \in Range(kept) : n.value = t.to}}
                         \cup {o.appraisal : o \in {r \in Retained : r.value = t.to}}
        IN  Corroborated(support \ {NoAppraisal})

\* Of two values of a scope, only one can win over the other: as long as
\* nothing was reframed, evidence that strictly dominates stays in the way of
\* every later deliberation (_strictly_dominates).
NoWayBack ==
    Reframes(Range(kept)) = {} =>
        \A t, u \in Transitions(Range(kept)) : t.scope = u.scope => ~(t.from = u.to /\ t.to = u.from)

\* Durable evidence and its deliberation history are never rewritten: places,
\* contents and appraisals stay, retained research and revisions only grow
\* (ADR 0014 and 0015: "supersede, do not erase").
EvidencePreserved ==
    [][\A i \in DOMAIN kept :
        /\ i \in DOMAIN kept'
        /\ kept'[i].content = kept[i].content /\ kept'[i].appraisal = kept[i].appraisal
        /\ IsPrefix(kept[i].transitions, kept'[i].transitions)
        /\ IsPrefix(kept[i].reframes, kept'[i].reframes)
        /\ \A e \in Values : kept[i].deliberations[e] # None =>
                /\ kept'[i].deliberations[e] # None
                /\ kept[i].deliberations[e].seen \subseteq kept'[i].deliberations[e].seen
                /\ kept[i].deliberations[e].revision <= kept'[i].deliberations[e].revision]_beliefVars

\* ADR 0015 says that already-committed transition requests are rejected: a
\* deliberation authorises its transition once.  (The code compares with the
\* current belief only.)
AuthorisedOnce ==
    \A m \in Range(kept) : \A i, j \in DOMAIN m.transitions :
        LET t == m.transitions[i]
            u == m.transitions[j]
        IN  t.from = u.from /\ t.to = u.to /\ t.scope = u.scope /\ t.revision = u.revision => i = j

\* What is stored of a belief can be answered for: journal, statuses and
\* transitions agree, and rest on corroborated evidence that cannot turn round.
BeliefsAreGoverned ==
    /\ BeliefsOK
    /\ JournalMatchesMemories
    /\ StatusFollowsBelief
    /\ TransitionsAreCorroborated
    /\ NoWayBack
=============================================================================
