------------------------ MODULE MCBeliefGovernance -------------------------
(* Small instances of BeliefGovernance: one plain statement with rivals. *)
EXTENDS BeliefGovernance

CONSTANTS a, b, c, plain, here, there, s1, s2, s3

Appraisal(source, confidence, weight) ==
    [source |-> source, confidence |-> confidence, weight |-> weight]
Memory(content, value, scope, appraisal) ==
    [content |-> content, value |-> value, scope |-> scope, appraisal |-> appraisal]
Observation(value, scope, appraisal, finding) ==
    [value |-> value, scope |-> scope, appraisal |-> appraisal, finding |-> finding]
Finding(existing, proposed, relation) ==
    [existing |-> existing, proposed |-> proposed, scope |-> plain, relation |-> relation,
     existingScope |-> IF relation = "differ" THEN here ELSE None,
     proposedScope |-> IF relation = "differ" THEN there ELSE None]

\* Two values with evidence of equal, better and no appraisal, and one that is scoped.
RivalProposals ==
    {Memory(1, a, plain, Appraisal(s1, 1, 1)), Memory(2, b, plain, Appraisal(s2, 2, 1)),
     Memory(3, a, plain, Appraisal(s3, 2, 1)), Memory(3, a, here, NoAppraisal)}
RivalObservations ==
    {Observation(b, plain, Appraisal(s3, 2, 1), Finding(a, b, "same")),
     Observation(a, plain, Appraisal(s2, 1, 1), Finding(b, a, "same")),
     Observation(b, plain, Appraisal(s2, 2, 2), Finding(a, b, "differ"))}

\* Three values, each better supported than the one before.
ChainProposals ==
    {Memory(1, a, plain, Appraisal(s1, 1, 1)), Memory(2, b, plain, Appraisal(s2, 2, 1)),
     Memory(3, c, plain, Appraisal(s3, 3, 1))}
ChainObservations ==
    {Observation(b, plain, Appraisal(s3, 2, 1), Finding(a, b, "same")),
     Observation(c, plain, Appraisal(s1, 3, 1), Finding(b, c, "same"))}
=============================================================================
