--------------------------- MODULE MCCognitiveCommit ---------------------------
(* CognitiveCommit on a mind with one memory, or none yet. *)
EXTENDS CognitiveCommit

CONSTANTS Seed, Birth

MCRecords == (Callers \X (1..3)) \cup Reflections \cup {Seed, Birth}

Unborn == [mind |-> {}, memory |-> {}, journal |-> <<>>]
Living == [mind |-> {Birth}, memory |-> {Seed}, journal |-> <<>>]

MCStores == {Unborn, Living}
MCLiving == {Living}

(* initialize, GovernanceSteward.invoke, complete_interaction, a memory        *)
(* review, begin_interaction, and an operation that only notes what it did, to *)
(* be retried.                                                                 *)
Birthing == [reads |-> {"mind"}, writes |-> { <<"mind", "initialize">>, <<"journal", "append">> }]
Governing == [reads |-> {"mind"},
              writes |-> { <<"mind", "replace">>, <<"journal", "append">> }]
Completing == [reads |-> {"memory", "journal"}, writes |-> { <<"journal", "append">> }]
Reviewing == [reads |-> {"memory"},
              writes |-> { <<"memory", "replace">>, <<"journal", "append">> }]
Beginning == [reads |-> {"memory"}, writes |-> {}]

WritingMethods == {Birthing, Governing, Completing, Reviewing}

Noting == [reads |-> {}, writes |-> { <<"journal", "append">> }]
RetryMethods == {Noting, Beginning}

Symmetric == Permutations(Callers)
================================================================================
