----------------------------- MODULE MCBodyRequests -----------------------------
(* BodyRequests with one request, hosts of two minds, and event tasks. *)
EXTENDS BodyRequests, TLC

CONSTANTS h1, h2, e1, e2, a1, a2

NoHosts == << >>
TwoHosts == h1 :> "A" @@ h2 :> "B"

(* Every claimant freezes one answer, and they differ. *)
OwnReplies == [t \in Tokens |-> IF t \in {h1, e1} THEN {a1} ELSE {a2}]

Symmetric == Permutations(Calls)

(* Two tasks are as good as each other, each with its answer (no hosts here). *)
TasksSymmetric == Symmetric \cup {e1 :> e2 @@ e2 :> e1 @@ a1 :> a2 @@ a2 :> a1}
================================================================================
