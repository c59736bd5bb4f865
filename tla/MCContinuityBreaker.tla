-------------------------- MODULE MCContinuityBreaker --------------------------
(* ContinuityBreaker with short windows, and few tries. *)
EXTENDS ContinuityBreaker

Policy(c, r, w) == [consecutive |-> c, rolling |-> r, window |-> w]

(* The window shows all that is kept, as [20, 500] allows with 500... *)
WholeRecord == Policy(2, 2, 3)
StrictRecord == Policy(1, 1, 3)
WholePair == Policy(2, 2, 2)
(* ... or less than that, as the packaged 100 of 500 does. *)
ShortWindow == Policy(1, 1, 1)

MCTwoPolicies == {WholeRecord, StrictRecord}
MCTwoWindows == {WholePair, ShortWindow}
MCShort == {ShortWindow}

(* Calls are alike, and so are turns of which each has a key of its own. *)
Symmetric == Permutations(Attempts) \cup Permutations(SelfKeyed)

(* Either policy from the first attempt on: what bounds an edit of the      *)
(* settings to the time before any completion.                              *)
EditsComeFirst == settings' # settings => \A a \in Attempts : pc[a] = "idle"
================================================================================
