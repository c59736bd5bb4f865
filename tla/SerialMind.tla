------------------------------- MODULE SerialMind -------------------------------
(***************************************************************************)
(* What atomic() and commit() promise to the services built on them: the   *)
(* mind, its memories and its journal change as if the operations ran one  *)
(* at a time, each on the store the previous one left.  The one writer      *)
(* outside that order is the store's own remember(), called by             *)
(* consolidation: a memory it adds may escape a reading taken before.      *)
(***************************************************************************)
EXTENDS Naturals, Sequences

CONSTANTS
  InitialStores,
  Outcomes(_, _),  \* the stores a list of operations may leave, all or nothing
  Reading(_, _)    \* what reading a table of a store returns

VARIABLES
  store,        \* the three tables
  history,      \* the published operations, in order
  unversioned   \* memories added without a new revision

serialVars == <<store, history, unversioned>>

(* A reading o still tells the truth of store s. *)
Truthful(o, s, extra) ==
  IF o.table = "memory"
  THEN o.content \subseteq s.memory /\ s.memory \ o.content \subseteq extra
  ELSE o = Reading(s, o.table)

Init ==
  /\ store \in InitialStores
  /\ history = <<>>
  /\ unversioned = {}

(* One operation runs alone: everything it read is true of the store it     *)
(* changes, and all its operations take effect together.                    *)
Execute ==
  /\ Len(history') = Len(history) + 1
  /\ LET t == history'[Len(history')] IN
       /\ history' = Append(history, t)
       /\ \A o \in t.seen : Truthful(o, store, unversioned)
       /\ store' \in Outcomes(store, t.ops)
  /\ UNCHANGED unversioned

Consolidate ==
  /\ unversioned' = unversioned \cup (store'.memory \ store.memory)
  /\ store' = [store EXCEPT !.memory = store'.memory]
  /\ store.memory \subseteq store'.memory
  /\ UNCHANGED history

Next == Execute \/ Consolidate

Spec == Init /\ [][Next]_serialVars
================================================================================
