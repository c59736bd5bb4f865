------------------------------ MODULE StagedStore ------------------------------
(***************************************************************************)
(* What a cognitive store holds and what a list of staged operations does  *)
(* to it: the overlay a method reads through before its operations are     *)
(* published (class StagedStore of commit.py) and the all-or-nothing        *)
(* application of the list by commit() of the same file.                   *)
(*                                                                         *)
(* A record is any value that is distinct from every other record: the     *)
(* program's minds, memories and journal entries carry times and texts     *)
(* that keep them apart.  The mind table holds at most one record.         *)
(***************************************************************************)
EXTENDS Naturals, Sequences, SequencesExt

CONSTANT Records

Tables == {"mind", "memory", "journal"}

Writes == { <<"mind", "initialize">>, <<"mind", "replace">>, <<"memory", "replace">>,
            <<"memory", "append">>, <<"journal", "append">> }

Stores == [mind: SUBSET Records, memory: SUBSET Records, journal: Seq(Records)]

(* An operation tuple (table, operation, before, after) of the staged list. *)
Initialize(r) == [table |-> "mind", operation |-> "initialize", before |-> r, after |-> r]
Replace(t, b, r) == [table |-> t, operation |-> "replace", before |-> b, after |-> r]
AppendTo(t, r) == [table |-> t, operation |-> "append", before |-> r, after |-> r]

Operations ==
  [table: Tables, operation: {"initialize", "replace", "append"}, before: Records, after: Records]

(* One operation seen through the overlay or carried out by the backend. *)
Effect(op, s) ==
  CASE op.operation = "replace" -> [s EXCEPT ![op.table] = (@ \ {op.before}) \cup {op.after}]
    [] op.operation = "initialize" -> [s EXCEPT !.mind = {op.after}]
    [] op.operation = "append" /\ op.table = "memory" -> [s EXCEPT !.memory = @ \cup {op.after}]
    [] OTHER -> [s EXCEPT !.journal = Append(@, op.after)]

(* The base with the first n of the staged operations laid over it.         *)
Laid(s, ops) ==
  LET laid[n \in 0..Len(ops)] == IF n = 0 THEN s ELSE Effect(ops[n], laid[n - 1])
  IN  laid

(* What StagedStore.read and StagedStore.load return. *)
Overlay(s, ops) == Laid(s, ops)[Len(ops)]

(* A backend carries an operation out only on the row it expects. *)
Fits(op, s) ==
  /\ op.operation = "initialize" => s.mind = {}
  /\ op.operation = "replace" => op.before \in s[op.table]

(* The result of a whole list: {the next store}, or {} when some operation  *)
(* does not fit and the transaction is rolled back.  The tables accept only *)
(* validated documents, hence the restriction to Stores.                    *)
Published(s, ops) ==
  { x \in {Overlay(s, ops)} :
      x \in Stores /\ \A n \in DOMAIN ops : Fits(ops[n], Laid(s, ops)[n - 1]) }

(* What a method learns by reading one table of a store. *)
Look(s, t) ==
  [table |-> t, content |-> IF t = "journal" THEN Len(s.journal) ELSE s[t]]
================================================================================
