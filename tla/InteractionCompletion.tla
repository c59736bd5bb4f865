-------------------------- MODULE InteractionCompletion --------------------------
(***************************************************************************)
(* Completing interactions while the Mind has still to choose its name and  *)
(* pronouns: complete_interaction() and _commit_interaction() of            *)
(* mcp_service.py, the guards of naming.py, and the one operation that may  *)
(* change the identity, GovernanceSteward.invoke().                         *)
(*                                                                         *)
(* A guard loads the mind and then counts the qualifying journal entries:   *)
(* two reads, with any number of other steps between them.  The atomic      *)
(* operations are those of CognitiveCommit, of which only this remains      *)
(* here: what a call staged is published as a whole, if the revision it     *)
(* read before its method ran is still the current one.                     *)
(***************************************************************************)
EXTENDS Naturals, FiniteSets

CONSTANTS
  Callers,    \* calls of complete_interaction or of the governance steward
  Keys,       \* idempotency keys of interactions
  NoKey,      \* a direct call without one
  Pairs,      \* names and pronouns
  Nobody,     \* the identity is not complete
  MinCount,   \* MIN_NAMING_EXPERIENCES
  Required,   \* REQUIRED_NAMING_EXPERIENCES
  MaxEvents,  \* bound: qualifying entries of the steward in one review
  MaxCount    \* bound: the count at which the environment stops adding entries

ASSUME LimitsAssumption ==
  /\ MinCount \in Nat /\ Required \in Nat /\ MinCount <= Required
  /\ MaxEvents \in Nat /\ MaxCount \in Nat
ASSUME NamesAssumption == NoKey \notin Keys /\ Nobody \notin Pairs

VARIABLES
  identity,   \* the saved joint identity
  count,      \* qualifying journal experiences
  receipts,   \* what the commit receipt of each key says: none, saved, degraded
  outcomes,   \* what The Breaker's record says of each key
  pc,         \* where each call is
  key,        \* the key it completes
  candidate,  \* the pair it proposes, Nobody for a completion
  authorised, \* the human input is an explicit naming command
  loaded,     \* the identity the call has loaded, if any: {} or a singleton
  fresh,      \* the calls whose revision is still the current one
  staged,     \* qualifying entries staged so far
  result,     \* what became of its interaction: none, saved, degraded, failed
  committed,  \* the completions that were published (observer)
  faulted,    \* keys some attempt of which met a persistence fault (observer)
  late        \* completions that began when the identity was complete (observer)

mind == <<identity, count, receipts>>
arguments == <<key, candidate, authorised>>
observers == <<committed, faulted, late>>
vars == <<mind, outcomes, pc, arguments, loaded, fresh, staged, result, observers>>

Init ==
  /\ identity = Nobody
  /\ count \in 0..Required
  /\ receipts = [k \in Keys |-> "none"]
  /\ outcomes = [k \in Keys |-> "none"]
  /\ pc = [c \in Callers |-> "idle"]
  /\ key = [c \in Callers |-> NoKey]
  /\ candidate = [c \in Callers |-> Nobody]
  /\ authorised = [c \in Callers |-> FALSE]
  /\ loaded = [c \in Callers |-> {}]
  /\ fresh = {}
  /\ staged = [c \in Callers |-> 0]
  /\ result = [c \in Callers |-> "none"]
  /\ committed = {}
  /\ faulted = {}
  /\ late = {}

Done == {"presented", "withheld", "blocked", "accepted", "refused", "raised"}

(* A call that ends forgets what it held. *)
Goto(c, to) ==
  /\ pc' = [pc EXCEPT ![c] = to]
  /\ loaded' = [loaded EXCEPT ![c] = IF to = "replace" THEN @ ELSE {}]

Receipt(c) == IF key[c] = NoKey THEN "none" ELSE receipts[key[c]]

-----------------------------------------------------------------------------
BeginCompletion(c, k) ==
  /\ pc[c] = "idle"
  /\ Goto(c, "start")
  /\ key' = [key EXCEPT ![c] = k]
  /\ late' = IF identity = Nobody THEN late ELSE late \cup {c}
  /\ UNCHANGED <<mind, outcomes, candidate, authorised, fresh, staged, result, committed, faulted>>

BeginChoice(c, p, explicit) ==
  /\ pc[c] = "idle"
  /\ Goto(c, "revision")
  /\ candidate' = [candidate EXCEPT ![c] = p]
  /\ authorised' = [authorised EXCEPT ![c] = explicit]
  /\ UNCHANGED <<mind, outcomes, key, fresh, staged, result, observers>>

(* Every guard, and the steward, load the mind first. *)
LoadMind(c) ==
  /\ pc[c] \in {"start", "admit", "stage", "staged", "after", "conflict", "final", "consider"}
  /\ loaded[c] = {}
  /\ loaded' = [loaded EXCEPT ![c] = {identity}]
  /\ UNCHANGED <<mind, outcomes, pc, arguments, fresh, staged, result, observers>>

(* ensure_naming_ready(additional_entries), the count of a staged journal   *)
(* including what is staged on it.                                          *)
Ready(c, additional) == loaded[c] # {Nobody} \/ count + additional < Required

Additional(c) ==
  CASE pc[c] = "stage" -> staged[c] + 1
    [] pc[c] = "staged" -> staged[c]
    [] pc[c] \in {"admit", "conflict"} -> 1
    [] OTHER -> 0

(* Fault: a block is recorded like a failure. *)
BlockAsFailure(c) ==
  /\ pc[c] \in {"start", "admit", "stage", "staged", "after", "conflict"} /\ key[c] # NoKey
  /\ loaded[c] # {}
  /\ ~Ready(c, Additional(c))
  /\ Goto(c, "record")
  /\ result' = [result EXCEPT ![c] = "failed"]
  /\ fresh' = fresh \ {c}
  /\ UNCHANGED <<mind, outcomes, arguments, staged, observers>>

(* NamingChoiceRequired: the answer is withheld until a choice is made. *)
Block(c) ==
  /\ pc[c] \in {"start", "admit", "stage", "staged", "after", "conflict", "final"}
  /\ loaded[c] # {}
  /\ ~Ready(c, Additional(c))
  /\ Goto(c, "blocked")
  /\ fresh' = fresh \ {c}
  /\ UNCHANGED <<mind, outcomes, arguments, staged, result, observers>>

(* A guard holds, and the call goes on from there. *)
Pass(c, from, to) ==
  /\ pc[c] = from
  /\ loaded[c] # {}
  /\ Ready(c, Additional(c))
  /\ Goto(c, to)

PassStart(c) ==
  /\ Pass(c, "start", "receipt")
  /\ UNCHANGED <<mind, outcomes, arguments, fresh, staged, result, observers>>

-----------------------------------------------------------------------------
(* The atomic operation of a completion. *)

(* A saved result is returned whatever became of the answer before. *)
Replay(c) ==
  /\ pc[c] = "receipt"
  /\ Receipt(c) # "none"
  /\ Goto(c, "after")
  /\ result' = [result EXCEPT ![c] = Receipt(c)]
  /\ UNCHANGED <<mind, outcomes, arguments, fresh, staged, observers>>

NoReceipt(c) ==
  /\ pc[c] = "receipt"
  /\ Receipt(c) = "none"
  /\ Goto(c, "revision")
  /\ UNCHANGED <<mind, outcomes, arguments, fresh, staged, result, observers>>

ReadRevision(c) ==
  /\ pc[c] = "revision"
  /\ Goto(c, IF candidate[c] = Nobody THEN "admit" ELSE "consider")
  /\ fresh' = fresh \cup {c}
  /\ UNCHANGED <<mind, outcomes, arguments, staged, result, observers>>

PassAdmit(c) ==
  /\ Pass(c, "admit", "review")
  /\ UNCHANGED <<mind, outcomes, arguments, fresh, staged, result, observers>>

(* The steward reviews the interaction and stages its own events... *)
Review(c, events) ==
  /\ pc[c] = "review"
  /\ Goto(c, "stage")
  /\ staged' = [staged EXCEPT ![c] = events]
  /\ result' = [result EXCEPT ![c] = "saved"]
  /\ UNCHANGED <<mind, outcomes, arguments, fresh, observers>>

(* ... or cannot: with a key, the interaction alone is kept. *)
ReviewExhausted(c) ==
  /\ pc[c] = "review"
  /\ IF key[c] = NoKey
     THEN Goto(c, "raised") /\ fresh' = fresh \ {c} /\ UNCHANGED result
     ELSE /\ Goto(c, "stage")
          /\ result' = [result EXCEPT ![c] = "degraded"]
          /\ UNCHANGED fresh
  /\ UNCHANGED <<mind, outcomes, arguments, staged, observers>>

PassStage(c) ==
  /\ Pass(c, "stage", "staged")
  /\ staged' = [staged EXCEPT ![c] = @ + 1]
  /\ UNCHANGED <<mind, outcomes, arguments, fresh, result, observers>>

PassStaged(c) ==
  /\ Pass(c, "staged", "commit")
  /\ UNCHANGED <<mind, outcomes, arguments, fresh, staged, result, observers>>

(* Faults: the revision, or the receipt, is not compared at publication. *)
PublishableAtAnyRevision(c) == Receipt(c) = "none"
PublishableAgain(c) == c \in fresh

Publishable(c) == c \in fresh /\ Receipt(c) = "none"

Store(c) ==
  /\ pc[c] = "commit"
  /\ Publishable(c)
  /\ count' = count + staged[c]
  /\ receipts' = [k \in Keys |-> IF k = key[c] THEN result[c] ELSE receipts[k]]
  /\ fresh' = {}
  /\ committed' = committed \cup {c}
  /\ UNCHANGED <<identity, outcomes, arguments, staged, late>>

Publish(c) ==
  /\ Store(c)
  /\ Goto(c, "after")
  /\ UNCHANGED <<result, faulted>>

(* TaskDispatchError, TimeoutError, OSError: an outcome if there is a key. *)
Fail(c) ==
  /\ IF key[c] = NoKey THEN Goto(c, "raised") ELSE Goto(c, "record")
  /\ result' = [result EXCEPT ![c] = "failed"]
  /\ faulted' = faulted \cup ({key[c]} \cap Keys)

(* Published, but neither the reply nor the receipt arrived. *)
PublishUnanswered(c) == Store(c) /\ Fail(c)

(* A receipt of the same key saved by another attempt is as good. *)
Refuse(c) ==
  /\ pc[c] = "commit"
  /\ ~Publishable(c)
  /\ IF Receipt(c) # "none"
     THEN Goto(c, "after") /\ result' = [result EXCEPT ![c] = Receipt(c)]
     ELSE Goto(c, "conflict") /\ UNCHANGED result
  /\ fresh' = fresh \ {c}
  /\ UNCHANGED <<mind, outcomes, arguments, staged, observers>>

(* Fault: a conflict starts the atomic operation over. *)
PassConflictAgain(c) ==
  /\ Pass(c, "conflict", "revision")
  /\ staged' = [staged EXCEPT ![c] = 0]
  /\ UNCHANGED <<mind, outcomes, arguments, fresh, result, observers>>

(* CommitConflict: not a failure, the caller is told. *)
PassConflict(c) ==
  /\ Pass(c, "conflict", "raised")
  /\ UNCHANGED <<mind, outcomes, arguments, fresh, staged, result, observers>>

Fault(c) ==
  /\ pc[c] \in {"start", "receipt", "revision", "admit", "review", "stage", "staged", "commit", "after"}
  /\ candidate[c] = Nobody
  /\ Fail(c)
  /\ fresh' = fresh \ {c}
  /\ UNCHANGED <<mind, outcomes, arguments, staged, committed, late>>

-----------------------------------------------------------------------------
(* The rest of complete_interaction. *)

PassAfter(c) ==
  /\ Pass(c, "after", "record")
  /\ UNCHANGED <<mind, outcomes, arguments, fresh, staged, result, observers>>

(* _record_continuity_outcome: a success stays, a failure does not.  When   *)
(* the record cannot be written the completion goes on all the same.        *)
RecordOutcome(c) ==
  /\ pc[c] = "record"
  /\ Goto(c, "final")
  /\ \/ UNCHANGED outcomes
     \/ /\ key[c] # NoKey /\ outcomes[key[c]] # "succeeded"
        /\ outcomes' = [outcomes EXCEPT ![key[c]] =
                         IF result[c] = "failed" THEN "failed" ELSE "succeeded"]
  /\ UNCHANGED <<mind, arguments, fresh, staged, result, observers>>

(* Fault: the check before the bookkeeping is taken for the last one. *)
DeliverUnchecked(c) ==
  /\ pc[c] = "final" /\ loaded[c] # {}
  /\ Goto(c, "presented")
  /\ UNCHANGED <<mind, outcomes, arguments, fresh, staged, result, observers>>

(* The answer is presented, or withheld by The Breaker after a failure. *)
Deliver(c) ==
  /\ Pass(c, "final", "presented") \/ (result[c] = "failed" /\ Pass(c, "final", "withheld"))
  /\ UNCHANGED <<mind, outcomes, arguments, fresh, staged, result, observers>>

(* Nothing catches a fault of the last guards. *)
LastFault(c) ==
  /\ pc[c] \in {"conflict", "final"}
  /\ Goto(c, "raised")
  /\ UNCHANGED <<mind, outcomes, arguments, fresh, staged, result, observers>>

-----------------------------------------------------------------------------
(* GovernanceSteward.invoke. *)

Acceptable(c) ==
  /\ count >= MinCount
  /\ loaded[c] = {Nobody} \/ authorised[c]
  /\ loaded[c] # {candidate[c]}

Consider(c) ==
  /\ pc[c] = "consider"
  /\ loaded[c] # {}
  /\ IF Acceptable(c)
     THEN Goto(c, "replace") /\ UNCHANGED fresh
     ELSE Goto(c, "refused") /\ fresh' = fresh \ {c}
  /\ UNCHANGED <<mind, outcomes, arguments, staged, result, observers>>

(* replace_exact looks at the mind again, and so does the backend. *)
StageChoice(c) ==
  /\ pc[c] = "replace"
  /\ identity \in loaded[c]
  /\ pc' = [pc EXCEPT ![c] = "proposed"]
  /\ UNCHANGED <<mind, outcomes, arguments, loaded, fresh, staged, result, observers>>

(* Fault: a choice is published whatever happened since it was considered. *)
FitsAlways(c) == pc[c] = "proposed"

Fits(c) == c \in fresh /\ identity \in loaded[c]

PublishChoice(c) ==
  /\ pc[c] = "proposed"
  /\ Fits(c)
  /\ identity' = candidate[c]
  /\ count' = count + 1
  /\ fresh' = {}
  /\ Goto(c, "accepted") \/ Goto(c, "raised")
  /\ UNCHANGED <<receipts, outcomes, arguments, staged, result, observers>>

(* Another identity, another revision, or a fault: nothing is published. *)
ChoiceRaises(c) ==
  /\ pc[c] \in {"replace", "proposed"}
  /\ Goto(c, "raised")
  /\ fresh' = fresh \ {c}
  /\ UNCHANGED <<mind, outcomes, arguments, staged, result, observers>>

-----------------------------------------------------------------------------
(* Entries of the sleep cycle, the body and other services. *)
Experience ==
  /\ count < MaxCount
  /\ count' = count + 1
  /\ fresh' = {}
  /\ UNCHANGED <<identity, receipts, outcomes, pc, arguments, loaded, staged, result, observers>>

(* A checkpoint of the current-state ledger does not qualify. *)
Checkpoint ==
  /\ fresh # {}
  /\ fresh' = {}
  /\ UNCHANGED <<mind, outcomes, pc, arguments, loaded, staged, result, observers>>

(* A call whose process dies takes no more steps. *)
CallStep(c) ==
  \/ LoadMind(c) \/ Block(c)
  \/ PassStart(c) \/ Replay(c) \/ NoReceipt(c) \/ ReadRevision(c) \/ PassAdmit(c)
  \/ (\E events \in 0..MaxEvents : Review(c, events)) \/ ReviewExhausted(c)
  \/ PassStage(c) \/ PassStaged(c)
  \/ Publish(c) \/ PublishUnanswered(c) \/ Refuse(c) \/ PassConflict(c)
  \/ PassAfter(c) \/ RecordOutcome(c) \/ Deliver(c)
  \/ Consider(c) \/ StageChoice(c) \/ PublishChoice(c) \/ ChoiceRaises(c)

Next ==
  \/ \E c \in Callers :
       \/ \E k \in Keys \cup {NoKey} : BeginCompletion(c, k)
       \/ \E p \in Pairs, explicit \in BOOLEAN : BeginChoice(c, p, explicit)
       \/ CallStep(c)
       \/ Fault(c) \/ LastFault(c)
  \/ Experience \/ Checkpoint

Spec == Init /\ [][Next]_vars

(* A running call takes its next step. *)
FairSpec == Spec /\ \A c \in Callers : WF_vars(CallStep(c))

-----------------------------------------------------------------------------
(* The variables hold values of the program's kinds. *)
TypeOK ==
  /\ identity \in Pairs \cup {Nobody}
  /\ count \in Nat
  /\ receipts \in [Keys -> {"none", "saved", "degraded"}]
  /\ outcomes \in [Keys -> {"none", "failed", "succeeded"}]
  /\ pc \in [Callers -> Done \cup {"idle", "start", "receipt", "revision", "admit", "review",
             "stage", "staged", "commit", "after", "conflict", "record", "final",
             "consider", "replace", "proposed"}]
  /\ key \in [Callers -> Keys \cup {NoKey}]
  /\ candidate \in [Callers -> Pairs \cup {Nobody}]
  /\ authorised \in [Callers -> BOOLEAN]
  /\ loaded \in [Callers -> {{}} \cup {{i} : i \in Pairs \cup {Nobody}}]
  /\ fresh \subseteq Callers
  /\ staged \in [Callers -> 0..(MaxEvents + 1)]
  /\ result \in [Callers -> {"none", "saved", "degraded", "failed"}]
  /\ committed \subseteq Callers /\ faulted \subseteq Keys /\ late \subseteq Callers

(* An answer is delivered only to a Mind that has chosen its name, or still *)
(* has time to, at the moment of the delivery decision: whatever was        *)
(* published while the completion ran ("make the final delivery decision    *)
(* from one fresh snapshot", mcp_service.py line 395).                      *)
DeliveryIsReady ==
  [][ \A c \in Callers : pc[c] # pc'[c] /\ pc'[c] \in {"presented", "withheld"} =>
        identity # Nobody \/ count < Required ]_vars

(* No ordinary completion takes a Mind without a name to its limit, though  *)
(* other entries keep arriving between its checks and its publication       *)
(* (_commit_interaction, lines 444, 569 and 592).                           *)
CompletionsStopShort ==
  [][ committed' # committed => identity # Nobody \/ count' < Required ]_vars

(* A choice is published for an eligible Mind, and only an authorised one   *)
(* replaces an established identity, also when two first choices race       *)
(* (_consider_self_name, lines 119-205).                                    *)
IdentityIsGoverned ==
  [][ identity' # identity =>
        /\ count >= MinCount
        /\ identity' # Nobody
        /\ \E c \in Callers : /\ pc[c] = "proposed" /\ identity' = candidate[c]
                              /\ identity = Nobody \/ authorised[c] ]_vars

(* An interaction is published once, however often its answer was blocked,  *)
(* lost or refused and the completion retried, and an answer said to be     *)
(* saved is.                                                                *)
CommittedOnce ==
  /\ \A c, d \in committed : c # d => key[c] # key[d] \/ key[c] = NoKey
  /\ \A c \in Callers : pc[c] = "presented" /\ result[c] # "failed" =>
       \E d \in committed : d = c \/ (key[d] = key[c] /\ key[c] # NoKey)

(* "A blocked attempt ... does not poison the retry receipt or the          *)
(* persistence circuit" (docs/architecture/0016): The Breaker counts a key  *)
(* as failed only after a fault, and a key whose interaction is not in the  *)
(* journal has no receipt.                                                  *)
BlockingIsHarmless ==
  \A k \in Keys :
    /\ outcomes[k] = "failed" => k \in faulted
    /\ receipts[k] # "none" => \E c \in committed : key[c] = k

(* Once the choice is made no completion that begins afterwards is asked to *)
(* make it: the retry the blocked caller was promised goes through.         *)
ChoiceUnblocks == \A c \in late : pc[c] # "blocked"

(* Being blocked for want of a name costs an interaction nothing but time:  *)
(* it leaves no trace that a later attempt would trip over, and ends with   *)
(* the choice.                                                              *)
BlockingIsTemporary == TypeOK /\ BlockingIsHarmless /\ ChoiceUnblocks

(* Every call ends, also while checkpoints keep changing the revision. *)
EveryCallEnds == \A c \in Callers : pc[c] # "idle" ~> pc[c] \in Done
================================================================================
