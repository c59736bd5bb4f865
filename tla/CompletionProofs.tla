---------------------------- MODULE CompletionProofs ----------------------------
(***************************************************************************)
(* Proofs about InteractionCompletion: what completions and the choice of a *)
(* name may do to each other, for any calls, keys, names and limits.        *)
(***************************************************************************)
EXTENDS InteractionCompletion, TLAPS

Stages == Done \cup {"idle", "start", "receipt", "revision", "admit", "review",
                     "stage", "staged", "commit", "after", "conflict", "record", "final",
                     "consider", "replace", "proposed"}
Loads == {{}} \cup {{i} : i \in Pairs \cup {Nobody}}
Results == {"none", "saved", "degraded", "failed"}

\* The journal has the interaction that c completes, or an earlier attempt of it.
Kept(c) == \E d \in committed : d = c \/ (key[d] = key[c] /\ key[c] # NoKey)

\* What a call holds, where it is: at a stage, with a mind loaded, so many entries
\* staged and a result.
Holds(c, at, load, entries, res) ==
    \* Before it begins a call has left no trace.
    /\ at = "idle" => res = "none" /\ c \notin committed /\ c \notin late
    \* Nothing is staged before the review, and one entry at most after it.
    /\ at \in {"idle", "start", "receipt", "revision", "admit", "review"} => entries = 0
    /\ at = "stage" => entries <= MaxEvents
    /\ at \in {"stage", "staged", "commit"} => res \in {"saved", "degraded"}
    \* A call that is about to publish, and may, leaves time for a choice.
    /\ at = "commit" /\ c \in fresh => identity # Nobody \/ count + entries < Required
    \* What was considered of a choice still holds, but for the identity itself.
    /\ at \in {"consider", "replace", "proposed"} => candidate[c] \in Pairs
    /\ at \in {"replace", "proposed"} =>
          count >= MinCount /\ (load = {Nobody} \/ authorised[c])
    \* A name that was seen is not lost again.
    /\ load # {} /\ load # {Nobody} => identity # Nobody
    /\ c \in late => identity # Nobody /\ load # {Nobody} /\ at # "blocked"
    \* A failure is a fault's, and an answer said to be saved is.
    /\ res = "failed" => key[c] = NoKey \/ key[c] \in faulted
    /\ at \in {"after", "record", "final", "presented"} /\ res # "failed" => Kept(c)

CallSound(c) == Holds(c, pc[c], loaded[c], staged[c], result[c])

\* A key has a receipt exactly when the journal has its interaction, which it has
\* once; and only a fault is counted as a failure.
JournalSound ==
    /\ \A k \in Keys : receipts[k] # "none" <=> \E c \in committed : key[c] = k
    /\ \A c, d \in committed : c # d => key[c] # key[d] \/ key[c] = NoKey
    /\ \A k \in Keys : outcomes[k] = "failed" => k \in faulted

Sound == TypeOK /\ JournalSound /\ \A c \in Callers : CallSound(c)

-----------------------------------------------------------------------------
LEMMA InitiallySound == Init => Sound
<1> SUFFICES ASSUME Init PROVE Sound
    OBVIOUS
<1>1. TypeOK
    BY LimitsAssumption DEF Init, TypeOK
<1>2. JournalSound
    BY DEF Init, JournalSound
<1>3. ASSUME NEW c \in Callers PROVE CallSound(c)
    BY NamesAssumption DEF Init, CallSound, Holds
<1> QED
    BY <1>1, <1>2, <1>3 DEF Sound

\* A call that takes no step keeps what it holds, whatever the others do: a name
\* is not taken back, the journal only grows, and with the count goes every
\* revision that was read before.
LEMMA OthersHold ==
    ASSUME Sound, NEW d \in Callers,
           pc'[d] = pc[d], loaded'[d] = loaded[d], staged'[d] = staged[d], result'[d] = result[d],
           key'[d] = key[d], candidate'[d] = candidate[d], authorised'[d] = authorised[d],
           identity' = identity \/ identity' # Nobody,
           count' = count \/ (count' \in Nat /\ count' >= count /\ d \notin fresh'),
           d \in fresh' => d \in fresh, d \in late' => d \in late, d \in committed' => d \in committed,
           committed \subseteq committed', faulted \subseteq faulted',
           \A e \in committed : key'[e] = key[e]
    PROVE  CallSound(d)'
<1>1. CallSound(d) /\ count \in Nat
    BY DEF Sound, TypeOK
<1>2. Kept(d) => Kept(d)'
    BY DEF Kept
<1>3. count >= MinCount => count' >= MinCount
    BY <1>1, LimitsAssumption
<1> QED
    BY <1>1, <1>2, <1>3 DEF CallSound, Holds

\* A step that moves one call, and touches neither the mind nor the journal.
LEMMA CallMoves ==
    ASSUME Sound, NEW c \in Callers,
           NEW at \in Stages, NEW load \in Loads, NEW entries \in 0..(MaxEvents + 1),
           NEW res \in Results,
           pc' = [pc EXCEPT ![c] = at], loaded' = [loaded EXCEPT ![c] = load],
           staged' = [staged EXCEPT ![c] = entries], result' = [result EXCEPT ![c] = res],
           fresh' \subseteq fresh \cup {c},
           UNCHANGED <<mind, outcomes, arguments, observers>>,
           Holds(c, at, load, entries, res)'
    PROVE  Sound'
<1> USE DEF mind, arguments, observers
<1>1. TypeOK'
    BY DEF Sound, TypeOK, Stages, Loads, Results
<1>2. JournalSound'
    BY DEF Sound, JournalSound
<1>3. ASSUME NEW d \in Callers PROVE CallSound(d)'
  <2>1. CASE d = c
      BY <2>1 DEF Sound, TypeOK, CallSound
  <2>2. CASE d # c
      BY <2>2, OthersHold DEF Sound, TypeOK
  <2> QED
      BY <2>1, <2>2
<1> QED
    BY <1>1, <1>2, <1>3 DEF Sound

\* What is known of a call, as CallMoves asks for it.
LEMMA CallIs ==
    ASSUME Sound, NEW c \in Callers
    PROVE  /\ pc[c] \in Stages /\ loaded[c] \in Loads /\ {} \in Loads
           /\ staged[c] \in 0..(MaxEvents + 1) /\ result[c] \in Results
           /\ key[c] \in Keys \cup {NoKey} /\ candidate[c] \in Pairs \cup {Nobody}
           /\ pc = [pc EXCEPT ![c] = pc[c]] /\ loaded = [loaded EXCEPT ![c] = loaded[c]]
           /\ staged = [staged EXCEPT ![c] = staged[c]] /\ result = [result EXCEPT ![c] = result[c]]
           /\ identity \in Pairs \cup {Nobody}
           /\ CallSound(c)
    BY DEF Sound, TypeOK, Stages, Loads, Results

LEMMA LoadMindSound ==
    ASSUME Sound, NEW c \in Callers, LoadMind(c) PROVE Sound'
<1>1. PICK load \in Loads : load = {identity}
    BY CallIs DEF Loads
<1>2. PICK at \in Stages : at = pc[c]
    BY CallIs
<1>3. /\ loaded' = [loaded EXCEPT ![c] = load] /\ pc' = [pc EXCEPT ![c] = at]
      /\ UNCHANGED <<staged, result>> /\ fresh' \subseteq fresh \cup {c}
      /\ UNCHANGED <<mind, outcomes, arguments, observers>>
    BY <1>1, <1>2, CallIs DEF LoadMind
<1>4. Holds(c, at, load, staged[c], result[c])'
    BY <1>1, <1>2, <1>3, CallIs DEF LoadMind, CallSound, Holds, Kept, mind, arguments, observers
<1> QED
    BY <1>3, <1>4, CallIs, CallMoves

\* A step that only moves a call to another stage, where it has nothing loaded.
LEMMA CallGoes ==
    ASSUME Sound, NEW c \in Callers, NEW at \in Stages, at # "replace", Goto(c, at),
           UNCHANGED <<staged, result>>, fresh' \subseteq fresh \cup {c},
           UNCHANGED <<mind, outcomes, arguments, observers>>,
           Holds(c, at, {}, staged[c], result[c])'
    PROVE  Sound'
<1>1. /\ pc' = [pc EXCEPT ![c] = at] /\ loaded' = [loaded EXCEPT ![c] = {}]
      /\ staged' = [staged EXCEPT ![c] = staged[c]] /\ result' = [result EXCEPT ![c] = result[c]]
    BY CallIs DEF Goto
<1> QED
    BY <1>1, CallIs, CallMoves

LEMMA BlockSound ==
    ASSUME Sound, NEW c \in Callers, Block(c) PROVE Sound'
<1>1. /\ Goto(c, "blocked") /\ fresh' = fresh \ {c} /\ UNCHANGED <<staged, result>>
      /\ UNCHANGED <<mind, outcomes, arguments, observers>>
    BY DEF Block
<1>2. loaded[c] = {Nobody}
    BY DEF Block, Ready
<1>3. Holds(c, "blocked", {}, staged[c], result[c])'
    BY <1>1, <1>2, CallIs DEF CallSound, Holds, Kept, mind, arguments, observers
<1>4. "blocked" \in Stages /\ "blocked" # "replace"
    BY DEF Stages, Done
<1> QED
    BY <1>1, <1>3, <1>4, CallGoes

\* A guard that holds tells that there is a name, or time for it.
LEMMA ReadyMeans ==
    ASSUME Sound, NEW c \in Callers, NEW additional \in Nat, loaded[c] # {}, Ready(c, additional)
    PROVE  identity # Nobody \/ count + additional < Required
    BY CallIs DEF Ready, CallSound, Holds

LEMMA PassSound ==
    ASSUME Sound, NEW c \in Callers,
           PassStart(c) \/ PassAdmit(c) \/ PassStaged(c) \/ PassConflict(c) \/ PassAfter(c)
    PROVE  Sound'
<1>1. UNCHANGED <<mind, outcomes, arguments, fresh, staged, result, observers>>
    BY DEF PassStart, PassAdmit, PassStaged, PassConflict, PassAfter
<1> USE DEF CallSound, Holds, Kept, mind, arguments, observers, Pass
<1>2. CASE PassStart(c)
  <2>1. Goto(c, "receipt") /\ pc[c] = "start"
      BY <1>2 DEF PassStart
  <2>2. Holds(c, "receipt", {}, staged[c], result[c])'
      BY <1>1, <2>1, CallIs
  <2>3. "receipt" \in Stages
      BY DEF Stages
  <2> QED
      BY <1>1, <2>1, <2>2, <2>3, CallGoes
<1>3. CASE PassAdmit(c)
  <2>1. Goto(c, "review") /\ pc[c] = "admit"
      BY <1>3 DEF PassAdmit
  <2>2. Holds(c, "review", {}, staged[c], result[c])'
      BY <1>1, <2>1, CallIs
  <2>3. "review" \in Stages
      BY DEF Stages
  <2> QED
      BY <1>1, <2>1, <2>2, <2>3, CallGoes
<1>4. CASE PassStaged(c)
  <2>1. /\ Goto(c, "commit") /\ pc[c] = "staged" /\ loaded[c] # {} /\ Ready(c, staged[c])
      BY <1>4 DEF PassStaged, Additional
  <2>2. identity # Nobody \/ count + staged[c] < Required
      BY <2>1, CallIs, ReadyMeans
  <2>3. Holds(c, "commit", {}, staged[c], result[c])'
      BY <1>1, <2>1, <2>2, CallIs
  <2>4. "commit" \in Stages
      BY DEF Stages
  <2> QED
      BY <1>1, <2>1, <2>3, <2>4, CallGoes
<1>5. CASE PassConflict(c)
  <2>1. Goto(c, "raised") /\ pc[c] = "conflict"
      BY <1>5 DEF PassConflict
  <2>2. Holds(c, "raised", {}, staged[c], result[c])'
      BY <1>1, <2>1, CallIs
  <2>3. "raised" \in Stages
      BY DEF Stages, Done
  <2> QED
      BY <1>1, <2>1, <2>2, <2>3, CallGoes
<1>6. CASE PassAfter(c)
  <2>1. Goto(c, "record") /\ pc[c] = "after"
      BY <1>6 DEF PassAfter
  <2>2. Holds(c, "record", {}, staged[c], result[c])'
      BY <1>1, <2>1, CallIs
  <2>3. "record" \in Stages
      BY DEF Stages
  <2> QED
      BY <1>1, <2>1, <2>2, <2>3, CallGoes
<1> QED
    BY <1>2, <1>3, <1>4, <1>5, <1>6

\* A step that leaves a result and a number of entries.
LEMMA CallGoesWith ==
    ASSUME Sound, NEW c \in Callers, NEW at \in Stages, at # "replace", Goto(c, at),
           NEW entries \in 0..(MaxEvents + 1), staged' = [staged EXCEPT ![c] = entries],
           NEW res \in Results, result' = [result EXCEPT ![c] = res],
           fresh' \subseteq fresh \cup {c},
           UNCHANGED <<mind, outcomes, arguments, observers>>,
           Holds(c, at, {}, entries, res)'
    PROVE  Sound'
<1>1. pc' = [pc EXCEPT ![c] = at] /\ loaded' = [loaded EXCEPT ![c] = {}]
    BY DEF Goto
<1> QED
    BY <1>1, CallIs, CallMoves

LEMMA ReceiptSound ==
    ASSUME Sound, NEW c \in Callers, Replay(c) \/ NoReceipt(c) PROVE Sound'
<1> USE DEF mind, arguments, observers
<1>1. CASE Replay(c)
  <2>0. PICK r : r = Receipt(c)
      OBVIOUS
  <2>1. /\ Goto(c, "after") /\ result' = [result EXCEPT ![c] = r]
        /\ UNCHANGED <<mind, outcomes, arguments, fresh, staged, observers>>
      BY <1>1, <2>0 DEF Replay
  <2>2. r # "none" /\ r = receipts[key[c]] /\ key[c] \in Keys /\ r \in {"saved", "degraded"}
      BY <1>1, <2>0, CallIs DEF Replay, Receipt, Sound, TypeOK
  <2>3. Kept(c)
      BY <2>2, NamesAssumption DEF Sound, JournalSound, Kept
  <2>4. r \in Results /\ "after" \in Stages
      BY <2>2 DEF Results, Stages
  <2>5. Kept(c)' /\ pc[c] = "receipt"
      BY <1>1, <2>1, <2>3 DEF Kept, Replay
  <2>6. Holds(c, "after", {}, staged[c], r)'
      BY <2>1, <2>2, <2>5, CallIs DEF CallSound, Holds
  <2>7. /\ staged' = [staged EXCEPT ![c] = staged[c]] /\ fresh' \subseteq fresh \cup {c}
      BY <2>1, CallIs
  <2> QED
      BY <2>1, <2>4, <2>6, <2>7, CallIs, CallGoesWith
<1>2. CASE NoReceipt(c)
  <2>1. /\ Goto(c, "revision") /\ pc[c] = "receipt"
        /\ UNCHANGED <<mind, outcomes, arguments, fresh, staged, result, observers>>
      BY <1>2 DEF NoReceipt
  <2>2. Holds(c, "revision", {}, staged[c], result[c])'
      BY <2>1, CallIs DEF CallSound, Holds, Kept
  <2>3. "revision" \in Stages
      BY DEF Stages
  <2> QED
      BY <2>1, <2>2, <2>3, CallGoes
<1> QED
    BY <1>1, <1>2

LEMMA ReadRevisionSound ==
    ASSUME Sound, NEW c \in Callers, ReadRevision(c) PROVE Sound'
<1> USE DEF mind, arguments, observers
<1>1. /\ pc[c] = "revision" /\ fresh' = fresh \cup {c}
      /\ UNCHANGED <<mind, outcomes, arguments, staged, result, observers>>
    BY DEF ReadRevision
<1>2. PICK at \in {"admit", "consider"} :
        Goto(c, at) /\ (at = "consider" => candidate[c] # Nobody)
    BY DEF ReadRevision
<1>3. Holds(c, at, {}, staged[c], result[c])'
    BY <1>1, <1>2, CallIs DEF CallSound, Holds, Kept
<1>4. at \in Stages /\ at # "replace"
    BY DEF Stages
<1> QED
    BY <1>1, <1>2, <1>3, <1>4, CallGoes

LEMMA ReviewSound ==
    ASSUME Sound, NEW c \in Callers,
           ReviewExhausted(c) \/ \E events \in 0..MaxEvents : Review(c, events)
    PROVE  Sound'
<1> USE DEF mind, arguments, observers
<1>1. "stage" \in Stages /\ "raised" \in Stages /\ "saved" \in Results /\ "degraded" \in Results
    BY DEF Stages, Done, Results
<1>2. ASSUME NEW events \in 0..MaxEvents, Review(c, events) PROVE Sound'
  <2>1. /\ Goto(c, "stage") /\ staged' = [staged EXCEPT ![c] = events] /\ pc[c] = "review"
        /\ result' = [result EXCEPT ![c] = "saved"] /\ fresh' \subseteq fresh \cup {c}
        /\ UNCHANGED <<mind, outcomes, arguments, fresh, observers>>
      BY <1>2 DEF Review
  <2>2. Holds(c, "stage", {}, events, "saved")'
      BY <2>1, CallIs, LimitsAssumption DEF CallSound, Holds, Kept
  <2>3. events \in 0..(MaxEvents + 1)
      BY LimitsAssumption
  <2> QED
      BY <1>1, <2>1, <2>2, <2>3, CallGoesWith
<1>3. CASE ReviewExhausted(c) /\ key[c] = NoKey
  <2>1. /\ Goto(c, "raised") /\ fresh' \subseteq fresh \cup {c} /\ pc[c] = "review"
        /\ UNCHANGED <<mind, outcomes, arguments, staged, result, observers>>
      BY <1>3 DEF ReviewExhausted
  <2>2. Holds(c, "raised", {}, staged[c], result[c])'
      BY <2>1, CallIs DEF CallSound, Holds, Kept
  <2> QED
      BY <1>1, <2>1, <2>2, CallGoes
<1>4. CASE ReviewExhausted(c) /\ key[c] # NoKey
  <2>1. /\ Goto(c, "stage") /\ staged' = [staged EXCEPT ![c] = staged[c]] /\ pc[c] = "review"
        /\ result' = [result EXCEPT ![c] = "degraded"] /\ fresh' \subseteq fresh \cup {c}
        /\ UNCHANGED <<mind, outcomes, arguments, fresh, observers>>
      BY <1>4, CallIs DEF ReviewExhausted
  <2>2. Holds(c, "stage", {}, staged[c], "degraded")'
      BY <2>1, CallIs, LimitsAssumption DEF CallSound, Holds, Kept
  <2> QED
      BY <1>1, <2>1, <2>2, CallIs, CallGoesWith
<1> QED
    BY <1>2, <1>3, <1>4

LEMMA PassStageSound ==
    ASSUME Sound, NEW c \in Callers, PassStage(c) PROVE Sound'
<1> USE DEF mind, arguments, observers
<1>1. pc[c] = "stage" /\ staged[c] + 1 \in 0..(MaxEvents + 1)
    BY CallIs, LimitsAssumption DEF PassStage, Pass, CallSound, Holds
<1>2. PICK entries \in 0..(MaxEvents + 1) : entries = staged[c] + 1
    BY <1>1
<1>3. /\ Goto(c, "staged") /\ staged' = [staged EXCEPT ![c] = entries] /\ UNCHANGED result
      /\ fresh' \subseteq fresh \cup {c}
      /\ UNCHANGED <<mind, outcomes, arguments, fresh, observers>>
    BY <1>2, CallIs DEF PassStage, Pass
<1>4. Holds(c, "staged", {}, entries, result[c])'
    BY <1>1, <1>3, CallIs DEF CallSound, Holds, Kept
<1>5. "staged" \in Stages
    BY DEF Stages
<1> QED
    BY <1>3, <1>4, <1>5, CallIs, CallGoesWith

LEMMA RefuseSound ==
    ASSUME Sound, NEW c \in Callers, Refuse(c) PROVE Sound'
<1> USE DEF mind, arguments, observers
<1>1. pc[c] = "commit" /\ fresh' = fresh \ {c} /\ UNCHANGED <<mind, outcomes, arguments, staged, observers>>
    BY DEF Refuse
<1>2. CASE Receipt(c) # "none"
  <2>0. PICK r : r = Receipt(c)
      OBVIOUS
  <2>1. r # "none" /\ r = receipts[key[c]] /\ key[c] \in Keys /\ r \in {"saved", "degraded"}
      BY <1>2, <2>0, CallIs DEF Receipt, Sound, TypeOK
  <2>2. Kept(c)
      BY <2>1, NamesAssumption DEF Sound, JournalSound, Kept
  <2>3. Goto(c, "after") /\ result' = [result EXCEPT ![c] = r]
      BY <1>2, <2>0 DEF Refuse
  <2>4. r \in Results /\ "after" \in Stages
      BY <2>1 DEF Results, Stages
  <2>5. Kept(c)'
      BY <1>1, <2>2 DEF Kept
  <2>6. Holds(c, "after", {}, staged[c], r)'
      BY <1>1, <2>1, <2>3, <2>5, CallIs DEF CallSound, Holds
  <2>7. /\ staged' = [staged EXCEPT ![c] = staged[c]] /\ fresh' \subseteq fresh \cup {c}
      BY <1>1, CallIs
  <2> QED
      BY <1>1, <2>3, <2>4, <2>6, <2>7, CallIs, CallGoesWith
<1>3. CASE Receipt(c) = "none"
  <2>1. Goto(c, "conflict") /\ UNCHANGED <<staged, result>> /\ fresh' \subseteq fresh \cup {c}
      BY <1>1, <1>3 DEF Refuse
  <2>2. Holds(c, "conflict", {}, staged[c], result[c])'
      BY <1>1, <2>1, CallIs DEF CallSound, Holds, Kept
  <2>3. "conflict" \in Stages
      BY DEF Stages
  <2> QED
      BY <1>1, <2>1, <2>2, <2>3, CallGoes
<1> QED
    BY <1>2, <1>3

\* The numbers and results a call already has, as constants.
LEMMA CallHas ==
    ASSUME Sound, NEW c \in Callers
    PROVE  \E load \in Loads, entries \in 0..(MaxEvents + 1), res \in Results :
             /\ load = loaded[c] /\ entries = staged[c] /\ res = result[c]
             /\ loaded = [loaded EXCEPT ![c] = load]
             /\ staged = [staged EXCEPT ![c] = entries] /\ result = [result EXCEPT ![c] = res]
    BY CallIs

\* A step of one call that reaches the journal, the record or the identity.
LEMMA CallActs ==
    ASSUME Sound, NEW c \in Callers,
           NEW at \in Stages, NEW load \in Loads, NEW entries \in 0..(MaxEvents + 1),
           NEW res \in Results,
           pc' = [pc EXCEPT ![c] = at], loaded' = [loaded EXCEPT ![c] = load],
           staged' = [staged EXCEPT ![c] = entries], result' = [result EXCEPT ![c] = res],
           UNCHANGED <<arguments, late>>,
           identity' = identity \/ identity' \in Pairs,
           count' = count \/ (count' \in Nat /\ count' >= count /\ fresh' = {}),
           fresh' \subseteq fresh \cup {c},
           receipts' \in [Keys -> {"none", "saved", "degraded"}],
           outcomes' \in [Keys -> {"none", "failed", "succeeded"}],
           committed' = committed \/ committed' = committed \cup {c},
           faulted \subseteq faulted', faulted' \subseteq Keys,
           JournalSound', Holds(c, at, load, entries, res)'
    PROVE  Sound'
<1> USE DEF arguments
<1>1. TypeOK'
    BY DEF Sound, TypeOK, Stages, Loads, Results
<1>2. ASSUME NEW d \in Callers PROVE CallSound(d)'
  <2>1. CASE d = c
      BY <2>1 DEF Sound, TypeOK, CallSound
  <2>2. CASE d # c
      BY <2>2, OthersHold, NamesAssumption DEF Sound, TypeOK
  <2> QED
      BY <2>1, <2>2
<1> QED
    BY <1>1, <1>2 DEF Sound

LEMMA RecordOutcomeSound ==
    ASSUME Sound, NEW c \in Callers, RecordOutcome(c) PROVE Sound'
<1> USE DEF mind, arguments, observers
<1>1. /\ pc[c] = "record" /\ UNCHANGED <<mind, arguments, fresh, staged, result, observers>>
      /\ Goto(c, "final")
    BY DEF RecordOutcome
<1>2. "final" \in Stages
    BY DEF Stages
<1>0. PICK entries \in 0..(MaxEvents + 1), res \in Results :
        /\ entries = staged[c] /\ res = result[c]
        /\ staged = [staged EXCEPT ![c] = entries] /\ result = [result EXCEPT ![c] = res]
    BY CallHas
<1>3. /\ pc' = [pc EXCEPT ![c] = "final"] /\ loaded' = [loaded EXCEPT ![c] = {}]
      /\ staged' = [staged EXCEPT ![c] = entries] /\ result' = [result EXCEPT ![c] = res]
    BY <1>0, <1>1, CallIs DEF Goto
<1>4. Holds(c, "final", {}, entries, res)'
    BY <1>0, <1>1, CallIs DEF CallSound, Holds, Kept
<1>5. /\ outcomes' \in [Keys -> {"none", "failed", "succeeded"}]
      /\ \A k \in Keys : outcomes'[k] = "failed" => k \in faulted
  <2>1. CASE UNCHANGED outcomes
      BY <2>1 DEF Sound, TypeOK, JournalSound
  <2>2. CASE outcomes' # outcomes
    <3>1. PICK o \in {"failed", "succeeded"} :
            /\ outcomes' = [outcomes EXCEPT ![key[c]] = o]
            /\ o = "failed" => result[c] = "failed"
        BY <2>2 DEF RecordOutcome
    <3>2. key[c] \in Keys
        BY <2>2, CallIs DEF RecordOutcome
    <3>3. o = "failed" => key[c] \in faulted
        BY <3>1, <3>2, NamesAssumption, CallIs DEF CallSound, Holds
    <3> QED
        BY <3>1, <3>2, <3>3 DEF Sound, TypeOK, JournalSound
  <2> QED
      BY <2>1, <2>2
<1>6. JournalSound'
    BY <1>1, <1>5 DEF Sound, JournalSound
<1>7. receipts' \in [Keys -> {"none", "saved", "degraded"}] /\ faulted' \subseteq Keys
    BY <1>1 DEF Sound, TypeOK
<1> QED
    BY <1>1, <1>2, <1>3, <1>4, <1>5, <1>6, <1>7, CallIs, CallActs

LEMMA DeliverSound ==
    ASSUME Sound, NEW c \in Callers, Deliver(c) \/ LastFault(c) PROVE Sound'
<1> USE DEF mind, arguments, observers
<1>1. PICK at \in {"presented", "withheld", "raised"} :
        Goto(c, at) /\ (at = "presented" => pc[c] = "final")
    BY DEF Deliver, LastFault, Pass
<1>2. /\ pc[c] \in {"conflict", "final"}
      /\ UNCHANGED <<mind, outcomes, arguments, fresh, staged, result, observers>>
    BY DEF Deliver, LastFault, Pass
<1>3. Holds(c, at, {}, staged[c], result[c])'
    BY <1>1, <1>2, CallIs DEF CallSound, Holds, Kept
<1>4. at \in Stages /\ at # "replace"
    BY DEF Stages, Done
<1> QED
    BY <1>1, <1>2, <1>3, <1>4, CallGoes

LEMMA ConsiderSound ==
    ASSUME Sound, NEW c \in Callers, Consider(c) PROVE Sound'
<1> USE DEF mind, arguments, observers
<1>1. /\ pc[c] = "consider" /\ UNCHANGED <<mind, outcomes, arguments, staged, result, observers>>
      /\ fresh' \subseteq fresh \cup {c}
    BY DEF Consider
<1>2. "replace" \in Stages /\ "refused" \in Stages
    BY DEF Stages, Done
<1>3. CASE Acceptable(c)
  <2>1. PICK load \in Loads, entries \in 0..(MaxEvents + 1), res \in Results :
          /\ load = loaded[c] /\ entries = staged[c] /\ res = result[c]
          /\ loaded = [loaded EXCEPT ![c] = load]
          /\ staged = [staged EXCEPT ![c] = entries] /\ result = [result EXCEPT ![c] = res]
      BY CallHas
  <2>2. /\ pc' = [pc EXCEPT ![c] = "replace"] /\ loaded' = [loaded EXCEPT ![c] = load]
        /\ UNCHANGED fresh
      BY <1>3, <2>1 DEF Consider, Goto
  <2>3. Holds(c, "replace", load, entries, res)'
      BY <1>1, <1>3, <2>1, <2>2, CallIs DEF CallSound, Holds, Kept, Acceptable
  <2>4. /\ staged' = [staged EXCEPT ![c] = entries] /\ result' = [result EXCEPT ![c] = res]
      BY <1>1, <2>1
  <2> QED
      BY <1>1, <1>2, <2>2, <2>3, <2>4, CallIs, CallMoves
<1>4. CASE ~Acceptable(c)
  <2>1. Goto(c, "refused")
      BY <1>4 DEF Consider
  <2>2. Holds(c, "refused", {}, staged[c], result[c])'
      BY <1>1, CallIs DEF CallSound, Holds, Kept
  <2> QED
      BY <1>1, <1>2, <2>1, <2>2, CallGoes
<1> QED
    BY <1>3, <1>4

LEMMA StageChoiceSound ==
    ASSUME Sound, NEW c \in Callers, StageChoice(c) \/ ChoiceRaises(c) PROVE Sound'
<1> USE DEF mind, arguments, observers
<1>1. "proposed" \in Stages /\ "raised" \in Stages
    BY DEF Stages, Done
<1>2. CASE StageChoice(c)
  <2>1. PICK load \in Loads, entries \in 0..(MaxEvents + 1), res \in Results :
          /\ load = loaded[c] /\ entries = staged[c] /\ res = result[c]
          /\ loaded = [loaded EXCEPT ![c] = load]
          /\ staged = [staged EXCEPT ![c] = entries] /\ result = [result EXCEPT ![c] = res]
      BY CallHas
  <2>2. /\ pc[c] = "replace" /\ pc' = [pc EXCEPT ![c] = "proposed"]
        /\ loaded' = [loaded EXCEPT ![c] = load] /\ fresh' \subseteq fresh \cup {c}
        /\ UNCHANGED <<mind, outcomes, arguments, fresh, staged, result, observers>>
      BY <1>2, <2>1, CallIs DEF StageChoice
  <2>3. Holds(c, "proposed", load, entries, res)'
      BY <2>1, <2>2, CallIs DEF CallSound, Holds, Kept
  <2>4. /\ staged' = [staged EXCEPT ![c] = entries] /\ result' = [result EXCEPT ![c] = res]
      BY <2>1, <2>2
  <2> QED
      BY <1>1, <2>2, <2>3, <2>4, CallIs, CallMoves
<1>3. CASE ChoiceRaises(c)
  <2>1. /\ pc[c] \in {"replace", "proposed"} /\ fresh' \subseteq fresh \cup {c} /\ Goto(c, "raised")
        /\ UNCHANGED <<mind, outcomes, arguments, staged, result, observers>>
      BY <1>3 DEF ChoiceRaises
  <2>2. Holds(c, "raised", {}, staged[c], result[c])'
      BY <2>1, CallIs DEF CallSound, Holds, Kept
  <2> QED
      BY <1>1, <2>1, <2>2, CallGoes
<1> QED
    BY <1>2, <1>3

LEMMA PublishChoiceSound ==
    ASSUME Sound, NEW c \in Callers, PublishChoice(c) PROVE Sound'
<1> USE DEF arguments, observers
<1>1. /\ pc[c] = "proposed" /\ identity' = candidate[c] /\ count' = count + 1 /\ fresh' = {}
      /\ UNCHANGED <<receipts, outcomes, arguments, staged, result, observers>>
    BY DEF PublishChoice
<1>2. PICK at \in {"accepted", "raised"} : Goto(c, at)
    BY DEF PublishChoice
<1>3. at \in Stages /\ at # "replace"
    BY DEF Stages, Done
<1>0. PICK entries \in 0..(MaxEvents + 1), res \in Results :
        /\ entries = staged[c] /\ res = result[c]
        /\ staged = [staged EXCEPT ![c] = entries] /\ result = [result EXCEPT ![c] = res]
    BY CallHas
<1>4. /\ pc' = [pc EXCEPT ![c] = at] /\ loaded' = [loaded EXCEPT ![c] = {}]
      /\ staged' = [staged EXCEPT ![c] = entries] /\ result' = [result EXCEPT ![c] = res]
    BY <1>0, <1>1, <1>2, <1>3, CallIs DEF Goto
<1>5. identity' \in Pairs /\ candidate[c] \in Pairs
    BY <1>1, CallIs DEF CallSound, Holds
<1>6. Holds(c, at, {}, entries, res)'
    BY <1>0, <1>1, <1>2, <1>5, NamesAssumption, CallIs DEF CallSound, Holds, Kept
<1>7. count' \in Nat /\ count' >= count
    BY <1>1 DEF Sound, TypeOK
<1>8. JournalSound'
    BY <1>1 DEF Sound, JournalSound
<1>9. /\ receipts' \in [Keys -> {"none", "saved", "degraded"}] /\ faulted' \subseteq Keys
      /\ outcomes' \in [Keys -> {"none", "failed", "succeeded"}]
    BY <1>1 DEF Sound, TypeOK
<1> QED
    BY <1>1, <1>3, <1>4, <1>5, <1>6, <1>7, <1>8, <1>9, CallIs, CallActs

LEMMA FaultSound ==
    ASSUME Sound, NEW c \in Callers, Fault(c) PROVE Sound'
<1> USE DEF mind, arguments, observers
<1>1. /\ candidate[c] = Nobody /\ fresh' \subseteq fresh \cup {c} /\ Fail(c)
      /\ UNCHANGED <<mind, outcomes, arguments, staged, committed, late>>
    BY DEF Fault
<1>2. PICK at \in {"raised", "record"} : Goto(c, at)
    BY <1>1 DEF Fail
<1>3. at \in Stages /\ at # "replace" /\ "failed" \in Results
    BY DEF Stages, Done, Results
<1>4. PICK entries \in 0..(MaxEvents + 1) :
        entries = staged[c] /\ staged = [staged EXCEPT ![c] = entries]
    BY CallHas
<1>5. /\ pc' = [pc EXCEPT ![c] = at] /\ loaded' = [loaded EXCEPT ![c] = {}]
      /\ staged' = [staged EXCEPT ![c] = entries] /\ result' = [result EXCEPT ![c] = "failed"]
    BY <1>1, <1>2, <1>3, <1>4 DEF Goto, Fail
<1>6. faulted' = faulted \cup ({key[c]} \cap Keys)
    BY <1>1 DEF Fail
<1>7. Holds(c, at, {}, entries, "failed")'
    BY <1>1, <1>4, <1>6, CallIs DEF CallSound, Holds, Kept, Fault
<1>8. JournalSound'
    BY <1>1, <1>6 DEF Sound, JournalSound
<1>9. /\ receipts' \in [Keys -> {"none", "saved", "degraded"}] /\ faulted' \subseteq Keys
      /\ outcomes' \in [Keys -> {"none", "failed", "succeeded"}]
    BY <1>1, <1>6 DEF Sound, TypeOK
<1> QED
    BY <1>1, <1>3, <1>5, <1>6, <1>7, <1>8, <1>9, CallIs, CallActs

\* Publication: one interaction of the key, and room left for a choice.
LEMMA StoreKeeps ==
    ASSUME Sound, NEW c \in Callers, Store(c), faulted \subseteq faulted'
    PROVE  /\ identity # Nobody \/ count' < Required
           /\ count' \in Nat /\ count' >= count
           /\ receipts' \in [Keys -> {"none", "saved", "degraded"}]
           /\ JournalSound'
<1> USE DEF mind, arguments, observers
<1>1. /\ pc[c] = "commit" /\ c \in fresh /\ Receipt(c) = "none"
      /\ count' = count + staged[c] /\ committed' = committed \cup {c}
      /\ receipts' = [k \in Keys |-> IF k = key[c] THEN result[c] ELSE receipts[k]]
      /\ UNCHANGED <<identity, outcomes, arguments, staged, late>>
    BY DEF Store, Publishable
<1>2. result[c] \in {"saved", "degraded"}
    BY <1>1, CallIs DEF CallSound, Holds
<1>3. identity # Nobody \/ count' < Required
    BY <1>1, CallIs DEF CallSound, Holds
<1>4. count' \in Nat /\ count' >= count
    BY <1>1, CallIs DEF Sound, TypeOK
<1>5. receipts' \in [Keys -> {"none", "saved", "degraded"}]
    BY <1>1, <1>2 DEF Sound, TypeOK
<1>6. \A k \in Keys : receipts'[k] # "none" <=> \E e \in committed' : key'[e] = k
  <2> SUFFICES ASSUME NEW k \in Keys
               PROVE  receipts'[k] # "none" <=> \E e \in committed' : key'[e] = k
      OBVIOUS
  <2>1. CASE k = key[c]
      BY <1>1, <1>2, <2>1
  <2>2. CASE k # key[c]
      BY <1>1, <2>2 DEF Sound, JournalSound
  <2> QED
      BY <2>1, <2>2
<1>7. \A d, e \in committed' : d # e => key'[d] # key'[e] \/ key'[d] = NoKey
  <2>1. key[c] = NoKey \/ \A e \in committed : key[e] # key[c]
      BY <1>1, CallIs DEF Receipt, Sound, JournalSound
  <2> QED
      BY <1>1, <2>1 DEF Sound, JournalSound
<1>8. \A k \in Keys : outcomes'[k] = "failed" => k \in faulted'
    BY <1>1 DEF Sound, JournalSound
<1>9. JournalSound'
    BY <1>6, <1>7, <1>8 DEF JournalSound
<1> QED
    BY <1>3, <1>4, <1>5, <1>9

LEMMA PublishSound ==
    ASSUME Sound, NEW c \in Callers, Publish(c) \/ PublishUnanswered(c) PROVE Sound'
<1> USE DEF arguments, observers
<1>1. /\ pc[c] = "commit" /\ count' = count + staged[c] /\ fresh' = {}
      /\ committed' = committed \cup {c}
      /\ UNCHANGED <<identity, outcomes, arguments, staged, late>>
    BY DEF Publish, PublishUnanswered, Store
<1>2. PICK at \in {"after", "raised", "record"}, res \in Results :
        /\ Goto(c, at) /\ result' = [result EXCEPT ![c] = res]
        /\ res # "failed" => at = "after" /\ res = result[c]
        /\ res = "failed" /\ key[c] \in Keys => key[c] \in faulted'
        /\ faulted \subseteq faulted' /\ faulted' \subseteq faulted \cup Keys
  <2>1. CASE Publish(c)
    <3>1. Goto(c, "after") /\ result' = [result EXCEPT ![c] = result[c]] /\ faulted' = faulted
        BY <2>1, CallIs DEF Publish
    <3>2. result[c] \in {"saved", "degraded"}
        BY <1>1, CallIs DEF CallSound, Holds
    <3> QED
        BY <3>1, <3>2 DEF Results
  <2>2. CASE PublishUnanswered(c)
    <3>1. /\ Goto(c, "raised") \/ Goto(c, "record")
          /\ result' = [result EXCEPT ![c] = "failed"]
          /\ faulted' = faulted \cup ({key[c]} \cap Keys)
        BY <2>2 DEF PublishUnanswered, Fail
    <3> QED
        BY <3>1 DEF Results
  <2> QED
      BY <2>1, <2>2
<1>3. at \in Stages /\ at # "replace"
    BY DEF Stages, Done
<1>4. PICK entries \in 0..(MaxEvents + 1) :
        entries = staged[c] /\ staged = [staged EXCEPT ![c] = entries]
    BY CallHas
<1>5. /\ pc' = [pc EXCEPT ![c] = at] /\ loaded' = [loaded EXCEPT ![c] = {}]
      /\ staged' = [staged EXCEPT ![c] = entries]
    BY <1>1, <1>2, <1>3, <1>4 DEF Goto
<1>6. Store(c)
    BY DEF Publish, PublishUnanswered
<1>7. /\ count' \in Nat /\ count' >= count /\ JournalSound'
      /\ receipts' \in [Keys -> {"none", "saved", "degraded"}]
    BY <1>2, <1>6, StoreKeeps
<1>8. Holds(c, at, {}, entries, res)'
    BY <1>1, <1>2, <1>4, CallIs DEF CallSound, Holds, Kept
<1>9. faulted' \subseteq Keys /\ outcomes' \in [Keys -> {"none", "failed", "succeeded"}]
    BY <1>1, <1>2 DEF Sound, TypeOK
<1> QED
    BY <1>1, <1>2, <1>3, <1>5, <1>7, <1>8, <1>9, CallIs, CallActs

\* A call begins: it has left nothing that could be attributed to it.
LEMMA BeginSound ==
    ASSUME Sound, NEW c \in Callers, pc[c] = "idle",
           NEW at \in {"start", "revision"}, Goto(c, at),
           key' = key \/ \E k \in Keys \cup {NoKey} : key' = [key EXCEPT ![c] = k],
           \/ UNCHANGED <<candidate, authorised>>
           \/ \E p \in Pairs, explicit \in BOOLEAN :
                /\ candidate' = [candidate EXCEPT ![c] = p]
                /\ authorised' = [authorised EXCEPT ![c] = explicit],
           late' = late \/ (identity # Nobody /\ late' = late \cup {c}),
           UNCHANGED <<mind, outcomes, fresh, staged, result, committed, faulted>>
    PROVE  Sound'
<1> USE DEF mind
<1>1. pc' = [pc EXCEPT ![c] = at] /\ loaded' = [loaded EXCEPT ![c] = {}]
    BY DEF Goto
<1>2. /\ \A d \in Callers : d # c => /\ key'[d] = key[d] /\ candidate'[d] = candidate[d]
                                     /\ authorised'[d] = authorised[d]
      /\ key' \in [Callers -> Keys \cup {NoKey}]
      /\ candidate' \in [Callers -> Pairs \cup {Nobody}] /\ authorised' \in [Callers -> BOOLEAN]
    BY DEF Sound, TypeOK
<1>3. TypeOK'
    BY <1>1, <1>2 DEF Sound, TypeOK
<1>4. c \notin committed /\ \A d \in committed : d \in Callers /\ key'[d] = key[d]
    BY <1>2, CallIs DEF Sound, TypeOK, CallSound, Holds
<1>5. JournalSound'
    BY <1>4 DEF Sound, JournalSound
<1>6. ASSUME NEW d \in Callers PROVE CallSound(d)'
  <2>1. CASE d = c
    <3>1. /\ pc'[c] = at /\ loaded'[c] = {} /\ staged'[c] = 0 /\ result'[c] = "none"
        BY <1>1, CallIs DEF Sound, TypeOK, CallSound, Holds
    <3>2. c \notin committed /\ (c \in late' => identity # Nobody)
        BY <1>4, CallIs DEF CallSound, Holds
    <3> QED
        BY <2>1, <3>1, <3>2 DEF CallSound, Holds
  <2>2. CASE d # c
      BY <1>1, <1>2, <1>4, <2>2, OthersHold DEF Sound, TypeOK
  <2> QED
      BY <2>1, <2>2
<1> QED
    BY <1>3, <1>5, <1>6 DEF Sound

LEMMA BeginningsSound ==
    ASSUME Sound, NEW c \in Callers,
           \/ \E k \in Keys \cup {NoKey} : BeginCompletion(c, k)
           \/ \E p \in Pairs, explicit \in BOOLEAN : BeginChoice(c, p, explicit)
    PROVE  Sound'
<1>1. ASSUME NEW k \in Keys \cup {NoKey}, BeginCompletion(c, k) PROVE Sound'
  <2>1. /\ pc[c] = "idle" /\ Goto(c, "start") /\ key' = [key EXCEPT ![c] = k]
        /\ late' = late \/ (identity # Nobody /\ late' = late \cup {c})
        /\ UNCHANGED <<mind, outcomes, candidate, authorised, fresh, staged, result, committed, faulted>>
      BY <1>1 DEF BeginCompletion
  <2> QED
      BY <2>1, BeginSound
<1>2. ASSUME NEW p \in Pairs, NEW explicit \in BOOLEAN, BeginChoice(c, p, explicit) PROVE Sound'
  <2>1. /\ pc[c] = "idle" /\ Goto(c, "revision") /\ key' = key /\ late' = late
        /\ candidate' = [candidate EXCEPT ![c] = p] /\ authorised' = [authorised EXCEPT ![c] = explicit]
        /\ UNCHANGED <<mind, outcomes, fresh, staged, result, committed, faulted>>
      BY <1>2 DEF BeginChoice, observers
  <2> QED
      BY <2>1, BeginSound
<1> QED
    BY <1>1, <1>2

LEMMA OthersSound ==
    ASSUME Sound, Experience \/ Checkpoint PROVE Sound'
<1> USE DEF mind, arguments, observers
<1>1. /\ UNCHANGED <<identity, receipts, outcomes, pc, arguments, loaded, staged, result, observers>>
      /\ fresh' = {}
      /\ count' = count \/ (count' \in Nat /\ count' >= count)
    BY DEF Experience, Checkpoint, Sound, TypeOK
<1>2. TypeOK'
    BY <1>1 DEF Sound, TypeOK
<1>3. JournalSound'
    BY <1>1 DEF Sound, JournalSound
<1>4. \A d \in Callers : CallSound(d)'
    BY <1>1, OthersHold
<1> QED
    BY <1>2, <1>3, <1>4 DEF Sound

LEMMA StepSound == Sound /\ [Next]_vars => Sound'
<1> SUFFICES ASSUME Sound, [Next]_vars PROVE Sound'
    OBVIOUS
<1>1. ASSUME NEW c \in Callers, CallStep(c) PROVE Sound'
    BY <1>1, LoadMindSound, BlockSound, PassSound, ReceiptSound, ReadRevisionSound, ReviewSound,
       PassStageSound, PublishSound, RefuseSound, RecordOutcomeSound, DeliverSound, ConsiderSound,
       StageChoiceSound, PublishChoiceSound DEF CallStep
<1>2. ASSUME NEW c \in Callers, Fault(c) \/ LastFault(c) PROVE Sound'
    BY <1>2, FaultSound, DeliverSound
<1>3. ASSUME NEW c \in Callers,
             \/ \E k \in Keys \cup {NoKey} : BeginCompletion(c, k)
             \/ \E p \in Pairs, explicit \in BOOLEAN : BeginChoice(c, p, explicit)
      PROVE  Sound'
    BY <1>3, BeginningsSound
<1>4. CASE Experience \/ Checkpoint
    BY <1>4, OthersSound
<1>5. CASE UNCHANGED vars
  <2> USE <1>5 DEF vars, mind, arguments, observers
  <2>1. TypeOK'
      BY DEF Sound, TypeOK
  <2>2. JournalSound'
      BY DEF Sound, JournalSound
  <2>3. \A d \in Callers : CallSound(d)'
      BY OthersHold
  <2> QED
      BY <2>1, <2>2, <2>3 DEF Sound
<1> QED
    BY <1>1, <1>2, <1>3, <1>4, <1>5 DEF Next

\* The invariant every result of this module rests on.
THEOREM SoundHolds == Spec => []Sound
<1> QED
    BY InitiallySound, StepSound, PTL DEF Spec

-----------------------------------------------------------------------------
\* An interaction is published once, however often its answer was blocked, lost or
\* refused and the completion retried, and an answer said to be saved is
\* (_commit_interaction of mcp_service.py, and its commit receipts).
THEOREM AlwaysCommittedOnce == Spec => []CommittedOnce
<1>1. Sound => CommittedOnce
  <2> SUFFICES ASSUME Sound PROVE CommittedOnce
      OBVIOUS
  <2>1. \A c, d \in committed : c # d => key[c] # key[d] \/ key[c] = NoKey
      BY DEF Sound, JournalSound
  <2>2. \A c \in Callers : pc[c] = "presented" /\ result[c] # "failed" => Kept(c)
      BY DEF Sound, CallSound, Holds
  <2> QED
      BY <2>1, <2>2 DEF CommittedOnce, Kept
<1> QED
    BY <1>1, SoundHolds, PTL

\* Being blocked for want of a name leaves no trace a later attempt would trip over,
\* neither in The Breaker's record nor in the receipts, and a completion that begins
\* after the choice is never blocked for it (docs/architecture/0016, naming.py).
THEOREM BlockingAlwaysTemporary == Spec => []BlockingIsTemporary
<1>1. Sound => BlockingIsTemporary
  <2> SUFFICES ASSUME Sound PROVE BlockingIsTemporary
      OBVIOUS
  <2>1. TypeOK
      BY DEF Sound
  <2>2. BlockingIsHarmless
      BY DEF Sound, JournalSound, BlockingIsHarmless
  <2>3. ChoiceUnblocks
      BY DEF Sound, TypeOK, CallSound, Holds, ChoiceUnblocks
  <2> QED
      BY <2>1, <2>2, <2>3 DEF BlockingIsTemporary
<1> QED
    BY <1>1, SoundHolds, PTL

\* What moves a call: itself only.
LEMMA CallsActAlone ==
    ASSUME Sound, Next, NEW c \in Callers, pc'[c] # pc[c]
    PROVE  \/ \E k \in Keys \cup {NoKey} : BeginCompletion(c, k)
           \/ \E p \in Pairs, explicit \in BOOLEAN : BeginChoice(c, p, explicit)
           \/ CallStep(c) \/ Fault(c) \/ LastFault(c)
<1>1. ASSUME NEW d \in Callers, d # c,
             \/ \E k \in Keys \cup {NoKey} : BeginCompletion(d, k)
             \/ \E p \in Pairs, explicit \in BOOLEAN : BeginChoice(d, p, explicit)
             \/ Fault(d) \/ LastFault(d)
      PROVE  FALSE
    BY <1>1 DEF BeginCompletion, BeginChoice, Fault, LastFault, Fail, Goto, Sound, TypeOK
<1>2. ASSUME NEW d \in Callers, d # c, CallStep(d) PROVE FALSE
  <2>1. \E at : pc' = [pc EXCEPT ![d] = at]
    <3>1. CASE Block(d) \/ PassStart(d) \/ Replay(d) \/ NoReceipt(d) \/ ReadRevision(d) \/ PassAdmit(d)
        BY <3>1 DEF Block, PassStart, Replay, NoReceipt, ReadRevision, PassAdmit, Pass, Goto
    <3>2. CASE (\E events \in 0..MaxEvents : Review(d, events)) \/ ReviewExhausted(d)
               \/ PassStage(d) \/ PassStaged(d) \/ Publish(d) \/ PublishUnanswered(d) \/ Refuse(d)
        BY <3>2 DEF Review, ReviewExhausted, PassStage, PassStaged, Publish, PublishUnanswered,
                    Fail, Refuse, Pass, Goto
    <3>3. CASE PassConflict(d) \/ PassAfter(d) \/ RecordOutcome(d) \/ Deliver(d) \/ Consider(d)
               \/ StageChoice(d) \/ PublishChoice(d) \/ ChoiceRaises(d)
        BY <3>3 DEF PassConflict, PassAfter, RecordOutcome, Deliver, Consider, StageChoice,
                    PublishChoice, ChoiceRaises, Pass, Goto
    <3>4. CASE LoadMind(d)
        BY <3>4 DEF LoadMind, Sound, TypeOK
    <3> QED
        BY <1>2, <3>1, <3>2, <3>3, <3>4 DEF CallStep
  <2> QED
      BY <1>2, <2>1 DEF Sound, TypeOK
<1>3. ~(Experience \/ Checkpoint)
    BY DEF Experience, Checkpoint
<1> QED
    BY <1>1, <1>2, <1>3 DEF Next

\* Only Deliver ends a completion with an answer.
LEMMA OnlyDeliverAnswers ==
    ASSUME Sound, Next, NEW c \in Callers, pc'[c] # pc[c], pc'[c] \in {"presented", "withheld"}
    PROVE  Deliver(c)
<1>1. ~ \/ \E k \in Keys \cup {NoKey} : BeginCompletion(c, k)
        \/ \E p \in Pairs, explicit \in BOOLEAN : BeginChoice(c, p, explicit)
        \/ Fault(c) \/ LastFault(c)
    BY DEF BeginCompletion, BeginChoice, Fault, LastFault, Fail, Goto, Sound, TypeOK
<1>2. ~(Block(c) \/ PassStart(c) \/ Replay(c) \/ NoReceipt(c) \/ PassAdmit(c) \/ LoadMind(c))
    BY DEF Block, PassStart, Replay, NoReceipt, PassAdmit, LoadMind, Pass, Goto, Sound, TypeOK
<1>3. ~ReadRevision(c)
    BY DEF ReadRevision, Goto, Sound, TypeOK
<1>4. ~ \/ \E events \in 0..MaxEvents : Review(c, events)
        \/ ReviewExhausted(c) \/ PassStage(c) \/ PassStaged(c)
    BY DEF Review, ReviewExhausted, PassStage, PassStaged, Pass, Goto, Sound, TypeOK
<1>5. ~(Publish(c) \/ PublishUnanswered(c) \/ Refuse(c))
    BY DEF Publish, PublishUnanswered, Fail, Refuse, Goto, Sound, TypeOK
<1>6. ~(PassConflict(c) \/ PassAfter(c) \/ RecordOutcome(c) \/ Consider(c) \/ StageChoice(c)
        \/ PublishChoice(c) \/ ChoiceRaises(c))
    BY DEF PassConflict, PassAfter, RecordOutcome, Consider, StageChoice, PublishChoice,
           ChoiceRaises, Pass, Goto, Sound, TypeOK
<1> QED
    BY <1>1, <1>2, <1>3, <1>4, <1>5, <1>6, CallsActAlone DEF CallStep

\* Only a publication adds to the journal of interactions, and only that of a choice
\* changes the identity.
LEMMA OnlyStorePublishes ==
    ASSUME Next, committed' # committed PROVE \E c \in Callers : Store(c)
<1> USE DEF observers
<1>1. ~(Experience \/ Checkpoint)
    BY DEF Experience, Checkpoint
<1>2. ASSUME NEW c \in Callers
      PROVE  /\ ~ \/ \E k \in Keys \cup {NoKey} : BeginCompletion(c, k)
                  \/ \E p \in Pairs, explicit \in BOOLEAN : BeginChoice(c, p, explicit)
                  \/ Fault(c) \/ LastFault(c) \/ LoadMind(c) \/ Block(c)
             /\ ~(PassStart(c) \/ Replay(c) \/ NoReceipt(c) \/ ReadRevision(c) \/ PassAdmit(c))
             /\ ~ \/ \E events \in 0..MaxEvents : Review(c, events)
                  \/ ReviewExhausted(c) \/ PassStage(c) \/ PassStaged(c)
             /\ ~(Refuse(c) \/ PassConflict(c) \/ PassAfter(c) \/ RecordOutcome(c) \/ Deliver(c))
             /\ ~(Consider(c) \/ StageChoice(c) \/ PublishChoice(c) \/ ChoiceRaises(c))
    BY DEF BeginCompletion, BeginChoice, Fault, LastFault, LoadMind, Block, PassStart, Replay,
           NoReceipt, ReadRevision, PassAdmit, Review, ReviewExhausted, PassStage, PassStaged,
           Refuse, PassConflict, PassAfter, RecordOutcome, Deliver, Consider, StageChoice,
           PublishChoice, ChoiceRaises
<1> QED
    BY <1>1, <1>2 DEF Next, CallStep, Publish, PublishUnanswered

LEMMA OnlyChoicesName ==
    ASSUME Next, identity' # identity PROVE \E c \in Callers : PublishChoice(c)
<1> USE DEF mind
<1>1. ~(Experience \/ Checkpoint)
    BY DEF Experience, Checkpoint
<1>2. ASSUME NEW c \in Callers
      PROVE  /\ ~ \/ \E k \in Keys \cup {NoKey} : BeginCompletion(c, k)
                  \/ \E p \in Pairs, explicit \in BOOLEAN : BeginChoice(c, p, explicit)
                  \/ Fault(c) \/ LastFault(c) \/ LoadMind(c) \/ Block(c)
             /\ ~(PassStart(c) \/ Replay(c) \/ NoReceipt(c) \/ ReadRevision(c) \/ PassAdmit(c))
             /\ ~ \/ \E events \in 0..MaxEvents : Review(c, events)
                  \/ ReviewExhausted(c) \/ PassStage(c) \/ PassStaged(c)
             /\ ~(Refuse(c) \/ PassConflict(c) \/ PassAfter(c) \/ RecordOutcome(c) \/ Deliver(c))
             /\ ~(Publish(c) \/ PublishUnanswered(c))
             /\ ~(Consider(c) \/ StageChoice(c) \/ ChoiceRaises(c))
    BY DEF BeginCompletion, BeginChoice, Fault, LastFault, LoadMind, Block, PassStart, Replay,
           NoReceipt, ReadRevision, PassAdmit, Review, ReviewExhausted, PassStage, PassStaged,
           Refuse, PassConflict, PassAfter, RecordOutcome, Deliver, Consider, StageChoice,
           Publish, PublishUnanswered, Store, ChoiceRaises
<1> QED
    BY <1>1, <1>2 DEF Next, CallStep

-----------------------------------------------------------------------------
\* An answer is delivered only when, at the delivery decision, the Mind has a name or
\* still has time to choose one (complete_interaction, mcp_service.py line 395).
THEOREM DeliveryAlwaysReady == Spec => DeliveryIsReady
<1> DEFINE Delivered ==
      \A c \in Callers : pc[c] # pc'[c] /\ pc'[c] \in {"presented", "withheld"} =>
        identity # Nobody \/ count < Required
<1>1. Sound /\ [Next]_vars => Delivered
  <2> SUFFICES ASSUME Sound, [Next]_vars, NEW c \in Callers,
                      pc[c] # pc'[c], pc'[c] \in {"presented", "withheld"}
               PROVE  identity # Nobody \/ count < Required
      OBVIOUS
  <2>1. Deliver(c)
      BY OnlyDeliverAnswers DEF vars
  <2>2. pc[c] = "final" /\ loaded[c] # {} /\ Ready(c, 0)
      BY <2>1 DEF Deliver, Pass, Additional
  <2>3. identity # Nobody \/ count + 0 < Required
      BY <2>2, ReadyMeans
  <2> QED
      BY <2>3 DEF Sound, TypeOK
<1> HIDE DEF Delivered
<1>2. Sound /\ [Next]_vars => [Delivered]_vars
    BY <1>1
<1> QED
    BY <1>2, SoundHolds, PTL DEF Spec, DeliveryIsReady, Delivered

\* No completion takes a Mind without a name to its limit, though other entries keep
\* arriving between its checks and its publication (_commit_interaction).
THEOREM CompletionsAlwaysStopShort == Spec => CompletionsStopShort
<1> DEFINE Short == committed' # committed => identity # Nobody \/ count' < Required
<1>1. Sound /\ [Next]_vars => Short
  <2> SUFFICES ASSUME Sound, [Next]_vars, committed' # committed
               PROVE  identity # Nobody \/ count' < Required
      OBVIOUS
  <2>1. PICK c \in Callers : Store(c)
      BY OnlyStorePublishes DEF vars, observers
  <2>2. /\ pc[c] = "commit" /\ c \in fresh /\ count' = count + staged[c]
      BY <2>1 DEF Store, Publishable
  <2> QED
      BY <2>2 DEF Sound, CallSound, Holds
<1> HIDE DEF Short
<1>2. Sound /\ [Next]_vars => [Short]_vars
    BY <1>1
<1> QED
    BY <1>2, SoundHolds, PTL DEF Spec, CompletionsStopShort, Short

\* A choice is published for an eligible Mind only, and replaces an established
\* identity only when it is authorised, also when two first choices race
\* (_consider_self_name of governance_steward.py).
THEOREM IdentityAlwaysGoverned == Spec => IdentityIsGoverned
<1> DEFINE Governed == identity' # identity =>
      /\ count >= MinCount
      /\ identity' # Nobody
      /\ \E c \in Callers : /\ pc[c] = "proposed" /\ identity' = candidate[c]
                            /\ identity = Nobody \/ authorised[c]
<1>1. Sound /\ [Next]_vars => Governed
  <2> SUFFICES ASSUME Sound, [Next]_vars, identity' # identity
               PROVE  /\ count >= MinCount
                      /\ identity' # Nobody
                      /\ \E c \in Callers : /\ pc[c] = "proposed" /\ identity' = candidate[c]
                                            /\ identity = Nobody \/ authorised[c]
      OBVIOUS
  <2>1. PICK c \in Callers : PublishChoice(c)
      BY OnlyChoicesName DEF vars, mind
  <2>2. pc[c] = "proposed" /\ identity' = candidate[c] /\ identity \in loaded[c]
      BY <2>1 DEF PublishChoice, Fits
  <2>3. /\ candidate[c] \in Pairs /\ count >= MinCount
        /\ loaded[c] = {Nobody} \/ authorised[c]
      BY <2>2 DEF Sound, CallSound, Holds
  <2> QED
      BY <2>2, <2>3, NamesAssumption
<1> HIDE DEF Governed
<1>2. Sound /\ [Next]_vars => [Governed]_vars
    BY <1>1
<1> QED
    BY <1>2, SoundHolds, PTL DEF Spec, IdentityIsGoverned, Governed
================================================================================
