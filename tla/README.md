# AICognitiveMind: a verification development

AICognitiveMind keeps one persistent "Mind" (identity, memories, journal) behind a Python service.
Models of many vendors connect to it as hosts, reason, and hand their answers back; Bodies
(browser pages, Unity clients) submit what was said or sensed and wait for the answers. Nothing
in this service owns a lock: processes, hosts, event tasks and background writers meet in database
records, which they read and later replace if nobody replaced them in between. This directory
models those protocols in TLA+, checks them with TLC, and proves nearly every safety property the runs check with TLAPS.

Paths below are relative to `src/src/aicognitive_mind/` unless they start with `docs/` or
`src/`.

## 1. Inventory

| Component | State it keeps | Operations | Meets others in | Correct when | Here |
|---|---|---|---|---|---|
| Atomic commits (`commit.py`) | mind, memory and journal collections; `commit_state` revision; `commit_receipts` | `atomic` methods: receipt, revision, staged method, publication, recovery | every cognitive service; backends | history is serial, a key is published once, an answer is durable, a conflict means nothing happened | `CognitiveCommit` |
| Raw append (`storage.py`) | journal | `append_journal_committed`, three attempts | atomic commits | same, and it ends | `CognitiveCommit` |
| The Breaker (`continuity_health.py`) | one record: newest 500 outcomes | `record`, `reset`, `snapshot` | completions of all processes | one outcome per turn, none lost, decided on the record it joins | `ContinuityBreaker` |
| Breaker settings (`continuity_settings.py`) | revisioned settings; newest 500 captured snapshots | `save`, `capture`, `for_interaction` | begin and complete | a turn keeps its policy | `ContinuityBreaker` |
| Interaction service (`mcp_service.py`) | none of its own | `begin_interaction`, `complete_interaction` | all of the above | delivers only what it may | `InteractionCompletion`, `ContinuityBreaker` |
| Naming (`naming.py`), governance (`governance_steward.py`) | identity in the mind | assessment, guards, self-name operation | completions, background entries | the limit is never passed, choices are governed | `InteractionCompletion` |
| Host runtime (`host_runtime.py`) | `active_host` lease, one record per Body request | attach, renew, next, complete, fail, submit; claims of event tasks | Bodies, hosts, event tasks, the service | complete stands, claims are exclusive, callers are let go, orphans stay orphans | `BodyRequests` |
| Who reasons (`HostAwareCore`, `HostAwareInterpreter` of `host_runtime.py`) | none of its own | interact, interpret | hosts, endpoint, specialist, identity | a turn is reasoned about once, the identity chosen once | `BodyReasoning` |
| Message events (`mcp_events.py`) | one record: subscriptions, deliveries | subscribe, enqueue, flush | host runtime, webhooks | at least once, nothing lost between two records, late results ignored | `MessageEvents` |
| Body receiver (`codex_body_receiver.py`) | delivery state on disk | `once`, `receive_loop` | `ready_events` | its ledger is true, the chat is not flooded, every message is answered | `BodyReceiver` |
| Speech to a Body (`body_sessions.py`, owner of `api.py`, `live_body.html`) | owner record, bounded queues | focus, heartbeat, enqueue, fetch, acknowledge | windows of one Body | said once, in order, nothing unsaid | `BodyVoice` |
| Memory steward (`memory_steward.py`) | memories, belief records | deliberate, transition, reframe, reassess | atomic commits | a belief changes only on dominating, corroborated evidence, which is never rewritten | `BeliefGovernance` |
| Current state (`state_context.py`) | checkpoints in the journal | events, begun interactions | atomic commits | the ledger is the replay of its events; who speaks, converses and attends does not outlive its turn | `StateLedger` |
| Sleep (`sleep.py`) | reflective memories, reports | a pass | memories, other passes | claims are grounded, copies are few | `Sleep` |
| People (`person_registry.py`, `presence.py`) | tracks, person records | observe, resolve, link | Body sessions | linked encounters stay; sessions do not mix | `People` |
| Perception (`embodiment.py`, evidence stores, `backup.py`, `scripts/backup_mongo.py`) | preserved media, journal entries | perceive, delete, review, back up | journal, interpreters | nothing refers to media never kept | `Perception` |
| Task dispatch (`task_dispatcher.py`, `provider_routing.py`, `steward_agent.py`) | cooldowns, pools | attempts, waits, decisions | providers, administrators | cooldowns never shorten, no candidate given up on is asked again, budgets suffice | `TaskDispatch` |
| Administration (`host_behaviors.py`, `provider_endpoints.py`, `effective_skills.py`, `task_model_assignments.py`, `admin_configuration.py` and others) | settings of five shapes, governed documents | open, save | other administrators | a save that carries a revision changes what its page changed, a revision names its content | `AdminSettings` |
| Accounts and grants (`accounts.py`, `chatgpt_oauth.py`) | account records, grants | sign up, authorise, exchange, revoke | tenants' Minds | an account has a Mind; a grant leads to one or to the operator, and outlives restarts | `Accounts` |

The rest (HTTP and MCP routing, provider probes, text matching, devices, portal, Unity) is listed with its
reason in `PROJECT.json`.

What is hard, and hard to test, in this code:

- **state read before an await and used after it**: a staged method against the revision, the naming
  guards against background entries, a host's claim against a long completion;
- **optimistic loops** over whole records (outcomes, snapshots, requests, deliveries);
- **lost replies**: a transaction commits and the client sees an error;
- **retries** by hosts that cannot know what happened: same key, same or different content;
- **deadlines and leases** that pass while somebody works;
- **presentation before persistence**: the answer leaves before its fate is known;
- **two records that change one after the other** (a request and its event, media and the journal entry that
  refers to it, a spent code and its tokens): somebody stops in between, or comes in between;
- **what a page, a receiver or a window remembers** of a server that others use too.

`PROJECT.json` "hazards" places each at its line with the properties that cover it.

## 2. The modules

```
StagedStore            collections, staged operations and what publishing them does
  SerialMind           abstract: operations run alone, one after the other
  CognitiveCommit      the concurrent protocol;  implements SerialMind
    CognitiveCommitProofs
ContinuityBreaker      outcomes, presentation decisions, captured policies
    BreakerProofs
InteractionCompletion  completions, naming limits, governed choices
    CompletionProofs
BodyRequests           the queue between Bodies, hosts and event tasks
    RequestsProofs
BodyReasoning          who reasons about a turn, and the first choice of an identity
BeliefGovernance       evidence, deliberations, transitions, reframes
StateLedger            the current-state ledger
Sleep                  consolidation passes
People                 tracks, people, encounters
    PeopleProofs
Perception             an observation and its media
AdminSettings          administrators' pages
Accounts               sign-ups and grants
    AccountsProofs
MessageEvents          the outbox of events
BodyReceiver           the receiver and the chat it prompts
BodyVoice              what a Body's windows say
TaskDispatch           providers, cooldowns and budgets
MC*                    small instances of these (InteractionCompletion needs none)
    RecordsProofs      about the six of MCRecords without a proof module of their own
    DeliveriesProofs   about the four of MCDeliveries
```

`MCRecords` instantiates the eight modules from `BodyReasoning` to `Accounts`, `MCDeliveries` the last four.
Their proof modules extend them: each component is proved about for its own specification, and the composition
that a run checks implements each of them (`RecordsMove`, `ComponentsMove`).

The components are composed by what one promises to the next. `InteractionCompletion` publishes as
`CognitiveCommit` allows (all of what was staged, if the revision is still current).
`BodyRequests` takes the outcome of `complete_interaction` from the outcomes that
`InteractionCompletion` and `ContinuityBreaker` reach.

### StagedStore, SerialMind, CognitiveCommit

A caller is one call of an `@atomic` method, or of `append_journal_committed`; a retry is another caller
with the same token. `pc` follows the code: `BeginAtomic`, `ReplaySaved` or `NoSavedResult` (receipt),
`ReadRevision`, any number of `ReadTable` and `Stage` (the method), `ReturnReading` or `RequestCommit`.
The request is on the `wire`: `Publish`, `Refuse` or `Abort` happen at the backend whether or not the
caller still waits, so that a lost reply is `CommitRaises` after `Publish`, and recovery (`Recover`,
`RecoverRaises`) reads the receipt. `Crash` is a task that dies at an await. What a method reads and
writes (`Methods`) is a constant: sets of tables and operations, instead of the bodies of some twenty services.
`MCCognitiveCommit` names the shapes of six of them. Records are the caller and the number of the
staged operation, so what a result was computed from stays visible.

`BusyIsConflict` is the difference between the backends that matters: `surreal_query` turns every error of
the server into `CommitConflict`, so there a conflict does not mean that somebody else got through.

`SerialMind` is the specification a reader of `docs/0009` has in mind: `Execute` runs one operation on the
whole store and what it read was true, `Consolidate` adds a memory. `history`, `seen` and `unversioned`
record what the refinement needs.

### ContinuityBreaker

A turn is an interaction key, an attempt one call of `complete_interaction` for it. `capture()` is
`ReadSettings`, `ReadSnapshots`, `StoreSnapshot` or `SnapshotLost`; completion is `FindPolicy` (or
`NoSnapshot`, `ReadEffective`), then the loop `ReadHealth`, `WriteHealth` or `HealthLost`. `AlreadySettled`
is the early return for a turn that is recorded. `StoreUnanswered` and `WriteUnanswered` are writes whose
reply is lost; after `RecordsFail` the answer is presented, as `_record_continuity_outcome` does.
`SelfKeyed` turns are completed without begin; `BodyTurns` are begun under another key than they complete
under, which is how `HostRuntime` uses the service.

### InteractionCompletion

Naming has two limits, 1,000 and 2,000 qualifying entries, modelled as `MinCount` and `Required`, a few
entries apart. A guard is two reads: `LoadMind`, then `Pass...` or `Block` by the count at that moment.
Revision checks appear as `fresh`: the calls whose revision is still current; whatever
publishes empties it (`Store`). A call is a completion or an attempt of the governance steward to choose.
`Experience` and `Checkpoint` are the background writers: one adds a qualifying entry, the other
changes the revision only.

### BodyRequests

`rec[r]` is the runtime record of a request. Every operation of `HostRuntime` reads it, decides, and replaces it
if it is still what was read: the decision is a step that stores what was `saw` and what is `new`, and
`Swap` or `SwapLost` follows. `Matches` is the comparison of MongoDB and SurrealDB, which looks at the fields
that were read and neither notices nor keeps a field added since. `_complete_claim` is `Complete`,
`CheckNaming`, `Present` (the provisional answer) next to `Serve` (the service call), `Settle`, `Finish`.
`submit()` is the caller: `ReturnAnswer`, `ReturnFailure`, `Expire`, and `Leave`, `Cancel` when its
HTTP request goes away. Time is not a clock but what the code can tell of it: `late` (deadlines passed), `lapsed`
(event leases over), `silent` (heartbeat too old). The lease of hosts is `AttachChecks`, `AttachWrites`, `Renew`;
writing `active_host` empties `attaching`, since every other attach has lost its comparison.
Legacy records without a deadline, which only old versions could file, are left out.

### BodyReasoning

A turn is a call of `HostAwareCore.interact` or of `HostAwareInterpreter.interpret`. `Talk` and `InterpretTurn`
look once at what is configured and at whether a host is live; `HandOn` is a host that timed out or a specialist
that failed, and `ReasonerAnswers` ends at whoever the code lets answer. The endpoint's interaction goes
`choosing`, `replying`, `completing`: `may` and `must` are what it read before it asked the model, and `Choice` is the
governance steward's second look. `asked` collects who reasoned.

### BeliefGovernance

One subject and attribute; memories differ in value and scope. `ResolutionReadiness`, `StrictlyDominates` and
`Corroborated` are the gate of `_resolution_readiness`. `ConsiderEvidence`, `ProposeMemory`, `TransitionBelief` and
`ReframeBelief` are the operations of one interaction, in any order; all of them see `Working` (what is durable with
what is staged in its place) and write through `Stage`. `FinishInteraction` stores and journals everything, `Abort`
nothing. Interactions follow one another, which is what `CognitiveCommit` implements for atomic methods.

### StateLedger

`BeginEdit` loads the latest checkpoint by time, `CommitEdit` appends the revised copy if the commit revision
is still the one read, `RetryEdit` is a conflict. `ApplyEvent` invalidates and sets; `Refreshed` is the
refresh of every begun interaction, with what the host noted: a summary, open references. A turn that names no
participant leaves `who_is_present` as it was, so `LedgerHolds` speaks of the other three fields. `truth` replays the committed inputs, one by one, on an empty ledger. In durable
stores (`store`) a commit takes longer than the precision of the clock; in memory two checkpoints may bear one time.

### Sleep and People

`FallAsleep` reads memory and fixes what the pass will store (the strongest patterns first, then without those
already known, in this order, as in the code); `Consolidate` stores one of them; `Disturbed` is a failed write or a
stop. `People` has one track per Body session; `ReadPerson` and `ReplacePerson` are the compare-and-replace of an
encounter. A resolved track keeps its person when more evidence joins it, as `observe` does.

### Perception

`Perceive`, `Preserve`, `Admit`, `Interpret`, `Understand`, `Turn` are the awaits of `MindBodyBridge.perceive` in order, each
of which may be where it is `Interrupted`. Around it an administrator deletes media, the database damages it, the Mind
reviews it, and a backup takes one snapshot of the journal and then downloads piece by piece. Media that is
deleted while the journal still refers to it keeps later backups from completing: that is what the code does.

### AdminSettings

`shape` is one of five ways in which settings are saved: merged `fields` or a whole `catalog` under one revision,
`endpoints` likewise but with a revision that a caller may leave out (`checked` says whether one was carried), `skills` with a
revision each, and a `table` without any, which is last-writer-wins. `Submit` and `Write` are the two halves of a save: the record
is read again, then created or replaced if it is still what was read. The behavior catalog is not an independent record. Until
it is first saved, `Packaged` promotes the `inline` instructions of tasks into it (`EditInline`), as long as the tasks have no explicit
behaviors (`assigned`). And saving the assignments is four awaits, `BeginAssignments` (list the catalog), `Materialize` (read its record: is
a task's item not stored?), `Rewrite` (replace the catalog by what was listed, without its revision) and `Assign`. `SaveDocument` is the atomic
replacement of the identity or of one memory, journaled with what it replaced.

### Accounts

A grant is a chain of values, each followed by one of the `NextKind`: request, code, pairs of tokens. `SignIn` names whom it is for: the
`Operator`, whom the service configures and serves without an account record, or the Mind of an account. An exchange
deactivates what was presented (`SpendGrant`), saves what follows (`SaveGrant`), answers (`Receive`). A client may have several `Calls`
under way: it sends the sign-in form, presents a code or refreshes twice at once, both calls may go through, and it keeps the answer that comes
last. `Stops` ends every call where it is. The model says what survives a stop and what an account leads to, and
nothing about who may obtain what.

### MessageEvents

The outbox is one record, and `_change` retries until it has replaced it, so that a change is a step. A request
and the record are two: `EnqueueAppend`, then `EnqueueMark`, by `submit` or by the repair of `flush` (`RepairAppends`,
`RepairMarks`). `Take` purges and claims, `Post` is the webhook, `Finish...` files the result if the claim is still the
worker's. `accepted`, `owed` and `dropped` are observers.

### BodyReceiver

`receiver.at` is the place in `receive_loop` and `once`; `sent` is `DeliveryState` in memory, `stateFile` the file.
Polling, preparing audio, finishing, sending a prompt and `accepted` are steps; the receiver may stop between any two, and
a prompt or its reply may be lost. `transcriber` says whether audio is prepared at all (`transcribe_enabled`, off as packaged: then audio is
prompted as it is); it is configured once and stays over restarts. The chat claims and completes what it was prompted with.

### BodyVoice

`owner` is the record `active_body_session`, `queue` the records of `BodyQueue`, `page` the window: its loop
`consumeExpressionOutputs` fetches, speaks, acknowledges, and remembers what it `played` and whether it was woken
meanwhile (`again`). `Heartbeat` also looks for output, since the event may have been raised in another process.

### TaskDispatch

A place of the `pool` names a provider and a model. What they stand for is in the `catalog`: the endpoint with that name (id, name or
URL), and the model it is bound to, or else the one saved with the task (`Target`). `Choose` fixes the candidates of a call, which are pairs of
endpoint and model: `Distinct` and `Eligible` are the places that count, `Rotated` orders them, `Available` lists them.
`Ask` resolves the one in turn by the catalog of that moment, and its outcomes move the cursor; `Edit` saves another pool or catalog meanwhile. One
endpoint with two models is two candidates, and asked twice; what is not asked again is a pair that was given up on, as long as the catalog is
the one the candidates were chosen by (`knew`). `Choose` is one step over the two reads of the endpoints that the code makes. Cooldowns
belong to pairs too; an endpoint stands for its id, URL and key.
A cooldown is read and stored by compare-and-set (`ReadCooldown`, `StoreCooldown`), a longer one stands. The Memory Steward's
assessments search, are corrected, finish, or meet their deadline. The clock counts ticks; day, cooldowns
and hints last one tick in the instance, which is enough for all of them to be over, or not, whenever a call looks.

## 3. What the runs show

All bounds are constants of the cfg files.

| Run | Question | Bounds, and why they suffice |
|---|---|---|
| `commit_contention` | Is the published history serial, does one number protect every read, does an aborted transaction or a race of two births leave anything, and did whoever was refused lose to somebody who got through? | two calls, each an initialisation, a governance, a completion or a memory review that read and rewrite the same tables, on a born or unborn mind, two staged operations each, one consolidation; conflicts are what the backend compared: a conflict needs two |
| `commit_retry` | Is a token published once; what do answers and conflicts mean; does every call whose method ends come to an end? | fair; two calls of one token with two inputs, an original and a retry or a misuse; readings; raw appends with all three attempts; a backend that calls any error a conflict |
| `breaker_record` | Is every turn counted once and judged on the record it joined, and for how long does an answer agree with it? | three turns in a record of two, four attempts, a reset; limits of two and a window of two, or limits and a window of one, chosen before the first attempt (`EditsComeFirst`, an action constraint): retries, eviction, lost swaps, and retries of a turn that has left the window while the record keeps it all occur |
| `breaker_captures` | Do concurrent begins lose snapshots, and does an edit reach back into a running turn? | four turns, three with begins, room for two snapshots, one edit, two tries per loop |
| `naming` | Is an answer delivered only to a Mind that may have it, is a blocked one retried unharmed, can a completion cross the limit or a choice its rules, does every call end? | fair; two calls (completions of one key or none, rival choices of two names) and one background entry around limits one apart: each race at a limit is one of two calls, or of a call and the background |
| `requests_tasks` | Does anybody lose a live claim, is a complete or presented answer ever taken back, and what may change it? | one request, spoken or passive; two event tasks with an answer each; two concurrent calls; deadline, departure, lapsing lease; circuit and naming moving freely |
| `requests_hosts` | Is a host's answer begun under an open circuit held, is a live host replaced, is the caller of a bounded request let go? | fair to time and the caller only; two hosts and an event task that may outlive its lease, one request of any kind, one call at a time next to attaches, renewals and the caller |
| `records` | Eight components that record something about the Mind, its people, its media and its administrators: what can race, stop or be retried, and what is stored of it? | beliefs: two rival values in three scopes, three memories, two observations of one interaction; ledger: two edits that race, two revisions; sleep: three passes of two sleepers over three memories; people: two sessions, three sights, two calls; perception: two observations at once, a deletion or damage, a review and a backup; settings: two pages, every shape, two items of which a table promotes one, two saves; reasoning: two people talking, a deliberate and an automatic interpretation, one host that comes or goes; accounts: two sign-ups for one name and the operator, one client with two calls at once, two accidents |
| `deliveries` | Four components in which something has to arrive: is it lost, repeated, or late, and does everything end? | fair; events: one subscription, one request, two workers, two attempts, one crash or outlived claim; receiver: with a transcriber or without, two messages and one sound, one crash and one loss; voice: two windows, two utterances, one mishap; dispatch: a review and a chat, two endpoints under two names, two models, pools of two names and of two models of one, four catalogs (unbound, one bound, one endpoint under both names, one not saved), one edit |

### Sums of components

The components of `MCRecords` share no variable, and neither do those of `MCDeliveries`. Where one influences another, the
influence is an input of the other: it is enumerated, not constrained. A behavior of all of them together is
therefore a behavior of each, and what is to be shown of each is shown without the product of their states: an initial state
chooses the `component` that moves, and each property, or conjunct of one, speaks of one component. `MCRecords` checks safety only, and so may
treat alike the two actors and the two things handled (`SYMMETRY`): every component does. `MCDeliveries` checks liveness
and uses no symmetry; `EverythingEnds` is the conjunction of `EveryOwedEventEnds`, `EveryMessageIsAnswered`,
`EveryIntentIsSaid` and `EveryCallEnds`, since in a behavior of one component the other three are met all along.

One request is enough for what is claimed, since no operation but `next_request` looks at two (it prefers human
requests to passive ones), and no property is about that preference.

### Disagreements between the code and its texts

Three of these are runs that TLC finds violated; `PROJECT.json` "findings" quotes the text.

- `breaker_body`: every turn of a Body completes under the settings of the moment instead of those captured at
  begin, because it is completed under `body:<request_id>`, a key that nothing was captured for.
- `requests_orphan`: the last write of `_complete_claim` rereads the request but not to look at its state, so a
  cancelled (or expired, failed) request becomes complete.
- `beliefs_once`: a deliberation that was already turned into a transition is accepted again once another
  transition has come in between, since only the current belief of the slot is compared.

Five more have configurations to be run by hand, and violate one property each:

- `MCBreakerHeld.cfg` (`HeldStaysHeld`): `_public` finds a retried turn only inside the policy's window. A withheld
  failure that has left the window (100 of 500 as packaged) is presented when it is retried, while the circuit is open, although
  docs/0009 says that another failure is withheld. `AnswersFollowRecord`, which is checked and proved, says exactly that far and no farther.
- `MCRequestsShown.cfg` (`ShownIsCommitted`): a task outlives its lease of 900 seconds and commits; the next claimant
  presents its own answer before its commit is refused. The caller was given an answer the Mind does not have.
- `MCRequestsHeld.cfg` (`TasksHoldToo`): only `next_request` saves that the circuit was open at
  begin; for a message claimed by an event task the answer is presented at once. `HeldUntilPermitted` is about what hosts have claimed.
- `MCRequestsTaken.cfg` (`OldTokensStop`): docs/0009 says "Old tokens cannot complete requests after another host takes over". The lease is
  checked before a completion and not again (`host_runtime.py:816`), so one that is under way completes its request after the takeover.
- `AdminSettings.cfg` (`CompetingSavesStay`): `tests/test_admin_host_behaviors.py` says "Behavior saves must carry a current revision and
  preserve competing saves". Saving the task assignments replaces the catalog by what was listed before, without a revision
  (`task_model_assignments.py:162-165`), over whatever another administrator saved in between. `OthersEditsStay` is about the saves
  that do carry one.

Smaller ones follow from the same reading: "Body request already completed with another response" is asked when a completion starts
(`host_runtime.py:952`), so that one under way may still write its answer over a complete one (`LateAnswers` says when); the catalog has
revision 0 until it is first saved, whatever the tables promote into it; a turn whose snapshot was evicted (500 newer
ones) completes under the settings of the moment; a silent host can claim between the check and the write of an
`attach` and loses its lease while it works (`host_runtime.py:549`); an exchange that is cut short after spending what it was given leaves
its client with nothing (`chatgpt_oauth.py:292`); a turn without participants
leaves `who_is_present` of the earlier conversation standing, although `skills/axiom-current-state/SKILL.md` asks for dependent
fields to be invalidated (`StateLedger`, `PresentAreOfThisTurn`).

### Fairness

`CognitiveCommit` and `InteractionCompletion` assume that the event loop runs what is ready and that the
backend answers every request in the end, with whatever answer (weak fairness of each call's own steps). The method that a call of
`CognitiveCommit` runs may read and stage as it likes, and then returns or raises (`MethodEnds`); one that never does, say because a provider never answers, is
outside of `EveryCallEnds`. They
assume nothing about which calls are made, and calls may die. `BodyRequests` assumes that time passes and that
`submit()`, which polls every 0.2 seconds, keeps polling; nothing is assumed of hosts and tasks.
`MessageEvents` assumes that workers keep looping, that a `submit()` that is running goes on, and that claims and
back-offs end with time; faults are bounded, and a post may fail as often as it likes. `BodyReceiver` assumes that its user
restarts it and that the chat works off its prompts. `BodyVoice` assumes that a page runs its loop and, every five seconds, its heartbeat.
`TaskDispatch` assumes that a request to a provider ends (each has a timeout) and a sleep too, and not that a deadline expires.
In `MCDeliveries` each of these conditions is for as long as its component is the one that moves: in every other
behavior it is disabled and says nothing. The other modules check no liveness.

Deadlock is not checked where calls are made a bounded number of times: an instance in which every call has ended
has nothing left to do.

## 4. What is proved

Every theorem holds for any values of the constants under the assumptions that the modules name (`ASSUME`); TLC
evaluates them in every run. A proof module has one inductive invariant per component, a lemma per action or per
group of actions that disturb the same conjuncts, and one temporal theorem per property.

`CognitiveCommitProofs`, about the innermost protocol, holds for any sets of callers, tokens, methods, records, reflections and any bound, under
the assumptions named in `CognitiveCommit` and `StagedStore` (sentinels are no tokens or callers; methods read tables and
stage operations; the records a call creates are records).

1. `TypeCorrect`: `Spec => []TypeOK`.
2. `Supporting`: the inductive invariant. None of the properties is inductive alone. It needs
   `RequestsFollowCalls` (a request is on the wire only for a call that has sent one), `AnswersEndCalls`
   (a conflict was refused or never sent), `ReadingsFollowRevision` (nothing is read before the revision, and no
   revision runs ahead), and `HistoryIsApplied` (the history holds exactly the applied requests, and a receipt names
   one of them). Each part is a lemma with one step per action.
3. `ConflictsAreFinal`, `PublishedOnce`, `ReadingsStayCurrent`, `AnswersAreDurable`: the safety properties the runs
   check. A publication is the only step that can break them: it requires the revision to be
   unchanged and the token unspent, and `HistoryIsApplied` turns this into "not published before".
4. `SerialImplemented`: `Spec => Serial!Spec`. A publication maps to `Execute`, because `ReadingsCurrent` makes what
   the call saw true of the store it is applied to; `Remember` maps to `Consolidate`; everything else is a stutter.
5. `ConflictsMeanProgress`: where a conflict is what the backend compared, who is refused lost to somebody else. What is left to exclude is a list of staged operations that
   does not fit the store although the revision has not moved. `StagedPublishes` says that there is none: a method stages only what fits the
   overlay it reads (`MorePublishes`), and the one writer that moves no revision, consolidation, only adds memories
   (`RicherPublishes`). The overlay is a recursive function over the list; `LaidExists` shows that it is defined, and
   `RicherPublishes` that laying the list over a richer store keeps it richer. Both are inductions in the form of a least
   counterexample, which `LeastPlace` provides.

`BreakerProofs` needs lemmas about the lists that keep their newest elements (`NewestElements`, `RemoveAtElements`) and
one about the operator that matters, `RecordedOutcomes`: adding an outcome to a record that counts no turn twice
gives such a record again, which keeps what it had but for the oldest (`Stands`) and adds one judged on it (`Adds`).
A swap writes what was computed from the very record it replaces, so that `CountedOnce`, `OutcomesAlwaysStand` and
`AlwaysDecidedOnTheRecord` follow from the types (`Typed`) and this lemma. `CapturesAlwaysHold` rests on
`Capturing`: a turn is captured once, and the snapshots mirror the newest of `begun`, the order of captures;
`EditsAlwaysApplyLater` adds `PoliciesKept`, that an attempt under way has the settings its turn captured unless
they have left the record. `AnswersAlwaysFollowRecord` has no hypothesis about windows: what an attempt is told is what
`_public` finds in the newest outcomes that its policy's window shows, and a turn is there exactly as long as fewer than that many outcomes have joined the
record after it.

`CompletionProofs`. The invariant `Sound` is `TypeOK`, `JournalSound` (a key has a receipt exactly when the journal has its
interaction, which it has once) and `CallSound` (at each stage of a call, what the journal holds of it and what it
has in hand). The limits are arguments about `fresh`: whatever publishes empties it, hence what a guard counted
is still the count when a completion is stored, or the store refuses.

`RequestsProofs`. The invariant `Claiming` is `Kept` (types; a request's record is `Proper` for its kind; what a call or caller is
about to write `Follows` from what it saw), `TokensFresh` (the token of a task claims one request at most, and
nobody names it before) and `ClaimKept` (whoever changes a claim gives up its own, or takes one that is over).
`AnswersAlwaysStand`, `ClaimsAlwaysExclusive` and `LiveHostAlwaysKept` are action properties under it; the last adds
`Attachable` (an attach that may still write found the lease free to take, since a heartbeat defeats it), the first `Answering`: the last
write of a completion carries its own answer, and one that would replace the answer that the Mind has committed did not commit.
`HostAnswersHeld` proves `HeldUntilPermitted` next to event tasks. `Answering` says too that what a record, a caller or a call tells of the
circuit was so when the claimant began (`Tells`): a host's claim of a request that is `Secure` is the last, one call begins
under it, and only what is passive, began while the circuit was closed or was permitted reaches the last write. A request whose
deadline has passed may be taken from a host by a task, and is not claimed about.

`DeliveriesProofs`. Events (`EvKept`): whoever marks a request, or has marked it, has enqueued what is owed about it, so
that a repair finds what is missing. Receiver (`RcKept`, for finite `Jobs`): the ledger is true of what was prompted, what a receiver with a transcriber prompts of audio is transcribed,
and unless something was lost, what is unfinished is latched, what overtakes it is one message of a person, and so at
most two unfinished prompts are with the chat. Voice (`VcKept`): the queue is the end of what was asked for, what was said
its beginning, and they overlap by one at most. Dispatch (`DispatchKept`): a call that stores a cooldown read a
shorter one. `DispatchBounded` adds what is left to a call: what is left of its candidates stands, by the catalog they were chosen
by, for different pairs of endpoint and model, and for none that was given up on (`Pooled`), and each decision was a search, the correction or moved the cursor (`Budgeted`). That the
candidates start out so is a count: places with turns of their own have ranks that fill `0..n-1` (`RanksFill`).
`LateComersAlwaysYield` is an action property of events and of dispatch.

`RecordsProofs`, one invariant per component:

- `PerceptionKept`: the stage of an observation says what it has left behind; a backup's index lists media that was preserved.
- `SettingsKept`: a page shows an earlier record of the setting, and what was saved under its revision still has its content, also
  when the saving of assignments or a caller without a revision saved; what is about to be saved was computed from the record it
  replaces. Of a catalog that was never saved, whose content tables promote, nothing is claimed.
  Assumed: `Unsaved` is no record.
- `ReasoningKept`: nobody but a failed specialist was asked before a turn is handed on, and whoever answers is the last.
- `SleepKept`: what passes may still store is grounded, and the copies of a pattern and the passes that have yet to store
  it are together at most as many as the sleepers. Assumed: finite `Sleepers` and `Links`.
- `LedgerKept`: the checkpoint appended last has the latest time, and a call that may still commit loaded the
  ledger after it; hence a reader loads `truth`.
- `BeliefsKept`: a revision staged for a durable memory extends it, and stored and staged memories carry exactly the
  transitions and reframes that the journal and the interaction report. Two theorems follow: `JournalAlwaysTellsBeliefs`
  (nothing is told that was not kept, nothing kept that is not told) and `EvidenceAlwaysPreserved`. `BeliefsHeld` adds what
  beliefs rest on (`Governed`), of the stored memories and, unless the interaction is doomed, of those it would store:
  each status is what the latest transition made of it (`Told`), and each ready deliberation and each transition rests
  on two sources (`Backed`) and, while nothing was reframed, on a lead (`Leads`): at some point in the order of
  memories, all that stated the one value beat all that stated the other. A lead is never lost, since places and
  appraisals stay, and two opposite leads contradict each other at the shorter of the two (`OneLeads`); that is why no
  value wins over one that won over it (`BeliefsAlwaysGoverned`). Assumed: `None` is no deliberation, the labels of findings name
  scopes, confidence and weight are numbers, and a deliberation may be revised at least once.

`PeopleProofs` (`EncountersAlwaysHold`: `PeopleSpec => []EncountersHold`) assumes only that evidence was captured in some
session. The invariant `Encountered` adds where an encounter comes from: a track holds evidence of its own session
(`TracksAreLocal`), and a linking call took its evidence from one track (`CallsAreLocal`). `ReplacePerson` is the only step that
records anything, and does so when what it read is still the record, which is why nothing that was linked disappears.

`AccountsProofs` (`GrantsAlwaysStand`: `AccountsSpec => []GrantsStand`) assumes that no sign-up is called `Unowned` or `Operator`. The invariant
`Standing` adds the order of the steps: a Mind is initialised before its account is published (`SignUpsInOrder`), and, of each client (`Proper`),
what replaces a value that is spent is active before the client hears of it and nobody else has it yet, what the client holds is active
unless it was cut short or one of the calls under way has spent it, and from sign-in on everything is for somebody who can be found. Each step of
an exchange is a lemma about one such record (`ExchangeMoves`).

Only model-checked: liveness, which needs fairness and `ENABLED` (`EveryCallEnds` of two modules, `BoundedCallersEnd`,
`EverythingEnds`). Every other property of the passing runs is the subject of a theorem.

## 5. What is not modelled, and why

Contents: what memories say, how text is matched, which patterns sleep finds, wording, prompts, media. The properties
do not depend on them, and constants stand for what they may be. Provider calls, HTTP, MCP routing, the probing of
providers, devices, Unity and the portal's forms are I/O in front of the modelled components. The standalone
core runs inside an atomic operation (`CognitiveCommit`) and is one of the reasoners of `BodyReasoning`. In-memory records
behave like the databases', but for the comparison noted above, where the databases are more permissive and
therefore modelled. Left out of modelled components: a memory that gives several values, equivalences, scope distinctions and
questions (`memory_steward.py`); a reload of the page (`BodyVoice`), which forgets what was played; the mirrors in memory
of `chatgpt_oauth.py`; the restore of a backup; anything about who is allowed to obtain access.

Two hazards have no property in a run: a typed claim that is kept for ever, by design, and an old token that completes after
a takeover, which the code does not prevent although docs/0009 promises it (section 3).

## 6. Plan

Proofs: a mapping of `MessageEvents` to an outbox specification, once that is written.

To model next: `realtime_turns.js` (turn-taking of the portal), the restore of a backup, an outbox specification
that `MessageEvents` implements.
