----------------------------- MODULE CognitiveCommit -----------------------------
(***************************************************************************)
(* Cognitive operations running concurrently on one mind (commit.py, and   *)
(* append_journal_committed of storage.py).  An atomic operation reads a   *)
(* receipt, reads the revision, runs its method on staged stores, and asks *)
(* the backend to publish everything it staged if the revision is still    *)
(* the one it read.  A raw journal append asks the same with a revision it *)
(* reads on every attempt.  A reply can be lost, a request can arrive long *)
(* after its caller stopped waiting, and a caller can die at any await.    *)
(*                                                                         *)
(* A caller makes one call; a retry is another caller with the same token. *)
(***************************************************************************)
EXTENDS StagedStore, FiniteSets

CONSTANTS
  Callers,        \* the tasks, of any process, that call the services
  Tokens,         \* idempotency tokens
  NoToken,        \* a call without a token
  Methods,        \* the services' methods: the tables each reads and the operations it stages
  Inputs,         \* what the fingerprint of the arguments tells apart
  InitialStores,  \* what a deployment may hold when it starts
  Reflections,    \* memories consolidation may add with a raw remember()
  BusyIsConflict, \* the backend calls every failed transaction a conflict (SurrealDB)
  MaxStaged       \* bound: operations one method stages

ASSUME NoTokenAssumption == NoToken \notin Tokens
ASSUME BackendAssumption == BusyIsConflict \in BOOLEAN
ASSUME NobodyAssumption == "nobody" \notin Callers
ASSUME BoundAssumption == MaxStaged \in Nat \ {0}
ASSUME MethodsAssumption == Methods \subseteq [reads: SUBSET Tables, writes: SUBSET Writes]
ASSUME StoresAssumption == InitialStores \subseteq Stores
ASSUME RecordsAssumption ==
  /\ Reflections \subseteq Records
  /\ \A c \in Callers, n \in 1..MaxStaged : <<c, n>> \in Records

AppendAttempts == 3

VARIABLES
  store,        \* the mind, memory and journal collections
  version,      \* commit_state: the publication revision
  receipts,     \* commit_receipts, by token
  pc,           \* where each caller is
  mode,         \* "atomic", or "append" for a raw journal append
  method,       \* the method it runs
  token,
  input,
  attempt,      \* attempts of a raw append
  base,         \* the revision the caller read
  seen,         \* what its method read from the base stores
  staged,       \* its staged operations
  wire,         \* its request: none, sent, applied, conflict or failed
  answer,       \* what it returned or raised
  history,      \* every published request, in order (observer)
  unversioned   \* memories added with no revision (observer)

server == <<store, version, receipts, history, unversioned>>
call == <<mode, method, token, input>>
work == <<attempt, base, seen, staged>>
vars == <<server, pc, call, work, wire, answer>>

NoReceipt == [by |-> "nobody", input |-> "nothing"]
Raised(kind) == [kind |-> kind, by |-> "nobody"]
Returned(c) == [kind |-> "result", by |-> c]
NoMethod == [reads |-> {}, writes |-> {}]
Unanswered == [kind |-> "none", by |-> "nobody"]

Init ==
  /\ store \in InitialStores
  /\ version = 0
  /\ receipts = [t \in Tokens |-> NoReceipt]
  /\ pc = [c \in Callers |-> "idle"]
  /\ mode = [c \in Callers |-> "atomic"]
  /\ token = [c \in Callers |-> NoToken]
  /\ method = [c \in Callers |-> NoMethod]
  /\ input = [c \in Callers |-> "nothing"]
  /\ attempt = [c \in Callers |-> 0]
  /\ base = [c \in Callers |-> 0]
  /\ seen = [c \in Callers |-> {}]
  /\ staged = [c \in Callers |-> <<>>]
  /\ wire = [c \in Callers |-> "none"]
  /\ answer = [c \in Callers |-> Unanswered]
  /\ history = <<>>
  /\ unversioned = {}

Goto(c, from, to) == pc[c] = from /\ pc' = [pc EXCEPT ![c] = to]

Answer(c, a) == answer' = [answer EXCEPT ![c] = a]

ReceiptOf(c) == IF token[c] = NoToken THEN NoReceipt ELSE receipts[token[c]]

-----------------------------------------------------------------------------
(* The calls. *)

(* wrapped() binds the arguments and computes key and fingerprint. *)
BeginAtomic(c, m, t, i) ==
  /\ Goto(c, "idle", "receipt")
  /\ method' = [method EXCEPT ![c] = m]
  /\ token' = [token EXCEPT ![c] = t]
  /\ input' = [input EXCEPT ![c] = i]
  /\ UNCHANGED <<server, mode, work, wire, answer>>

(* A store's own append(): one entry, no token. *)
BeginAppend(c) ==
  /\ Goto(c, "idle", "revision")
  /\ mode' = [mode EXCEPT ![c] = "append"]
  /\ staged' = [staged EXCEPT ![c] = << AppendTo("journal", <<c, 1>>) >>]
  /\ UNCHANGED <<server, method, token, input, attempt, base, seen, wire, answer>>

(* The receipt decides before anything runs: a saved result, or a token     *)
(* already spent on other arguments.                                        *)
ReplaySaved(c) ==
  /\ ReceiptOf(c) # NoReceipt
  /\ Goto(c, "receipt", "answered")
  /\ Answer(c, IF ReceiptOf(c).input = input[c] THEN Returned(ReceiptOf(c).by)
                                               ELSE Raised("conflict"))
  /\ UNCHANGED <<server, call, work, wire>>

NoSavedResult(c) ==
  /\ ReceiptOf(c) = NoReceipt
  /\ Goto(c, "receipt", "revision")
  /\ UNCHANGED <<server, call, work, wire, answer>>

(* Fault: an attempt counted by the loop and again by its handler. *)
ReadRevisionCountingTwice(c) ==
  /\ Goto(c, "revision", IF mode[c] = "atomic" THEN "method" ELSE "waiting")
  /\ base' = [base EXCEPT ![c] = version]
  /\ IF mode[c] = "atomic"
     THEN UNCHANGED <<attempt, wire>>
     ELSE /\ attempt' = [attempt EXCEPT ![c] = @ + 2]
          /\ wire' = [wire EXCEPT ![c] = "sent"]
  /\ UNCHANGED <<server, call, seen, staged, answer>>

ReadRevision(c) ==
  /\ Goto(c, "revision", IF mode[c] = "atomic" THEN "method" ELSE "waiting")
  /\ base' = [base EXCEPT ![c] = version]
  /\ IF mode[c] = "atomic"
     THEN UNCHANGED <<attempt, wire>>
     ELSE /\ attempt' = [attempt EXCEPT ![c] = @ + 1]
          /\ wire' = [wire EXCEPT ![c] = "sent"]
  /\ UNCHANGED <<server, call, seen, staged, answer>>

-----------------------------------------------------------------------------
(* The method, on staged stores that read the live base. *)

ReadTable(c, t) ==
  /\ pc[c] = "method"
  /\ t \in method[c].reads
  /\ seen' = [seen EXCEPT ![c] = @ \cup {Look(store, t)}]
  /\ UNCHANGED <<server, pc, call, attempt, base, staged, wire, answer>>

(* The record a method writes next. *)
NewRecord(c) == <<c, Len(staged[c]) + 1>>

View(c) == Overlay(store, staged[c])

(* A method replaces a record it has read, in the base or in its own stage. *)
Known(c, t, r) ==
  \/ \E o \in seen[c] : o.table = t /\ r \in o.content
  \/ \E i \in DOMAIN staged[c] : staged[c][i].table = t /\ staged[c][i].after = r

(* initialize() and replace_exact() look again at the overlay before they   *)
(* stage; append() and remember() do not.                                   *)
StageableOps(c) ==
  { op \in { Initialize(NewRecord(c)), AppendTo("memory", NewRecord(c)),
             AppendTo("journal", NewRecord(c)) }
           \cup { Replace(t, r, NewRecord(c)) : t \in {"mind", "memory"},
                                                r \in View(c).mind \cup View(c).memory } :
    /\ <<op.table, op.operation>> \in method[c].writes
    /\ Fits(op, View(c))
    /\ op.operation = "replace" => Known(c, op.table, op.before) }

Stage(c) ==
  /\ pc[c] = "method"
  /\ Len(staged[c]) < MaxStaged
  /\ \E op \in StageableOps(c) : staged' = [staged EXCEPT ![c] = Append(@, op)]
  /\ UNCHANGED <<server, pc, call, attempt, base, seen, wire, answer>>

(* Nothing staged and no key: commit() returns at once. *)
ReturnReading(c) ==
  /\ staged[c] = <<>> /\ token[c] = NoToken
  /\ Goto(c, "method", "answered")
  /\ Answer(c, Returned(c))
  /\ UNCHANGED <<server, call, work, wire>>

RequestCommit(c) ==
  /\ staged[c] # <<>> \/ token[c] # NoToken
  /\ Goto(c, "method", "waiting")
  /\ wire' = [wire EXCEPT ![c] = "sent"]
  /\ UNCHANGED <<server, call, work, answer>>

(* The method raises: nothing was published and nothing will be. *)
MethodRaises(c) ==
  /\ Goto(c, "method", "answered")
  /\ Answer(c, Raised("error"))
  /\ UNCHANGED <<server, call, work, wire>>

-----------------------------------------------------------------------------
(* The backend's transaction. *)

(* Faults: the revision, or the receipt, is not compared at publication. *)
PublishableAtAnyRevision(c) == Published(store, staged[c]) # {} /\ ReceiptOf(c) = NoReceipt
PublishableAgain(c) == version = base[c] /\ Published(store, staged[c]) # {}

Publishable(c) ==
  /\ version = base[c]
  /\ Published(store, staged[c]) # {}
  /\ ReceiptOf(c) = NoReceipt

(* Fault: a raw append does not move the revision. *)
PublishAppendSilently(c) ==
  /\ wire[c] = "sent"
  /\ Publishable(c)
  /\ store' \in Published(store, staged[c])
  /\ version' = IF mode[c] = "append" THEN version ELSE version + 1
  /\ receipts' = IF token[c] = NoToken THEN receipts
                 ELSE [receipts EXCEPT ![token[c]] = [by |-> c, input |-> input[c]]]
  /\ history' = Append(history, [by |-> c, seen |-> seen[c], ops |-> staged[c]])
  /\ wire' = [wire EXCEPT ![c] = "applied"]
  /\ UNCHANGED <<unversioned, pc, call, work, answer>>

Publish(c) ==
  /\ wire[c] = "sent"
  /\ Publishable(c)
  /\ store' \in Published(store, staged[c])
  /\ version' = version + 1
  /\ receipts' = IF token[c] = NoToken THEN receipts
                 ELSE [receipts EXCEPT ![token[c]] = [by |-> c, input |-> input[c]]]
  /\ history' = Append(history, [by |-> c, seen |-> seen[c], ops |-> staged[c]])
  /\ wire' = [wire EXCEPT ![c] = "applied"]
  /\ UNCHANGED <<unversioned, pc, call, work, answer>>

(* surreal_query() raises CommitConflict for whatever the server reports,   *)
(* the other backends only for what they compared.                          *)
Refuse(c) ==
  /\ wire[c] = "sent"
  /\ ~Publishable(c) \/ BusyIsConflict
  /\ wire' = [wire EXCEPT ![c] = "conflict"]
  /\ UNCHANGED <<server, pc, call, work, answer>>

(* Fault: the first operation survives a transaction that is given up. *)
AbortHalfway(c) ==
  /\ wire[c] = "sent" /\ staged[c] # <<>>
  /\ store' = Effect(staged[c][1], store)
  /\ wire' = [wire EXCEPT ![c] = "failed"]
  /\ UNCHANGED <<version, receipts, history, unversioned, pc, call, work, answer>>

(* The driver or the server gives the transaction up: nothing is applied. *)
Abort(c) ==
  /\ wire[c] = "sent"
  /\ wire' = [wire EXCEPT ![c] = "failed"]
  /\ UNCHANGED <<server, pc, call, work, answer>>

(* Fault: what consolidation learns takes the place of a memory it rests on. *)
RememberInstead(r) ==
  /\ r \notin store.memory \cup unversioned
  /\ \E m \in store.memory : store' = [store EXCEPT !.memory = (@ \ {m}) \cup {r}]
  /\ unversioned' = unversioned \cup {r}
  /\ UNCHANGED <<version, receipts, history, pc, call, work, wire, answer>>

(* sleep() calls remember() on the store itself, with no revision. *)
Remember(r) ==
  /\ r \notin store.memory \cup unversioned
  /\ store' = [store EXCEPT !.memory = @ \cup {r}]
  /\ unversioned' = unversioned \cup {r}
  /\ UNCHANGED <<version, receipts, history, pc, call, work, wire, answer>>

-----------------------------------------------------------------------------
(* The replies. *)

Acknowledged(c) ==
  /\ wire[c] = "applied"
  /\ Goto(c, "waiting", "answered")
  /\ Answer(c, Returned(c))
  /\ UNCHANGED <<server, call, work, wire>>

(* Fault: whatever commit() raised counts as a conflict. *)
CommitRaisesConflict(c) ==
  /\ mode[c] = "atomic"
  /\ pc[c] = "waiting"
  /\ wire[c] \in {"sent", "applied", "failed", "conflict"}
  /\ pc' = [pc EXCEPT ![c] = "recover conflict"]
  /\ UNCHANGED <<server, call, work, wire, answer>>

(* An atomic call whose commit() raised looks for its receipt: the publish  *)
(* may have happened although its reply was lost.                           *)
CommitRaises(c) ==
  /\ mode[c] = "atomic"
  /\ pc[c] = "waiting"
  /\ \/ /\ wire[c] = "conflict"
        /\ pc' = [pc EXCEPT ![c] = "recover conflict"]
     \/ /\ wire[c] \in {"sent", "applied", "failed"}
        /\ pc' = [pc EXCEPT ![c] = "recover error"]
  /\ UNCHANGED <<server, call, work, wire, answer>>

Recovering(c) == pc[c] \in {"recover conflict", "recover error"}

(* Fault: the fingerprint of the recovered receipt is not compared. *)
RecoverAnyReceipt(c) ==
  /\ Recovering(c)
  /\ pc' = [pc EXCEPT ![c] = "answered"]
  /\ Answer(c, IF ReceiptOf(c) # NoReceipt
               THEN Returned(ReceiptOf(c).by)
               ELSE Raised(IF pc[c] = "recover conflict" THEN "conflict" ELSE "error"))
  /\ UNCHANGED <<server, call, work, wire>>

Recover(c) ==
  /\ Recovering(c)
  /\ pc' = [pc EXCEPT ![c] = "answered"]
  /\ Answer(c, IF ReceiptOf(c) # NoReceipt /\ ReceiptOf(c).input = input[c]
               THEN Returned(ReceiptOf(c).by)
               ELSE Raised(IF pc[c] = "recover conflict" THEN "conflict" ELSE "error"))
  /\ UNCHANGED <<server, call, work, wire>>

(* Reading the recovery receipt fails as well. *)
RecoverRaises(c) ==
  /\ Recovering(c)
  /\ pc' = [pc EXCEPT ![c] = "answered"]
  /\ Answer(c, Raised("error"))
  /\ UNCHANGED <<server, call, work, wire>>

(* Only a conflict is tried again, and only while attempts remain. *)
AppendAgain(c) ==
  /\ mode[c] = "append" /\ wire[c] = "conflict"
  /\ attempt[c] < AppendAttempts
  /\ Goto(c, "waiting", "revision")
  /\ wire' = [wire EXCEPT ![c] = "none"]
  /\ UNCHANGED <<server, call, work, answer>>

(* Fault: an append never gives up on a request that was lost. *)
AppendRaisesConflictOnly(c) ==
  /\ mode[c] = "append"
  /\ Goto(c, "waiting", "answered")
  /\ wire[c] = "conflict" /\ attempt[c] = AppendAttempts
  /\ Answer(c, Raised("conflict"))
  /\ UNCHANGED <<server, call, work, wire>>

AppendRaises(c) ==
  /\ mode[c] = "append"
  /\ Goto(c, "waiting", "answered")
  /\ \/ /\ wire[c] = "conflict" /\ attempt[c] = AppendAttempts
        /\ Answer(c, Raised("conflict"))
     \/ /\ wire[c] \in {"sent", "applied", "failed"}
        /\ Answer(c, Raised("error"))
  /\ UNCHANGED <<server, call, work, wire>>

(* The task is cancelled or its process dies; what it sent stays on the way. *)
Crash(c) ==
  /\ pc[c] \notin {"idle", "answered", "gone"}
  /\ pc' = [pc EXCEPT ![c] = "gone"]
  /\ UNCHANGED <<server, call, work, wire, answer>>

-----------------------------------------------------------------------------
CallStep(c) ==
  \/ ReplaySaved(c) \/ NoSavedResult(c) \/ ReadRevision(c)
  \/ Acknowledged(c) \/ CommitRaises(c) \/ Recover(c)
  \/ AppendAgain(c) \/ AppendRaises(c)

MethodStep(c) ==
  \/ \E t \in Tables : ReadTable(c, t)
  \/ Stage(c) \/ ReturnReading(c) \/ RequestCommit(c) \/ MethodRaises(c)

ServerStep(c) == Publish(c) \/ Refuse(c) \/ Abort(c)

Next ==
  \/ \E c \in Callers :
       \/ \E m \in Methods, t \in Tokens \cup {NoToken}, i \in Inputs : BeginAtomic(c, m, t, i)
       \/ BeginAppend(c)
       \/ CallStep(c) \/ MethodStep(c) \/ ServerStep(c)
       \/ RecoverRaises(c) \/ Crash(c)
  \/ \E r \in Reflections : Remember(r)

Spec == Init /\ [][Next]_vars

(* A running task takes its next step, its method returns or raises in the  *)
(* end, and the backend decides a request.                                  *)
MethodEnds(c) == ReturnReading(c) \/ RequestCommit(c) \/ MethodRaises(c)

FairSpec ==
  Spec /\ \A c \in Callers :
            WF_vars(CallStep(c)) /\ WF_vars(MethodEnds(c)) /\ WF_vars(ServerStep(c))

-----------------------------------------------------------------------------
Phases == {"idle", "receipt", "revision", "method", "waiting",
           "recover conflict", "recover error", "answered", "gone"}

Observations ==
  [table: {"mind", "memory"}, content: SUBSET Records] \cup [table: {"journal"}, content: Nat]

(* The variables hold values of the program's kinds. *)
TypeOK ==
  /\ store \in Stores
  /\ version \in Nat
  /\ receipts \in [Tokens -> [by: Callers, input: Inputs \cup {"nothing"}] \cup {NoReceipt}]
  /\ pc \in [Callers -> Phases]
  /\ mode \in [Callers -> {"atomic", "append"}]
  /\ method \in [Callers -> Methods \cup {NoMethod}]
  /\ token \in [Callers -> Tokens \cup {NoToken}]
  /\ input \in [Callers -> Inputs \cup {"nothing"}]
  /\ attempt \in [Callers -> 0..AppendAttempts]
  /\ \A c \in Callers :
       pc[c] \in {"idle", "receipt", "revision"} => attempt[c] < AppendAttempts
  /\ base \in [Callers -> Nat]
  /\ seen \in [Callers -> SUBSET Observations]
  /\ staged \in [Callers -> Seq(Operations)]
  /\ wire \in [Callers -> {"none", "sent", "applied", "conflict", "failed"}]
  /\ answer \in [Callers -> [kind: {"none", "result", "conflict", "error"},
                             by: Callers \cup {"nobody"}]]
  /\ history \in Seq([by: Callers, seen: SUBSET Observations, ops: Seq(Operations)])
  /\ unversioned \subseteq Reflections

(* The mind's history is serial: the detailed protocol implements the       *)
(* specification in which operations run alone (commit() line 257 and its   *)
(* Surreal and in-memory twins compare the revision read before the method).*)
Serial == INSTANCE SerialMind WITH Outcomes <- Published, Reading <- Look
SerialHistory == Serial!Spec

PublishedBy(c) == { i \in DOMAIN history : history[i].by = c }

(* A call is published at most once, and so is a token, whatever replies    *)
(* were lost and however often the caller tried again (the receipt and the  *)
(* three attempts of a raw append).                                         *)
AtMostOnce ==
  \A i, j \in DOMAIN history : i # j =>
    /\ history[i].by # history[j].by
    /\ token[history[i].by] = NoToken \/ token[history[i].by] # token[history[j].by]

(* A result returned for a token is the published one: the receipt names    *)
(* the caller that computed it, from the same arguments, and every call     *)
(* with that token and those arguments returns it.                          *)
AnswerIsDurable ==
  \A c \in Callers : answer[c].kind = "result" /\ token[c] # NoToken =>
    /\ receipts[token[c]] = [by |-> answer[c].by, input |-> input[c]]
    /\ PublishedBy(answer[c].by) # {}

(* CommitConflict tells the caller that nothing of its call was published   *)
(* and that nothing will be: complete_interaction and the raw append start  *)
(* again on the strength of it.                                             *)
ConflictIsFinal ==
  \A c \in Callers : answer[c].kind = "conflict" =>
    PublishedBy(c) = {} /\ wire[c] # "sent"

(* Where a conflict is what the backend compared, whoever is refused lost   *)
(* to somebody else's publication: one that came after the revision it      *)
(* read, or one that used its token up.  What it staged would have fitted   *)
(* otherwise, although consolidation adds memories between its reads and    *)
(* its request and moves no revision (commit(), lines 250-290; sleep.py).   *)
ConflictMeansProgress ==
  \A c \in Callers : wire[c] = "conflict" /\ ~BusyIsConflict =>
    \E i \in DOMAIN history :
      /\ history[i].by # c
      /\ i > base[c] \/ ReceiptOf(c).by = history[i].by

(* While the revision a caller read is current, so is everything it read    *)
(* since: the reason why comparing one number at the end is enough.         *)
ReadingsCurrent ==
  \A c \in Callers : version = base[c] =>
    \A o \in seen[c] : Serial!Truthful(o, store, unversioned)

(* The invariants below carry the proofs of those above. *)

(* A request is on its way only for a caller that waits or has left. *)
RequestsFollowCalls ==
  \A c \in Callers :
    /\ pc[c] \in {"idle", "receipt", "revision", "method"} => wire[c] = "none"
    /\ pc[c] = "recover conflict" => wire[c] = "conflict"
    /\ pc[c] = "idle" => token[c] = NoToken
    /\ mode[c] = "append" => pc[c] \notin {"idle", "receipt", "method"} /\ token[c] = NoToken

(* Only a finished call has an answer, and a conflict was refused or never  *)
(* sent.                                                                    *)
AnswersEndCalls ==
  \A c \in Callers :
    /\ pc[c] # "answered" => answer[c] = Unanswered
    /\ answer[c].kind = "conflict" => wire[c] \in {"none", "conflict"}

(* Nothing is read before the revision is, and a revision never runs ahead. *)
ReadingsFollowRevision ==
  \A c \in Callers :
    /\ pc[c] \in {"idle", "receipt", "revision"} \/ mode[c] = "append" => seen[c] = {}
    /\ base[c] <= version

(* "applied" is exactly what the history holds, and a receipt is the        *)
(* published call of its token.                                             *)
HistoryIsApplied ==
  /\ \A i \in DOMAIN history : wire[history[i].by] = "applied"
  /\ \A c \in Callers : wire[c] = "applied" =>
       /\ \E i \in DOMAIN history : history[i].by = c
       /\ token[c] # NoToken => receipts[token[c]] = [by |-> c, input |-> input[c]]
  /\ \A t \in Tokens : receipts[t] # NoReceipt => wire[receipts[t].by] = "applied"

(* Every call whose method ends, ends: with a result, an error, or the       *)
(* death of its task.  Neither lost replies nor conflicts, of which a        *)
(* backend may report any number, keep it retrying (append_journal_committed,*)
(* storage.py line 32; wrapped(), commit.py line 400).                       *)
EveryCallEnds ==
  \A c \in Callers : pc[c] # "idle" ~> pc[c] \in {"answered", "gone"}
================================================================================
