---------------------------- MODULE MessageEvents ----------------------------
(***************************************************************************)
(* The outbox of message and sensory events (mcp_events.py).  Subscriptions *)
(* and deliveries of a Mind are one record, changed by compare-and-swap     *)
(* (_change), so every change of it is one step here.  submit() marks the   *)
(* request it files for an event and enqueues it; workers repair what was   *)
(* not enqueued, claim due deliveries for 60 seconds, post them one by one  *)
(* and file the results.  Time is facts: a subscription, a claim or a       *)
(* request is over, a delivery is due.  Passive requests are the ones that  *)
(* ask to interpret evidence.                                               *)
(***************************************************************************)
EXTENDS Naturals, Sequences, FiniteSets

CONSTANTS
    Messages,       \* requests filed while their event has a subscriber
    Subs,           \* subscriptions: client, callback and filter
    Workers,        \* delivery workers, of any process
    Nobody,
    Batch,          \* deliveries claimed at once (4)
    MaxAttempts,    \* attempts before a delivery has failed (6)
    MaxFaults       \* bound: crashes, and claims outlived

ASSUME EventsAssumption ==
    /\ Nobody \notin Workers
    /\ Batch \in Nat \ {0} /\ MaxAttempts \in Nat \ {0} /\ MaxFaults \in Nat

VARIABLES
    message,        \* the request: "none", "pending" or "over", its kind, and its marker
    submitter,      \* submit() of each request
    sub,            \* subscriptions: absent, live or expired, and what they are too young for
    deliveries,     \* the outbox
    worker,         \* what each worker is doing
    faults,
    accepted,       \* observer: events their callback accepted
    owed,           \* observer: events a subscription of then and now is owed
    dropped         \* observer: deliveries given up for good

eventVars == <<message, submitter, sub, deliveries, worker, faults, accepted, owed, dropped>>
observed == <<accepted, owed, dropped>>

Resting == [at |-> "rest", todo |-> {}, batch |-> {}, posted |-> <<>>, result |-> "none"]
NoSub == [on |-> FALSE, expired |-> FALSE, tooYoungFor |-> {}]

EvInit ==
    /\ message = [m \in Messages |-> [state |-> "none", passive |-> FALSE, marked |-> FALSE]]
    /\ submitter = [m \in Messages |-> "none"]
    /\ sub = [s \in Subs |-> NoSub]
    /\ deliveries = <<>>
    /\ worker = [w \in Workers |-> Resting]
    /\ faults = 0
    /\ accepted = {} /\ owed = {} /\ dropped = {}

Live(s) == sub[s].on /\ ~sub[s].expired

Of(s, keys) == {k \in keys : k[1] = s}
Only(keys) == [k \in keys |-> deliveries[k]]

-----------------------------------------------------------------------------
(* Subscriptions *)

\* Once its callback has answered a challenge.  A renewal keeps created_at, so
\* that it is owed what its predecessor was.
Subscribe(s) ==
    /\ ~Live(s)
    /\ sub' = [sub EXCEPT ![s] =
            [on |-> TRUE, expired |-> FALSE,
             tooYoungFor |-> IF sub[s].on THEN sub[s].tooYoungFor
                             ELSE {m \in Messages : message[m].state # "none"}]]
    /\ UNCHANGED <<message, submitter, deliveries, worker, faults, observed>>

\* The subscription and its deliveries go together.
RemoveSub(s) ==
    /\ sub' = [sub EXCEPT ![s] = NoSub]
    /\ deliveries' = Only(DOMAIN deliveries \ Of(s, DOMAIN deliveries))
    /\ owed' = owed \ Of(s, owed)

Unsubscribe(s) ==
    /\ sub[s].on
    /\ RemoveSub(s)
    /\ UNCHANGED <<message, submitter, worker, faults, accepted, dropped>>

SubExpires(s) ==
    /\ Live(s)
    /\ sub' = [sub EXCEPT ![s].expired = TRUE]
    /\ owed' = owed \ Of(s, owed)
    /\ UNCHANGED <<message, submitter, deliveries, worker, faults, accepted, dropped>>

-----------------------------------------------------------------------------
(* Requests *)

\* Fault: the request is marked as enqueued when it is filed.
FileMarked(m) ==
    /\ message[m].state = "none"
    /\ \E s \in Subs : Live(s)
    /\ \E passive \in BOOLEAN :
        message' = [message EXCEPT ![m] = [state |-> "pending", passive |-> passive, marked |-> TRUE]]
    /\ submitter' = [submitter EXCEPT ![m] = "append"]
    /\ owed' = owed \cup {<<s, m>> : s \in {x \in Subs : Live(x)}}
    /\ UNCHANGED <<sub, deliveries, worker, faults, accepted, dropped>>

\* submit(): the request records that an event has to be enqueued for it.
File(m) ==
    /\ message[m].state = "none"
    /\ \E s \in Subs : Live(s)
    /\ \E passive \in BOOLEAN :
        message' = [message EXCEPT ![m] = [@ EXCEPT !.state = "pending", !.passive = passive]]
    /\ submitter' = [submitter EXCEPT ![m] = "append"]
    /\ owed' = owed \cup {<<s, m>> : s \in {x \in Subs : Live(x)}}
    /\ UNCHANGED <<sub, deliveries, worker, faults, accepted, dropped>>

\* Answered, cancelled, or out of time.  Nobody is owed the news of evidence
\* that cannot be interpreted any more, or of a message nobody enqueued in time.
Over(m) ==
    /\ message[m].state = "pending"
    /\ message' = [message EXCEPT ![m].state = "over"]
    /\ owed' = IF message[m].passive \/ ~message[m].marked THEN {k \in owed : k[2] # m} ELSE owed
    /\ UNCHANGED <<submitter, sub, deliveries, worker, faults, accepted, dropped>>

\* One delivery for each subscription that matches; one already there stays.
Appended(m) ==
    LET new == {<<s, m>> : s \in {x \in Subs : Live(x) /\ m \notin sub[x].tooYoungFor}}
    IN  [k \in DOMAIN deliveries \cup new |->
            IF k \in DOMAIN deliveries THEN deliveries[k]
            ELSE [attempts |-> 0, due |-> TRUE, claim |-> Nobody, lapsed |-> FALSE,
                  state |-> "pending"]]

\* enqueue(): append, then mark the request as enqueued.  A request that is
\* no longer pending is passed over, and stays unmarked.
EnqueueAppend(m) == deliveries' = IF message[m].state = "pending" THEN Appended(m) ELSE deliveries
EnqueueMark(m) == message' = [message EXCEPT ![m].marked = TRUE]

SubmitAppends(m) ==
    /\ submitter[m] = "append"
    /\ EnqueueAppend(m)
    /\ submitter' = [submitter EXCEPT ![m] = IF message[m].state = "pending" THEN "mark" ELSE "done"]
    /\ UNCHANGED <<message, sub, worker, faults, observed>>

SubmitMarks(m) ==
    /\ submitter[m] = "mark"
    /\ EnqueueMark(m)
    /\ submitter' = [submitter EXCEPT ![m] = "done"]
    /\ UNCHANGED <<sub, deliveries, worker, faults, observed>>

\* The process stops, or enqueue() gives up on a busy record.
SubmitFails(m) ==
    /\ submitter[m] \in {"append", "mark"} /\ faults < MaxFaults
    /\ submitter' = [submitter EXCEPT ![m] = "done"]
    /\ faults' = faults + 1
    /\ UNCHANGED <<message, sub, deliveries, worker, observed>>

-----------------------------------------------------------------------------
(* Delivery *)

WorkerIs(w, state) == worker' = [worker EXCEPT ![w] = state]

\* flush(): what is pending and not enqueued comes first.
StartFlush(w) ==
    /\ worker[w].at = "rest"
    /\ WorkerIs(w, [Resting EXCEPT !.at = "append",
            !.todo = {m \in Messages : message[m].state = "pending" /\ ~message[m].marked}])
    /\ UNCHANGED <<message, submitter, sub, deliveries, faults, observed>>

\* The request was read before: that it is over since then goes unnoticed.
RepairAppends(w) ==
    /\ worker[w].at = "append"
    /\ \E m \in worker[w].todo :
        /\ deliveries' = Appended(m)
        /\ WorkerIs(w, [worker[w] EXCEPT !.at = "mark", !.posted = <<m>>])
    /\ UNCHANGED <<message, submitter, sub, faults, observed>>

RepairMarks(w) ==
    /\ worker[w].at = "mark"
    /\ LET m == worker[w].posted[1] IN
        /\ EnqueueMark(m)
        /\ WorkerIs(w, [worker[w] EXCEPT !.at = "append", !.posted = <<>>, !.todo = @ \ {m}])
    /\ UNCHANGED <<submitter, sub, deliveries, faults, observed>>

\* Fault: a claim is never over.
DueUnclaimed(k) ==
    LET d == deliveries[k]
    IN  d.state = "pending" /\ d.due /\ d.claim = Nobody

Due(k) ==
    LET d == deliveries[k]
    IN  d.state = "pending" /\ d.due /\ (d.claim = Nobody \/ d.lapsed)

\* Purge what has expired, then claim a few due deliveries for 60 seconds.
Take(w) ==
    /\ worker[w].at = "append" /\ worker[w].todo = {}
    /\ LET expired == {s \in Subs : sub[s].on /\ sub[s].expired}
           kept    == {k \in DOMAIN deliveries : sub[k[1]].on /\ k[1] \notin expired}
           due     == {k \in kept : Due(k)}
       IN  /\ sub' = [s \in Subs |-> IF s \in expired THEN NoSub ELSE sub[s]]
           /\ \E batch \in {b \in SUBSET due : Cardinality(b) = (IF Cardinality(due) < Batch
                                                     THEN Cardinality(due) ELSE Batch)} :
               /\ deliveries' = [k \in kept |->
                    IF k \in batch THEN [deliveries[k] EXCEPT !.claim = w, !.lapsed = FALSE]
                    ELSE deliveries[k]]
               /\ WorkerIs(w, IF batch = {} THEN Resting ELSE [Resting EXCEPT !.at = "post", !.batch = batch])
    /\ UNCHANGED <<message, submitter, faults, observed>>

Current(w) == worker[w].posted[1]
\* Fault: whoever posted a delivery files its result.
HoldingAny(w, k) == k \in DOMAIN deliveries

Holding(w, k) == k \in DOMAIN deliveries /\ deliveries[k].claim = w
Stale(k) == message[k[2]].passive /\ message[k[2]].state = "over"

\* On to the next delivery of the batch.
Onward(w, k) ==
    IF worker[w].batch = {k} THEN Resting
    ELSE [worker[w] EXCEPT !.at = "post", !.batch = @ \ {k}, !.posted = <<>>, !.result = "none"]

\* Nobody is told of evidence that cannot be interpreted any more.
DropStale(w) ==
    /\ worker[w].at = "post"
    /\ \E k \in worker[w].batch :
        /\ Stale(k)
        /\ deliveries' = IF Holding(w, k) THEN Only(DOMAIN deliveries \ {k}) ELSE deliveries
        /\ WorkerIs(w, Onward(w, k))
    /\ UNCHANGED <<message, submitter, sub, faults, observed>>

\* What comes of authorisation and the post.  The callback may have accepted
\* an event whose answer never comes.
Post(w) ==
    /\ worker[w].at = "post"
    /\ \E k \in worker[w].batch, result \in {"accepted", "failed", "too_large", "gone"} :
        /\ ~Stale(k)
        /\ accepted' \in CASE result = "accepted" -> {accepted \cup {k}}
                           [] result = "failed"   -> {accepted, accepted \cup {k}}
                           [] OTHER               -> {accepted}
        /\ WorkerIs(w, [worker[w] EXCEPT !.at = "finish", !.posted = <<k>>, !.result = result])
    /\ UNCHANGED <<message, submitter, sub, deliveries, faults, owed, dropped>>

\* A result of a delivery that this worker no longer holds is ignored.
FinishLate(w) ==
    /\ worker[w].at = "finish" /\ ~Holding(w, Current(w))
    /\ WorkerIs(w, Onward(w, Current(w)))
    /\ UNCHANGED <<message, submitter, sub, deliveries, faults, observed>>

FinishGone(w) ==
    /\ worker[w].at = "finish" /\ Holding(w, Current(w))
    /\ worker[w].result = "gone"
    /\ RemoveSub(Current(w)[1])
    /\ WorkerIs(w, Onward(w, Current(w)))
    /\ UNCHANGED <<message, submitter, faults, accepted, dropped>>

FinishAccepted(w) ==
    /\ worker[w].at = "finish" /\ Holding(w, Current(w)) /\ worker[w].result = "accepted"
    /\ deliveries' = Only(DOMAIN deliveries \ {Current(w)})
    /\ WorkerIs(w, Onward(w, Current(w)))
    /\ UNCHANGED <<message, submitter, sub, faults, observed>>

\* Try again later, unless that was the last attempt.  (The history keeps 64
\* failed deliveries: more than the model has.)
FinishFailed(w) ==
    /\ worker[w].at = "finish" /\ Holding(w, Current(w))
    /\ worker[w].result \in {"failed", "too_large"}
    /\ LET k == Current(w)
           attempts == deliveries[k].attempts + 1
           failed == worker[w].result = "too_large" \/ attempts >= MaxAttempts
       IN  /\ deliveries' = [deliveries EXCEPT ![k] =
                [attempts |-> attempts, due |-> FALSE, claim |-> Nobody, lapsed |-> FALSE,
                 state |-> IF failed THEN "failed" ELSE "pending"]]
           /\ dropped' = IF failed THEN dropped \cup {k} ELSE dropped
    /\ WorkerIs(w, Onward(w, Current(w)))
    /\ UNCHANGED <<message, submitter, sub, faults, accepted, owed>>

\* The worker's process stops, or the record was busy: the flush is over.
FlushFails(w) ==
    /\ worker[w].at # "rest" /\ faults < MaxFaults
    /\ WorkerIs(w, Resting)
    /\ faults' = faults + 1
    /\ UNCHANGED <<message, submitter, sub, deliveries, observed>>

\* Facts of time: a claim of 60 seconds is over, a backoff has passed.  That a
\* worker outlives its claim counts as a fault.
ClaimLapses(k) ==
    /\ k \in DOMAIN deliveries /\ deliveries[k].claim # Nobody /\ ~deliveries[k].lapsed
    /\ LET busy == k \in worker[deliveries[k].claim].batch
       IN  /\ busy => faults < MaxFaults
           /\ faults' = IF busy THEN faults + 1 ELSE faults
    /\ deliveries' = [deliveries EXCEPT ![k].lapsed = TRUE]
    /\ UNCHANGED <<message, submitter, sub, worker, observed>>

BackoffPasses(k) ==
    /\ k \in DOMAIN deliveries /\ ~deliveries[k].due /\ deliveries[k].state = "pending"
    /\ deliveries' = [deliveries EXCEPT ![k].due = TRUE]
    /\ UNCHANGED <<message, submitter, sub, worker, faults, observed>>

Keys == Subs \X Messages

EvClients ==
    \/ \E s \in Subs : Subscribe(s) \/ Unsubscribe(s) \/ SubExpires(s)
    \/ \E m \in Messages : File(m) \/ Over(m)
    \/ \E m \in Messages : SubmitAppends(m) \/ SubmitMarks(m) \/ SubmitFails(m)

Works(w) ==
    \/ StartFlush(w) \/ RepairAppends(w) \/ RepairMarks(w) \/ Take(w) \/ DropStale(w) \/ Post(w)
    \/ FinishLate(w) \/ FinishGone(w) \/ FinishAccepted(w) \/ FinishFailed(w)

EvNext ==
    \/ EvClients
    \/ \E w \in Workers : Works(w) \/ FlushFails(w)
    \/ \E k \in Keys : ClaimLapses(k) \/ BackoffPasses(k)

\* The worker loops for as long as the server runs, and time passes.
EvFairness ==
    /\ \A w \in Workers : WF_eventVars(Works(w))
    /\ \A m \in Messages : WF_eventVars(SubmitAppends(m) \/ SubmitMarks(m))
    /\ \A k \in Keys : WF_eventVars(ClaimLapses(k)) /\ WF_eventVars(BackoffPasses(k))

EvSpec == EvInit /\ [][EvNext]_eventVars /\ EvFairness

-----------------------------------------------------------------------------
\* The outbox holds well-formed deliveries, and every one of a subscription
\* that is there: none is ever left without its callback.
OutboxOK ==
    /\ DOMAIN deliveries \subseteq Keys
    /\ \A k \in DOMAIN deliveries :
        /\ deliveries[k] \in [attempts : 0 .. MaxAttempts, due : BOOLEAN, lapsed : BOOLEAN,
                              claim : Workers \cup {Nobody}, state : {"pending", "failed"}]
        /\ sub[k[1]].on
    /\ \A w \in Workers : worker[w].at \in {"post", "finish"} => worker[w].batch # {}

\* An event that a subscription is owed is in the outbox, or was accepted, or
\* was given up after the last attempt: a request marked as enqueued has lost
\* nothing, whatever crashed between the two records (enqueue, flush).
NothingLost ==
    \A k \in owed : message[k[2]].marked => k \in DOMAIN deliveries \cup accepted \cup dropped

\* A late result changes nothing: only the holder of the claim counts an
\* attempt, removes the delivery, or removes the subscription with it.
LateResultsIgnored ==
    [][\A k \in DOMAIN deliveries :
        LET d == deliveries[k]
        IN  d.claim # Nobody /\ ~d.lapsed
                /\ (k \notin DOMAIN deliveries' \/ deliveries'[k].attempts # d.attempts)
            => \/ worker'[d.claim] # worker[d.claim]
               \/ ~sub'[k[1]].on]_eventVars

\* Everything owed is accepted, given up, or no longer owed.  (Nothing is owed
\* twice, so that the events that are owed at some moment can be taken together.)
StillOwed == owed \ (accepted \cup dropped) # {}
EveryOwedEventEnds == StillOwed ~> ~StillOwed

\* The shared record of subscriptions and deliveries is well formed, and no
\* message that is owed to a live subscription is missing from it.
EventsAreKept ==
    /\ OutboxOK
    /\ NothingLost
=============================================================================
