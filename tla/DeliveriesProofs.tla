--------------------------- MODULE DeliveriesProofs ---------------------------
(***************************************************************************)
(* Proofs about what has to arrive: events to subscribers (MessageEvents),  *)
(* prompts to the reasoning chat (BodyReceiver), speech to a Body's windows *)
(* (BodyVoice), and what calls of providers ask, decide and save             *)
(* (TaskDispatch), for any messages, subscriptions, workers, requests,      *)
(* windows, intents, endpoints and calls.                                   *)
(*                                                                         *)
(* Each component is proved about for its own initial states and steps; the *)
(* specification that the runs check, in which one of them moves, implements *)
(* each of them (ComponentsMove).                                           *)
(***************************************************************************)
EXTENDS MCDeliveries, FiniteSetTheorems, SequenceTheorems, TLAPS

-----------------------------------------------------------------------------
(* Message and sensory events *)

EvMessage == [state : {"none", "pending", "over"}, passive : BOOLEAN, marked : BOOLEAN]
EvSub == [on : BOOLEAN, expired : BOOLEAN, tooYoungFor : SUBSET Messages]
EvDelivery == [attempts : 0 .. MaxAttempts, due : BOOLEAN, lapsed : BOOLEAN,
               claim : Workers \cup {Nobody}, state : {"pending", "failed"}]
EvPosts == Seq(Messages \cup Keys)
EvWorker == [at : {"rest", "append", "mark", "post", "finish"}, todo : SUBSET Messages,
             batch : SUBSET Keys, posted : EvPosts,
             result : {"none", "accepted", "failed", "too_large", "gone"}]

EvTyped ==
    /\ message \in [Messages -> EvMessage]
    /\ submitter \in [Messages -> {"none", "append", "mark", "done"}]
    /\ sub \in [Subs -> EvSub]
    /\ deliveries = [k \in DOMAIN deliveries |-> deliveries[k]]
    /\ DOMAIN deliveries \subseteq Keys
    /\ \A k \in DOMAIN deliveries : deliveries[k] \in EvDelivery
    /\ worker \in [Workers -> EvWorker]
    /\ owed \subseteq Keys

Filed(m) == message[m].state # "none"

\* Everything owed about m was enqueued, whatever has become of it.
Enqueued(m) == \A k \in owed : k[2] = m => k \in DOMAIN deliveries \cup accepted \cup dropped

\* Whoever marks m, or has marked it, has enqueued what is owed about it.
Marking(m) ==
    \/ message[m].marked
    \/ submitter[m] = "mark"
    \/ \E w \in Workers : worker[w].at = "mark" /\ worker[w].posted[1] = m

MessageKept(m) ==
    /\ ~Filed(m) => ~message[m].marked /\ submitter[m] = "none"
    /\ Marking(m) => Enqueued(m)

\* Who is too young for a request came after it.
SubKept(s) == \A m \in sub[s].tooYoungFor : Filed(m)

\* Only pending deliveries are claimed, and they have an attempt left.
DeliveryKept(k) ==
    /\ sub[k[1]].on
    /\ deliveries[k].claim # Nobody => deliveries[k].state = "pending"
    /\ deliveries[k].state = "pending" => deliveries[k].attempts < MaxAttempts

EvWorkerKept(r) ==
    /\ \A m \in r.todo : Filed(m)
    /\ r.at = "mark" => r.posted[1] \in r.todo
    /\ r.at \in {"post", "finish"} => r.batch # {}
    /\ r.at = "finish" => r.posted[1] \in r.batch
    /\ r.at = "finish" /\ r.result = "accepted" => r.posted[1] \in accepted

\* Only live subscriptions are owed anything, and only news that can be told.
OwedKept(k) ==
    /\ Live(k[1]) /\ k[2] \notin sub[k[1]].tooYoungFor
    /\ Filed(k[2]) /\ ~Stale(k)

\* What the run checks rests on the claims, on the marks to come, and on what
\* the workers have in hand.
EvKept ==
    /\ EvTyped
    /\ \A m \in Messages : MessageKept(m)
    /\ \A s \in Subs : SubKept(s)
    /\ \A k \in DOMAIN deliveries : DeliveryKept(k)
    /\ \A w \in Workers : EvWorkerKept(worker[w])
    /\ \A k \in owed : OwedKept(k)

LEMMA EvPosted ==
    /\ <<>> \in EvPosts
    /\ \A x \in Messages \cup Keys : <<x>> \in EvPosts /\ <<x>>[1] = x
BY DEF EvPosts

LEMMA EvResting == Resting \in EvWorker
BY EvPosted DEF Resting, EvWorker

LEMMA EvInitKept == EvInit => EvKept
<1> SUFFICES ASSUME EvInit PROVE EvKept
    OBVIOUS
<1>1. EvTyped
  <2>1. /\ message \in [Messages -> EvMessage]
        /\ submitter \in [Messages -> {"none", "append", "mark", "done"}]
        /\ sub \in [Subs -> EvSub]
        /\ owed \subseteq Keys
    BY DEF EvInit, EvMessage, EvSub, NoSub, Keys
  <2>2. deliveries = [k \in DOMAIN deliveries |-> deliveries[k]] /\ DOMAIN deliveries = {}
    BY DEF EvInit
  <2>4. worker \in [Workers -> EvWorker]
    BY EvResting DEF EvInit
  <2> QED BY <2>1, <2>2, <2>4 DEF EvTyped
<1> QED BY <1>1 DEF EvInit, EvKept, EvTyped, MessageKept, Marking, Enqueued, SubKept, NoSub, Filed,
           DeliveryKept, EvWorkerKept, OwedKept, Resting

-----------------------------------------------------------------------------
(* Steps of subscribers *)

LEMMA EvSubscribe ==
    ASSUME EvKept, NEW s \in Subs, Subscribe(s) PROVE EvKept'
<1>1. EvTyped'
  BY DEF EvKept, EvTyped, Subscribe, observed, EvSub
<1>2. \A m \in Messages : MessageKept(m)'
  BY DEF EvKept, MessageKept, Marking, Enqueued, Filed, Subscribe, observed
<1>3. \A x \in Subs : SubKept(x)'
  BY DEF EvKept, EvTyped, SubKept, Filed, EvSub, Subscribe
<1>4. \A k \in DOMAIN deliveries' : DeliveryKept(k)'
  BY DEF EvKept, EvTyped, DeliveryKept, EvSub, Subscribe
<1>5. \A w \in Workers : EvWorkerKept(worker[w])'
  BY DEF EvKept, EvWorkerKept, Filed, Subscribe, observed
<1>6. \A k \in owed' : OwedKept(k)'
  BY DEF EvKept, EvTyped, OwedKept, Live, Filed, Stale, EvSub, Keys, Subscribe, observed
<1> QED BY <1>1, <1>2, <1>3, <1>4, <1>5, <1>6 DEF EvKept

LEMMA EvUnsubscribe ==
    ASSUME EvKept, NEW s \in Subs, Unsubscribe(s) PROVE EvKept'
<1> USE DEF Unsubscribe, RemoveSub, Only, Of
<1>1. EvTyped'
  BY DEF EvKept, EvTyped, EvSub, NoSub
<1>2. \A m \in Messages : MessageKept(m)'
  BY DEF EvKept, EvTyped, MessageKept, Marking, Enqueued, Filed
<1>3. \A x \in Subs : SubKept(x)'
  BY DEF EvKept, EvTyped, SubKept, Filed, EvSub, NoSub
<1>4. \A k \in DOMAIN deliveries' : DeliveryKept(k)'
  BY DEF EvKept, EvTyped, DeliveryKept, EvSub
<1>5. \A w \in Workers : EvWorkerKept(worker[w])'
  BY DEF EvKept, EvWorkerKept, Filed
<1>6. \A k \in owed' : OwedKept(k)'
  BY DEF EvKept, EvTyped, OwedKept, Live, Filed, Stale, EvSub, Keys
<1> QED BY <1>1, <1>2, <1>3, <1>4, <1>5, <1>6 DEF EvKept

LEMMA EvSubExpires ==
    ASSUME EvKept, NEW s \in Subs, SubExpires(s) PROVE EvKept'
<1> USE DEF SubExpires, Of
<1>1. EvTyped'
  BY DEF EvKept, EvTyped, EvSub
<1>2. \A m \in Messages : MessageKept(m)'
  BY DEF EvKept, EvTyped, MessageKept, Marking, Enqueued, Filed
<1>3. \A x \in Subs : SubKept(x)'
  BY DEF EvKept, EvTyped, SubKept, Filed, EvSub
<1>4. \A k \in DOMAIN deliveries' : DeliveryKept(k)'
  BY DEF EvKept, EvTyped, DeliveryKept, EvSub
<1>5. \A w \in Workers : EvWorkerKept(worker[w])'
  BY DEF EvKept, EvWorkerKept, Filed
<1>6. \A k \in owed' : OwedKept(k)'
  BY DEF EvKept, EvTyped, OwedKept, Live, Filed, Stale, EvSub, Keys
<1> QED BY <1>1, <1>2, <1>3, <1>4, <1>5, <1>6 DEF EvKept

-----------------------------------------------------------------------------
(* Steps of requests *)

LEMMA EvFile ==
    ASSUME EvKept, NEW m \in Messages, File(m) PROVE EvKept'
<1> USE DEF File
<1>1. EvTyped'
  <2>1. message' \in [Messages -> EvMessage]
    <3>1. PICK passive \in BOOLEAN :
            message' = [message EXCEPT ![m] = [@ EXCEPT !.state = "pending", !.passive = passive]]
      OBVIOUS
    <3>2. PICK r \in EvMessage : r = message[m]
      BY DEF EvKept, EvTyped
    <3>3. [r EXCEPT !.state = "pending", !.passive = passive] \in EvMessage
      BY DEF EvMessage
    <3> QED BY <3>1, <3>2, <3>3 DEF EvKept, EvTyped
  <2>2. owed' \subseteq Keys
    BY DEF EvKept, EvTyped, Keys
  <2> QED BY <2>1, <2>2 DEF EvKept, EvTyped
<1>2. \A n \in Messages : MessageKept(n)'
  <2> SUFFICES ASSUME NEW n \in Messages PROVE MessageKept(n)'
      OBVIOUS
  <2>1. CASE n = m
    BY <2>1 DEF EvKept, EvTyped, EvMessage, MessageKept, Marking, Enqueued, EvWorkerKept, EvWorker, Filed
  <2>2. CASE n # m
    BY <2>2 DEF EvKept, EvTyped, EvMessage, MessageKept, Marking, Enqueued, Filed
  <2> QED BY <2>1, <2>2
<1>3. \A x \in Subs : SubKept(x)'
  BY DEF EvKept, EvTyped, EvMessage, SubKept, Filed, EvSub
<1>4. \A k \in DOMAIN deliveries' : DeliveryKept(k)'
  BY DEF EvKept, EvTyped, DeliveryKept
<1>5. \A w \in Workers : EvWorkerKept(worker[w])'
  BY DEF EvKept, EvTyped, EvMessage, EvWorkerKept, EvWorker, Filed
<1>6. \A k \in owed' : OwedKept(k)'
  BY DEF EvKept, EvTyped, EvMessage, OwedKept, SubKept, Live, Filed, Stale, EvSub, Keys
<1> QED BY <1>1, <1>2, <1>3, <1>4, <1>5, <1>6 DEF EvKept

LEMMA EvOver ==
    ASSUME EvKept, NEW m \in Messages, Over(m) PROVE EvKept'
<1> USE DEF Over
<1>1. EvTyped'
  BY DEF EvKept, EvTyped, EvMessage, Keys
<1>2. \A n \in Messages : MessageKept(n)'
  BY DEF EvKept, EvTyped, EvMessage, MessageKept, Marking, Enqueued, Filed
<1>3. \A x \in Subs : SubKept(x)'
  BY DEF EvKept, EvTyped, EvMessage, SubKept, Filed, EvSub
<1>4. \A k \in DOMAIN deliveries' : DeliveryKept(k)'
  BY DEF EvKept, EvTyped, DeliveryKept
<1>5. \A w \in Workers : EvWorkerKept(worker[w])'
  BY DEF EvKept, EvTyped, EvMessage, EvWorkerKept, EvWorker, Filed
<1>6. \A k \in owed' : OwedKept(k)'
  BY DEF EvKept, EvTyped, EvMessage, OwedKept, Live, Filed, Stale, EvSub, Keys
<1> QED BY <1>1, <1>2, <1>3, <1>4, <1>5, <1>6 DEF EvKept

\* What enqueuing m leaves behind: well-formed deliveries, with everything that
\* was there, and everything owed about m.
LEMMA EvAppended ==
    ASSUME EvKept, NEW m \in Messages
    PROVE  LET after == Appended(m) IN
           /\ after = [k \in DOMAIN after |-> after[k]]
           /\ DOMAIN after \subseteq Keys
           /\ DOMAIN deliveries \subseteq DOMAIN after
           /\ \A k \in DOMAIN after :
                 /\ after[k] \in EvDelivery /\ sub[k[1]].on
                 /\ after[k].claim # Nobody => after[k].state = "pending"
                 /\ after[k].state = "pending" => after[k].attempts < MaxAttempts
           /\ \A k \in owed : k[2] = m => k \in DOMAIN after
<1> DEFINE new == {<<s, m>> : s \in {x \in Subs : Live(x) /\ m \notin sub[x].tooYoungFor}}
           fresh == [attempts |-> 0, due |-> TRUE, claim |-> Nobody, lapsed |-> FALSE,
                     state |-> "pending"]
           after == Appended(m)
<1>1. new \subseteq Keys /\ \A k \in new : sub[k[1]].on
  BY DEF Keys, Live
<1>2. fresh \in EvDelivery /\ 0 < MaxAttempts
  BY EventsAssumption DEF EvDelivery
<1>3. /\ after = [k \in DOMAIN deliveries \cup new |->
                    IF k \in DOMAIN deliveries THEN deliveries[k] ELSE fresh]
      /\ DOMAIN after = DOMAIN deliveries \cup new
  BY DEF Appended
<1>4. \A k \in owed : k[2] = m => k \in new
  BY DEF EvKept, EvTyped, OwedKept, Keys
<1>5. /\ fresh.claim = Nobody /\ fresh.state = "pending" /\ fresh.attempts = 0
  OBVIOUS
<1> HIDE DEF new, fresh, after
<1>6. \A k \in DOMAIN after :
                 /\ after[k] \in EvDelivery /\ sub[k[1]].on
                 /\ after[k].claim # Nobody => after[k].state = "pending"
                 /\ after[k].state = "pending" => after[k].attempts < MaxAttempts
  BY <1>1, <1>2, <1>3, <1>5 DEF EvKept, EvTyped, DeliveryKept
<1>7. /\ after = [k \in DOMAIN after |-> after[k]]
      /\ DOMAIN after \subseteq Keys
      /\ DOMAIN deliveries \subseteq DOMAIN after
      /\ \A k \in owed : k[2] = m => k \in DOMAIN after
  BY <1>1, <1>3, <1>4 DEF EvKept, EvTyped
<1> QED BY <1>6, <1>7 DEF after

LEMMA EvSubmitAppends ==
    ASSUME EvKept, NEW m \in Messages, SubmitAppends(m) PROVE EvKept'
<1> USE DEF SubmitAppends, EnqueueAppend, observed
<1>1. CASE message[m].state # "pending"
  BY <1>1 DEF EvKept, EvTyped, MessageKept, Marking, Enqueued, Filed, SubKept, DeliveryKept,
              EvWorkerKept, OwedKept, Live, Stale
<1>2. CASE message[m].state = "pending"
  <2> DEFINE after == Appended(m)
  <2>0. deliveries' = after
    BY <1>2
  <2>a. /\ after = [k \in DOMAIN after |-> after[k]]
        /\ DOMAIN after \subseteq Keys
        /\ DOMAIN deliveries \subseteq DOMAIN after
        /\ \A k \in DOMAIN after :
              /\ after[k] \in EvDelivery /\ sub[k[1]].on
              /\ after[k].claim # Nobody => after[k].state = "pending"
              /\ after[k].state = "pending" => after[k].attempts < MaxAttempts
        /\ \A k \in owed : k[2] = m => k \in DOMAIN after
    BY EvAppended
  <2> HIDE DEF after
  <2>1. EvTyped'
    BY <2>0, <2>a DEF EvKept, EvTyped
  <2>2. \A n \in Messages : MessageKept(n)'
    <3> SUFFICES ASSUME NEW n \in Messages PROVE MessageKept(n)'
        OBVIOUS
    <3>1. CASE n = m
      BY <1>2, <2>0, <2>a, <3>1 DEF EvKept, EvTyped, MessageKept, Marking, Enqueued, Filed
    <3>2. CASE n # m
      BY <2>0, <2>a, <3>2 DEF EvKept, EvTyped, MessageKept, Marking, Enqueued, Filed
    <3> QED BY <3>1, <3>2
  <2>3. \A x \in Subs : SubKept(x)'
    BY DEF EvKept, SubKept, Filed
  <2>4. \A k \in DOMAIN deliveries' : DeliveryKept(k)'
    BY <2>0, <2>a DEF DeliveryKept
  <2>5. \A w \in Workers : EvWorkerKept(worker[w])'
    BY DEF EvKept, EvWorkerKept, Filed
  <2>6. \A k \in owed' : OwedKept(k)'
    BY DEF EvKept, OwedKept, Live, Filed, Stale
  <2> QED BY <2>1, <2>2, <2>3, <2>4, <2>5, <2>6 DEF EvKept
<1> QED BY <1>1, <1>2

LEMMA EvSubmitMarks ==
    ASSUME EvKept, NEW m \in Messages, SubmitMarks(m) PROVE EvKept'
<1> USE DEF SubmitMarks, EnqueueMark, observed
<1>1. EvTyped'
  BY DEF EvKept, EvTyped, EvMessage, Keys
<1>2. \A n \in Messages : MessageKept(n)'
  BY DEF EvKept, EvTyped, EvMessage, MessageKept, Marking, Enqueued, Filed
<1>3. \A x \in Subs : SubKept(x)'
  BY DEF EvKept, EvTyped, EvMessage, SubKept, Filed, EvSub
<1>4. \A k \in DOMAIN deliveries' : DeliveryKept(k)'
  BY DEF EvKept, EvTyped, DeliveryKept
<1>5. \A w \in Workers : EvWorkerKept(worker[w])'
  BY DEF EvKept, EvTyped, EvMessage, EvWorkerKept, EvWorker, Filed
<1>6. \A k \in owed' : OwedKept(k)'
  BY DEF EvKept, EvTyped, EvMessage, OwedKept, Live, Filed, Stale, EvSub, Keys
<1> QED BY <1>1, <1>2, <1>3, <1>4, <1>5, <1>6 DEF EvKept

LEMMA EvSubmitFails ==
    ASSUME EvKept, NEW m \in Messages, SubmitFails(m) PROVE EvKept'
BY DEF SubmitFails, observed, EvKept, EvTyped, MessageKept, Marking, Enqueued, Filed, SubKept,
       DeliveryKept, EvWorkerKept, OwedKept, Live, Stale

-----------------------------------------------------------------------------
(* Steps of workers *)

\* A record in the hands of a worker, as its next step finds it.
LEMMA EvRecord ==
    ASSUME EvKept, NEW w \in Workers
    PROVE  worker[w] \in EvWorker /\ EvWorkerKept(worker[w])
BY DEF EvKept, EvTyped

\* What the other workers have in hand stays, when requests stay filed and
\* events stay accepted.
LEMMA EvMoves ==
    ASSUME EvKept, NEW w \in Workers, NEW r, worker' = [worker EXCEPT ![w] = r],
           r \in EvWorker, EvWorkerKept(r)',
           \A m \in Messages : Filed(m) => Filed(m)', accepted \subseteq accepted'
    PROVE  /\ worker' \in [Workers -> EvWorker]
           /\ \A v \in Workers : EvWorkerKept(worker[v])'
           /\ worker'[w] = r /\ \A v \in Workers \ {w} : worker'[v] = worker[v]
<1>1. /\ worker'[w] = r /\ \A v \in Workers \ {w} : worker'[v] = worker[v]
      /\ worker' \in [Workers -> EvWorker]
  BY DEF EvKept, EvTyped
<1>2. \A v \in Workers \ {w} : EvWorkerKept(worker[v])'
  BY <1>1, EvRecord DEF EvWorkerKept, EvWorker
<1>3. EvWorkerKept(worker[w])'
  BY <1>1 DEF EvWorkerKept
<1> QED BY <1>1, <1>2, <1>3

LEMMA EvStartFlush ==
    ASSUME EvKept, NEW w \in Workers, StartFlush(w) PROVE EvKept'
<1>1. PICK todo \in SUBSET Messages :
         todo = {m \in Messages : message[m].state = "pending" /\ ~message[m].marked}
  OBVIOUS
<1>2. PICK b \in EvWorker : b = Resting
  BY EvResting
<1> DEFINE r == [b EXCEPT !.at = "append", !.todo = todo]
<1>3. /\ worker' = [worker EXCEPT ![w] = r]
      /\ UNCHANGED <<message, submitter, sub, deliveries, faults, accepted, owed, dropped>>
  BY <1>1, <1>2 DEF StartFlush, WorkerIs, observed
<1>4. r \in EvWorker /\ r.at = "append" /\ r.todo = todo
  BY DEF EvWorker
<1> HIDE DEF r
<1>5. EvWorkerKept(r)'
  BY <1>1, <1>3, <1>4 DEF EvWorkerKept, Filed
<1>6. /\ worker' \in [Workers -> EvWorker]
      /\ \A v \in Workers : EvWorkerKept(worker[v])'
      /\ worker'[w] = r /\ \A v \in Workers \ {w} : worker'[v] = worker[v]
  BY <1>3, <1>4, <1>5, EvMoves DEF Filed
<1>7. \A m \in Messages : MessageKept(m)'
  BY <1>3, <1>4, <1>6 DEF EvKept, MessageKept, Marking, Enqueued, Filed
<1> QED BY <1>3, <1>6, <1>7 DEF EvKept, EvTyped, SubKept, Filed, DeliveryKept, OwedKept, Live, Stale

LEMMA EvRepairAppends ==
    ASSUME EvKept, NEW w \in Workers, RepairAppends(w) PROVE EvKept'
<1>1. PICK m \in worker[w].todo :
        /\ deliveries' = Appended(m)
        /\ worker' = [worker EXCEPT ![w] = [worker[w] EXCEPT !.at = "mark", !.posted = <<m>>]]
  BY DEF RepairAppends, WorkerIs
<1>2. UNCHANGED <<message, submitter, sub, faults, accepted, owed, dropped>>
  BY DEF RepairAppends, observed
<1>3. PICK b \in EvWorker : b = worker[w]
  BY EvRecord
<1>4. m \in Messages /\ m \in b.todo
  BY <1>1, <1>3 DEF EvWorker
<1> DEFINE r == [b EXCEPT !.at = "mark", !.posted = <<m>>]
<1>5. /\ r \in EvWorker /\ r.at = "mark" /\ r.todo = b.todo /\ r.posted[1] = m
  BY <1>4, EvPosted DEF EvWorker
<1>6. EvWorkerKept(r)'
  BY <1>2, <1>3, <1>4, <1>5, EvRecord DEF EvWorkerKept, Filed
<1>7. worker' = [worker EXCEPT ![w] = r]
  BY <1>1, <1>3
<1> HIDE DEF r
<1>8. /\ worker' \in [Workers -> EvWorker]
      /\ \A v \in Workers : EvWorkerKept(worker[v])'
      /\ worker'[w] = r /\ \A v \in Workers \ {w} : worker'[v] = worker[v]
  BY <1>2, <1>5, <1>6, <1>7, EvMoves DEF Filed
<1> DEFINE after == Appended(m)
<1>9. deliveries' = after
  BY <1>1
<1>10. /\ after = [k \in DOMAIN after |-> after[k]]
       /\ DOMAIN after \subseteq Keys
       /\ DOMAIN deliveries \subseteq DOMAIN after
       /\ \A k \in DOMAIN after :
             /\ after[k] \in EvDelivery /\ sub[k[1]].on
             /\ after[k].claim # Nobody => after[k].state = "pending"
             /\ after[k].state = "pending" => after[k].attempts < MaxAttempts
       /\ \A k \in owed : k[2] = m => k \in DOMAIN after
  BY <1>4, EvAppended
<1> HIDE DEF after
<1>11. \A n \in Messages : MessageKept(n)'
  <2> SUFFICES ASSUME NEW n \in Messages PROVE MessageKept(n)'
      OBVIOUS
  <2>1. CASE n = m
    BY <1>2, <1>3, <1>4, <1>9, <1>10, <2>1, EvRecord
       DEF EvKept, EvTyped, MessageKept, Marking, Enqueued, Filed, EvWorkerKept
  <2>2. CASE n # m
    BY <1>2, <1>5, <1>8, <1>9, <1>10, <2>2
       DEF EvKept, EvTyped, MessageKept, Marking, Enqueued, Filed
  <2> QED BY <2>1, <2>2
<1>12. EvTyped'
  BY <1>2, <1>8, <1>9, <1>10 DEF EvKept, EvTyped
<1>13. \A k \in DOMAIN deliveries' : DeliveryKept(k)'
  BY <1>2, <1>9, <1>10 DEF DeliveryKept
<1> QED BY <1>2, <1>8, <1>11, <1>12, <1>13 DEF EvKept, SubKept, Filed, OwedKept, Live, Stale

LEMMA EvRepairMarks ==
    ASSUME EvKept, NEW w \in Workers, RepairMarks(w) PROVE EvKept'
<1>1. PICK b \in EvWorker : b = worker[w]
  BY EvRecord
<1> DEFINE m == b.posted[1]
           r == [b EXCEPT !.at = "append", !.posted = <<>>, !.todo = @ \ {m}]
<1>2. /\ worker' = [worker EXCEPT ![w] = r]
      /\ message' = [message EXCEPT ![m].marked = TRUE]
      /\ worker[w].at = "mark"
      /\ UNCHANGED <<submitter, sub, deliveries, faults, accepted, owed, dropped>>
  BY <1>1 DEF RepairMarks, WorkerIs, EnqueueMark, observed
<1>3. m \in b.todo /\ m \in Messages
  BY <1>1, <1>2, EvRecord DEF EvWorkerKept, EvWorker
<1>4. r \in EvWorker /\ r.at = "append" /\ r.todo = b.todo \ {m}
  <2> DEFINE todo == b.todo \ {m}
             none == <<>>
  <2>1. todo \in SUBSET Messages /\ none \in EvPosts
    BY EvPosted DEF EvWorker
  <2>2. r = [b EXCEPT !.at = "append", !.posted = none, !.todo = todo]
    BY DEF EvWorker
  <2>3. r.todo = b.todo \ {m}
    BY <2>2 DEF EvWorker
  <2> HIDE DEF r, todo, none
  <2> QED BY <2>1, <2>2, <2>3 DEF EvWorker
<1> HIDE DEF r, m
<1>5. /\ message' \in [Messages -> EvMessage]
      /\ \A n \in Messages : /\ message'[n].state = message[n].state
                             /\ message'[n].passive = message[n].passive
                             /\ n # m => message'[n] = message[n]
  BY <1>2, <1>3 DEF EvKept, EvTyped, EvMessage
<1>6. EvWorkerKept(r)'
  BY <1>1, <1>3, <1>4, <1>5, EvRecord DEF EvWorkerKept, EvWorker, Filed
<1>7. /\ worker' \in [Workers -> EvWorker]
      /\ \A v \in Workers : EvWorkerKept(worker[v])'
      /\ worker'[w] = r /\ \A v \in Workers \ {w} : worker'[v] = worker[v]
  BY <1>2, <1>4, <1>5, <1>6, EvMoves DEF Filed
<1>8. Marking(m) /\ Filed(m)
  BY <1>1, <1>2, <1>3, EvRecord DEF Marking, m, EvWorkerKept
<1>9. \A n \in Messages : MessageKept(n)'
  <2> SUFFICES ASSUME NEW n \in Messages PROVE MessageKept(n)'
      OBVIOUS
  <2>1. CASE n = m
    BY <1>2, <1>3, <1>5, <1>8, <2>1 DEF EvKept, MessageKept, Enqueued, Filed
  <2>2. CASE n # m
    BY <1>2, <1>4, <1>5, <1>7, <2>2 DEF EvKept, MessageKept, Marking, Enqueued, Filed
  <2> QED BY <2>1, <2>2
<1>10. EvTyped'
  BY <1>2, <1>5, <1>7 DEF EvKept, EvTyped
<1>11. \A k \in owed' : OwedKept(k)'
  BY <1>2, <1>5 DEF EvKept, EvTyped, Keys, OwedKept, Live, Filed, Stale
<1>12. \A s \in Subs : SubKept(s)'
  BY <1>2, <1>5 DEF EvKept, EvTyped, EvSub, SubKept, Filed
<1>13. \A k \in DOMAIN deliveries' : DeliveryKept(k)'
  BY <1>2 DEF EvKept, DeliveryKept
<1> QED BY <1>7, <1>9, <1>10, <1>11, <1>12, <1>13 DEF EvKept

LEMMA EvTake ==
    ASSUME EvKept, NEW w \in Workers, Take(w) PROVE EvKept'
<1> DEFINE expired == {s \in Subs : sub[s].on /\ sub[s].expired}
           kept == {k \in DOMAIN deliveries : sub[k[1]].on /\ k[1] \notin expired}
           due == {k \in kept : Due(k)}
<1>1. PICK batch \in SUBSET due :
        /\ deliveries' = [k \in kept |->
                    IF k \in batch THEN [deliveries[k] EXCEPT !.claim = w, !.lapsed = FALSE]
                    ELSE deliveries[k]]
        /\ worker' = [worker EXCEPT ![w] = IF batch = {} THEN Resting
                                           ELSE [Resting EXCEPT !.at = "post", !.batch = batch]]
  BY DEF Take, WorkerIs
<1>2. /\ sub' = [s \in Subs |-> IF s \in expired THEN NoSub ELSE sub[s]]
      /\ UNCHANGED <<message, submitter, faults, accepted, owed, dropped>>
  BY DEF Take, observed
<1> DEFINE r == IF batch = {} THEN Resting ELSE [Resting EXCEPT !.at = "post", !.batch = batch]
<1>3. kept \subseteq DOMAIN deliveries /\ batch \subseteq Keys
  BY DEF EvKept, EvTyped
<1>4. /\ r \in EvWorker /\ r.todo = {} /\ r.at \in {"rest", "post"}
      /\ r.at = "post" => r.batch # {}
  <2>1. CASE batch = {}
    BY <2>1, EvResting DEF Resting
  <2>2. CASE batch # {}
    <3>1. PICK b \in EvWorker : b = Resting
      BY EvResting
    <3>2. r = [b EXCEPT !.at = "post", !.batch = batch] /\ b.todo = {}
      BY <2>2, <3>1 DEF Resting
    <3> HIDE DEF r
    <3> QED BY <1>3, <2>2, <3>2 DEF EvWorker
  <2> QED BY <2>1, <2>2
<1> HIDE DEF r
<1>5. EvWorkerKept(r)'
  BY <1>4 DEF EvWorkerKept
<1>6. /\ worker' \in [Workers -> EvWorker]
      /\ \A v \in Workers : EvWorkerKept(worker[v])'
      /\ worker'[w] = r /\ \A v \in Workers \ {w} : worker'[v] = worker[v]
  BY <1>1, <1>2, <1>4, <1>5, EvMoves DEF r, Filed
<1>7. sub' \in [Subs -> EvSub]
  BY <1>2 DEF EvKept, EvTyped, EvSub, NoSub
<1>8. \A s \in Subs : SubKept(s)'
  BY <1>2 DEF EvKept, EvTyped, SubKept, NoSub, Filed
<1>9. \A k \in DOMAIN deliveries' : deliveries'[k] \in EvDelivery /\ DeliveryKept(k)'
  <2> SUFFICES ASSUME NEW k \in DOMAIN deliveries'
               PROVE  deliveries'[k] \in EvDelivery /\ DeliveryKept(k)'
      OBVIOUS
  <2>1. k \in kept /\ k \in DOMAIN deliveries /\ deliveries[k] \in EvDelivery /\ DeliveryKept(k)
    BY <1>1 DEF EvKept, EvTyped
  <2>2. k[1] \in Subs /\ sub'[k[1]].on
    BY <1>2, <2>1 DEF EvKept, EvTyped, Keys
  <2>3. CASE k \notin batch
    BY <1>1, <2>1, <2>2, <2>3 DEF DeliveryKept
  <2>4. CASE k \in batch
    <3>1. PICK d \in EvDelivery : d = deliveries[k]
      BY <2>1
    <3>2. deliveries'[k] = [d EXCEPT !.claim = w, !.lapsed = FALSE]
      BY <1>1, <2>1, <2>4, <3>1
    <3>3. d.state = "pending"
      BY <2>4, <3>1 DEF Due
    <3> QED BY <2>1, <2>2, <3>1, <3>2, <3>3 DEF DeliveryKept, EvDelivery
  <2> QED BY <2>3, <2>4
<1>10. owed \cap DOMAIN deliveries \subseteq DOMAIN deliveries'
  BY <1>1 DEF EvKept, OwedKept, Live
<1>11. \A m \in Messages : MessageKept(m)'
  BY <1>2, <1>4, <1>6, <1>10 DEF EvKept, MessageKept, Marking, Enqueued, Filed
<1>12. EvTyped'
  <2>1. deliveries' = [k \in DOMAIN deliveries' |-> deliveries'[k]]
    BY <1>1
  <2>2. DOMAIN deliveries' \subseteq Keys
    BY <1>1, <1>3 DEF EvKept, EvTyped
  <2> QED BY <1>2, <1>6, <1>7, <1>9, <2>1, <2>2 DEF EvKept, EvTyped
<1>13. \A k \in owed' : OwedKept(k)'
  <2> SUFFICES ASSUME NEW k \in owed PROVE OwedKept(k)'
      BY <1>2
  <2>1. k[1] \in Subs /\ OwedKept(k)
    BY DEF EvKept, EvTyped, Keys
  <2>2. sub'[k[1]] = sub[k[1]]
    BY <1>2, <2>1 DEF OwedKept, Live
  <2> QED BY <1>2, <2>1, <2>2 DEF OwedKept, Live, Filed, Stale
<1> QED BY <1>6, <1>8, <1>9, <1>11, <1>12, <1>13 DEF EvKept

\* On to the next delivery: nothing is in hand that was not.
LEMMA EvOnward ==
    ASSUME EvKept, NEW w \in Workers, worker[w].at \in {"post", "finish"}, NEW k
    PROVE  \E r \in EvWorker :
              /\ r = Onward(w, k)
              /\ r.at \in {"rest", "post"} /\ (r.at = "post" => r.batch # {})
              /\ r.todo \subseteq worker[w].todo /\ (k \in worker[w].batch => r # worker[w])
              /\ worker[w].at = "finish" => r # worker[w]
<1>1. PICK b \in EvWorker : b = worker[w]
  BY EvRecord
<1>2. CASE b.batch = {k}
  BY <1>1, <1>2, EvResting DEF Onward, Resting
<1>3. CASE b.batch # {k}
  <2> DEFINE batch == b.batch \ {k}
             none == <<>>
             r == [b EXCEPT !.at = "post", !.batch = batch, !.posted = none, !.result = "none"]
  <2>1. r = Onward(w, k)
    BY <1>1, <1>3 DEF Onward, EvWorker
  <2>2. batch \in SUBSET Keys /\ none \in EvPosts
    BY EvPosted DEF EvWorker
  <2>3. batch # {}
    BY <1>1, <1>3, EvRecord DEF EvWorkerKept
  <2>4. k \in b.batch => batch # b.batch
    OBVIOUS
  <2> HIDE DEF batch, none
  <2>5. r \in EvWorker /\ r.at = "post" /\ r.batch = batch /\ r.todo = b.todo
    BY <2>2 DEF EvWorker
  <2> HIDE DEF r
  <2> QED BY <1>1, <2>1, <2>3, <2>4, <2>5
<1> QED BY <1>2, <1>3

\* A worker goes on and leaves the requests and subscriptions alone; deliveries
\* it removes are owed to nobody, or were accepted.
LEMMA EvGoesOn ==
    ASSUME EvKept, NEW w \in Workers, worker[w].at \in {"post", "finish"}, NEW k,
           WorkerIs(w, Onward(w, k)), UNCHANGED <<message, submitter, sub, accepted, owed>>,
           dropped \subseteq dropped',
           deliveries' = [x \in DOMAIN deliveries' |-> deliveries'[x]],
           DOMAIN deliveries' \subseteq DOMAIN deliveries,
           owed \cap DOMAIN deliveries \subseteq DOMAIN deliveries' \cup accepted,
           \A x \in DOMAIN deliveries' : deliveries'[x] \in EvDelivery /\ DeliveryKept(x)'
    PROVE  EvKept'
<1>1. PICK r \in EvWorker :
              /\ r = Onward(w, k)
              /\ r.at \in {"rest", "post"} /\ (r.at = "post" => r.batch # {})
              /\ r.todo \subseteq worker[w].todo
  BY EvOnward
<1>2. EvWorkerKept(r)'
  BY <1>1, EvRecord DEF EvWorkerKept, Filed
<1>3. /\ worker' \in [Workers -> EvWorker]
      /\ \A v \in Workers : EvWorkerKept(worker[v])'
      /\ worker'[w] = r /\ \A v \in Workers \ {w} : worker'[v] = worker[v]
  BY <1>1, <1>2, EvMoves DEF Filed, WorkerIs
<1>4. \A m \in Messages : MessageKept(m)'
  BY <1>1, <1>3 DEF EvKept, MessageKept, Marking, Enqueued, Filed
<1>5. EvTyped'
  BY <1>3 DEF EvKept, EvTyped
<1> QED BY <1>3, <1>4, <1>5 DEF EvKept, SubKept, Filed, OwedKept, Live, Stale

LEMMA EvDropStale ==
    ASSUME EvKept, NEW w \in Workers, DropStale(w) PROVE EvKept'
<1>1. PICK k \in worker[w].batch :
        /\ Stale(k)
        /\ deliveries' = IF Holding(w, k) THEN Only(DOMAIN deliveries \ {k}) ELSE deliveries
        /\ WorkerIs(w, Onward(w, k))
  BY DEF DropStale
<1>2. worker[w].at = "post" /\ UNCHANGED <<message, submitter, sub, faults, accepted, owed, dropped>>
  BY DEF DropStale, observed
<1>3. k \notin owed
  BY <1>1 DEF EvKept, OwedKept
<1>4. /\ deliveries' = [x \in DOMAIN deliveries' |-> deliveries'[x]]
      /\ DOMAIN deliveries' \subseteq DOMAIN deliveries
      /\ owed \cap DOMAIN deliveries \subseteq DOMAIN deliveries'
      /\ \A x \in DOMAIN deliveries' : deliveries'[x] = deliveries[x]
  BY <1>1, <1>3 DEF Only, EvKept, EvTyped
<1>5. \A x \in DOMAIN deliveries' : deliveries'[x] \in EvDelivery /\ DeliveryKept(x)'
  BY <1>2, <1>4 DEF EvKept, EvTyped, DeliveryKept
<1> QED BY <1>1, <1>2, <1>4, <1>5, EvGoesOn

LEMMA EvPost ==
    ASSUME EvKept, NEW w \in Workers, Post(w) PROVE EvKept'
<1>1. PICK k \in worker[w].batch, result \in {"accepted", "failed", "too_large", "gone"} :
        /\ accepted' \in CASE result = "accepted" -> {accepted \cup {k}}
                           [] result = "failed"   -> {accepted, accepted \cup {k}}
                           [] OTHER               -> {accepted}
        /\ WorkerIs(w, [worker[w] EXCEPT !.at = "finish", !.posted = <<k>>, !.result = result])
  BY DEF Post
<1>2. UNCHANGED <<message, submitter, sub, deliveries, faults, owed, dropped>>
  BY DEF Post
<1>3. accepted \subseteq accepted' /\ (result = "accepted" => k \in accepted')
  BY <1>1
<1>4. PICK b \in EvWorker : b = worker[w]
  BY EvRecord
<1>5. k \in b.batch /\ k \in Keys
  BY <1>1, <1>4 DEF EvWorker
<1> DEFINE r == [b EXCEPT !.at = "finish", !.posted = <<k>>, !.result = result]
<1>6. /\ r \in EvWorker /\ r.at = "finish" /\ r.posted[1] = k /\ r.result = result
      /\ r.batch = b.batch /\ r.todo = b.todo
  BY <1>5, EvPosted DEF EvWorker
<1>7. worker' = [worker EXCEPT ![w] = r]
  BY <1>1, <1>4 DEF WorkerIs
<1> HIDE DEF r
<1>8. EvWorkerKept(r)'
  BY <1>2, <1>3, <1>4, <1>5, <1>6, EvRecord DEF EvWorkerKept, Filed
<1>9. /\ worker' \in [Workers -> EvWorker]
      /\ \A v \in Workers : EvWorkerKept(worker[v])'
      /\ worker'[w] = r /\ \A v \in Workers \ {w} : worker'[v] = worker[v]
  BY <1>2, <1>3, <1>6, <1>7, <1>8, EvMoves DEF Filed
<1>10. \A m \in Messages : MessageKept(m)'
  BY <1>2, <1>3, <1>6, <1>9 DEF EvKept, MessageKept, Marking, Enqueued, Filed
<1> QED BY <1>2, <1>9, <1>10 DEF EvKept, EvTyped, SubKept, Filed, DeliveryKept, OwedKept, Live, Stale

LEMMA EvFinishLate ==
    ASSUME EvKept, NEW w \in Workers, FinishLate(w) PROVE EvKept'
<1>1. /\ worker[w].at = "finish" /\ WorkerIs(w, Onward(w, Current(w)))
      /\ UNCHANGED <<message, submitter, sub, deliveries, accepted, owed, dropped>>
  BY DEF FinishLate, observed
<1>2. \A x \in DOMAIN deliveries' : deliveries'[x] \in EvDelivery /\ DeliveryKept(x)'
  BY <1>1 DEF EvKept, EvTyped, DeliveryKept
<1>3. deliveries' = [x \in DOMAIN deliveries' |-> deliveries'[x]]
  BY <1>1 DEF EvKept, EvTyped
<1> QED BY <1>1, <1>2, <1>3, EvGoesOn

LEMMA EvFinishAccepted ==
    ASSUME EvKept, NEW w \in Workers, FinishAccepted(w) PROVE EvKept'
<1>1. /\ worker[w].at = "finish" /\ WorkerIs(w, Onward(w, Current(w)))
      /\ worker[w].result = "accepted"
      /\ UNCHANGED <<message, submitter, sub, accepted, owed, dropped>>
  BY DEF FinishAccepted, observed
<1>2. Current(w) \in accepted
  BY <1>1, EvRecord DEF EvWorkerKept, Current
<1>3. /\ deliveries' = [x \in DOMAIN deliveries' |-> deliveries'[x]]
      /\ DOMAIN deliveries' = DOMAIN deliveries \ {Current(w)}
      /\ \A x \in DOMAIN deliveries' : deliveries'[x] = deliveries[x]
  BY DEF FinishAccepted, Only
<1>4. \A x \in DOMAIN deliveries' : deliveries'[x] \in EvDelivery /\ DeliveryKept(x)'
  BY <1>1, <1>3 DEF EvKept, EvTyped, DeliveryKept
<1> QED BY <1>1, <1>2, <1>3, <1>4, EvGoesOn

\* Only a pending delivery is claimed, and it has an attempt left.
LEMMA EvFinishFailed ==
    ASSUME EvKept, NEW w \in Workers, FinishFailed(w) PROVE EvKept'
<1>1. PICK k : k = Current(w)
  OBVIOUS
<1>2. /\ worker[w].at = "finish" /\ WorkerIs(w, Onward(w, k)) /\ Holding(w, k)
      /\ UNCHANGED <<message, submitter, sub, accepted, owed>>
  BY <1>1 DEF FinishFailed
<1>3. PICK failed \in BOOLEAN :
        /\ failed <=> (worker[w].result = "too_large" \/ deliveries[k].attempts + 1 >= MaxAttempts)
        /\ deliveries' = [deliveries EXCEPT ![k] =
                [attempts |-> deliveries[k].attempts + 1, due |-> FALSE, claim |-> Nobody,
                 lapsed |-> FALSE, state |-> IF failed THEN "failed" ELSE "pending"]]
        /\ dropped' = IF failed THEN dropped \cup {k} ELSE dropped
  BY <1>1 DEF FinishFailed
<1>4. /\ deliveries[k] \in EvDelivery /\ DeliveryKept(k) /\ deliveries[k].claim # Nobody
      /\ k \in DOMAIN deliveries
  BY <1>2, EventsAssumption DEF EvKept, EvTyped, Holding
<1>5. deliveries[k].attempts \in 0 .. MaxAttempts /\ deliveries[k].attempts < MaxAttempts
  BY <1>4 DEF DeliveryKept, EvDelivery
<1> DEFINE d == [attempts |-> deliveries[k].attempts + 1, due |-> FALSE, claim |-> Nobody,
                 lapsed |-> FALSE, state |-> IF failed THEN "failed" ELSE "pending"]
<1>6. /\ d \in EvDelivery /\ d.claim = Nobody
      /\ d.state = "pending" => d.attempts < MaxAttempts
  BY <1>3, <1>5, EventsAssumption DEF EvDelivery
<1>7. deliveries' = [deliveries EXCEPT ![k] = d]
  BY <1>3
<1> HIDE DEF d
<1>8. /\ DOMAIN deliveries' = DOMAIN deliveries
      /\ \A x \in DOMAIN deliveries' : deliveries'[x] = IF x = k THEN d ELSE deliveries[x]
      /\ deliveries' = [x \in DOMAIN deliveries' |-> deliveries'[x]]
  BY <1>7 DEF EvKept, EvTyped
<1>9. \A x \in DOMAIN deliveries' : deliveries'[x] \in EvDelivery /\ DeliveryKept(x)'
  BY <1>2, <1>6, <1>8 DEF EvKept, EvTyped, DeliveryKept
<1>10. dropped \subseteq dropped'
  BY <1>3
<1> QED BY <1>2, <1>8, <1>9, <1>10, EvGoesOn

\* The subscription goes with its deliveries, as when it is cancelled.
LEMMA EvFinishGone ==
    ASSUME EvKept, NEW w \in Workers, FinishGone(w) PROVE EvKept'
<1>1. /\ worker[w].at = "finish" /\ WorkerIs(w, Onward(w, Current(w))) /\ Holding(w, Current(w))
      /\ RemoveSub(Current(w)[1])
      /\ UNCHANGED <<message, submitter, accepted, dropped>>
  BY DEF FinishGone
<1>2. PICK s \in Subs : s = Current(w)[1]
  BY <1>1 DEF Holding, EvKept, EvTyped, Keys
<1>3. PICK r \in EvWorker :
              /\ r = Onward(w, Current(w))
              /\ r.at \in {"rest", "post"} /\ (r.at = "post" => r.batch # {})
              /\ r.todo \subseteq worker[w].todo
  BY <1>1, EvOnward
<1>4. EvWorkerKept(r)'
  BY <1>1, <1>3, EvRecord DEF EvWorkerKept, Filed
<1>5. /\ worker' \in [Workers -> EvWorker]
      /\ \A v \in Workers : EvWorkerKept(worker[v])'
      /\ worker'[w] = r /\ \A v \in Workers \ {w} : worker'[v] = worker[v]
  BY <1>1, <1>3, <1>4, EvMoves DEF Filed, WorkerIs
<1>6. /\ sub' = [sub EXCEPT ![s] = NoSub]
      /\ deliveries' = Only(DOMAIN deliveries \ Of(s, DOMAIN deliveries))
      /\ owed' = owed \ Of(s, owed)
  BY <1>1, <1>2 DEF RemoveSub
<1> HIDE DEF Current
<1>7. EvTyped'
  BY <1>1, <1>5, <1>6 DEF EvKept, EvTyped, EvSub, NoSub, Only, Of
<1>8. \A m \in Messages : MessageKept(m)'
  BY <1>1, <1>3, <1>5, <1>6 DEF EvKept, EvTyped, MessageKept, Marking, Enqueued, Filed, Only, Of
<1>9. \A x \in Subs : SubKept(x)'
  BY <1>1, <1>6 DEF EvKept, EvTyped, SubKept, Filed, EvSub, NoSub
<1>10. \A k \in DOMAIN deliveries' : DeliveryKept(k)'
  BY <1>6 DEF EvKept, EvTyped, DeliveryKept, EvSub, Only, Of
<1>11. \A k \in owed' : OwedKept(k)'
  BY <1>1, <1>6 DEF EvKept, EvTyped, OwedKept, Live, Filed, Stale, EvSub, Keys, Of
<1> QED BY <1>5, <1>7, <1>8, <1>9, <1>10, <1>11 DEF EvKept

LEMMA EvFlushFails ==
    ASSUME EvKept, NEW w \in Workers, FlushFails(w) PROVE EvKept'
<1>1. /\ worker' = [worker EXCEPT ![w] = Resting]
      /\ UNCHANGED <<message, submitter, sub, deliveries, accepted, owed, dropped>>
  BY DEF FlushFails, WorkerIs, observed
<1>2. PICK r \in EvWorker : r = Resting /\ r.at = "rest" /\ r.todo = {}
  BY EvResting DEF Resting
<1>3. EvWorkerKept(r)'
  BY <1>2 DEF EvWorkerKept
<1>4. /\ worker' \in [Workers -> EvWorker]
      /\ \A v \in Workers : EvWorkerKept(worker[v])'
      /\ worker'[w] = r /\ \A v \in Workers \ {w} : worker'[v] = worker[v]
  BY <1>1, <1>2, <1>3, EvMoves DEF Filed
<1>5. \A m \in Messages : MessageKept(m)'
  BY <1>1, <1>2, <1>4 DEF EvKept, MessageKept, Marking, Enqueued, Filed
<1> QED BY <1>1, <1>4, <1>5 DEF EvKept, EvTyped, SubKept, Filed, DeliveryKept, OwedKept, Live, Stale

LEMMA EvTime ==
    ASSUME EvKept, NEW k \in Keys, ClaimLapses(k) \/ BackoffPasses(k) PROVE EvKept'
<1>1. /\ k \in DOMAIN deliveries
      /\ UNCHANGED <<message, submitter, sub, worker, accepted, owed, dropped>>
      /\ \/ deliveries' = [deliveries EXCEPT ![k].lapsed = TRUE]
         \/ deliveries' = [deliveries EXCEPT ![k].due = TRUE]
  BY DEF ClaimLapses, BackoffPasses, observed
<1>2. /\ DOMAIN deliveries' = DOMAIN deliveries
      /\ deliveries' = [x \in DOMAIN deliveries' |-> deliveries'[x]]
      /\ \A x \in DOMAIN deliveries : x # k => deliveries'[x] = deliveries[x]
      /\ deliveries'[k] \in {[deliveries[k] EXCEPT !.lapsed = TRUE], [deliveries[k] EXCEPT !.due = TRUE]}
  BY <1>1 DEF EvKept, EvTyped
<1>3. \A x \in DOMAIN deliveries' : deliveries'[x] \in EvDelivery /\ DeliveryKept(x)'
  <2>1. PICK d \in EvDelivery : d = deliveries[k]
    BY <1>1 DEF EvKept, EvTyped
  <2>2. deliveries'[k] \in EvDelivery /\ DeliveryKept(k)'
    BY <1>1, <1>2, <2>1 DEF EvKept, EvDelivery, DeliveryKept
  <2> QED BY <1>1, <1>2, <2>2 DEF EvKept, EvTyped, DeliveryKept
<1>4. EvTyped'
  BY <1>1, <1>2, <1>3 DEF EvKept, EvTyped
<1> QED BY <1>1, <1>2, <1>3, <1>4 DEF EvKept, MessageKept, Marking, Enqueued, Filed, SubKept,
                                       EvWorkerKept, OwedKept, Live, Stale

LEMMA EvStep == EvKept /\ [EvNext]_eventVars => EvKept'
<1> SUFFICES ASSUME EvKept, [EvNext]_eventVars PROVE EvKept'
    OBVIOUS
<1>1. CASE EvClients
  BY <1>1, EvSubscribe, EvUnsubscribe, EvSubExpires, EvFile, EvOver, EvSubmitAppends,
     EvSubmitMarks, EvSubmitFails DEF EvClients
<1>2. ASSUME NEW w \in Workers, Works(w) PROVE EvKept'
  BY <1>2, EvStartFlush, EvRepairAppends, EvRepairMarks, EvTake, EvDropStale, EvPost,
     EvFinishLate, EvFinishGone, EvFinishAccepted, EvFinishFailed DEF Works
<1>3. CASE UNCHANGED eventVars
  BY <1>3 DEF eventVars, EvKept, EvTyped, MessageKept, Marking, Enqueued, Filed, SubKept,
              DeliveryKept, EvWorkerKept, OwedKept, Live, Stale
<1> QED BY <1>1, <1>2, <1>3, EvFlushFails, EvTime DEF EvNext

\* What the outbox of message and sensory events does, without its fairness.
EvSafety == EvInit /\ [][EvNext]_eventVars

LEMMA EvKeptHolds == EvSafety => []EvKept
BY EvInitKept, EvStep, PTL DEF EvSafety

\* The shared record of subscriptions and deliveries is well formed, and no
\* message that is owed to a live subscription is missing from it: for any
\* numbers of messages, subscriptions and workers, whatever fails between the
\* append and the mark of enqueue() or of a worker's repair (mcp_events.py).
THEOREM EventsAlwaysKept == EvSpec => []EventsAreKept
<1>1. EvKept => EventsAreKept
  <2> SUFFICES ASSUME EvKept PROVE EventsAreKept
      OBVIOUS
  <2>1. OutboxOK
    BY DEF EvKept, EvTyped, DeliveryKept, EvWorkerKept, OutboxOK, EvDelivery
  <2>2. NothingLost
    BY DEF EvKept, EvTyped, Keys, MessageKept, Marking, Enqueued, NothingLost
  <2> QED BY <2>1, <2>2 DEF EventsAreKept
<1>2. EvSpec => EvSafety
  BY DEF EvSpec, EvSafety
<1> QED BY <1>1, <1>2, EvKeptHolds, PTL

\* A step that removes a claimed delivery or counts an attempt of it is one of
\* the worker that holds it, or takes its subscription away.
LateYields ==
    \A k \in DOMAIN deliveries :
        LET d == deliveries[k]
        IN  d.claim # Nobody /\ ~d.lapsed
                /\ (k \notin DOMAIN deliveries' \/ deliveries'[k].attempts # d.attempts)
            => \/ worker'[d.claim] # worker[d.claim]
               \/ ~sub'[k[1]].on

LEMMA EvWorkYields ==
    ASSUME EvKept, NEW w \in Workers, Works(w) PROVE LateYields
<1> SUFFICES ASSUME NEW k \in DOMAIN deliveries, deliveries[k].claim # Nobody,
                    k \notin DOMAIN deliveries' \/ deliveries'[k].attempts # deliveries[k].attempts
             PROVE  \/ worker'[deliveries[k].claim] # worker[deliveries[k].claim]
                    \/ ~sub'[k[1]].on
    BY DEF LateYields
<1>1. /\ k[1] \in Subs /\ k \in Keys /\ deliveries[k] \in EvDelivery /\ sub[k[1]].on
      /\ worker \in [Workers -> EvWorker] /\ sub \in [Subs -> EvSub]
  BY DEF EvKept, EvTyped, Keys, DeliveryKept
<1>2. CASE StartFlush(w) \/ RepairMarks(w) \/ Post(w) \/ FinishLate(w)
  BY <1>2 DEF StartFlush, RepairMarks, Post, FinishLate
<1>3. CASE RepairAppends(w)
  <2>1. PICK m \in worker[w].todo : deliveries' = Appended(m)
    BY <1>3 DEF RepairAppends
  <2>2. k \in DOMAIN deliveries' /\ deliveries'[k] = deliveries[k]
    BY <2>1 DEF Appended
  <2> QED BY <2>2
<1>4. CASE Take(w)
  <2> DEFINE expired == {s \in Subs : sub[s].on /\ sub[s].expired}
             kept == {x \in DOMAIN deliveries : sub[x[1]].on /\ x[1] \notin expired}
             due == {x \in kept : Due(x)}
  <2>1. PICK batch \in SUBSET due :
          deliveries' = [x \in kept |->
                    IF x \in batch THEN [deliveries[x] EXCEPT !.claim = w, !.lapsed = FALSE]
                    ELSE deliveries[x]]
    BY <1>4 DEF Take
  <2>2. sub' = [s \in Subs |-> IF s \in expired THEN NoSub ELSE sub[s]]
    BY <1>4 DEF Take
  <2>3. CASE k \in kept
    <3>1. PICK d \in EvDelivery : d = deliveries[k]
      BY <1>1
    <3>2. [d EXCEPT !.claim = w, !.lapsed = FALSE].attempts = d.attempts
      BY DEF EvDelivery
    <3>3. deliveries'[k].attempts = deliveries[k].attempts
      BY <2>1, <2>3, <3>1, <3>2
    <3> QED BY <2>1, <2>3, <3>3
  <2>4. CASE k \notin kept
    BY <1>1, <2>2, <2>4 DEF NoSub
  <2> QED BY <2>3, <2>4
<1>5. CASE DropStale(w)
  <2>1. PICK x \in worker[w].batch :
          /\ deliveries' = IF Holding(w, x) THEN Only(DOMAIN deliveries \ {x}) ELSE deliveries
          /\ WorkerIs(w, Onward(w, x))
    BY <1>5 DEF DropStale
  <2>2. Onward(w, x) # worker[w]
    BY <1>5, <2>1, EvOnward DEF DropStale
  <2>3. k = x /\ deliveries[k].claim = w
    BY <2>1 DEF Only, Holding
  <2> QED BY <1>1, <2>1, <2>2, <2>3 DEF WorkerIs
<1>6. CASE FinishGone(w)
  <2>1. RemoveSub(Current(w)[1])
    BY <1>6 DEF FinishGone
  <2>2. k[1] = Current(w)[1]
    BY <2>1 DEF RemoveSub, Only, Of
  <2> QED BY <1>1, <2>1, <2>2 DEF RemoveSub, NoSub
<1>7. CASE FinishAccepted(w) \/ FinishFailed(w)
  <2>1. worker[w].at = "finish" /\ WorkerIs(w, Onward(w, Current(w))) /\ Holding(w, Current(w))
    BY <1>7 DEF FinishAccepted, FinishFailed
  <2>2. Onward(w, Current(w)) # worker[w]
    BY <2>1, EvOnward
  <2>3. CASE FinishAccepted(w)
    BY <1>1, <2>1, <2>2, <2>3 DEF FinishAccepted, Only, Holding, WorkerIs
  <2>4. CASE FinishFailed(w)
    <3>1. \A x \in DOMAIN deliveries : x # Current(w) =>
              x \in DOMAIN deliveries' /\ deliveries'[x] = deliveries[x]
      BY <2>4 DEF FinishFailed
    <3>2. k = Current(w)
      BY <3>1
    <3> QED BY <1>1, <2>1, <2>2, <3>2 DEF Holding, WorkerIs
  <2> QED BY <1>7, <2>3, <2>4
<1> QED BY <1>2, <1>3, <1>4, <1>5, <1>6, <1>7 DEF Works

LEMMA EvYields == EvKept /\ [EvNext]_eventVars => LateYields
<1> SUFFICES ASSUME EvKept, [EvNext]_eventVars PROVE LateYields
    OBVIOUS
<1>1. CASE UNCHANGED deliveries
  BY <1>1 DEF LateYields
<1>2. ASSUME NEW s \in Subs, Subscribe(s) \/ Unsubscribe(s) \/ SubExpires(s) PROVE LateYields
  <2>1. CASE Unsubscribe(s)
    BY <2>1 DEF Unsubscribe, RemoveSub, Only, Of, NoSub, LateYields, EvKept, EvTyped
  <2>2. CASE Subscribe(s) \/ SubExpires(s)
    BY <1>1, <2>2 DEF Subscribe, SubExpires
  <2> QED BY <1>2, <2>1, <2>2
<1>3. ASSUME NEW m \in Messages, SubmitAppends(m) PROVE LateYields
  <2>1. \A k \in DOMAIN deliveries : k \in DOMAIN deliveries' /\ deliveries'[k] = deliveries[k]
    BY <1>3 DEF SubmitAppends, EnqueueAppend, Appended
  <2> QED BY <2>1 DEF LateYields
<1>4. ASSUME NEW m \in Messages, File(m) \/ Over(m) \/ SubmitMarks(m) \/ SubmitFails(m)
      PROVE  LateYields
  BY <1>1, <1>4 DEF File, Over, SubmitMarks, SubmitFails
<1>5. ASSUME NEW w \in Workers, FlushFails(w) PROVE LateYields
  BY <1>1, <1>5 DEF FlushFails
<1>6. ASSUME NEW k \in Keys, ClaimLapses(k) \/ BackoffPasses(k) PROVE LateYields
  <2>1. k \in DOMAIN deliveries /\ deliveries[k] \in EvDelivery
    BY <1>6 DEF ClaimLapses, BackoffPasses, EvKept, EvTyped
  <2>2. /\ DOMAIN deliveries' = DOMAIN deliveries
        /\ \A x \in DOMAIN deliveries : deliveries'[x].attempts = deliveries[x].attempts
    BY <1>6, <2>1 DEF ClaimLapses, BackoffPasses, EvKept, EvTyped, EvDelivery
  <2> QED BY <2>2 DEF LateYields
<1>7. CASE UNCHANGED eventVars
  BY <1>1, <1>7 DEF eventVars
<1> QED BY <1>2, <1>3, <1>4, <1>5, <1>6, <1>7, EvWorkYields DEF EvNext, EvClients

\* A late result changes nothing: only the holder of a claim that stands counts
\* an attempt or removes the delivery, unless its subscription goes with it.
THEOREM LateResultsAlwaysIgnored == EvSafety => LateResultsIgnored
<1>1. EvKept /\ [EvNext]_eventVars => [LateYields]_eventVars
  BY EvYields
<1>2. LateResultsIgnored <=> [][LateYields]_eventVars
  BY PTL DEF LateResultsIgnored, LateYields
<1> QED BY <1>1, <1>2, EvKeptHolds, PTL DEF EvSafety

-----------------------------------------------------------------------------
(* Cooldowns *)

Fields == {"step", "ending", "left", "size", "knew", "past", "asked", "again", "waited", "until",
           "read", "tries", "searches", "corrections", "decisions"}

\* A call is a record, and one that stores a cooldown read a shorter one.
CoolingKept(r) ==
    /\ DOMAIN r = Fields
    /\ r = [x \in DOMAIN r |-> r[x]]
    /\ r.until \in Nat
    /\ r.step = "storing" /\ r.read \in Nat => r.read < r.until

DispatchKept ==
    /\ clock \in Nat
    /\ cooldown \in [Endpoints \X Models -> Nat]
    /\ DOMAIN call = Callers
    /\ \A c \in Callers : CoolingKept(call[c])

LEMMA NotMadeKept ==
    /\ CoolingKept(NotMade)
    /\ \A s \in Steps \ {"storing"} : \A how, again :
          CoolingKept([NotMade EXCEPT !.step = s, !.ending = how, !.again = again])
<1>1. DOMAIN NotMade = Fields
  BY DEF NotMade, Fields
<1>2. NotMade = [x \in DOMAIN NotMade |-> NotMade[x]]
  BY DEF NotMade
<1>3. NotMade.until \in Nat /\ NotMade.step # "storing"
  BY DEF NotMade
<1>4. PICK r : r = NotMade
  OBVIOUS
<1>5. ASSUME NEW s \in Steps \ {"storing"}, NEW how, NEW again
      PROVE  CoolingKept([r EXCEPT !.step = s, !.ending = how, !.again = again])
  BY <1>1, <1>2, <1>3, <1>4 DEF CoolingKept, Fields, Steps
<1>6. CoolingKept(NotMade)
  BY <1>1, <1>2, <1>3 DEF CoolingKept
<1> QED BY <1>4, <1>5, <1>6

\* A call that ends or goes on to the next provider stores nothing.
LEMMA EndsKept ==
    ASSUME NEW c \in Callers, NEW r, NEW how, Ends(c, r, how), DispatchKept
    PROVE  \A x \in Callers : CoolingKept(call'[x])
BY NotMadeKept DEF Ends, Moves, DispatchKept, Steps

LEMMA MovesKept ==
    ASSUME NEW c \in Callers, NEW r, Moves(c, r), DispatchKept, CoolingKept(r)
    PROVE  \A x \in Callers : CoolingKept(call'[x])
BY DEF Moves, DispatchKept

LEMMA OnwardsKept ==
    ASSUME NEW r, CoolingKept(r) PROVE CoolingKept(Onwards(r))
BY DEF CoolingKept, Onwards, Fields

LEMMA GivesUpKept ==
    ASSUME NEW c \in Callers, DispatchKept, GivesUp(c, call[c])
    PROVE  \A x \in Callers : CoolingKept(call'[x])
<1>1. CoolingKept(Onwards(call[c]))
  BY OnwardsKept DEF DispatchKept
<1> QED BY <1>1, EndsKept, MovesKept DEF GivesUp

LEMMA CoolDownKept ==
    ASSUME NEW c \in Callers, NEW delay \in Nat, DispatchKept, CoolDown(c, delay)
    PROVE  \A x \in Callers : CoolingKept(call'[x])
<1>1. PICK r : r = call[c]
  OBVIOUS
<1>2. CoolingKept(r) /\ clock + delay \in Nat
  BY <1>1 DEF DispatchKept
<1>3. PICK until \in Nat : until = clock + delay
  BY <1>2
<1>4. CoolingKept([r EXCEPT !.step = "cooling", !.until = until, !.tries = 0])
  BY <1>2 DEF CoolingKept, Fields
<1> QED BY <1>1, <1>3, <1>4, MovesKept DEF CoolDown

LEMMA DecidesKept ==
    ASSUME NEW c \in Callers, NEW r, DispatchKept, CoolingKept(r), Decides(c, r)
    PROVE  \A x \in Callers : CoolingKept(call'[x])
<1>1. CoolingKept([r EXCEPT !.decisions = @ + 1, !.step = "asking"])
  BY DEF CoolingKept, Fields
<1> QED BY <1>1, EndsKept, MovesKept DEF Decides

\* Every step of a call but the ones that save a cooldown.
LEMMA CallStepKept ==
    ASSUME DispatchKept, NEW c \in Callers,
           \/ Start(c) \/ Choose(c) \/ Skip(c) \/ Ask(c) \/ Answers(c) \/ AnswersBadly(c)
           \/ RateLimited(c) \/ Resume(c) \/ Denied(c) \/ Down(c)
           \/ Search(c) \/ Finish(c) \/ Reject(c) \/ DeadlineExpires(c)
    PROVE  /\ \A x \in Callers : CoolingKept(call'[x])
           /\ DOMAIN call' = Callers
           /\ UNCHANGED <<clock, cooldown>>
<1>0. PICK r : r = call[c] /\ CoolingKept(r)
  BY DEF DispatchKept
<1>1. CASE Start(c)
  <2>1. CoolingKept([r EXCEPT !.step = "choosing"])
    BY <1>0 DEF CoolingKept, Fields
  <2> QED BY <1>0, <1>1, <2>1, MovesKept DEF Start, Moves, DispatchKept
<1>2. CASE Choose(c)
  <2>1. PICK left, size, knew : /\ left = Available /\ size = Len(Available) /\ knew = catalog
    OBVIOUS
  <2>2. CoolingKept([r EXCEPT !.step = "asking", !.left = left, !.size = size, !.knew = knew])
    BY <1>0 DEF CoolingKept, Fields
  <2> HIDE DEF Available
  <2> QED BY <1>0, <1>2, <2>1, <2>2, MovesKept, EndsKept DEF Choose, Moves, Ends, DispatchKept
<1>3. CASE Skip(c) \/ AnswersBadly(c)
  BY <1>3, GivesUpKept DEF Skip, AnswersBadly, GivesUp, Ends, Moves, DispatchKept
<1>4. CASE Ask(c)
  <2>1. PICK target, again : /\ target = Target(catalog, InTurn(c))
                             /\ again = (call[c].again \/ AsksAgain(c))
    OBVIOUS
  <2>2. CoolingKept([r EXCEPT !.step = "waiting", !.asked = target, !.again = again])
    BY <1>0 DEF CoolingKept, Fields
  <2>3. Moves(c, [r EXCEPT !.step = "waiting", !.asked = target, !.again = again])
    BY <1>0, <1>4, <2>1 DEF Ask
  <2> QED BY <1>4, <2>2, <2>3, MovesKept DEF Ask, Moves, DispatchKept
<1>5. CASE Answers(c)
  <2>1. CoolingKept([r EXCEPT !.step = "deciding", !.asked = <<>>, !.waited = FALSE])
    BY <1>0 DEF CoolingKept, Fields
  <2> QED BY <1>0, <1>5, <2>1, MovesKept, EndsKept DEF Answers, Moves, Ends, DispatchKept
<1>6. CASE RateLimited(c)
  <2>1. CoolingKept([r EXCEPT !.step = "pausing", !.waited = TRUE])
    BY <1>0 DEF CoolingKept, Fields
  <2>2. \A hint \in Hints : hint \in Nat
    BY DispatchAssumption
  <2>3. PICK hint \in Hints :
           \/ Moves(c, [r EXCEPT !.step = "pausing", !.waited = TRUE]) /\ UNCHANGED <<clock, cooldown>>
           \/ CoolDown(c, hint)
    BY <1>0, <1>6 DEF RateLimited
  <2> QED BY <2>1, <2>2, <2>3, MovesKept, CoolDownKept DEF CoolDown, Moves, DispatchKept
<1>7. CASE Resume(c)
  <2>1. CoolingKept([r EXCEPT !.step = "waiting"])
    BY <1>0 DEF CoolingKept, Fields
  <2> QED BY <1>0, <1>7, <2>1, MovesKept DEF Resume, Moves, DispatchKept
<1>8. CASE Denied(c) \/ Down(c)
  <2>1. DeniedDelay \in Nat /\ DownDelay \in Nat
    BY DispatchAssumption
  <2> QED BY <1>8, <2>1, CoolDownKept DEF Denied, Down, CoolDown, Moves, DispatchKept
<1>9. CASE Search(c)
  <2>1. CoolingKept([r EXCEPT !.searches = @ + 1])
    BY <1>0 DEF CoolingKept, Fields
  <2> QED BY <1>0, <1>9, <2>1, DecidesKept DEF Search, Decides, Moves, Ends, DispatchKept
<1>10. CASE Finish(c) \/ DeadlineExpires(c)
  BY <1>10, EndsKept DEF Finish, DeadlineExpires, Ends, Moves, DispatchKept
<1>11. CASE Reject(c)
  <2>1. CoolingKept([r EXCEPT !.corrections = 1])
    BY <1>0 DEF CoolingKept, Fields
  <2>2. PICK next : next = Onwards(r) /\ CoolingKept(next)
    BY <1>0, OnwardsKept
  <2>3. CoolingKept([next EXCEPT !.corrections = @ + 1])
    BY <2>2 DEF CoolingKept, Fields
  <2>4. /\ \/ Decides(c, [r EXCEPT !.corrections = 1])
           \/ Ends(c, next, "exhausted")
           \/ Decides(c, [next EXCEPT !.corrections = @ + 1])
           \/ Decides(c, next)
        /\ UNCHANGED <<clock, cooldown>>
    BY <1>0, <1>11, <2>2 DEF Reject
  <2>5. \A x \in Callers : CoolingKept(call'[x])
    BY <2>1, <2>2, <2>3, <2>4, EndsKept, DecidesKept
  <2> QED BY <2>4, <2>5 DEF Decides, Moves, Ends, DispatchKept
<1> QED BY <1>1, <1>2, <1>3, <1>4, <1>5, <1>6, <1>7, <1>8, <1>9, <1>10, <1>11

\* No step cuts a cooldown short.
Lengthens == \A t \in Endpoints \X Models : cooldown'[t] >= cooldown[t]

LEMMA SavesKept ==
    ASSUME DispatchKept, NEW c \in Callers, ReadCooldown(c) \/ StoreCooldown(c)
    PROVE  DispatchKept' /\ Lengthens
<1>0. PICK r : r = call[c] /\ CoolingKept(r)
  BY DEF DispatchKept
<1>1. DOMAIN call' = Callers /\ UNCHANGED clock
  BY DEF ReadCooldown, StoreCooldown, GivesUp, Ends, Moves, DispatchKept
<1>2. CASE ReadCooldown(c)
  <2>1. UNCHANGED cooldown
    BY <1>2 DEF ReadCooldown
  <2>2. Lengthens
    BY <2>1 DEF Lengthens, DispatchKept
  <2>3. CASE GivesUp(c, call[c])
    BY <1>1, <2>1, <2>2, <2>3, GivesUpKept DEF DispatchKept
  <2>4. CASE ~GivesUp(c, call[c])
    <3>1. PICK read : read = cooldown[call[c].asked]
      OBVIOUS
    <3>2. Moves(c, [r EXCEPT !.step = "storing", !.read = read]) /\ ~(read >= r.until)
      BY <1>0, <1>2, <2>4, <3>1 DEF ReadCooldown
    <3>3. CoolingKept([r EXCEPT !.step = "storing", !.read = read])
      <4>1. read \in Nat => read < r.until
        BY <1>0, <3>2 DEF CoolingKept
      <4> QED BY <1>0, <4>1 DEF CoolingKept, Fields
    <3> QED BY <1>1, <2>1, <2>2, <3>2, <3>3, MovesKept DEF DispatchKept
  <2> QED BY <2>3, <2>4
<1>3. CASE StoreCooldown(c)
  <2>1. \A x \in Callers : CoolingKept(call'[x])
    <3>1. CoolingKept([r EXCEPT !.step = "cooling", !.tries = @ + 1])
      BY <1>0 DEF CoolingKept, Fields
    <3>2. GivesUp(c, call[c]) \/ Moves(c, [r EXCEPT !.step = "cooling", !.tries = @ + 1])
      BY <1>0, <1>3 DEF StoreCooldown
    <3> QED BY <3>1, <3>2, GivesUpKept, MovesKept
  <2>2. CASE cooldown[r.asked] = r.read
    <3>1. cooldown' = [cooldown EXCEPT ![r.asked] = r.until] /\ r.step = "storing"
      BY <1>0, <1>3, <2>2 DEF StoreCooldown
    <3>2. cooldown' \in [Endpoints \X Models -> Nat]
      BY <1>0, <3>1 DEF DispatchKept, CoolingKept
    <3>3. Lengthens
      <4> SUFFICES ASSUME NEW e \in Endpoints \X Models PROVE cooldown'[e] >= cooldown[e]
          BY DEF Lengthens
      <4>1. CASE e = r.asked
        BY <1>0, <2>2, <3>1, <4>1 DEF DispatchKept, CoolingKept
      <4>2. CASE e # r.asked
        BY <3>1, <4>2 DEF DispatchKept
      <4> QED BY <4>1, <4>2
    <3> QED BY <1>1, <2>1, <3>2, <3>3 DEF DispatchKept
  <2>3. CASE cooldown[r.asked] # r.read
    <3>1. UNCHANGED cooldown
      BY <1>0, <1>3, <2>3 DEF StoreCooldown
    <3> QED BY <1>1, <2>1, <3>1 DEF DispatchKept, Lengthens
  <2> QED BY <2>2, <2>3
<1> QED BY <1>2, <1>3

LEMMA DispatchStep == DispatchKept /\ [DispatchNext]_dispatchVars => DispatchKept' /\ Lengthens
<1> SUFFICES ASSUME DispatchKept, [DispatchNext]_dispatchVars PROVE DispatchKept' /\ Lengthens
    OBVIOUS
<1>1. ASSUME NEW c \in Callers, Start(c) \/ CallSteps(c) \/ DeadlineExpires(c)
      PROVE  DispatchKept' /\ Lengthens
  <2>1. CASE ReadCooldown(c) \/ StoreCooldown(c)
    BY <2>1, SavesKept
  <2>2. CASE ~(ReadCooldown(c) \/ StoreCooldown(c))
    <3>1. /\ \A x \in Callers : CoolingKept(call'[x])
          /\ DOMAIN call' = Callers
          /\ UNCHANGED <<clock, cooldown>>
      BY <1>1, <2>2, CallStepKept DEF CallSteps
    <3> QED BY <3>1 DEF DispatchKept, Lengthens
  <2> QED BY <2>1, <2>2
<1>2. CASE Tick \/ Edit \/ UNCHANGED dispatchVars
  BY <1>2 DEF Tick, Edit, dispatchVars, DispatchKept, Lengthens
<1> QED BY <1>1, <1>2 DEF DispatchNext

DispatchSafety == DispatchInit /\ [][DispatchNext]_dispatchVars

\* A short failure never cuts a longer cooldown short, whatever calls save one at
\* the same time: what is stored is longer than what was read, and stored only
\* over that (ProviderRoutingRegistry of provider_routing.py).
THEOREM CooldownsNeverCutShort == DispatchSafety => CooldownsNeverShorten
<1>1. DispatchInit => DispatchKept
  <2> SUFFICES ASSUME DispatchInit PROVE DispatchKept
      OBVIOUS
  <2>1. DOMAIN call = Callers /\ \A c \in Callers : call[c] = NotMade
    BY DEF DispatchInit
  <2>2. clock \in Nat /\ cooldown \in [Endpoints \X Models -> Nat]
    BY DEF DispatchInit
  <2> QED BY <2>1, <2>2, NotMadeKept DEF DispatchKept
<1>2. DispatchKept /\ [DispatchNext]_dispatchVars => [Lengthens]_dispatchVars
  BY DispatchStep
<1>3. CooldownsNeverShorten <=> [][Lengthens]_dispatchVars
  BY PTL DEF CooldownsNeverShorten, Lengthens
<1> QED BY <1>1, <1>2, <1>3, DispatchStep, PTL DEF DispatchSafety

-----------------------------------------------------------------------------
(* The calls of providers *)

\* What a pool holds, and what a call makes of it.
PoolPlaces == [provider : Names, model : Models \cup {NoModel}]
Candidates == [provider : Names, model : Models]

\* How many indices come before i when they are taken by their keys.
Rank(I, key, i) == Cardinality({j \in I : key[j] < key[i]})

\* Indices with keys of their own have ranks of their own, which fill 0..size - 1.
Keyed(n, I, key) ==
    /\ n \in Nat /\ I \subseteq 1..n /\ key \in [I -> Nat]
    /\ \A i, j \in I : key[i] = key[j] => i = j

Ranked(I, key) ==
    /\ Cardinality(I) \in Nat
    /\ \A i \in I : Rank(I, key, i) \in Nat /\ Rank(I, key, i) < Cardinality(I)
    /\ \A i, j \in I : Rank(I, key, i) = Rank(I, key, j) => i = j
    /\ \A k \in 1..Cardinality(I) : \E i \in I : Rank(I, key, i) = k - 1

LEMMA RanksFill ==
    ASSUME NEW n, NEW I, NEW key, Keyed(n, I, key) PROVE Ranked(I, key)
<1> DEFINE Sooner(i) == {j \in I : key[j] < key[i]}
           rank == [i \in I |-> Rank(I, key, i) + 1]
<1>1. IsFiniteSet(I) /\ Cardinality(I) \in Nat
  <2>1. IsFiniteSet(1..n) /\ I \subseteq 1..n
    BY FS_Interval DEF Keyed
  <2> QED BY <2>1, FS_Subset, FS_CardinalityType
<1> /\ key \in [I -> Nat] /\ \A i \in I : key[i] \in Nat
    /\ \A i, j \in I : key[i] = key[j] => i = j
  BY DEF Keyed
<1>2. ASSUME NEW i \in I
      PROVE  Rank(I, key, i) \in Nat /\ Rank(I, key, i) < Cardinality(I)
  <2>1. Sooner(i) \subseteq I /\ i \notin Sooner(i)
    OBVIOUS
  <2>2. /\ IsFiniteSet(Sooner(i)) /\ Cardinality(Sooner(i)) <= Cardinality(I)
        /\ Cardinality(Sooner(i)) # Cardinality(I)
    BY <1>1, <2>1, FS_Subset
  <2>3. Cardinality(Sooner(i)) \in Nat
    BY <2>2, FS_CardinalityType
  <2>4. Rank(I, key, i) = Cardinality(Sooner(i))
    BY DEF Rank
  <2> HIDE DEF Sooner
  <2> QED BY <1>1, <2>2, <2>3, <2>4
<1>3. ASSUME NEW i \in I, NEW j \in I, key[i] < key[j]
      PROVE  Rank(I, key, i) # Rank(I, key, j)
  <2>1. Sooner(i) \subseteq Sooner(j) /\ i \in Sooner(j) /\ i \notin Sooner(i)
    <3>1. key[i] \in Nat /\ key[j] \in Nat /\ key[i] < key[j]
      BY <1>3
    <3>2. \A x \in I : key[x] < key[i] => key[x] < key[j]
      BY <3>1
    <3>3. ~(key[i] < key[i])
      BY <3>1
    <3> QED BY <3>1, <3>2, <3>3, Zenon
  <2>2. IsFiniteSet(Sooner(j))
    BY <1>1, FS_Subset
  <2>3. Rank(I, key, i) = Cardinality(Sooner(i)) /\ Rank(I, key, j) = Cardinality(Sooner(j))
    BY DEF Rank
  <2> HIDE DEF Sooner
  <2> QED BY <2>1, <2>2, <2>3, FS_Subset
<1>4. \A i \in I : rank[i] \in 1..Cardinality(I)
  BY <1>1, <1>2
<1>5. ASSUME NEW i \in I, NEW j \in I, Rank(I, key, i) = Rank(I, key, j)
      PROVE  i = j
  <2>1. ~(key[i] < key[j]) /\ ~(key[j] < key[i])
    BY <1>3, <1>5
  <2> QED BY <2>1
<1>6. \A i, j \in I : rank[i] = rank[j] => i = j
  BY <1>2, <1>5
<1>7. \A k \in 1..Cardinality(I) : \E i \in I : rank[i] = k
  <2>1. PICK c, f : c \in Nat /\ c = Cardinality(I) /\ f = rank
    BY <1>1
  <2>2. f \in Injection(I, 1..c)
    BY <1>4, <1>6, <2>1 DEF Injection, IsInjective
  <2>3. IsFiniteSet(1..c) /\ Cardinality(1..c) = c
    BY <2>1, FS_Interval
  <2>4. f \in Surjection(I, 1..c)
    BY <2>1, <2>2, <2>3, FS_Injection
  <2> QED BY <2>1, <2>4 DEF Surjection
<1>8. ASSUME NEW k \in 1..Cardinality(I)
      PROVE  \E i \in I : Rank(I, key, i) = k - 1
  <2>1. PICK i \in I : rank[i] = k
    BY <1>7
  <2>2. Rank(I, key, i) \in Nat /\ Rank(I, key, i) + 1 = k
    BY <1>2, <2>1
  <2> QED BY <2>2
<1> QED BY <1>1, <1>2, <1>5, <1>8 DEF Ranked

\* The places of a pool where a candidate stands first are places of their own
\* in the turn of the day.
LEMMA RotatedApart ==
    ASSUME pool \in Seq(PoolPlaces), clock \in Nat
    PROVE  /\ Distinct \subseteq 1..Len(pool)
           /\ \A i \in Distinct : Rotated(i) \in Nat
           /\ \A i, j \in Distinct : Rotated(i) = Rotated(j) => i = j
<1>1. Len(pool) \in Nat /\ DOMAIN pool = 1..Len(pool)
  OBVIOUS
<1>2. PICK n, D : n \in Nat /\ n = Len(pool) /\ D = Distinct /\ D \in SUBSET (1..n)
  BY <1>1 DEF Distinct
<1>3. PICK key : key = [i \in D |-> i]
  OBVIOUS
<1>4. Keyed(n, D, key)
  BY <1>2, <1>3 DEF Keyed
<1>5. PICK size : size = Cardinality(D)
  OBVIOUS
<1>6. /\ size \in Nat
      /\ \A i \in D : Rank(D, key, i) \in Nat /\ Rank(D, key, i) < size
      /\ \A i, j \in D : Rank(D, key, i) = Rank(D, key, j) => i = j
  BY <1>4, <1>5, RanksFill DEF Ranked
<1>7. PICK offset : offset = IF Daily THEN (clock \div DayLength) % size ELSE 0
  OBVIOUS
<1>8. ASSUME NEW i \in D
      PROVE  Rotated(i) = IF Rank(D, key, i) >= offset THEN Rank(D, key, i) - offset
                                                       ELSE Rank(D, key, i) + size - offset
  <2>1. {j \in D : key[j] < key[i]} = {j \in D : j < i}
    BY <1>3
  <2> QED BY <1>2, <1>5, <1>7, <2>1 DEF Rotated, Rank
<1>9. ASSUME NEW i \in D
      PROVE  offset \in 0..(size - 1)
  <2>1. size > 0
    BY <1>6
  <2>2. DayLength \in Nat /\ DayLength > 0
    BY DispatchAssumption
  <2>3. PICK days \in Nat : days = clock \div DayLength
    BY <2>2
  <2>4. days % size \in 0..(size - 1)
    BY <1>6, <2>1
  <2> QED BY <1>6, <1>7, <2>1, <2>3, <2>4
<1>10. ASSUME NEW i \in D
       PROVE  Rotated(i) \in Nat
  <2>1. PICK here : here = Rank(D, key, i)
    OBVIOUS
  <2>2. here \in Nat /\ here < size /\ offset \in 0..(size - 1)
    BY <1>6, <1>9, <2>1
  <2> QED BY <1>6, <1>8, <2>1, <2>2
<1>11. ASSUME NEW i \in D, NEW j \in D, Rotated(i) = Rotated(j)
       PROVE  i = j
  <2>1. PICK here, there : here = Rank(D, key, i) /\ there = Rank(D, key, j)
    OBVIOUS
  <2>2. /\ here \in Nat /\ here < size /\ there \in Nat /\ there < size
        /\ offset \in 0..(size - 1)
    BY <1>6, <1>9, <2>1
  <2>3. (IF here >= offset THEN here - offset ELSE here + size - offset)
           = (IF there >= offset THEN there - offset ELSE there + size - offset)
    BY <1>8, <1>11, <2>1
  <2>4. here = there
    BY <1>6, <2>2, <2>3
  <2> QED BY <1>6, <2>1, <2>4
<1> QED BY <1>2, <1>10, <1>11

\* Every eligible place is taken once.
LEMMA PlacesInOrder ==
    ASSUME pool \in Seq(PoolPlaces), clock \in Nat
    PROVE  /\ Cardinality(Eligible) \in Nat
           /\ \A k \in 1..Cardinality(Eligible) : Place(k) \in Eligible
           /\ \A k, m \in 1..Cardinality(Eligible) : Place(k) = Place(m) => k = m
<1>1. /\ Distinct \subseteq 1..Len(pool)
      /\ \A i \in Distinct : Rotated(i) \in Nat
      /\ \A i, j \in Distinct : Rotated(i) = Rotated(j) => i = j
  BY RotatedApart
<1>2. PICK n, E : n \in Nat /\ n = Len(pool) /\ E = Eligible
  OBVIOUS
<1>3. E \subseteq Distinct /\ E \in SUBSET (1..n)
  BY <1>1, <1>2 DEF Eligible
<1>4. PICK key : key = [i \in E |-> Rotated(i)]
  OBVIOUS
<1>5. Keyed(n, E, key)
  BY <1>1, <1>2, <1>3, <1>4 DEF Keyed
<1>6. /\ Cardinality(E) \in Nat
      /\ \A k \in 1..Cardinality(E) : \E i \in E : Rank(E, key, i) = k - 1
  BY <1>5, RanksFill DEF Ranked
<1>7. ASSUME NEW i \in E
      PROVE  Cardinality({j \in Eligible : Rotated(j) < Rotated(i)}) = Rank(E, key, i)
  <2>1. {j \in E : key[j] < key[i]} = {j \in E : Rotated(j) < Rotated(i)}
    BY <1>4
  <2> QED BY <1>2, <2>1 DEF Rank
<1>8. ASSUME NEW k \in 1..Cardinality(E)
      PROVE  Place(k) \in E /\ Rank(E, key, Place(k)) = k - 1
  <2>1. PICK i \in E : Rank(E, key, i) = k - 1
    BY <1>6
  <2>2. \E x \in Eligible : Cardinality({j \in Eligible : Rotated(j) < Rotated(x)}) = k - 1
    BY <1>2, <1>7, <2>1
  <2>3. /\ Place(k) \in Eligible
        /\ Cardinality({j \in Eligible : Rotated(j) < Rotated(Place(k))}) = k - 1
    BY <2>2 DEF Place
  <2> QED BY <1>2, <1>7, <2>3
<1>9. ASSUME NEW k \in 1..Cardinality(E), NEW m \in 1..Cardinality(E), Place(k) = Place(m)
      PROVE  k = m
  <2>1. k - 1 = m - 1
    BY <1>8, <1>9
  <2> QED BY <1>6, <2>1
<1> QED BY <1>2, <1>6, <1>8, <1>9

\* What is left of a pool stands for different models or endpoints, as far as
\* they are saved, and for none that was given up on.
Named(cat, h) == EndpointIn(cat, h) # NoEndpoint

Pooled(left, knew, past) ==
    /\ left \in Seq(Candidates)
    /\ \A i, j \in DOMAIN left : Named(knew, left[i]) =>
          /\ Target(knew, left[i]) = Target(knew, left[j]) => i = j
          /\ \A h \in past : Target(knew, h) # Target(knew, left[i])

\* A candidate stands for what its place in the pool does, as long as the catalog
\* is the same.
LEMMA ChosenAs ==
    ASSUME catalog \in Catalogs, NEW h \in PoolPlaces, ModelIn(catalog, h) # NoModel,
           NEW m, m = [provider |-> h.provider, model |-> ModelIn(catalog, h)]
    PROVE  /\ m \in Candidates
           /\ Named(catalog, m) <=> Saved(h)
           /\ Target(catalog, m) = Target(catalog, h)
<1>1. PICK cat, name, own : cat = catalog /\ name = h.provider /\ own = h.model
  OBVIOUS
<1>2. name \in Names /\ own \in Models \cup {NoModel}
  BY <1>1 DEF PoolPlaces
<1>3. PICK e, bound : /\ e = cat.match[name] /\ e \in Endpoints \cup {NoEndpoint}
                      /\ bound = cat.bound /\ bound \in [Endpoints -> Models \cup {NoModel}]
  BY <1>1, <1>2, DispatchAssumption
<1>4. PICK model : model = IF e # NoEndpoint /\ bound[e] # NoModel THEN bound[e] ELSE own
  OBVIOUS
<1>5. EndpointIn(catalog, h) = e /\ ModelIn(catalog, h) = model
  BY <1>1, <1>3, <1>4 DEF EndpointIn, ModelIn
<1>6. model \in Models
  BY <1>2, <1>3, <1>4, <1>5
<1>7. m.provider = name /\ m.model = model
  BY <1>1, <1>5
<1>8. m \in Candidates
  BY <1>2, <1>5, <1>6, <1>1 DEF Candidates
<1>9. EndpointIn(catalog, m) = e /\ ModelIn(catalog, m) = model
  BY <1>1, <1>3, <1>4, <1>7 DEF EndpointIn, ModelIn
<1> QED BY <1>5, <1>8, <1>9 DEF Named, Saved, Target

LEMMA AvailablePooled ==
    ASSUME pool \in Seq(PoolPlaces), catalog \in Catalogs, clock \in Nat
    PROVE  Pooled(Available, catalog, {})
<1>1. PICK a, size : a = Available /\ size = Cardinality(Eligible)
  OBVIOUS
<1>2. /\ size \in Nat
      /\ \A k \in 1..size : Place(k) \in Eligible
      /\ \A k, m \in 1..size : Place(k) = Place(m) => k = m
  BY <1>1, PlacesInOrder
<1>3. /\ Eligible \subseteq Distinct /\ Distinct \subseteq DOMAIN pool
      /\ \A i \in DOMAIN pool : pool[i] \in PoolPlaces /\ i \in Nat \ {0}
      /\ \A i \in Distinct : ModelIn(catalog, pool[i]) # NoModel
  BY DEF Eligible, Distinct
<1>4. ASSUME NEW k \in 1..size
      PROVE  /\ pool[Place(k)] \in PoolPlaces
             /\ a[k] \in Candidates
             /\ Named(catalog, a[k]) <=> Saved(pool[Place(k)])
             /\ Target(catalog, a[k]) = Target(catalog, pool[Place(k)])
  <2>1. PICK h : h = pool[Place(k)] /\ h \in PoolPlaces /\ ModelIn(catalog, h) # NoModel
    BY <1>2, <1>3
  <2>2. a[k] = [provider |-> h.provider, model |-> ModelIn(catalog, h)]
    BY <1>1, <2>1 DEF Available
  <2> QED BY <2>1, <2>2, ChosenAs
<1>5. a \in Seq(Candidates) /\ DOMAIN a = 1..size
  BY <1>1, <1>2, <1>4 DEF Available
<1>6. ASSUME NEW i \in Distinct, NEW j \in Distinct, Candidate(pool[i]) = Candidate(pool[j])
      PROVE  i = j
  <2>1. i \in Nat \ {0} /\ j \in Nat \ {0}
    BY <1>3
  <2>2. ~(i \in 1..(j - 1)) /\ ~(j \in 1..(i - 1))
    BY <1>6 DEF Distinct
  <2> QED BY <2>1, <2>2
<1>7. ASSUME NEW i \in 1..size, NEW j \in 1..size, Named(catalog, a[i]),
             Target(catalog, a[i]) = Target(catalog, a[j])
      PROVE  i = j
  <2>1. PICK h, g : /\ h = pool[Place(i)] /\ g = pool[Place(j)] /\ Saved(h)
                    /\ Target(catalog, h) = Target(catalog, g)
    BY <1>4, <1>7
  <2>2. Saved(g)
    BY <2>1 DEF Saved, Target
  <2>3. Candidate(pool[Place(i)]) = Candidate(pool[Place(j)])
    BY <2>1, <2>2 DEF Candidate
  <2>4. Place(i) \in Distinct /\ Place(j) \in Distinct
    BY <1>2, <1>3
  <2>5. Place(i) = Place(j)
    BY <1>6, <2>3, <2>4
  <2> QED BY <1>2, <2>5
<1> QED BY <1>1, <1>5, <1>7 DEF Pooled

\* Every decision was a search, a correction or moved the cursor.
Budgeted(c, left, size, searches, corrections, decisions) ==
    /\ size \in Nat /\ Len(left) <= size
    /\ searches \in 0..SearchLimit /\ corrections \in Nat /\ decisions \in Nat
    /\ ~(TaskOf[c] = "review" /\ size = 1) => decisions <= searches + (size - Len(left))
    /\ TaskOf[c] = "review" /\ size = 1 =>
          corrections <= 1 /\ decisions <= searches + (size - Len(left)) + corrections

LEMMA BudgetOnwards ==
    ASSUME NEW c, NEW left \in Seq(Candidates), left # <<>>, NEW size, NEW searches, NEW corrections,
           NEW decisions, Budgeted(c, left, size, searches, corrections, decisions)
    PROVE  /\ Budgeted(c, Tail(left), size, searches, corrections, decisions)
           /\ Budgeted(c, Tail(left), size, searches, corrections, decisions + 1)
           /\ Tail(left) # <<>> =>
                 Budgeted(c, Tail(left), size, searches, corrections + 1, decisions + 1)
<1>1. /\ Len(left) \in Nat /\ Len(left) > 0 /\ Len(Tail(left)) = Len(left) - 1
      /\ Tail(left) # <<>> => Len(left) > 1
  OBVIOUS
<1> QED BY <1>1 DEF Budgeted

LEMMA BudgetSearch ==
    ASSUME NEW c, NEW left \in Seq(Candidates), NEW size, NEW searches, searches < SearchLimit,
           NEW corrections, NEW decisions,
           Budgeted(c, left, size, searches, corrections, decisions)
    PROVE  Budgeted(c, left, size, searches + 1, corrections, decisions + 1)
<1>1. Len(left) \in Nat /\ SearchLimit \in Nat
  BY DispatchAssumption
<1> QED BY <1>1 DEF Budgeted

LEMMA BudgetLasts ==
    ASSUME NEW c, NEW left \in Seq(Candidates), left # <<>>, NEW size, NEW searches, NEW corrections,
           NEW decisions, Budgeted(c, left, size, searches, corrections, decisions)
    PROVE  decisions # size + SearchLimit + (IF TaskOf[c] = "review" /\ size = 1 THEN 1 ELSE 0)
<1>1. Len(left) \in Nat /\ Len(left) > 0
  OBVIOUS
<1>2. SearchLimit \in Nat
  BY DispatchAssumption
<1> QED BY <1>1, <1>2 DEF Budgeted

LEMMA PooledOnwards ==
    ASSUME NEW left, NEW knew, NEW past, left # <<>>, Pooled(left, knew, past)
    PROVE  Pooled(Tail(left), knew, past \cup {Head(left)})
<1>1. left \in Seq(Candidates)
  BY DEF Pooled
<1>2. PICK t, n : t = Tail(left) /\ n = Len(left)
  OBVIOUS
<1>3. /\ n \in Nat \ {0} /\ t \in Seq(Candidates) /\ DOMAIN t = 1..(n - 1) /\ DOMAIN left = 1..n
      /\ Head(left) = left[1] /\ \A i \in 1..(n - 1) : t[i] = left[i + 1]
  BY <1>1, <1>2
<1>4. ASSUME NEW i \in 1..(n - 1), NEW j \in 1..(n - 1), Named(knew, t[i])
      PROVE  /\ Target(knew, t[i]) = Target(knew, t[j]) => i = j
             /\ \A h \in past \cup {left[1]} : Target(knew, h) # Target(knew, t[i])
  <2>1. i + 1 \in 1..n /\ j + 1 \in 1..n /\ 1 \in 1..n /\ i + 1 # 1 /\ (i + 1 = j + 1 => i = j)
    BY <1>3
  <2>2. Named(knew, left[i + 1])
    BY <1>3, <1>4
  <2>3. /\ Target(knew, left[i + 1]) = Target(knew, left[j + 1]) => i + 1 = j + 1
        /\ Target(knew, left[i + 1]) # Target(knew, left[1])
        /\ \A h \in past : Target(knew, h) # Target(knew, left[i + 1])
    BY <1>3, <2>1, <2>2 DEF Pooled
  <2> QED BY <1>3, <2>1, <2>3
<1> QED BY <1>2, <1>3, <1>4 DEF Pooled

NotAsking == {"idle", "choosing", "done"}
Waiting == {"waiting", "pausing", "cooling", "storing"}

\* A call, whatever it is doing, keeps to its pool and its budget.
CallBounded(c, r) ==
    /\ r.step \in Steps /\ r.ending \in Endings \ {"overrun"}
    /\ (r.step = "done") = (r.ending # "none")
    /\ r.tries \in 0..(SaveTries - 1) /\ r.read \in Nat
    /\ r.again = FALSE
    /\ r.step \notin NotAsking => r.left # <<>>
    /\ r.step \in Waiting => r.asked \in Endpoints \X Models
    /\ r.step \in {"idle", "choosing"} => r.past = {} /\ r.decisions = 0 /\ r.corrections = 0
    /\ Pooled(r.left, r.knew, r.past)
    /\ Budgeted(c, r.left, r.size, r.searches, r.corrections, r.decisions)

DispatchBounded ==
    /\ DispatchKept
    /\ pool \in Pools /\ catalog \in Catalogs
    /\ clock \in 1..MaxClock /\ edits \in 0..MaxEdits
    /\ \A c \in Callers : CallBounded(c, call[c])

LEMMA NotMadeBounded ==
    ASSUME NEW c \in Callers, NEW step \in {"idle", "done"}, NEW how \in Endings \ {"overrun"},
           (step = "done") = (how # "none"), NEW q,
           q = [NotMade EXCEPT !.step = step, !.ending = how, !.again = FALSE]
    PROVE  CallBounded(c, q)
<1>1. /\ q.step = step /\ q.ending = how /\ q.again = FALSE
      /\ q.tries = 0 /\ q.read = 0 /\ q.past = {} /\ q.decisions = 0 /\ q.corrections = 0
      /\ q.left = <<>> /\ q.knew = {} /\ q.size = 0 /\ q.searches = 0
  BY DEF NotMade
<1>2. Pooled(q.left, q.knew, q.past)
  <2>1. <<>> \in Seq(Candidates) /\ DOMAIN <<>> = {}
    OBVIOUS
  <2>2. Pooled(<<>>, q.knew, q.past)
    BY <2>1 DEF Pooled
  <2> QED BY <1>1, <2>2
<1>3. SearchLimit \in Nat /\ SaveTries \in Nat \ {0}
  BY DispatchAssumption
<1>4. Budgeted(c, q.left, q.size, q.searches, q.corrections, q.decisions)
  <2>1. Len(<<>>) = 0
    OBVIOUS
  <2>2. Budgeted(c, <<>>, 0, 0, 0, 0)
    BY <1>3, <2>1 DEF Budgeted
  <2> QED BY <1>1, <2>2
<1>5. q.tries \in 0..(SaveTries - 1)
  BY <1>1, <1>3
<1> QED BY <1>1, <1>2, <1>4, <1>5 DEF CallBounded, Steps, Endings, NotAsking, Waiting

LEMMA EndsBounded ==
    ASSUME DispatchBounded, NEW c \in Callers, NEW r, r.again = FALSE,
           NEW how \in Endings \ {"none", "overrun"}, Ends(c, r, how)
    PROVE  \A x \in Callers : CallBounded(x, call'[x])
<1>1. PICK q : q = [NotMade EXCEPT !.step = "done", !.ending = how, !.again = FALSE]
  OBVIOUS
<1>2. CallBounded(c, q)
  BY <1>1, NotMadeBounded
<1>3. call' = [call EXCEPT ![c] = q]
  BY <1>1 DEF Ends, Moves
<1> QED BY <1>2, <1>3 DEF DispatchBounded, DispatchKept

LEMMA MovesBounded ==
    ASSUME DispatchBounded, NEW c \in Callers, NEW q, CallBounded(c, q), Moves(c, q)
    PROVE  \A x \in Callers : CallBounded(x, call'[x])
BY DEF DispatchBounded, DispatchKept, Moves

\* A step that leaves the cursor and the count of decisions alone.
LEMMA StepBounded ==
    ASSUME NEW c, NEW r, CallBounded(c, r), r.step \notin NotAsking, NEW q,
           q.left = r.left, q.size = r.size, q.knew = r.knew, q.past = r.past, q.again = r.again,
           q.searches = r.searches, q.corrections = r.corrections, q.decisions = r.decisions,
           q.ending = r.ending, q.step \in Steps \ NotAsking,
           q.step \in Waiting => q.asked \in Endpoints \X Models,
           q.tries \in 0..(SaveTries - 1), q.read \in Nat
    PROVE  CallBounded(c, q)
BY DEF CallBounded, NotAsking

\* The candidate failed: the cursor moves on, or there is nobody left.
GoesOn(c, r, q) ==
    /\ q.again = FALSE
    /\ q.left # <<>> =>
          /\ CallBounded(c, q)
          /\ q.size = r.size /\ q.size # 1 /\ q.ending = "none"
          /\ Budgeted(c, q.left, q.size, q.searches, q.corrections, q.decisions + 1)
          /\ Budgeted(c, q.left, q.size, q.searches, q.corrections + 1, q.decisions + 1)

LEMMA OnwardsBounded ==
    ASSUME NEW c \in Callers, NEW r, CoolingKept(r), CallBounded(c, r), r.step \notin NotAsking
    PROVE  GoesOn(c, r, Onwards(r))
<1>0. PICK q : q = Onwards(r)
  OBVIOUS
<1>1. /\ q.left = Tail(r.left) /\ q.past = r.past \cup {Head(r.left)}
      /\ q.step = "asking" /\ q.tries = 0 /\ q.read = 0
      /\ q.again = r.again /\ q.size = r.size /\ q.knew = r.knew /\ q.ending = r.ending
      /\ q.searches = r.searches /\ q.corrections = r.corrections /\ q.decisions = r.decisions
  BY <1>0 DEF Onwards, CoolingKept, Fields
<1>2. r.left # <<>> /\ r.left \in Seq(Candidates)
  BY DEF CallBounded, Pooled
<1>3. Pooled(q.left, q.knew, q.past)
  BY <1>1, <1>2, PooledOnwards DEF CallBounded
<1>4. Budgeted(c, r.left, r.size, r.searches, r.corrections, r.decisions)
  BY DEF CallBounded
<1>5. /\ Budgeted(c, Tail(r.left), r.size, r.searches, r.corrections, r.decisions)
      /\ Budgeted(c, Tail(r.left), r.size, r.searches, r.corrections, r.decisions + 1)
      /\ Tail(r.left) # <<>> =>
           Budgeted(c, Tail(r.left), r.size, r.searches, r.corrections + 1, r.decisions + 1)
  BY <1>2, <1>4, BudgetOnwards
<1>6. q.tries \in 0..(SaveTries - 1) /\ q.read \in Nat
  BY <1>1, DispatchAssumption
<1>7. q.left # <<>> => CallBounded(c, q)
  BY <1>1, <1>3, <1>5, <1>6 DEF CallBounded, NotAsking, Waiting, Steps
<1>8. Tail(r.left) # <<>> => r.size # 1
  <2>1. Tail(r.left) # <<>> => Len(r.left) > 1
    BY <1>2
  <2> QED BY <1>4, <2>1 DEF Budgeted
<1>9. r.ending = "none" /\ r.again = FALSE
  BY DEF CallBounded, NotAsking
<1> QED BY <1>0, <1>1, <1>5, <1>7, <1>8, <1>9 DEF GoesOn

LEMMA GivesUpBounded ==
    ASSUME DispatchBounded, NEW c \in Callers, call[c].step \notin NotAsking, GivesUp(c, call[c])
    PROVE  \A x \in Callers : CallBounded(x, call'[x])
<1>1. PICK r : r = call[c] /\ CoolingKept(r) /\ CallBounded(c, r) /\ r.step \notin NotAsking
  BY DEF DispatchBounded, DispatchKept
<1>2. PICK q : q = Onwards(r) /\ GoesOn(c, r, q)
  BY <1>1, OnwardsBounded
<1>3. IF q.left = <<>> THEN Ends(c, q, "exhausted") ELSE Moves(c, q)
  BY <1>1, <1>2 DEF GivesUp
<1> QED BY <1>2, <1>3, EndsBounded, MovesBounded DEF Endings, GoesOn

LEMMA CoolDownBounded ==
    ASSUME DispatchBounded, NEW c \in Callers, call[c].step \in Waiting, NEW delay, CoolDown(c, delay)
    PROVE  \A x \in Callers : CallBounded(x, call'[x])
<1>1. PICK r : r = call[c] /\ CoolingKept(r) /\ CallBounded(c, r)
  BY DEF DispatchBounded, DispatchKept
<1>2. PICK until : until = clock + delay
  OBVIOUS
<1>3. PICK q : q = [r EXCEPT !.step = "cooling", !.until = until, !.tries = 0]
  OBVIOUS
<1>4. /\ q.step = "cooling" /\ q.asked = r.asked /\ q.tries = 0 /\ q.read = r.read /\ q.left = r.left /\ q.size = r.size
      /\ q.knew = r.knew /\ q.past = r.past /\ q.again = r.again /\ q.ending = r.ending
      /\ q.searches = r.searches /\ q.corrections = r.corrections /\ q.decisions = r.decisions
  BY <1>1, <1>3 DEF CoolingKept, Fields
<1>5. CallBounded(c, q)
  <2>1. q.tries \in 0..(SaveTries - 1)
    BY <1>4, DispatchAssumption
  <2>2. q.read \in Nat /\ q.step \in Steps \ NotAsking /\ r.step \notin NotAsking
    BY <1>1, <1>4 DEF CallBounded, Steps, NotAsking, Waiting
  <2>3. q.asked \in Endpoints \X Models
    BY <1>1, <1>4 DEF CallBounded
  <2> QED BY <2>3, <1>1, <1>4, <2>1, <2>2, StepBounded
<1>6. Moves(c, q)
  BY <1>1, <1>2, <1>3 DEF CoolDown
<1> QED BY <1>5, <1>6, MovesBounded

\* One more decision, which the budget has.
LEMMA DecidesBounded ==
    ASSUME DispatchBounded, NEW c \in Callers, NEW r, CoolingKept(r), r.left # <<>>,
           r.size = call[c].size, r.again = FALSE, r.ending = "none",
           r.tries \in 0..(SaveTries - 1), r.read \in Nat, Pooled(r.left, r.knew, r.past),
           Budgeted(c, r.left, r.size, r.searches, r.corrections, r.decisions + 1), Decides(c, r)
    PROVE  \A x \in Callers : CallBounded(x, call'[x])
<1>1. PICK q : q = [r EXCEPT !.decisions = @ + 1, !.step = "asking"]
  OBVIOUS
<1>2. /\ q.step = "asking" /\ q.tries = r.tries /\ q.read = r.read /\ q.left = r.left
      /\ q.size = r.size /\ q.knew = r.knew /\ q.past = r.past /\ q.again = r.again
      /\ q.ending = r.ending /\ q.searches = r.searches /\ q.corrections = r.corrections
      /\ q.decisions = r.decisions + 1
  BY <1>1 DEF CoolingKept, Fields
<1>3. CallBounded(c, q)
  BY <1>2 DEF CallBounded, NotAsking, Waiting, Steps, Endings
<1>4. q.decisions # DecisionLimit(c)
  <2>1. q.decisions # q.size + SearchLimit + (IF TaskOf[c] = "review" /\ q.size = 1 THEN 1 ELSE 0)
    BY <1>2, BudgetLasts DEF Pooled
  <2> QED BY <1>2, <2>1 DEF DecisionLimit, Corrects, Alone
<1>5. Moves(c, q)
  BY <1>1, <1>4 DEF Decides
<1> QED BY <1>3, <1>5, MovesBounded

\* A candidate whose endpoint is saved stands for it and for a model.
LEMMA TargetsSaved ==
    ASSUME catalog \in Catalogs, NEW h \in Candidates, Saved(h)
    PROVE  Target(catalog, h) \in Endpoints \X Models
<1>1. PICK e, bound, own : /\ e = catalog.match[h.provider] /\ e \in Endpoints \cup {NoEndpoint}
                           /\ bound = catalog.bound /\ bound \in [Endpoints -> Models \cup {NoModel}]
                           /\ own = h.model /\ own \in Models
  BY DispatchAssumption DEF Candidates
<1>2. EndpointIn(catalog, h) = e /\ e \in Endpoints
  BY <1>1 DEF EndpointIn, Saved
<1>3. ModelIn(catalog, h) = IF bound[e] # NoModel THEN bound[e] ELSE own
  BY <1>1, <1>2, DispatchAssumption DEF ModelIn
<1>4. ModelIn(catalog, h) \in Models
  BY <1>1, <1>2, <1>3
<1> QED BY <1>2, <1>4 DEF Target

LEMMA ChooseBounded ==
    ASSUME DispatchBounded, NEW c \in Callers, Choose(c)
    PROVE  \A x \in Callers : CallBounded(x, call'[x])
<1>1. PICK r : r = call[c] /\ CoolingKept(r) /\ CallBounded(c, r) /\ r.step = "choosing"
  BY DEF DispatchBounded, DispatchKept, Choose
<1>2. PICK left, size : left = Available /\ size = Len(left)
  OBVIOUS
<1>3. Pooled(left, catalog, {})
  <2>1. pool \in Seq(PoolPlaces) /\ catalog \in Catalogs /\ clock \in Nat
    BY DispatchAssumption DEF DispatchBounded, DispatchKept, PoolPlaces
  <2> QED BY <1>2, <2>1, AvailablePooled
<1>4. CASE left = <<>>
  BY <1>1, <1>2, <1>4, EndsBounded DEF Choose, CallBounded, Endings
<1>5. CASE left # <<>>
  <2>1. PICK q : q = [r EXCEPT !.step = "asking", !.left = left, !.size = size, !.knew = catalog]
    OBVIOUS
  <2>2. /\ q.step = "asking" /\ q.tries = r.tries /\ q.read = r.read /\ q.left = left
        /\ q.size = size /\ q.knew = catalog /\ q.past = r.past /\ q.again = r.again
        /\ q.ending = r.ending /\ q.searches = r.searches /\ q.corrections = r.corrections
        /\ q.decisions = r.decisions
    BY <1>1, <2>1 DEF CoolingKept, Fields
  <2>3. r.past = {} /\ r.decisions = 0 /\ r.corrections = 0 /\ r.searches \in 0..SearchLimit
    BY <1>1 DEF CallBounded, Budgeted
  <2>4. Budgeted(c, q.left, q.size, q.searches, q.corrections, q.decisions)
    <3>1. size \in Nat /\ Len(left) = size
      BY <1>2, <1>3 DEF Pooled
    <3>2. Budgeted(c, left, size, r.searches, 0, 0)
      BY <2>3, <3>1 DEF Budgeted
    <3> QED BY <2>2, <2>3, <3>2
  <2>5. CallBounded(c, q)
    BY <1>1, <1>3, <1>5, <2>2, <2>3, <2>4 DEF CallBounded, NotAsking, Waiting, Steps
  <2>6. Moves(c, q)
    BY <1>1, <1>2, <1>5, <2>1 DEF Choose
  <2> QED BY <2>5, <2>6, MovesBounded
<1> QED BY <1>4, <1>5

\* Steps in which a call goes on with the candidate it has.
LEMMA SameCandidateBounded ==
    ASSUME DispatchBounded, NEW c \in Callers,
           Start(c) \/ Ask(c) \/ Answers(c) \/ RateLimited(c) \/ Resume(c) \/ Denied(c) \/ Down(c)
    PROVE  \A x \in Callers : CallBounded(x, call'[x])
<1>1. PICK r : r = call[c] /\ CoolingKept(r) /\ CallBounded(c, r)
  BY DEF DispatchBounded, DispatchKept
<1>2. r.tries \in 0..(SaveTries - 1) /\ r.read \in Nat
  BY <1>1 DEF CallBounded
<1>3. CASE Start(c)
  <2>1. PICK q : q = [r EXCEPT !.step = "choosing"]
    OBVIOUS
  <2>2. /\ q.step = "choosing" /\ q.tries = r.tries /\ q.read = r.read /\ q.left = r.left
        /\ q.size = r.size /\ q.knew = r.knew /\ q.past = r.past /\ q.again = r.again
        /\ q.ending = r.ending /\ q.searches = r.searches /\ q.corrections = r.corrections
        /\ q.decisions = r.decisions
    BY <1>1, <2>1 DEF CoolingKept, Fields
  <2>3. r.step = "idle" /\ Moves(c, q)
    BY <1>1, <1>3, <2>1 DEF Start
  <2>4. CallBounded(c, q)
    BY <1>1, <2>2, <2>3 DEF CallBounded, NotAsking, Waiting, Steps
  <2> QED BY <2>3, <2>4, MovesBounded
<1>4. CASE Ask(c)
  <2>1. PICK h : h = InTurn(c) /\ h \in Candidates /\ r.step = "asking" /\ Saved(h)
              /\ (Named(r.knew, h) => \A g \in r.past : Target(r.knew, g) # Target(r.knew, h))
    <3>1. r.step = "asking" /\ r.left # <<>> /\ Pooled(r.left, r.knew, r.past) /\ Saved(InTurn(c))
      BY <1>1, <1>4 DEF Ask, Skips, CallBounded, NotAsking
    <3>2. 1 \in DOMAIN r.left /\ Head(r.left) = r.left[1] /\ Head(r.left) \in Candidates
      BY <3>1 DEF Pooled
    <3> QED BY <1>1, <3>1, <3>2 DEF Pooled, InTurn
  <2>2. PICK target, again : /\ target = Target(catalog, InTurn(c))
                             /\ again = (call[c].again \/ AsksAgain(c))
    OBVIOUS
  <2>3. again = FALSE
    <3>1. ~AsksAgain(c)
      BY <1>1, <2>1 DEF AsksAgain, Named, Saved
    <3> QED BY <1>1, <2>2, <3>1 DEF CallBounded
  <2>4. target \in Endpoints \X Models
    BY <2>1, <2>2, TargetsSaved DEF DispatchBounded
  <2>5. PICK q : q = [r EXCEPT !.step = "waiting", !.asked = target, !.again = again]
    OBVIOUS
  <2>6. /\ q.step = "waiting" /\ q.asked = target /\ q.tries = r.tries /\ q.read = r.read
        /\ q.left = r.left /\ q.size = r.size /\ q.knew = r.knew /\ q.past = r.past
        /\ q.again = FALSE /\ q.ending = r.ending /\ q.searches = r.searches
        /\ q.corrections = r.corrections /\ q.decisions = r.decisions
    BY <1>1, <2>3, <2>5 DEF CoolingKept, Fields
  <2>7. Moves(c, q)
    BY <1>1, <1>4, <2>2, <2>5 DEF Ask
  <2>8. CallBounded(c, q)
    BY <1>1, <2>1, <2>4, <2>6 DEF CallBounded, NotAsking, Waiting, Steps
  <2> QED BY <2>7, <2>8, MovesBounded
<1>5. CASE Answers(c)
  <2>1. r.step = "waiting" /\ r.again = FALSE
    BY <1>1, <1>5 DEF Answers, CallBounded
  <2>2. PICK q : q = [r EXCEPT !.step = "deciding", !.asked = <<>>, !.waited = FALSE]
    OBVIOUS
  <2>3. /\ q.step = "deciding" /\ q.tries = r.tries /\ q.read = r.read /\ q.left = r.left
        /\ q.size = r.size /\ q.knew = r.knew /\ q.past = r.past /\ q.again = r.again
        /\ q.ending = r.ending /\ q.searches = r.searches /\ q.corrections = r.corrections
        /\ q.decisions = r.decisions
    BY <1>1, <2>2 DEF CoolingKept, Fields
  <2>4. CallBounded(c, q)
    BY <1>1, <1>2, <2>1, <2>3 DEF CallBounded, NotAsking, Waiting, Steps
  <2>5. Moves(c, q) \/ Ends(c, call[c], "answer")
    BY <1>1, <1>5, <2>2 DEF Answers
  <2> QED BY <1>1, <2>1, <2>4, <2>5, MovesBounded, EndsBounded DEF Endings
<1>6. CASE RateLimited(c)
  <2>1. r.step = "waiting"
    BY <1>1, <1>6 DEF RateLimited
  <2>2. PICK q : q = [r EXCEPT !.step = "pausing", !.waited = TRUE]
    OBVIOUS
  <2>3. /\ q.step = "pausing" /\ q.asked = r.asked /\ q.tries = r.tries /\ q.read = r.read /\ q.left = r.left
        /\ q.size = r.size /\ q.knew = r.knew /\ q.past = r.past /\ q.again = r.again
        /\ q.ending = r.ending /\ q.searches = r.searches /\ q.corrections = r.corrections
        /\ q.decisions = r.decisions
    BY <1>1, <2>2 DEF CoolingKept, Fields
  <2>4. CallBounded(c, q)
    BY <1>1, <1>2, <2>1, <2>3 DEF CallBounded, NotAsking, Waiting, Steps
  <2>5. Moves(c, q) \/ \E hint \in Hints : CoolDown(c, hint)
    BY <1>1, <1>6, <2>2 DEF RateLimited
  <2> QED BY <1>1, <2>1, <2>4, <2>5, MovesBounded, CoolDownBounded DEF Waiting
<1>7. CASE Resume(c)
  <2>1. r.step = "pausing"
    BY <1>1, <1>7 DEF Resume
  <2>2. PICK q : q = [r EXCEPT !.step = "waiting"]
    OBVIOUS
  <2>3. /\ q.step = "waiting" /\ q.asked = r.asked /\ q.tries = r.tries /\ q.read = r.read /\ q.left = r.left
        /\ q.size = r.size /\ q.knew = r.knew /\ q.past = r.past /\ q.again = r.again
        /\ q.ending = r.ending /\ q.searches = r.searches /\ q.corrections = r.corrections
        /\ q.decisions = r.decisions
    BY <1>1, <2>2 DEF CoolingKept, Fields
  <2>4. CallBounded(c, q)
    BY <1>1, <1>2, <2>1, <2>3 DEF CallBounded, NotAsking, Waiting, Steps
  <2>5. Moves(c, q)
    BY <1>1, <1>7, <2>2 DEF Resume
  <2> QED BY <2>4, <2>5, MovesBounded
<1>8. CASE Denied(c) \/ Down(c)
  BY <1>8, CoolDownBounded DEF Denied, Down, Waiting
<1> QED BY <1>3, <1>4, <1>5, <1>6, <1>7, <1>8

\* The steps of saving a cooldown.
LEMMA SavingBounded ==
    ASSUME DispatchBounded, NEW c \in Callers, ReadCooldown(c) \/ StoreCooldown(c)
    PROVE  \A x \in Callers : CallBounded(x, call'[x])
<1>1. PICK r : r = call[c] /\ CoolingKept(r) /\ CallBounded(c, r)
  BY DEF DispatchBounded, DispatchKept
<1>2. r.step \in {"cooling", "storing"} /\ r.step \notin NotAsking
  BY <1>1 DEF ReadCooldown, StoreCooldown, NotAsking
<1>3. CASE GivesUp(c, call[c])
  BY <1>1, <1>2, <1>3, GivesUpBounded
<1>4. CASE ReadCooldown(c) /\ ~GivesUp(c, call[c])
  <2>1. PICK read : read = cooldown[call[c].asked]
    OBVIOUS
  <2>2. PICK q : q = [r EXCEPT !.step = "storing", !.read = read]
    OBVIOUS
  <2>3. Moves(c, q)
    BY <1>1, <1>4, <2>1, <2>2 DEF ReadCooldown
  <2>4. /\ q.step = "storing" /\ q.asked = r.asked /\ q.tries = r.tries /\ q.read = read /\ q.left = r.left
        /\ q.size = r.size /\ q.knew = r.knew /\ q.past = r.past /\ q.again = r.again
        /\ q.ending = r.ending /\ q.searches = r.searches /\ q.corrections = r.corrections
        /\ q.decisions = r.decisions
    BY <1>1, <2>2 DEF CoolingKept, Fields
  <2>5. read \in Nat
    <3>1. call[c].asked \in Endpoints \X Models
      BY <1>1, <1>2 DEF CallBounded, Waiting
    <3> QED BY <2>1, <3>1 DEF DispatchBounded, DispatchKept
  <2>6. CallBounded(c, q)
    BY <1>1, <1>2, <2>4, <2>5 DEF CallBounded, NotAsking, Waiting, Steps
  <2> QED BY <2>3, <2>6, MovesBounded
<1>5. CASE StoreCooldown(c) /\ ~GivesUp(c, call[c])
  <2>1. PICK tries : tries = r.tries + 1
    OBVIOUS
  <2>2. PICK q : q = [r EXCEPT !.step = "cooling", !.tries = tries]
    OBVIOUS
  <2>3. Moves(c, [r EXCEPT !.step = "cooling", !.tries = @ + 1]) /\ tries # SaveTries
    BY <1>1, <1>5, <2>1 DEF StoreCooldown
  <2>4. Moves(c, q)
    BY <1>1, <2>1, <2>2, <2>3 DEF CoolingKept, Fields
  <2>5. /\ q.step = "cooling" /\ q.asked = r.asked /\ q.tries = tries /\ q.read = r.read /\ q.left = r.left
        /\ q.size = r.size /\ q.knew = r.knew /\ q.past = r.past /\ q.again = r.again
        /\ q.ending = r.ending /\ q.searches = r.searches /\ q.corrections = r.corrections
        /\ q.decisions = r.decisions
    BY <1>1, <2>2 DEF CoolingKept, Fields
  <2>6. tries \in 0..(SaveTries - 1)
    <3>1. SaveTries \in Nat \ {0} /\ r.tries \in 0..(SaveTries - 1)
      BY <1>1, DispatchAssumption DEF CallBounded
    <3>2. PICK limit, past : limit = SaveTries /\ past = r.tries
      OBVIOUS
    <3>3. limit \in Nat \ {0} /\ past \in 0..(limit - 1) /\ tries = past + 1 /\ tries # limit
      BY <2>1, <2>3, <3>1, <3>2
    <3>4. tries \in 0..(limit - 1)
      BY <3>3
    <3> QED BY <3>2, <3>4
  <2>7. CallBounded(c, q)
    BY <1>1, <1>2, <2>5, <2>6 DEF CallBounded, NotAsking, Waiting, Steps
  <2> QED BY <2>4, <2>7, MovesBounded
<1> QED BY <1>3, <1>4, <1>5

\* The Steward's decisions.
LEMMA DecisionsBounded ==
    ASSUME DispatchBounded, NEW c \in Callers, Search(c) \/ Finish(c) \/ Reject(c) \/ DeadlineExpires(c)
    PROVE  \A x \in Callers : CallBounded(x, call'[x])
<1>1. PICK r : r = call[c] /\ CoolingKept(r) /\ CallBounded(c, r)
  BY DEF DispatchBounded, DispatchKept
<1>2. /\ r.again = FALSE /\ r.tries \in 0..(SaveTries - 1) /\ r.read \in Nat
      /\ Pooled(r.left, r.knew, r.past)
      /\ Budgeted(c, r.left, r.size, r.searches, r.corrections, r.decisions)
  BY <1>1 DEF CallBounded
<1>3. CASE Finish(c) \/ DeadlineExpires(c)
  BY <1>1, <1>2, <1>3, EndsBounded DEF Finish, DeadlineExpires, Endings
<1>4. CASE Search(c)
  <2>1. PICK searches : searches = r.searches + 1
    OBVIOUS
  <2>2. PICK q : q = [r EXCEPT !.searches = searches]
    OBVIOUS
  <2>3. r.step = "deciding" /\ r.searches < SearchLimit /\ Decides(c, [r EXCEPT !.searches = @ + 1])
    BY <1>1, <1>4 DEF Search
  <2>4. Decides(c, q)
    BY <1>1, <2>1, <2>2, <2>3 DEF CoolingKept, Fields
  <2>5. /\ q.tries = r.tries /\ q.read = r.read /\ q.left = r.left
        /\ q.size = r.size /\ q.knew = r.knew /\ q.past = r.past /\ q.again = r.again
        /\ q.ending = r.ending /\ q.searches = searches /\ q.corrections = r.corrections
        /\ q.decisions = r.decisions
    BY <1>1, <2>2 DEF CoolingKept, Fields
  <2>6. CoolingKept(q)
    BY <1>1, <2>2 DEF CoolingKept, Fields
  <2>7. Budgeted(c, r.left, r.size, searches, r.corrections, r.decisions + 1)
    BY <1>2, <2>1, <2>3, BudgetSearch DEF Pooled
  <2>8. r.left # <<>> /\ r.ending = "none"
    BY <1>1, <2>3 DEF CallBounded, NotAsking
  <2> QED BY <1>1, <1>2, <2>4, <2>5, <2>6, <2>7, <2>8, DecidesBounded
<1>5. CASE Reject(c)
  <2>1. r.step = "deciding" /\ r.step \notin NotAsking
    BY <1>1, <1>5 DEF Reject, NotAsking
  <2>2. r.left # <<>> /\ r.ending = "none"
    BY <1>1, <2>1 DEF CallBounded, NotAsking
  <2>3. PICK next : next = Onwards(r) /\ GoesOn(c, r, next) /\ CoolingKept(next)
    BY <1>1, <2>1, OnwardsBounded, OnwardsKept
  <2>4. PICK corrected, q, moved : /\ corrected = [r EXCEPT !.corrections = 1]
                                   /\ q = next.corrections + 1
                                   /\ moved = [next EXCEPT !.corrections = q]
    OBVIOUS
  <2>5. IF Corrects(c) /\ r.corrections = 0 THEN Decides(c, corrected)
        ELSE IF next.left = <<>> THEN Ends(c, next, "exhausted")
        ELSE Decides(c, moved) \/ Decides(c, next)
    <3>1. moved = [next EXCEPT !.corrections = @ + 1]
      BY <2>3, <2>4 DEF CoolingKept, Fields
    <3> QED BY <1>1, <1>5, <2>3, <2>4, <3>1 DEF Reject
  <2>6. CASE Corrects(c) /\ r.corrections = 0
    <3>1. /\ corrected.tries = r.tries /\ corrected.read = r.read /\ corrected.left = r.left
          /\ corrected.size = r.size /\ corrected.knew = r.knew /\ corrected.past = r.past
          /\ corrected.again = r.again /\ corrected.ending = r.ending
          /\ corrected.searches = r.searches /\ corrected.corrections = 1
          /\ corrected.decisions = r.decisions
      BY <1>1, <2>4 DEF CoolingKept, Fields
    <3>2. CoolingKept(corrected)
      BY <1>1, <2>4 DEF CoolingKept, Fields
    <3>3. Budgeted(c, r.left, r.size, r.searches, 1, r.decisions + 1)
      <4>1. Len(r.left) \in Nat
        BY <1>2 DEF Pooled
      <4>2. TaskOf[c] = "review" /\ r.size = 1
        BY <1>1, <2>6 DEF Corrects, Alone
      <4> QED BY <1>2, <2>6, <4>1, <4>2 DEF Budgeted
    <3> QED BY <1>1, <1>2, <2>2, <2>5, <2>6, <3>1, <3>2, <3>3, DecidesBounded
  <2>7. CASE ~(Corrects(c) /\ r.corrections = 0) /\ next.left = <<>>
    BY <2>3, <2>5, <2>7, EndsBounded DEF GoesOn, Endings
  <2>8. CASE ~(Corrects(c) /\ r.corrections = 0) /\ next.left # <<>>
    <3>1. /\ next.again = FALSE /\ CallBounded(c, next) /\ next.size = r.size /\ next.ending = "none"
          /\ Budgeted(c, next.left, next.size, next.searches, next.corrections, next.decisions + 1)
          /\ Budgeted(c, next.left, next.size, next.searches, next.corrections + 1, next.decisions + 1)
      BY <2>3, <2>8 DEF GoesOn
    <3>2. /\ next.tries \in 0..(SaveTries - 1) /\ next.read \in Nat
          /\ Pooled(next.left, next.knew, next.past)
      BY <3>1 DEF CallBounded
    <3>3. CASE Decides(c, next)
      BY <1>1, <2>3, <2>8, <3>1, <3>2, <3>3, DecidesBounded
    <3>4. CASE Decides(c, moved)
      <4>1. /\ moved.tries = next.tries /\ moved.read = next.read /\ moved.left = next.left
            /\ moved.size = next.size /\ moved.knew = next.knew /\ moved.past = next.past
            /\ moved.again = next.again /\ moved.ending = next.ending
            /\ moved.searches = next.searches /\ moved.corrections = next.corrections + 1
            /\ moved.decisions = next.decisions
        BY <2>3, <2>4 DEF CoolingKept, Fields
      <4>2. CoolingKept(moved)
        BY <2>3, <2>4 DEF CoolingKept, Fields
      <4> QED BY <1>1, <2>8, <3>1, <3>2, <3>4, <4>1, <4>2, DecidesBounded
    <3> QED BY <2>5, <2>8, <3>3, <3>4
  <2> QED BY <2>6, <2>7, <2>8
<1> QED BY <1>3, <1>4, <1>5

LEMMA DispatchBoundedStep == DispatchBounded /\ [DispatchNext]_dispatchVars => DispatchBounded'
<1> SUFFICES ASSUME DispatchBounded, [DispatchNext]_dispatchVars PROVE DispatchBounded'
    OBVIOUS
<1>1. DispatchKept'
  BY DispatchStep DEF DispatchBounded
<1>2. ASSUME NEW c \in Callers, Start(c) \/ CallSteps(c) \/ DeadlineExpires(c)
      PROVE  DispatchBounded'
  <2>1. \A x \in Callers : CallBounded(x, call'[x])
    <3>1. CASE Skip(c) \/ AnswersBadly(c)
      BY <3>1, GivesUpBounded DEF Skip, AnswersBadly, NotAsking
    <3>2. CASE ~(Skip(c) \/ AnswersBadly(c))
      BY <1>2, <3>2, ChooseBounded, SameCandidateBounded, SavingBounded, DecisionsBounded DEF CallSteps
    <3> QED BY <3>1, <3>2
  <2>2. UNCHANGED <<pool, catalog, clock, edits>>
    <3>1. CASE ~CallSteps(c)
      BY <1>2, <3>1 DEF Start, DeadlineExpires
    <3>2. CASE Choose(c) \/ Skip(c) \/ Ask(c) \/ Answers(c) \/ AnswersBadly(c) \/ Resume(c)
      BY <3>2 DEF Choose, Skip, Ask, Answers, AnswersBadly, Resume
    <3>3. CASE RateLimited(c) \/ Denied(c) \/ Down(c)
      BY <3>3 DEF RateLimited, Denied, Down, CoolDown
    <3>4. CASE ReadCooldown(c) \/ StoreCooldown(c) \/ Search(c) \/ Finish(c) \/ Reject(c)
      BY <3>4 DEF ReadCooldown, StoreCooldown, Search, Finish, Reject
    <3> QED BY <3>1, <3>2, <3>3, <3>4 DEF CallSteps
  <2> QED BY <1>1, <2>1, <2>2 DEF DispatchBounded
<1>3. CASE Tick
  <2>1. MaxClock \in Nat /\ clock' \in 1..MaxClock
    BY <1>3, DispatchAssumption DEF Tick, DispatchBounded
  <2> QED BY <1>1, <1>3, <2>1 DEF Tick, DispatchBounded
<1>4. CASE Edit
  <2>1. MaxEdits \in Nat /\ edits' \in 0..MaxEdits
    BY <1>4, DispatchAssumption DEF Edit, DispatchBounded
  <2>2. pool' \in Pools /\ catalog' \in Catalogs
    BY <1>4 DEF Edit, DispatchBounded
  <2> QED BY <1>1, <1>4, <2>1, <2>2 DEF Edit, DispatchBounded
<1>5. CASE UNCHANGED dispatchVars
  BY <1>1, <1>5 DEF dispatchVars, DispatchBounded
<1> QED BY <1>2, <1>3, <1>4, <1>5 DEF DispatchNext

\* What TaskDispatch promises of its calls: whatever an assessment searches, corrects and
\* rejects, it runs out of providers before it runs out of decisions, and no call
\* goes back to a model of an endpoint that it gave up on, by whatever names and
\* models the pool stands for it, while the catalog is the one it chose by
\* (_StewardAssessment of task_dispatcher.py, and steward_agent.py).
THEOREM CallsAlwaysBounded == DispatchSafety => []CallsAreBounded
<1>1. DispatchInit => DispatchBounded
  <2> SUFFICES ASSUME DispatchInit PROVE DispatchBounded
      OBVIOUS
  <2>1. DispatchKept
    <3>1. DOMAIN call = Callers /\ \A c \in Callers : call[c] = NotMade
      BY DEF DispatchInit
    <3>2. clock \in Nat /\ cooldown \in [Endpoints \X Models -> Nat]
      BY DEF DispatchInit
    <3> QED BY <3>1, <3>2, NotMadeKept DEF DispatchKept
  <2>2. \A c \in Callers : CallBounded(c, call[c])
    <3>1. PICK q : q = [NotMade EXCEPT !.step = "idle", !.ending = "none", !.again = FALSE]
      OBVIOUS
    <3>2. q = NotMade
      BY <3>1 DEF NotMade
    <3>3. \A c \in Callers : CallBounded(c, q)
      BY <3>1, NotMadeBounded DEF Endings
    <3> QED BY <3>2, <3>3 DEF DispatchInit
  <2>3. clock \in 1..MaxClock /\ edits \in 0..MaxEdits
    BY DispatchAssumption DEF DispatchInit
  <2> QED BY <2>1, <2>2, <2>3 DEF DispatchInit, DispatchBounded
<1>2. DispatchBounded => CallsAreBounded
  <2> SUFFICES ASSUME DispatchBounded PROVE CallsAreBounded
      OBVIOUS
  <2>1. ASSUME NEW c \in Callers
        PROVE  /\ call[c].step \in Steps /\ call[c].ending \in Endings
               /\ call[c].tries < SaveTries /\ call[c].searches <= SearchLimit
               /\ call[c].step \notin {"idle", "choosing", "done"} => call[c].left # <<>>
               /\ call[c].step \in {"waiting", "pausing", "cooling", "storing"} =>
                     call[c].asked \in Endpoints \X Models
               /\ call[c].step = "storing" => call[c].read < call[c].until
               /\ (call[c].step = "done") = (call[c].ending # "none")
               /\ call[c].ending # "overrun" /\ ~call[c].again
    <3>1. PICK r : r = call[c] /\ CoolingKept(r) /\ CallBounded(c, r)
      BY DEF DispatchBounded, DispatchKept
    <3>2. r.tries < SaveTries /\ r.searches <= SearchLimit
      <4>1. r.tries \in 0..(SaveTries - 1) /\ r.searches \in 0..SearchLimit
        BY <3>1 DEF CallBounded, Budgeted
      <4>2. SaveTries \in Nat /\ SearchLimit \in Nat
        BY DispatchAssumption
      <4> QED BY <4>1, <4>2
    <3>3. r.step = "storing" => r.read < r.until
      BY <3>1 DEF CallBounded, CoolingKept
    <3> QED BY <3>1, <3>2, <3>3 DEF CallBounded, NotAsking, Waiting
  <2> QED BY <2>1 DEF DispatchBounded, DispatchKept, CallsAreBounded, DispatchOK, BudgetSuffices,
                      NeverAskedAgain
<1> QED BY <1>1, <1>2, DispatchBoundedStep, PTL DEF DispatchSafety

-----------------------------------------------------------------------------
(* The receiver's prompts *)

RcJob == [state : {"none", "pending", "over"}, claim : {"none", "prep", "chat"}, derived : BOOLEAN]
RcReceiver == [at : {"down", "check", "poll", "prepare", "transcribe", "save"},
               notices : SUBSET Jobs, current : SUBSET Jobs, prepared : SUBSET Jobs]

RcTyped ==
    /\ job \in [Jobs -> RcJob]
    /\ receiver \in RcReceiver
    /\ sent \subseteq Jobs /\ stateFile \subseteq Jobs
    /\ prompts \subseteq SUBSET Jobs
    /\ crashes \in Nat /\ losses \in Nat

\* What the receiver is about to forward, and what it has forwarded, was made;
\* of it, audio has its transcript where there is a transcriber.
InHand == receiver.notices \cup receiver.prepared
Told(js) == \A j \in js : transcriber /\ KindOf[j] = "audio" => job[j].derived
Made(js) == \A j \in js : job[j].state # "none"

RcLedger ==
    /\ receiver.at # "down" => sent = stateFile
    /\ stateFile \subseteq UNION prompts
    /\ receiver.at = "save" => receiver.prepared \in prompts
    /\ receiver.at = "transcribe" => receiver.current \subseteq receiver.notices
    /\ Told(receiver.prepared) /\ \A p \in prompts : Told(p)
    /\ Made(InHand) /\ \A p \in prompts : Made(p)

PendingOf(p) == {j \in p : Pending(j)}
Alive(p) == p \in prompts /\ PendingOf(p) # {}
OneHuman(p) == \E h \in Humans(Jobs) : p = {h}

\* Unless something was lost: the receiver was down only at first; what is unfinished is latched; what overtakes it is
\* one message of a person, and only if none is latched; and of two unfinished
\* prompts one is such a message, and the other has none.
RcLatched ==
    /\ receiver.at = "down" => prompts = {}
    /\ \A p \in prompts : PendingOf(p) \subseteq
            sent \cup (IF receiver.at = "save" THEN receiver.prepared ELSE {})
    /\ receiver.at \in {"prepare", "transcribe"} /\ sent # {} =>
            Humans(sent) = {} /\ \E h \in Humans(Jobs) : InHand \subseteq {h}
    /\ \A p, q \in prompts : Alive(p) /\ Alive(q) /\ p # q =>
            /\ OneHuman(p) \/ OneHuman(q)
            /\ Humans(PendingOf(p)) = {} \/ Humans(PendingOf(q)) = {}

RcKept ==
    /\ RcTyped
    /\ RcLedger
    /\ crashes + losses = 0 => RcLatched

LEMMA RcInitKept == RcInit => RcKept
<1> SUFFICES ASSUME RcInit PROVE RcKept
    OBVIOUS
<1>1. RcTyped
  BY DEF RcInit, RcTyped, RcJob, RcReceiver, ReceiverDown
<1>2. RcLedger
  BY DEF RcInit, RcLedger, ReceiverDown, Told, Made, InHand
<1>3. RcLatched
  BY DEF RcInit, RcLatched, ReceiverDown
<1> QED BY <1>1, <1>2, <1>3 DEF RcKept

\* Requests are made, finish for good, and keep their transcripts.
JobsGoOn ==
    /\ job' \in [Jobs -> RcJob]
    /\ \A j \in Jobs :
          /\ job[j].state # "none" => job'[j].state # "none" /\ (Pending(j)' => Pending(j))
          /\ job[j].derived => job'[j].derived

LEMMA JobSteps ==
    ASSUME RcTyped, NEW j \in Jobs, NEW r \in RcJob, job' = [job EXCEPT ![j] = r],
           job[j].state # "none" => r.state # "none" /\ (r.state = "pending" => Pending(j)),
           job[j].derived => r.derived
    PROVE  JobsGoOn
BY DEF RcTyped, JobsGoOn, Pending

LEMMA JobsStay == ASSUME RcTyped, UNCHANGED job PROVE JobsGoOn
BY DEF RcTyped, JobsGoOn, Pending

\* What was true of requests that were made stays so.
LEMMA RequestsGoOn ==
    ASSUME RcTyped, JobsGoOn, UNCHANGED transcriber, NEW js \in SUBSET Jobs, Made(js)
    PROVE  Made(js)' /\ (Told(js) => Told(js)') /\ PendingOf(js)' \subseteq PendingOf(js)
<1>1. Made(js)'
  BY DEF RcTyped, JobsGoOn, Made
<1>2. Told(js) => Told(js)'
  BY DEF RcTyped, JobsGoOn, Told
<1>3. PendingOf(js)' \subseteq PendingOf(js)
  BY DEF RcTyped, JobsGoOn, Made, PendingOf
<1> QED BY <1>1, <1>2, <1>3

\* Requests go on while the receiver does nothing, or prepares what it has in
\* hand: it has no more in hand than before.
LEMMA RcGoesOn ==
    ASSUME RcKept, JobsGoOn, UNCHANGED <<sent, stateFile, prompts, crashes, losses, transcriber>>,
           receiver' \in RcReceiver,
           \/ receiver' = receiver
           \/ /\ receiver.at \in {"prepare", "transcribe"} /\ receiver'.at \in {"prepare", "transcribe"}
              /\ receiver'.notices \subseteq receiver.notices
              /\ receiver'.prepared \subseteq receiver.prepared \cup receiver.notices
              /\ receiver'.at = "transcribe" => receiver'.current \subseteq receiver'.notices
              /\ \A j \in receiver'.prepared \ receiver.prepared :
                    transcriber /\ KindOf[j] = "audio" => job'[j].derived
    PROVE  RcKept'
<1>1. RcTyped'
  BY DEF RcKept, RcTyped, JobsGoOn
<1>2. \A p \in prompts : p \in SUBSET Jobs /\ Made(p) /\ Told(p)
  BY DEF RcKept, RcTyped, RcLedger
<1>3. \A p \in prompts : Made(p)' /\ Told(p)' /\ PendingOf(p)' \subseteq PendingOf(p)
  BY <1>2, RequestsGoOn DEF RcKept
<1>4. /\ receiver.prepared \in SUBSET Jobs /\ InHand \in SUBSET Jobs
      /\ Told(receiver.prepared) /\ Made(InHand) /\ Made(receiver.prepared)
  BY DEF RcKept, RcTyped, RcReceiver, RcLedger, InHand, Made
<1>5. Told(receiver.prepared)'
  <2>1. \A j \in receiver.prepared : transcriber /\ KindOf[j] = "audio" => job'[j].derived
    BY <1>4 DEF JobsGoOn, Told
  <2>2. \A j \in receiver'.prepared : transcriber /\ KindOf[j] = "audio" => job'[j].derived
    BY <2>1
  <2> QED BY <2>2 DEF Told
<1>6. InHand' \subseteq InHand
  BY DEF InHand
<1>7. Made(InHand)'
  <2>1. \A j \in InHand : job'[j].state # "none"
    BY <1>4 DEF JobsGoOn, Made
  <2> QED BY <1>6, <2>1 DEF Made
<1>8. RcLedger'
  BY <1>3, <1>5, <1>7 DEF RcKept, RcLedger, Told
<1>9. ASSUME RcLatched PROVE RcLatched'
  <2>1. \A p \in prompts : PendingOf(p)' \subseteq
            sent \cup (IF receiver'.at = "save" THEN receiver'.prepared ELSE {})
    BY <1>3, <1>9 DEF RcLatched
  <2>2. \A p \in prompts : /\ Alive(p)' => Alive(p)
                           /\ Humans(PendingOf(p)') \subseteq Humans(PendingOf(p))
    BY <1>3 DEF Alive, Humans
  <2>3. \A p, q \in prompts : Alive(p)' /\ Alive(q)' /\ p # q =>
            /\ OneHuman(p) \/ OneHuman(q)
            /\ Humans(PendingOf(p)') = {} \/ Humans(PendingOf(q)') = {}
    BY <1>9, <2>2 DEF RcLatched
  <2>4. receiver'.at \in {"prepare", "transcribe"} /\ sent # {} =>
            Humans(sent) = {} /\ \E h \in Humans(Jobs) : InHand' \subseteq {h}
    BY <1>6, <1>9 DEF RcLatched
  <2>5. receiver'.at = "down" => prompts = {}
    BY <1>9 DEF RcLatched
  <2> QED BY <2>1, <2>3, <2>4, <2>5 DEF RcLatched, Humans, OneHuman
<1> QED BY <1>1, <1>8, <1>9 DEF RcKept

LEMMA RcRequests ==
    ASSUME RcKept, NEW j \in Jobs,
           RequestMade(j) \/ DeadlinePasses(j) \/ ChatClaims(j) \/ ChatCompletes(j)
    PROVE  RcKept'
<1>1. UNCHANGED <<receiver, sent, stateFile, prompts, crashes, losses, transcriber>>
  BY DEF RequestMade, DeadlinePasses, ChatClaims, ChatCompletes
<1>2. PICK b \in RcJob : b = job[j]
  BY DEF RcKept, RcTyped
<1>3. JobsGoOn
  <2>1. CASE RequestMade(j)
    <3>0. b.state = "none"
      BY <1>2, <2>1 DEF RequestMade
    <3> DEFINE r == [b EXCEPT !.state = "pending"]
    <3>1. job' = [job EXCEPT ![j] = r]
      BY <1>2, <2>1 DEF RequestMade
    <3>2. r \in RcJob /\ (b.state # "none" => r.state # "none" /\ (r.state = "pending" => b.state = "pending"))
          /\ (b.derived => r.derived)
      BY <3>0 DEF RcJob
    <3> HIDE DEF r
    <3> QED BY <1>2, <3>1, <3>2, JobSteps DEF RcKept, Pending
  <2>2. CASE DeadlinePasses(j) \/ ChatCompletes(j)
    <3> DEFINE r == [b EXCEPT !.state = "over", !.claim = "none"]
    <3>1. job' = [job EXCEPT ![j] = r]
      BY <1>2, <2>2 DEF DeadlinePasses, ChatCompletes
    <3>2. r \in RcJob /\ (b.state # "none" => r.state # "none" /\ (r.state = "pending" => b.state = "pending"))
          /\ (b.derived => r.derived)
      BY DEF RcJob
    <3> HIDE DEF r
    <3> QED BY <1>2, <3>1, <3>2, JobSteps DEF RcKept, Pending
  <2>3. CASE ChatClaims(j)
    <3> DEFINE r == [b EXCEPT !.claim = "chat"]
    <3>1. job' = [job EXCEPT ![j] = r]
      BY <1>2, <2>3 DEF ChatClaims
    <3>2. r \in RcJob /\ (b.state # "none" => r.state # "none" /\ (r.state = "pending" => b.state = "pending"))
          /\ (b.derived => r.derived)
      BY DEF RcJob
    <3> HIDE DEF r
    <3> QED BY <1>2, <3>1, <3>2, JobSteps DEF RcKept, Pending
  <2> QED BY <2>1, <2>2, <2>3
<1>4. receiver' \in RcReceiver
  BY <1>1 DEF RcKept, RcTyped
<1> QED BY <1>1, <1>3, <1>4, RcGoesOn

LEMMA RcPrepares ==
    ASSUME RcKept, NEW j \in Jobs,
           \/ Include(j) \/ LeaveOut(j) \/ ReadInput(j) \/ Attach(j) \/ FailInput(j) \/ TooLate(j)
    PROVE  RcKept'
<1>1. UNCHANGED <<sent, stateFile, prompts, crashes, losses, transcriber>>
  BY DEF Include, LeaveOut, ReadInput, Attach, FailInput, TooLate
<1>2. PICK b \in RcJob : b = job[j]
  BY DEF RcKept, RcTyped
<1>3. JobsGoOn
  <2>1. CASE Include(j) \/ LeaveOut(j) \/ TooLate(j)
    BY <2>1, JobsStay DEF RcKept, Include, LeaveOut, TooLate
  <2>2. CASE ReadInput(j)
    <3> DEFINE r == [b EXCEPT !.claim = "prep"]
    <3>1. job' = [job EXCEPT ![j] = r]
      BY <1>2, <2>2 DEF ReadInput
    <3>2. r \in RcJob /\ (b.state # "none" => r.state # "none" /\ (r.state = "pending" => b.state = "pending"))
          /\ (b.derived => r.derived)
      BY DEF RcJob
    <3> HIDE DEF r
    <3> QED BY <1>2, <3>1, <3>2, JobSteps DEF RcKept, Pending
  <2>3. CASE Attach(j)
    <3> DEFINE r == [b EXCEPT !.claim = "none", !.derived = TRUE]
    <3>1. job' = [job EXCEPT ![j] = r]
      BY <1>2, <2>3 DEF Attach
    <3>2. r \in RcJob /\ (b.state # "none" => r.state # "none" /\ (r.state = "pending" => b.state = "pending"))
          /\ (b.derived => r.derived)
      BY DEF RcJob
    <3> HIDE DEF r
    <3> QED BY <1>2, <3>1, <3>2, JobSteps DEF RcKept, Pending
  <2>4. CASE FailInput(j)
    <3> DEFINE r == [b EXCEPT !.claim = "none", !.state = "over"]
    <3>1. job' = [job EXCEPT ![j] = r]
      BY <1>2, <2>4 DEF FailInput
    <3>2. r \in RcJob /\ (b.state # "none" => r.state # "none" /\ (r.state = "pending" => b.state = "pending"))
          /\ (b.derived => r.derived)
      BY DEF RcJob
    <3> HIDE DEF r
    <3> QED BY <1>2, <3>1, <3>2, JobSteps DEF RcKept, Pending
  <2> QED BY <2>1, <2>2, <2>3, <2>4
<1>4. PICK r \in RcReceiver : r = receiver
  BY DEF RcKept, RcTyped
<1>5. receiver' \in RcReceiver
  <2>1. \A notice \in BOOLEAN : Prepare(j, notice) => receiver' \in RcReceiver
    <3> SUFFICES ASSUME NEW notice \in BOOLEAN, Prepare(j, notice) PROVE receiver' \in RcReceiver
        OBVIOUS
    <3> DEFINE notices == r.notices \ {j}
               prepared == IF notice THEN r.prepared \cup {j} ELSE r.prepared
    <3>1. receiver' = [at |-> "prepare", notices |-> notices, current |-> {}, prepared |-> prepared]
      BY <1>4 DEF Prepare, RcReceiver
    <3>2. notices \in SUBSET Jobs /\ prepared \in SUBSET Jobs
      BY DEF RcReceiver
    <3> HIDE DEF notices, prepared
    <3> QED BY <3>1, <3>2 DEF RcReceiver
  <2>2. CASE ReadInput(j)
    BY <1>4, <2>2 DEF ReadInput, RcReceiver
  <2> QED BY <2>1, <2>2 DEF Include, LeaveOut, Attach, FailInput, TooLate
<1>6. /\ receiver.at \in {"prepare", "transcribe"} /\ receiver'.at \in {"prepare", "transcribe"}
      /\ receiver'.notices \subseteq receiver.notices
      /\ receiver'.prepared \subseteq receiver.prepared \cup receiver.notices
      /\ receiver'.at = "transcribe" => receiver'.current \subseteq receiver'.notices
      /\ \A x \in receiver'.prepared \ receiver.prepared : transcriber /\ KindOf[x] = "audio" => job'[x].derived
  <2>1. CASE Include(j)
    BY <1>2, <1>4, <2>1 DEF Include, Prepare, RcReceiver, RcJob, Human, Pending
  <2>2. CASE ReadInput(j)
    BY <1>4, <2>2 DEF ReadInput, RcReceiver
  <2>3. CASE LeaveOut(j) \/ FailInput(j) \/ TooLate(j)
    <3>1. receiver.at \in {"prepare", "transcribe"} /\ Prepare(j, FALSE)
      BY <2>3 DEF LeaveOut, FailInput, TooLate, Preparing
    <3> QED BY <1>4, <3>1 DEF Prepare, RcReceiver
  <2>4. CASE Attach(j)
    <3>1. j \in receiver.notices /\ receiver.at = "transcribe"
      BY <2>4 DEF Attach, Preparing, RcKept, RcLedger
    <3>2. job'[j].derived
      BY <1>2, <2>4 DEF Attach, RcKept, RcTyped, RcJob
    <3> QED BY <1>4, <2>4, <3>1, <3>2 DEF Attach, Prepare, RcReceiver
  <2> QED BY <2>1, <2>2, <2>3, <2>4
<1> QED BY <1>1, <1>3, <1>5, <1>6, RcGoesOn

LEMMA RcStarts ==
    ASSUME RcKept, StartReceiver \/ AppAnswers PROVE RcKept'
<1>1. /\ UNCHANGED <<job, stateFile, prompts, crashes, losses, transcriber>>
      /\ sent' = stateFile /\ receiver.at \in {"down", "check"}
      /\ \E where \in {"check", "poll"} : At(where)
  BY DEF StartReceiver, AppAnswers, RcKept, RcLedger
<1>2. PICK where \in {"check", "poll"} : receiver' = [receiver EXCEPT !.at = where]
  BY <1>1 DEF At
<1>3. PICK r \in RcReceiver : r = receiver
  BY DEF RcKept, RcTyped
<1>4. /\ receiver' \in RcReceiver /\ receiver'.at \in {"check", "poll"}
      /\ receiver'.notices = receiver.notices /\ receiver'.prepared = receiver.prepared
  BY <1>2, <1>3 DEF RcReceiver
<1>5. RcTyped'
  BY <1>1, <1>4 DEF RcKept, RcTyped
<1>6. RcLedger'
  BY <1>1, <1>4 DEF RcKept, RcLedger, Told, Made, InHand
<1>7. ASSUME RcLatched, crashes + losses = 0 PROVE RcLatched'
  BY <1>1, <1>4, <1>7 DEF RcLatched, PendingOf, Pending, Alive, OneHuman, Humans, RcKept, RcLedger
<1> QED BY <1>1, <1>5, <1>6, <1>7 DEF RcKept

\* A notice is of a request that waits; as long as a prompt is unfinished, the
\* only one is a person's message, and no such message is latched.
LEMMA RcPolls ==
    ASSUME RcKept, Poll PROVE RcKept'
<1>1. /\ UNCHANGED <<job, prompts, crashes, losses, transcriber>> /\ receiver.at = "poll"
      /\ sent' = sent \ Finished
      /\ stateFile' = IF Finished = {} THEN stateFile ELSE sent \ Finished
  BY DEF Poll
<1>2. PICK choice \in SUBSET Ready :
        /\ Notices(sent', choice)
        /\ receiver' = [at |-> IF choice = {} THEN "poll" ELSE "prepare",
                        notices |-> choice, current |-> {}, prepared |-> {}]
  BY DEF Poll
<1>3. choice \in SUBSET Jobs /\ Made(choice)
  BY DEF Ready, Made, Pending
<1>4. /\ receiver' \in RcReceiver /\ receiver'.at \in {"poll", "prepare"}
      /\ InHand' = choice /\ receiver'.prepared = {}
      /\ receiver'.at = "prepare" => choice # {}
  BY <1>2, <1>3 DEF RcReceiver, InHand
<1>5. sent' = stateFile' /\ sent' \subseteq sent /\ sent = stateFile
  BY <1>1 DEF RcKept, RcLedger
<1>6. RcTyped'
  BY <1>1, <1>4, <1>5 DEF RcKept, RcTyped
<1>7. RcLedger'
  BY <1>1, <1>3, <1>4, <1>5 DEF RcKept, RcLedger, Told, Made
<1>8. ASSUME RcLatched PROVE RcLatched'
  <2>1. \A p \in prompts : PendingOf(p) \subseteq sent'
    BY <1>1, <1>8 DEF RcLatched, PendingOf, Finished
  <2>2. ASSUME sent' # {}, choice # {}
        PROVE  Humans(sent') = {} /\ \E h \in Humans(Jobs) : choice \subseteq {h}
    <3>1. choice \subseteq Humans(Ready) /\ Humans(Ready) \subseteq Humans(Jobs)
      BY <1>2, <2>2 DEF Notices, Ready, Humans
    <3>2. IsFiniteSet(choice)
      BY <1>3, ReceiverAssumption, FS_Subset
    <3>3. Cardinality(choice) # 0
      BY <2>2, <3>2, FS_EmptySet
    <3>4. Humans(sent') = {} /\ Cardinality(choice) = 1
      BY <1>2, <2>2, <3>3 DEF Notices
    <3>5. PICK h : choice = {h}
      BY <3>2, <3>4, FS_Singleton
    <3> QED BY <3>1, <3>4, <3>5
  <2>3. \A p, q \in prompts : Alive(p) /\ Alive(q) /\ p # q =>
            /\ OneHuman(p) \/ OneHuman(q)
            /\ Humans(PendingOf(p)) = {} \/ Humans(PendingOf(q)) = {}
    BY <1>8 DEF RcLatched
  <2>4. /\ \A p : PendingOf(p)' = PendingOf(p) /\ (Alive(p)' <=> Alive(p))
    BY <1>1 DEF PendingOf, Pending, Alive
  <2> QED BY <1>1, <1>4, <2>1, <2>2, <2>3, <2>4 DEF RcLatched, Humans, OneHuman
<1> QED BY <1>1, <1>6, <1>7, <1>8 DEF RcKept

\* The receiver has lost what it had in hand: after a fault, and while it waits.
LEMMA RcStartsOver ==
    ASSUME RcKept, UNCHANGED <<job, stateFile, transcriber>>,
           prompts' \in {prompts, prompts \cup {receiver.prepared}},
           \E where \in {"down", "check", "poll"} : receiver' = [ReceiverDown EXCEPT !.at = where],
           sent' \subseteq Jobs, receiver'.at # "down" => sent' = stateFile,
           crashes' \in Nat, losses' \in Nat, crashes' + losses' > 0
    PROVE  RcKept'
<1>1. /\ receiver' \in RcReceiver /\ receiver'.at \in {"down", "check", "poll"}
      /\ InHand' = {} /\ receiver'.prepared = {}
  BY DEF ReceiverDown, RcReceiver, InHand
<1>2. receiver.prepared \in SUBSET Jobs /\ Told(receiver.prepared) /\ Made(receiver.prepared)
  BY DEF RcKept, RcTyped, RcReceiver, RcLedger, InHand, Made
<1>3. RcTyped'
  BY <1>1, <1>2 DEF RcKept, RcTyped
<1>4. /\ prompts \subseteq prompts'
      /\ \A p \in prompts' : Told(p) /\ Made(p)
  BY <1>2 DEF RcKept, RcLedger
<1>5. RcLedger'
  BY <1>1, <1>4 DEF RcKept, RcLedger, Told, Made
<1> QED BY <1>3, <1>5 DEF RcKept, RcTyped

LEMMA RcFails ==
    ASSUME RcKept, ServerFails \/ ReceiverCrashes PROVE RcKept'
<1>1. crashes \in Nat /\ losses \in Nat /\ (receiver.at # "down" => sent = stateFile)
  BY DEF RcKept, RcTyped, RcLedger
<1>2. CASE ServerFails
  <2>1. /\ UNCHANGED <<job, sent, stateFile, prompts, crashes, transcriber>> /\ losses' = losses + 1
        /\ receiver' = [ReceiverDown EXCEPT !.at = "poll"] /\ receiver.at # "down"
    BY <1>2 DEF ServerFails
  <2>2. losses' \in Nat /\ crashes' + losses' > 0
    BY <1>1, <2>1
  <2> QED BY <1>1, <2>1, <2>2, RcStartsOver DEF RcKept, RcTyped
<1>3. CASE ReceiverCrashes
  <2>1. /\ UNCHANGED <<job, stateFile, prompts, losses, transcriber>> /\ crashes' = crashes + 1
        /\ receiver' = [ReceiverDown EXCEPT !.at = "down"] /\ sent' = {}
        /\ receiver'.at = "down"
    BY <1>3 DEF ReceiverCrashes, ReceiverDown
  <2>2. crashes' \in Nat /\ crashes' + losses' > 0
    BY <1>1, <2>1
  <2> QED BY <1>1, <2>1, <2>2, RcStartsOver DEF RcKept, RcTyped
<1> QED BY <1>2, <1>3

\* What overtakes a prompt that is unfinished is one message of a person, and no
\* such message is latched with it.
LEMMA RcSends ==
    ASSUME RcKept, Send PROVE RcKept'
<1> DEFINE q == receiver.prepared
<1>1. /\ UNCHANGED <<job, sent, stateFile, crashes, transcriber>>
      /\ receiver.at = "prepare" /\ receiver.notices = {}
  BY DEF Send
<1>2. CASE losses' = losses + 1 /\ receiver' = [ReceiverDown EXCEPT !.at = "check"]
           /\ prompts' \in {prompts, prompts \cup {q}}
  <2>1. /\ losses' \in Nat /\ crashes' \in Nat /\ crashes' + losses' > 0 /\ sent' \subseteq Jobs
        /\ sent' = stateFile
    BY <1>1, <1>2 DEF RcKept, RcTyped, RcLedger
  <2> QED BY <1>1, <1>2, <2>1, RcStartsOver
<1>3. PICK r \in RcReceiver : r = receiver
  BY DEF RcKept, RcTyped
<1>4. ASSUME NEW where \in {"poll", "save"}, At(where)
      PROVE  /\ receiver' \in RcReceiver /\ receiver'.at = where
             /\ receiver'.notices = {} /\ receiver'.prepared = q
  BY <1>1, <1>3, <1>4 DEF At, RcReceiver
<1>5. CASE q = {} /\ At("poll") /\ UNCHANGED <<prompts, losses>>
  <2>1. /\ receiver' \in RcReceiver /\ receiver'.at = "poll"
        /\ receiver'.notices = {} /\ receiver'.prepared = {}
    BY <1>4, <1>5
  <2>2. RcTyped'
    BY <1>1, <1>5, <2>1 DEF RcKept, RcTyped
  <2>3. RcLedger'
    BY <1>1, <1>5, <2>1 DEF RcKept, RcLedger, Told, Made, InHand
  <2>4. RcLatched => RcLatched'
    BY <1>1, <1>5, <2>1 DEF RcLatched, PendingOf, Pending, Alive, OneHuman, Humans
  <2> QED BY <1>1, <1>5, <2>2, <2>3, <2>4 DEF RcKept
<1>6. CASE q # {} /\ At("save") /\ prompts' = prompts \cup {q} /\ UNCHANGED losses
  <2>1. /\ receiver' \in RcReceiver /\ receiver'.at = "save"
        /\ receiver'.notices = {} /\ receiver'.prepared = q
    BY <1>4, <1>6
  <2>2. q \in SUBSET Jobs /\ Told(q) /\ Made(q)
    BY <1>3 DEF RcKept, RcReceiver, RcLedger, InHand, Made
  <2>3. RcTyped'
    BY <1>1, <1>6, <2>1, <2>2 DEF RcKept, RcTyped
  <2>4. \A p \in prompts' : Told(p) /\ Made(p)
    BY <1>6, <2>2 DEF RcKept, RcLedger
  <2>5. RcLedger'
    BY <1>1, <1>6, <2>1, <2>2, <2>4 DEF RcKept, RcLedger, Told, Made, InHand
  <2>6. ASSUME RcLatched PROVE RcLatched'
    <3>1. /\ \A p : PendingOf(p)' = PendingOf(p)
          /\ \A p \in prompts : Alive(p)' <=> Alive(p)
      BY <1>1, <1>6 DEF PendingOf, Pending, Alive
    <3>2. /\ \A p \in prompts : PendingOf(p) \subseteq sent
          /\ PendingOf(q) \subseteq q
      BY <1>1, <2>6 DEF RcLatched, PendingOf
    <3>3. \A p \in prompts' : PendingOf(p) \subseteq sent \cup q
      BY <1>6, <3>2
    <3>4. \A p \in prompts : Alive(p) => OneHuman(q) /\ Humans(PendingOf(p)) = {}
      <4> SUFFICES ASSUME NEW p \in prompts, Alive(p)
                   PROVE  OneHuman(q) /\ Humans(PendingOf(p)) = {}
          OBVIOUS
      <4>1. sent # {}
        BY <3>2 DEF Alive
      <4>2. Humans(sent) = {} /\ \E h \in Humans(Jobs) : InHand \subseteq {h}
        BY <1>1, <2>6, <4>1 DEF RcLatched
      <4>3. OneHuman(q)
        BY <1>6, <4>2 DEF InHand, OneHuman
      <4>4. Humans(PendingOf(p)) = {}
        BY <3>2, <4>2 DEF Humans
      <4> QED BY <4>3, <4>4
    <3>5. \A p, x \in prompts' : Alive(p)' /\ Alive(x)' /\ p # x =>
            /\ OneHuman(p) \/ OneHuman(x)
            /\ Humans(PendingOf(p)) = {} \/ Humans(PendingOf(x)) = {}
      <4> SUFFICES ASSUME NEW p \in prompts', NEW x \in prompts', Alive(p)', Alive(x)', p # x
                   PROVE  /\ OneHuman(p) \/ OneHuman(x)
                          /\ Humans(PendingOf(p)) = {} \/ Humans(PendingOf(x)) = {}
          OBVIOUS
      <4>1. CASE p \in prompts /\ x \in prompts
        BY <2>6, <3>1, <4>1 DEF RcLatched
      <4>2. CASE p \in prompts /\ x = q
        BY <3>1, <3>4, <4>2
      <4>3. CASE p = q /\ x \in prompts
        BY <3>1, <3>4, <4>3
      <4> QED BY <1>6, <4>1, <4>2, <4>3
    <3> QED BY <1>1, <2>1, <3>1, <3>3, <3>5 DEF RcLatched, Humans, OneHuman
  <2> QED BY <1>1, <1>6, <2>3, <2>5, <2>6 DEF RcKept
<1> QED BY <1>2, <1>5, <1>6 DEF Send

LEMMA RcSaves ==
    ASSUME RcKept, SaveState PROVE RcKept'
<1>1. /\ UNCHANGED <<job, prompts, crashes, losses, transcriber>> /\ receiver.at = "save"
      /\ stateFile' = sent \cup receiver.prepared /\ sent' = sent \cup receiver.prepared
      /\ receiver' = [ReceiverDown EXCEPT !.at = "poll"]
  BY DEF SaveState
<1>2. /\ receiver' \in RcReceiver /\ receiver'.at = "poll"
      /\ InHand' = {} /\ receiver'.prepared = {}
  BY <1>1 DEF ReceiverDown, RcReceiver, InHand
<1>3. receiver.prepared \in SUBSET Jobs /\ receiver.prepared \in prompts /\ sent = stateFile
  BY <1>1 DEF RcKept, RcTyped, RcReceiver, RcLedger
<1>4. RcTyped'
  BY <1>1, <1>2, <1>3 DEF RcKept, RcTyped
<1>5. RcLedger'
  BY <1>1, <1>2, <1>3 DEF RcKept, RcLedger, Told, Made
<1>6. RcLatched => RcLatched'
  BY <1>1, <1>2 DEF RcLatched, PendingOf, Pending, Alive, OneHuman, Humans
<1> QED BY <1>1, <1>4, <1>5, <1>6 DEF RcKept

LEMMA RcStep == RcKept /\ [RcNext]_receiverVars => RcKept'
<1> SUFFICES ASSUME RcKept, [RcNext]_receiverVars PROVE RcKept'
    OBVIOUS
<1>1. CASE UNCHANGED receiverVars
  <2>1. JobsGoOn
    BY <1>1, JobsStay DEF receiverVars, RcKept
  <2> QED BY <1>1, <2>1, RcGoesOn DEF receiverVars, RcKept, RcTyped
<1>2. CASE ReceiverSteps
  BY <1>2, RcStarts, RcPolls, RcSends, RcSaves, RcPrepares DEF ReceiverSteps
<1> QED BY <1>1, <1>2, RcFails, RcRequests DEF RcNext

\* A set of which any three elements repeat one has at most two.
LEMMA AtMostTwo ==
    ASSUME NEW S, \A a, b, c \in S : a = b \/ b = c \/ a = c
    PROVE  Cardinality(S) <= 2
<1>1. CASE S = {}
  BY <1>1, FS_EmptySet
<1>2. ASSUME NEW a \in S, S = {a} PROVE Cardinality(S) <= 2
  <2>1. Cardinality({a}) = 1
    BY FS_Singleton
  <2> QED BY <1>2, <2>1
<1>3. ASSUME NEW a \in S, NEW b \in S, a # b PROVE Cardinality(S) <= 2
  <2>1. S = {a} \cup {b}
    BY <1>3
  <2>2. IsFiniteSet({a}) /\ Cardinality({a}) = 1
    BY FS_Singleton
  <2>3. Cardinality({a} \cup {b}) = 2
    BY <1>3, <2>2, FS_AddElement
  <2> QED BY <2>1, <2>3
<1> QED BY <1>1, <1>2, <1>3

RcSafety == RcInit /\ [][RcNext]_receiverVars

LEMMA RcKeptHolds == RcSafety => []RcKept
BY RcInitKept, RcStep, PTL DEF RcSafety

\* The receiver's memory of what it delivered is true, audio is prompted with its
\* transcript where there is a transcriber, and unless something was lost at most
\* two unfinished prompts are with the chat, one of them at most with a person's
\* message: for any requests, and any size of a prompt (codex_body_receiver.py).
THEOREM PromptsAlwaysTrue == RcSpec => []PromptsAreTrue
<1>1. RcKept => PromptsAreTrue
  <2> SUFFICES ASSUME RcKept PROVE PromptsAreTrue
      OBVIOUS
  <2>1. LedgerOK
    BY DEF RcKept, RcTyped, RcLedger, RcJob, RcReceiver, LedgerOK
  <2>2. LedgerIsTrue /\ AudioIsTranscribed
    BY DEF RcKept, RcLedger, LedgerIsTrue, AudioIsTranscribed, Told
  <2>3. NoFlood
    <3> SUFFICES ASSUME crashes + losses = 0
                 PROVE  /\ Cardinality(Unfinished) <= 2
                        /\ \A p, q \in Unfinished : p # q => Humans(p) = {} \/ Humans(q) = {} \/
                              \A j \in Humans(p) : ~Pending(j) \/ \A k \in Humans(q) : ~Pending(k)
        BY DEF NoFlood
    <3>1. \A p \in Unfinished : p \in prompts /\ Alive(p)
      BY DEF Unfinished, Alive, PendingOf
    <3>2. \A p, q \in Unfinished : p # q =>
              /\ OneHuman(p) \/ OneHuman(q)
              /\ Humans(PendingOf(p)) = {} \/ Humans(PendingOf(q)) = {}
      BY <3>1 DEF RcKept, RcLatched
    <3>3. \A p \in Unfinished : OneHuman(p) => Humans(PendingOf(p)) # {}
      BY <3>1 DEF Alive, PendingOf, OneHuman, Humans
    <3>4. \A p, q, r \in Unfinished : p = q \/ q = r \/ p = r
      BY <3>2, <3>3
    <3>5. Cardinality(Unfinished) <= 2
      BY <3>4, AtMostTwo
    <3>6. \A p, q \in Unfinished : p # q => Humans(p) = {} \/ Humans(q) = {} \/
              \A j \in Humans(p) : ~Pending(j) \/ \A k \in Humans(q) : ~Pending(k)
      BY <3>2 DEF Humans, PendingOf
    <3> QED BY <3>5, <3>6
  <2> QED BY <2>1, <2>2, <2>3 DEF PromptsAreTrue
<1>2. RcSpec => RcSafety
  BY DEF RcSpec, RcSafety
<1> QED BY <1>1, <1>2, RcKeptHolds, PTL

-----------------------------------------------------------------------------
(* Speech *)

VcPage == [active : BOOLEAN, focused : BOOLEAN, woken : BOOLEAN,
           at : {"idle", "fetch", "speak", "ack"}, again : BOOLEAN,
           intent : Intents \cup {Nothing}, played : SUBSET Intents]

VcTyped ==
    /\ owner \in [window : Windows \cup {NoWindow}, fresh : BOOLEAN]
    /\ queue \in [Windows -> Seq(Intents)]
    /\ asked \in [Windows -> Seq(Intents)]
    /\ page \in [Windows -> VcPage]
    /\ said \in [Windows -> Seq(Intents)]

\* How many of a window's intents have left its queue.
Receipts(a, q) == Len(a) - Len(q)

\* The queue is the end of what was asked for, and what was said its beginning.
Ordered(a, q, s) ==
    /\ \A i, j \in 1 .. Len(a) : a[i] = a[j] => i = j
    /\ Len(q) <= Len(a) /\ \A i \in 1 .. Len(q) : q[i] = a[Receipts(a, q) + i]
    /\ Len(s) <= Len(a) /\ \A i \in 1 .. Len(s) : s[i] = a[i]
    /\ Len(s) \in {Receipts(a, q), Receipts(a, q) + 1}

\* A window remembers what it has said.  It speaks the head of its queue, which it
\* has not said, and acknowledges the head, which it has.
AtTheHead(a, q, s, p) ==
    /\ p.played = {s[i] : i \in 1 .. Len(s)}
    /\ p.at \in {"speak", "ack"} => Len(q) > 0 /\ p.intent = q[1]
    /\ p.at = "speak" => Len(s) = Receipts(a, q)
    /\ p.at = "ack" => Len(s) = Receipts(a, q) + 1

Faithful(a, q, s, p) == Ordered(a, q, s) /\ AtTheHead(a, q, s, p) /\ Len(q) <= Capacity

VcKept ==
    /\ VcTyped
    /\ \A w \in Windows : Faithful(asked[w], queue[w], said[w], page[w])

\* A page that goes on with the same utterance, or with none.
SameSpeech(p, q) ==
    /\ q.played = p.played
    /\ q.at \in {"idle", "fetch"} \/ (q.at = p.at /\ q.intent = p.intent)

LEMMA SpeechGoesOn ==
    ASSUME NEW a, NEW q, NEW s, NEW p, Faithful(a, q, s, p), NEW r, SameSpeech(p, r)
    PROVE  Faithful(a, q, s, r)
BY DEF Faithful, AtTheHead, SameSpeech

\* What is queued comes last in the queue and last of what was asked for.
LEMMA SpeechQueued ==
    ASSUME NEW a \in Seq(Intents), NEW q \in Seq(Intents), NEW s \in Seq(Intents), NEW p,
           Faithful(a, q, s, p), NEW i \in Intents, i \notin Range(a), Len(q) < Capacity
    PROVE  Faithful(Append(a, i), Append(q, i), s, p)
<1> DEFINE b == Append(a, i)
           r == Append(q, i)
<1>1. /\ b \in Seq(Intents) /\ Len(b) = Len(a) + 1 /\ b[Len(a) + 1] = i
      /\ \A x \in 1 .. Len(a) : b[x] = a[x]
  BY AppendProperties
<1>2. /\ r \in Seq(Intents) /\ Len(r) = Len(q) + 1 /\ r[Len(q) + 1] = i
      /\ \A x \in 1 .. Len(q) : r[x] = q[x]
  BY AppendProperties
<1>3. \A x \in 1 .. Len(a) : a[x] # i
  BY LenProperties DEF Range
<1>4. Len(a) \in Nat /\ Len(q) \in Nat /\ Len(s) \in Nat /\ Capacity \in Nat
  BY LenProperties, VoiceAssumption
<1> HIDE DEF b, r
<1>5. Receipts(b, r) = Receipts(a, q)
  BY <1>1, <1>2, <1>4 DEF Receipts
<1>6. Len(q) <= Len(a) /\ Receipts(a, q) \in Nat /\ Receipts(a, q) + Len(q) = Len(a)
  BY <1>4 DEF Receipts, Faithful, Ordered
<1>7. \A x \in 1 .. Len(b), y \in 1 .. Len(b) : b[x] = b[y] => x = y
  BY <1>1, <1>3, <1>4 DEF Faithful, Ordered
<1>8. \A x \in 1 .. Len(r) : r[x] = b[Receipts(a, q) + x]
  <2> SUFFICES ASSUME NEW x \in 1 .. Len(r) PROVE r[x] = b[Receipts(a, q) + x]
      OBVIOUS
  <2>1. CASE x = Len(q) + 1
    BY <1>1, <1>2, <1>4, <1>6, <2>1
  <2>2. CASE x \in 1 .. Len(q)
    <3>1. r[x] = q[x] /\ q[x] = a[Receipts(a, q) + x]
      BY <1>2, <2>2 DEF Faithful, Ordered
    <3>2. Receipts(a, q) + x \in 1 .. Len(a)
      BY <1>4, <1>6, <2>2
    <3> QED BY <1>1, <3>1, <3>2
  <2> QED BY <1>2, <1>4, <2>1, <2>2
<1>9. Len(s) <= Len(b) /\ \A x \in 1 .. Len(s) : s[x] = b[x]
  BY <1>1, <1>4 DEF Faithful, Ordered
<1>10. Ordered(b, r, s)
  BY <1>1, <1>2, <1>4, <1>5, <1>6, <1>7, <1>8, <1>9 DEF Faithful, Ordered
<1>11. AtTheHead(b, r, s, p)
  BY <1>2, <1>4, <1>5 DEF Faithful, AtTheHead
<1>12. Len(r) <= Capacity
  BY <1>2, <1>4
<1> QED BY <1>10, <1>11, <1>12 DEF Faithful, b, r

\* The head of the queue was said if it was played, and nothing after it was.
LEMMA SpeechFetched ==
    ASSUME NEW a \in Seq(Intents), NEW q \in Seq(Intents), NEW s \in Seq(Intents), NEW p, NEW r,
           Faithful(a, q, s, p), q # <<>>, r.played = p.played, r.intent = q[1],
           r.at = IF q[1] \in p.played THEN "ack" ELSE "speak"
    PROVE  Faithful(a, q, s, r)
<1>1. Len(a) \in Nat /\ Len(q) \in Nat /\ Len(s) \in Nat /\ Len(q) > 0
  BY LenProperties, EmptySeq
<1>2. /\ Receipts(a, q) \in Nat /\ Receipts(a, q) + 1 \in 1 .. Len(a)
      /\ q[1] = a[Receipts(a, q) + 1]
  BY <1>1 DEF Receipts, Faithful, Ordered
<1>3. Len(s) \in {Receipts(a, q), Receipts(a, q) + 1}
  BY DEF Faithful, Ordered
<1>4. CASE q[1] \in p.played
  <2>1. PICK i \in 1 .. Len(s) : s[i] = q[1]
    BY <1>4 DEF Faithful, AtTheHead
  <2>2. i \in 1 .. Len(a) /\ a[i] = a[Receipts(a, q) + 1]
    BY <1>1, <1>2, <2>1 DEF Faithful, Ordered
  <2>3. i = Receipts(a, q) + 1
    BY <1>2, <2>2 DEF Faithful, Ordered
  <2> QED BY <1>1, <1>2, <1>3, <1>4, <2>3 DEF Faithful, AtTheHead
<1>5. CASE q[1] \notin p.played
  <2>1. ASSUME Len(s) = Receipts(a, q) + 1 PROVE FALSE
    <3>1. Len(s) \in 1 .. Len(s) /\ s[Len(s)] = q[1]
      BY <1>1, <1>2, <2>1 DEF Faithful, Ordered
    <3> QED BY <1>5, <3>1 DEF Faithful, AtTheHead
  <2> QED BY <1>1, <1>3, <1>5, <2>1 DEF Faithful, AtTheHead
<1> QED BY <1>4, <1>5

\* What was said is the next that was asked for.
LEMMA SpeechSpoken ==
    ASSUME NEW a \in Seq(Intents), NEW q \in Seq(Intents), NEW s \in Seq(Intents), NEW p, NEW r,
           Faithful(a, q, s, p), p.at = "speak", p.intent \in Intents, r.at = "ack", r.intent = p.intent,
           r.played = p.played \cup {p.intent}
    PROVE  Faithful(a, q, Append(s, p.intent), r)
<1> DEFINE t == Append(s, p.intent)
<1>1. Len(a) \in Nat /\ Len(q) \in Nat /\ Len(s) \in Nat
  BY LenProperties
<1>2. /\ t \in Seq(Intents) /\ Len(t) = Len(s) + 1 /\ t[Len(s) + 1] = p.intent
      /\ \A x \in 1 .. Len(s) : t[x] = s[x]
  BY AppendProperties
<1> HIDE DEF t
<1>3. /\ Len(s) = Receipts(a, q) /\ Len(q) > 0 /\ p.intent = q[1]
      /\ q[1] = a[Len(s) + 1] /\ Len(s) + 1 <= Len(a)
  BY <1>1 DEF Receipts, Faithful, Ordered, AtTheHead
<1>4. \A x \in 1 .. Len(t) : t[x] = a[x]
  <2>1. \A x \in 1 .. Len(s) : t[x] = a[x]
    BY <1>2 DEF Faithful, Ordered
  <2>2. \A x \in 1 .. Len(t) : x \in 1 .. Len(s) \/ x = Len(s) + 1
    BY <1>1, <1>2
  <2> QED BY <1>2, <1>3, <2>1, <2>2
<1>5. Ordered(a, q, t)
  BY <1>1, <1>2, <1>3, <1>4 DEF Faithful, Ordered
<1>6. {t[x] : x \in 1 .. Len(t)} = {s[x] : x \in 1 .. Len(s)} \cup {p.intent}
  <2>1. \A x : x \in 1 .. Len(t) <=> x \in 1 .. Len(s) \/ x = Len(s) + 1
    BY <1>1, <1>2
  <2>2. ASSUME NEW y PROVE (\E x \in 1 .. Len(t) : y = t[x]) <=>
                              (\E x \in 1 .. Len(s) : y = s[x]) \/ y = p.intent
    BY <1>2, <2>1
  <2> QED BY <2>2
<1>7. AtTheHead(a, q, t, r)
  BY <1>2, <1>3, <1>6 DEF Faithful, AtTheHead
<1> QED BY <1>5, <1>7 DEF Faithful, t

\* What leaves the queue was said.
LEMMA SpeechAcknowledged ==
    ASSUME NEW a \in Seq(Intents), NEW q \in Seq(Intents), NEW s \in Seq(Intents), NEW p, NEW r,
           Faithful(a, q, s, p), p.at = "ack", r.at \in {"idle", "fetch"}, r.played = p.played
    PROVE  Faithful(a, Tail(q), s, r)
<1> DEFINE t == Tail(q)
<1>1. Len(a) \in Nat /\ Len(q) \in Nat /\ Len(s) \in Nat /\ Capacity \in Nat
  BY LenProperties, VoiceAssumption
<1>2. Len(q) > 0 /\ Len(s) = Receipts(a, q) + 1
  BY DEF Faithful, AtTheHead
<1>3. /\ t \in Seq(Intents) /\ Len(t) = Len(q) - 1
      /\ \A x \in 1 .. Len(t) : t[x] = q[x + 1]
  BY <1>2, HeadTailProperties, EmptySeq
<1> HIDE DEF t
<1>4. Receipts(a, t) = Receipts(a, q) + 1
  BY <1>1, <1>3 DEF Receipts
<1>5. \A x \in 1 .. Len(t) : t[x] = a[Receipts(a, t) + x]
  BY <1>1, <1>3, <1>4 DEF Receipts, Faithful, Ordered
<1>6. Ordered(a, t, s)
  BY <1>1, <1>2, <1>3, <1>4, <1>5 DEF Faithful, Ordered
<1>7. AtTheHead(a, t, s, r)
  BY DEF Faithful, AtTheHead
<1>8. Len(t) <= Capacity
  BY <1>1, <1>3 DEF Faithful
<1> QED BY <1>6, <1>7, <1>8 DEF Faithful, t

LEMMA VcInitKept == VcInit => VcKept
<1> SUFFICES ASSUME VcInit PROVE VcKept
    OBVIOUS
<1>1. <<>> \in Seq(Intents) /\ Len(<<>>) = 0
  BY EmptySeq
<1>2. Quiet \in VcPage
  BY DEF Quiet, VcPage
<1>3. VcTyped
  BY <1>1, <1>2 DEF VcInit, VcTyped
<1>4. Faithful(<<>>, <<>>, <<>>, Quiet)
  BY <1>1, VoiceAssumption DEF Faithful, Ordered, AtTheHead, Receipts, Quiet
<1> QED BY <1>3, <1>4 DEF VcInit, VcKept

\* Steps that leave the queues alone, and what was said.
LEMMA VcPages ==
    ASSUME VcKept, UNCHANGED <<queue, asked, said>>, page' \in [Windows -> VcPage],
           owner' \in [window : Windows \cup {NoWindow}, fresh : BOOLEAN],
           \A w \in Windows : Faithful(asked[w], queue[w], said[w], page'[w])
    PROVE  VcKept'
BY DEF VcKept, VcTyped

\* One page changes.
LEMMA VcPageMoves ==
    ASSUME VcKept, NEW w \in Windows, NEW r \in VcPage, Page(w, r), UNCHANGED <<queue, asked, said>>,
           owner' \in [window : Windows \cup {NoWindow}, fresh : BOOLEAN],
           Faithful(asked[w], queue[w], said[w], r)
    PROVE  VcKept'
<1>1. page' \in [Windows -> VcPage] /\ \A v \in Windows : page'[v] = IF v = w THEN r ELSE page[v]
  BY DEF Page, VcKept, VcTyped
<1> QED BY <1>1, VcPages DEF VcKept

\* The transitions of a page that say nothing.
LEMMA PageTransitions ==
    ASSUME NEW p \in VcPage
    PROVE  /\ Drain(p) \in VcPage /\ SameSpeech(p, Drain(p))
           /\ Pause(p) \in VcPage /\ SameSpeech(p, Pause(p))
           /\ LoopEnds(p) \in VcPage /\ SameSpeech(p, LoopEnds(p))
           /\ Fails(p) \in VcPage /\ SameSpeech(p, Fails(p))
<1>1. Drain(p) \in VcPage /\ SameSpeech(p, Drain(p))
  BY DEF VcPage, Drain, SameSpeech
<1>2. Pause(p) \in VcPage /\ SameSpeech(p, Pause(p))
  BY DEF VcPage, Pause, SameSpeech
<1>3. LoopEnds(p) \in VcPage /\ SameSpeech(p, LoopEnds(p))
  BY DEF VcPage, LoopEnds, SameSpeech
<1>4. Fails(p) \in VcPage /\ SameSpeech(p, Fails(p))
  BY DEF VcPage, Fails, SameSpeech
<1> QED BY <1>1, <1>2, <1>3, <1>4

LEMMA SameSpeechAgain ==
    ASSUME NEW p, NEW q, NEW r, SameSpeech(p, q), SameSpeech(q, r) PROVE SameSpeech(p, r)
BY DEF SameSpeech

LEMMA VcOwnership ==
    ASSUME VcKept, NEW w \in Windows, Heartbeat(w) \/ Release(w) \/ Wake(w) PROVE VcKept'
<1>1. PICK p \in VcPage : p = page[w]
  BY DEF VcKept, VcTyped
<1>2. UNCHANGED <<queue, asked, said>>
  BY DEF Heartbeat, Release, Wake
<1>3. /\ owner \in [window : Windows \cup {NoWindow}, fresh : BOOLEAN]
      /\ owner' \in {owner, [window |-> w, fresh |-> TRUE], [window |-> NoWindow, fresh |-> FALSE]}
  BY DEF Heartbeat, Release, Wake, VcKept, VcTyped
<1>4. owner' \in [window : Windows \cup {NoWindow}, fresh : BOOLEAN]
  <2>1. /\ [window |-> w, fresh |-> TRUE] \in [window : Windows \cup {NoWindow}, fresh : BOOLEAN]
        /\ [window |-> NoWindow, fresh |-> FALSE] \in [window : Windows \cup {NoWindow}, fresh : BOOLEAN]
    OBVIOUS
  <2> QED BY <1>3, <2>1
<1>5. [p EXCEPT !.active = TRUE] \in VcPage /\ SameSpeech(p, [p EXCEPT !.active = TRUE])
  BY DEF VcPage, SameSpeech
<1>6. [p EXCEPT !.woken = FALSE] \in VcPage /\ SameSpeech(p, [p EXCEPT !.woken = FALSE])
  BY DEF VcPage, SameSpeech
<1>7. \/ Page(w, Pause(p)) \/ Page(w, Drain([p EXCEPT !.active = TRUE]))
      \/ Page(w, Drain([p EXCEPT !.woken = FALSE]))
  BY <1>1 DEF Heartbeat, Release, Wake
<1>8. PICK r \in VcPage : Page(w, r) /\ SameSpeech(p, r)
  BY <1>5, <1>6, <1>7, PageTransitions, SameSpeechAgain
<1>9. Faithful(asked[w], queue[w], said[w], r)
  BY <1>1, <1>8, SpeechGoesOn DEF VcKept
<1> QED BY <1>2, <1>4, <1>8, <1>9, VcPageMoves

LEMMA VcFocus ==
    ASSUME VcKept, NEW w \in Windows, Focus(w) PROVE VcKept'
<1>1. UNCHANGED <<owner, queue, asked, said>>
  BY DEF Focus
<1>2. \A v \in Windows : page'[v] \in VcPage /\ SameSpeech(page[v], page'[v])
  <2> SUFFICES ASSUME NEW v \in Windows
               PROVE  page'[v] \in VcPage /\ SameSpeech(page[v], page'[v])
      OBVIOUS
  <2>1. PICK p \in VcPage : p = page[v]
    BY DEF VcKept, VcTyped
  <2>2. \A b \in BOOLEAN : [p EXCEPT !.focused = b] \in VcPage /\ SameSpeech(p, [p EXCEPT !.focused = b])
    BY DEF VcPage, SameSpeech
  <2>3. \E b \in BOOLEAN : page'[v] = [p EXCEPT !.focused = b]
    BY <2>1 DEF Focus
  <2> QED BY <2>1, <2>2, <2>3
<1>3. page' \in [Windows -> VcPage]
  BY <1>2 DEF Focus
<1>4. \A v \in Windows : Faithful(asked[v], queue[v], said[v], page'[v])
  BY <1>2, SpeechGoesOn DEF VcKept
<1> QED BY <1>1, <1>3, <1>4, VcPages DEF VcKept, VcTyped

LEMMA VcSpeak ==
    ASSUME VcKept, NEW w \in Windows, NEW i \in Intents, Speak(w, i) PROVE VcKept'
<1>1. /\ i \notin Range(asked[w]) /\ Len(queue[w]) < Capacity
      /\ queue' = [queue EXCEPT ![w] = Append(queue[w], i)]
      /\ asked' = [asked EXCEPT ![w] = Append(asked[w], i)]
      /\ UNCHANGED <<owner, said>>
  BY DEF Speak
<1>2. \A v \in Windows : page'[v] \in VcPage /\ SameSpeech(page[v], page'[v])
  <2> SUFFICES ASSUME NEW v \in Windows
               PROVE  page'[v] \in VcPage /\ SameSpeech(page[v], page'[v])
      OBVIOUS
  <2>1. PICK p \in VcPage : p = page[v]
    BY DEF VcKept, VcTyped
  <2>2. \A b \in BOOLEAN : [p EXCEPT !.woken = b] \in VcPage /\ SameSpeech(p, [p EXCEPT !.woken = b])
    BY DEF VcPage, SameSpeech
  <2>3. page[w].active \in BOOLEAN
    BY DEF VcKept, VcTyped, VcPage
  <2>4. page'[v] = p \/ \E b \in BOOLEAN : page'[v] = [p EXCEPT !.woken = b]
    BY <2>1, <2>3 DEF Speak, VcKept, VcTyped
  <2>5. SameSpeech(p, p)
    BY DEF SameSpeech
  <2> QED BY <2>1, <2>2, <2>4, <2>5
<1>3. page' \in [Windows -> VcPage]
  BY <1>2 DEF Speak, VcKept, VcTyped
<1>4. queue[w] \in Seq(Intents) /\ asked[w] \in Seq(Intents) /\ said[w] \in Seq(Intents)
  BY DEF VcKept, VcTyped
<1>5. Append(queue[w], i) \in Seq(Intents) /\ Append(asked[w], i) \in Seq(Intents)
  BY <1>4, AppendProperties
<1>6. VcTyped'
  BY <1>1, <1>3, <1>5 DEF VcKept, VcTyped
<1>7. Faithful(Append(asked[w], i), Append(queue[w], i), said[w], page[w])
  BY <1>1, <1>4, SpeechQueued DEF VcKept
<1>8. ASSUME NEW v \in Windows PROVE Faithful(asked'[v], queue'[v], said'[v], page'[v])
  <2>1. Faithful(asked'[v], queue'[v], said[v], page[v])
    BY <1>1, <1>7 DEF VcKept, VcTyped
  <2> QED BY <1>1, <1>2, <2>1, SpeechGoesOn
<1> QED BY <1>6, <1>8 DEF VcKept

LEMMA VcFetch ==
    ASSUME VcKept, NEW w \in Windows, Fetch(w) PROVE VcKept'
<1>1. PICK p \in VcPage : p = page[w]
  BY DEF VcKept, VcTyped
<1>2. /\ UNCHANGED <<owner, queue, asked, said>>
      /\ queue[w] \in Seq(Intents) /\ asked[w] \in Seq(Intents) /\ said[w] \in Seq(Intents)
      /\ Faithful(asked[w], queue[w], said[w], p)
  BY <1>1 DEF Fetch, VcKept, VcTyped
<1>3. owner' \in [window : Windows \cup {NoWindow}, fresh : BOOLEAN]
  BY <1>2 DEF VcKept, VcTyped
<1>4. [p EXCEPT !.at = "idle"] \in VcPage /\ SameSpeech(p, [p EXCEPT !.at = "idle"])
  BY DEF VcPage, SameSpeech
<1>5. CASE \E r \in {[p EXCEPT !.at = "idle"], Fails(p), LoopEnds(p)} : Page(w, r)
  <2>1. PICK r \in VcPage : Page(w, r) /\ SameSpeech(p, r)
    BY <1>4, <1>5, PageTransitions
  <2>2. Faithful(asked[w], queue[w], said[w], r)
    BY <1>2, <2>1, SpeechGoesOn
  <2> QED BY <1>2, <1>3, <2>1, <2>2, VcPageMoves
<1>6. CASE queue[w] # <<>> /\ Page(w, [p EXCEPT !.intent = Head(queue[w]),
                                        !.at = IF Head(queue[w]) \in p.played THEN "ack" ELSE "speak"])
  <2>1. PICK i \in Intents : i = Head(queue[w]) /\ i = queue[w][1]
    BY <1>2, <1>6, HeadTailProperties
  <2>2. PICK at \in {"ack", "speak"} : at = IF i \in p.played THEN "ack" ELSE "speak"
    OBVIOUS
  <2> DEFINE r == [p EXCEPT !.intent = i, !.at = at]
  <2>3. r \in VcPage /\ r.played = p.played /\ r.intent = i /\ r.at = at
    BY DEF VcPage
  <2>4. Page(w, r)
    BY <1>6, <2>1, <2>2
  <2> HIDE DEF r
  <2>5. Faithful(asked[w], queue[w], said[w], r)
    BY <1>2, <1>6, <2>1, <2>2, <2>3, SpeechFetched
  <2> QED BY <1>2, <1>3, <2>3, <2>4, <2>5, VcPageMoves
<1> QED BY <1>1, <1>5, <1>6 DEF Fetch

LEMMA VcSpoken ==
    ASSUME VcKept, NEW w \in Windows, Spoken(w) PROVE VcKept'
<1>1. PICK p \in VcPage : p = page[w]
  BY DEF VcKept, VcTyped
<1>2. /\ UNCHANGED <<owner, queue, asked>> /\ p.at = "speak"
      /\ said' = [said EXCEPT ![w] = Append(said[w], p.intent)]
      /\ queue[w] \in Seq(Intents) /\ asked[w] \in Seq(Intents) /\ said[w] \in Seq(Intents)
      /\ Faithful(asked[w], queue[w], said[w], p)
  BY <1>1 DEF Spoken, VcKept, VcTyped
<1>3. p.intent \in Intents
  BY <1>2 DEF Faithful, AtTheHead
<1> DEFINE played == p.played \cup {p.intent}
           r == [p EXCEPT !.at = "ack", !.played = played]
<1>4. played \in SUBSET Intents
  BY <1>3 DEF VcPage
<1>5. page' = [page EXCEPT ![w] = r]
  BY <1>1 DEF Spoken, Page
<1> HIDE DEF played
<1>6. r \in VcPage /\ r.at = "ack" /\ r.intent = p.intent /\ r.played = played
  BY <1>4 DEF VcPage
<1> HIDE DEF r
<1>7. Faithful(asked[w], queue[w], Append(said[w], p.intent), r)
  BY <1>2, <1>3, <1>6, SpeechSpoken DEF played
<1>8. Append(said[w], p.intent) \in Seq(Intents)
  BY <1>2, <1>3, AppendProperties
<1>9. VcTyped'
  BY <1>2, <1>5, <1>6, <1>8 DEF VcKept, VcTyped
<1>10. \A v \in Windows : Faithful(asked'[v], queue'[v], said'[v], page'[v])
  BY <1>2, <1>5, <1>7 DEF VcKept, VcTyped
<1> QED BY <1>9, <1>10 DEF VcKept

\* A receipt is for the head of the queue: nothing else leaves it.
LEMMA VcReceipt ==
    ASSUME VcKept, NEW w \in Windows, page[w].at = "ack", UNCHANGED <<owner, asked, said>>,
           NEW r \in VcPage, page' = [page EXCEPT ![w] = r], SameSpeech(page[w], r),
           r.at \in {"idle", "fetch"}, UNCHANGED queue \/ Acknowledged(w, page[w].intent)
    PROVE  VcKept'
<1>1. /\ queue[w] \in Seq(Intents) /\ asked[w] \in Seq(Intents) /\ said[w] \in Seq(Intents)
      /\ Faithful(asked[w], queue[w], said[w], page[w])
  BY DEF VcKept, VcTyped
<1>2. queue[w] # <<>> /\ Head(queue[w]) = page[w].intent
  <2>1. Len(queue[w]) > 0 /\ page[w].intent = queue[w][1]
    BY <1>1 DEF Faithful, AtTheHead
  <2> QED BY <1>1, <2>1, EmptySeq, HeadTailProperties
<1>3. Faithful(asked[w], Tail(queue[w]), said[w], r) /\ Faithful(asked[w], queue[w], said[w], r)
  BY <1>1, SpeechAcknowledged, SpeechGoesOn DEF SameSpeech
<1>4. Tail(queue[w]) \in Seq(Intents)
  BY <1>1, <1>2, HeadTailProperties
<1>5. UNCHANGED queue \/ queue' = [queue EXCEPT ![w] = Tail(queue[w])]
  BY <1>2 DEF Acknowledged
<1>6. VcTyped'
  BY <1>4, <1>5 DEF VcKept, VcTyped
<1>7. \A v \in Windows : Faithful(asked'[v], queue'[v], said'[v], page'[v])
  BY <1>3, <1>5 DEF VcKept, VcTyped
<1> QED BY <1>6, <1>7 DEF VcKept

LEMMA VcAcknowledges ==
    ASSUME VcKept, NEW w \in Windows, Acknowledge(w) \/ AcknowledgmentLost(w) PROVE VcKept'
<1>1. PICK p \in VcPage : p = page[w]
  BY DEF VcKept, VcTyped
<1>2. PICK nothing : nothing = Nothing
  OBVIOUS
<1>3. [p EXCEPT !.at = "fetch", !.intent = Nothing] \in VcPage
  BY DEF VcPage
<1>4. SameSpeech(p, [p EXCEPT !.at = "fetch", !.intent = Nothing])
  BY DEF VcPage, SameSpeech
<1>5. [p EXCEPT !.intent = Nothing] \in VcPage /\ [p EXCEPT !.intent = Nothing].played = p.played
  BY DEF VcPage
<1>6. \A q \in VcPage : Fails(q) \in VcPage /\ Fails(q).at = "idle" /\ Fails(q).played = q.played
  BY DEF VcPage, Fails
<1>7. PICK r \in VcPage : page' = [page EXCEPT ![w] = r] /\ SameSpeech(page[w], r)
                          /\ r.at \in {"idle", "fetch"}
  <2>1. CASE Acknowledge(w)
    <3>1. [p EXCEPT !.at = "fetch", !.intent = Nothing].at = "fetch"
      BY DEF VcPage
    <3> QED BY <1>1, <1>3, <1>4, <2>1, <3>1 DEF Acknowledge, Page
  <2>2. CASE AcknowledgmentLost(w)
    BY <1>1, <1>5, <1>6, <2>2 DEF AcknowledgmentLost, Page, SameSpeech
  <2> QED BY <2>1, <2>2
<1> QED BY <1>7, VcReceipt DEF Acknowledge, AcknowledgmentLost

LEMMA VcOthers ==
    ASSUME VcKept, \/ OwnerGrowsStale \/ UNCHANGED voiceVars
                   \/ \E w \in Windows : SpeechFails(w)
    PROVE  VcKept'
<1>1. CASE OwnerGrowsStale
  BY <1>1 DEF OwnerGrowsStale, VcKept, VcTyped
<1>2. CASE UNCHANGED voiceVars
  BY <1>2 DEF voiceVars, VcKept, VcTyped
<1>3. ASSUME NEW w \in Windows, SpeechFails(w) PROVE VcKept'
  <2>1. PICK p \in VcPage : p = page[w]
    BY DEF VcKept, VcTyped
  <2>2. Fails(p) \in VcPage /\ SameSpeech(p, Fails(p))
    BY PageTransitions
  <2>3. Faithful(asked[w], queue[w], said[w], Fails(p))
    BY <2>1, <2>2, SpeechGoesOn DEF VcKept
  <2> QED BY <1>3, <2>1, <2>2, <2>3, VcPageMoves DEF SpeechFails, VcKept, VcTyped
<1> QED BY <1>1, <1>2, <1>3

LEMMA VcStep == VcKept /\ [VcNext]_voiceVars => VcKept'
BY VcOthers, VcFocus, VcOwnership, VcSpeak, VcFetch, VcSpoken, VcAcknowledges DEF VcNext, Listens

VcSafety == VcInit /\ [][VcNext]_voiceVars

LEMMA VcKeptHolds == VcSafety => []VcKept
BY VcInitKept, VcStep, PTL DEF VcSafety

\* Sequences that agree as far as the first goes.
LEMMA PrefixByIndex ==
    ASSUME NEW S, NEW s \in Seq(S), NEW t \in Seq(S), Len(s) <= Len(t),
           \A i \in 1 .. Len(s) : s[i] = t[i]
    PROVE  IsPrefix(s, t)
<1> DEFINE u == SubSeq(s, 1, Len(s))
           v == SubSeq(t, 1, Len(s))
<1>1. Len(s) \in Nat /\ Len(t) \in Nat
  BY LenProperties
<1>2. \A i \in 1 .. Len(s) : s[i] \in S /\ t[i] \in S
  BY <1>1, ElementOfSeq
<1>3. /\ u \in Seq(S) /\ Len(u) = Len(s) /\ \A i \in 1 .. Len(s) : u[i] = s[i]
      /\ v \in Seq(S) /\ Len(v) = Len(s) /\ \A i \in 1 .. Len(s) : v[i] = t[i]
  BY <1>1, <1>2
<1> HIDE DEF u, v
<1>4. u = v
  BY <1>3, SeqEqual
<1> QED BY <1>4 DEF IsPrefix, u, v

LEMMA SuffixByIndex ==
    ASSUME NEW S, NEW s \in Seq(S), NEW t \in Seq(S), Len(s) <= Len(t),
           \A i \in 1 .. Len(s) : s[i] = t[Len(t) - Len(s) + i]
    PROVE  IsSuffix(s, t)
<1> DEFINE u == Reverse(s)
           v == Reverse(t)
<1>1. Len(s) \in Nat /\ Len(t) \in Nat
  BY LenProperties
<1>2. /\ \A i \in 1 .. Len(s) : s[i] \in S /\ (Len(s) - i) + 1 \in 1 .. Len(s)
      /\ \A i \in 1 .. Len(t) : t[i] \in S /\ (Len(t) - i) + 1 \in 1 .. Len(t)
  BY <1>1, ElementOfSeq
<1>3. /\ u \in Seq(S) /\ Len(u) = Len(s) /\ \A i \in 1 .. Len(s) : u[i] = s[(Len(s) - i) + 1]
      /\ v \in Seq(S) /\ Len(v) = Len(t) /\ \A i \in 1 .. Len(t) : v[i] = t[(Len(t) - i) + 1]
  BY <1>1, <1>2, IsASeq DEF Reverse
<1> HIDE DEF u, v
<1>4. \A i \in 1 .. Len(u) : u[i] = v[i]
  <2> SUFFICES ASSUME NEW i \in 1 .. Len(s) PROVE u[i] = v[i]
      BY <1>3
  <2>1. s[(Len(s) - i) + 1] = t[Len(t) - Len(s) + ((Len(s) - i) + 1)]
    BY <1>1, <1>2
  <2>2. Len(t) - Len(s) + ((Len(s) - i) + 1) = (Len(t) - i) + 1 /\ i \in 1 .. Len(t)
    BY <1>1
  <2> QED BY <1>3, <2>1, <2>2
<1>5. IsPrefix(u, v)
  BY <1>3, <1>4, PrefixByIndex
<1> QED BY <1>5 DEF IsSuffix, u, v

\* The windows of a Body say what they were given to say, each utterance once and
\* in order, and acknowledge nothing that was not said: for any windows, intents
\* and capacity of a queue, although the Body changes hands, receipts get lost
\* and several events wake one loop (live_body.html, BodyQueue).
THEOREM SpeechAlwaysFaithful == VcSpec => []SpeechIsFaithful
<1>1. VcKept => SpeechIsFaithful
  <2> SUFFICES ASSUME VcKept PROVE SpeechIsFaithful
      OBVIOUS
  <2>1. \A w \in Windows :
           /\ queue[w] \in Seq(Intents) /\ asked[w] \in Seq(Intents) /\ said[w] \in Seq(Intents)
           /\ Len(queue[w]) \in Nat /\ Len(asked[w]) \in Nat /\ Len(said[w]) \in Nat
           /\ Faithful(asked[w], queue[w], said[w], page[w])
    BY LenProperties DEF VcKept, VcTyped
  <2>2. VoiceOK
    <3>1. ASSUME NEW w \in Windows, page[w].at \in {"speak", "ack"} PROVE page[w].intent \in Intents
      <4>1. Len(queue[w]) > 0 /\ page[w].intent = queue[w][1]
        BY <2>1, <3>1 DEF Faithful, AtTheHead
      <4>2. 1 \in 1 .. Len(queue[w])
        BY <2>1, <4>1
      <4> QED BY <2>1, <4>1, <4>2, ElementOfSeq
    <3> QED BY <2>1, <3>1 DEF VoiceOK, VcKept, VcTyped, VcPage, Faithful
  <2>3. SaidOnceInOrder
    <3> SUFFICES ASSUME NEW w \in Windows PROVE IsPrefix(said[w], asked[w])
        BY DEF SaidOnceInOrder
    <3>1. Len(said[w]) <= Len(asked[w]) /\ \A i \in 1 .. Len(said[w]) : said[w][i] = asked[w][i]
      BY <2>1 DEF Faithful, Ordered
    <3> QED BY <2>1, <3>1, PrefixByIndex
  <2>4. NothingUnsaid
    <3> SUFFICES ASSUME NEW w \in Windows
                 PROVE  /\ IsSuffix(queue[w], asked[w])
                        /\ Len(asked[w]) - Len(queue[w]) <= Len(said[w])
        BY DEF NothingUnsaid
    <3>1. /\ Len(queue[w]) <= Len(asked[w])
          /\ \A i \in 1 .. Len(queue[w]) : queue[w][i] = asked[w][Len(asked[w]) - Len(queue[w]) + i]
          /\ Len(asked[w]) - Len(queue[w]) <= Len(said[w])
      <4>1. PICK a, q, s : a = asked[w] /\ q = queue[w] /\ s = said[w]
        OBVIOUS
      <4>2. Ordered(a, q, s) /\ Len(a) \in Nat /\ Len(q) \in Nat /\ Len(s) \in Nat
        BY <2>1, <4>1 DEF Faithful
      <4>3. Len(q) <= Len(a) /\ \A i \in 1 .. Len(q) : q[i] = a[Len(a) - Len(q) + i]
        BY <4>2 DEF Ordered, Receipts
      <4>4. Len(a) - Len(q) <= Len(s)
        BY <4>2 DEF Ordered, Receipts
      <4> QED BY <4>1, <4>3, <4>4
    <3> QED BY <2>1, <3>1, SuffixByIndex
  <2> QED BY <2>2, <2>3, <2>4 DEF SpeechIsFaithful
<1>2. VcSpec => VcSafety
  BY DEF VcSpec, VcSafety
<1> QED BY <1>1, <1>2, VcKeptHolds, PTL

-----------------------------------------------------------------------------
(* What the run checks *)

\* A step of the composition is a step of each component, or leaves it alone.
LEMMA ComponentSteps ==
    [DeliveriesNext]_deliveriesVars =>
        /\ [EvNext]_eventVars /\ [RcNext]_receiverVars
        /\ [VcNext]_voiceVars /\ [DispatchNext]_dispatchVars
<1>1. CASE UNCHANGED deliveriesVars
  BY <1>1 DEF deliveriesVars
<1>2. ASSUME NEW name \in Components, Acting(name)
      PROVE  /\ [EvNext]_eventVars /\ [RcNext]_receiverVars
             /\ [VcNext]_voiceVars /\ [DispatchNext]_dispatchVars
  BY <1>2 DEF Acting
<1> QED BY <1>1, <1>2 DEF DeliveriesNext

\* The composition that the run checks, in which one component moves, implements
\* each of them: nothing is checked of them that they could not do on their own.
THEOREM ComponentsMove == DeliveriesSpec => EvSafety /\ RcSafety /\ VcSafety /\ DispatchSafety
<1>1. DeliveriesInit => EvInit /\ RcInit /\ VcInit /\ DispatchInit
  BY DEF DeliveriesInit
<1> QED BY <1>1, ComponentSteps, PTL DEF DeliveriesSpec, EvSafety, RcSafety, VcSafety, DispatchSafety

\* Who comes late changes nothing: a worker whose claim was taken over, and a
\* failure that asks for a shorter cooldown than the one that stands.
THEOREM LateComersAlwaysYield == DeliveriesSpec => LateComersYield
BY ComponentsMove, LateResultsAlwaysIgnored, CooldownsNeverCutShort DEF LateComersYield

================================================================================
