---------------------------- MODULE TaskDispatch ----------------------------
(***************************************************************************)
(* Which provider answers a task, and when the dispatcher gives up.        *)
(*                                                                         *)
(* task_dispatcher.py keeps a pool per task of what to ask: a provider and *)
(* a model. It resolves them by the catalog of saved endpoints, skips what *)
(* is cooling down and asks the rest in turn. provider_routing.py keeps    *)
(* failures as cooldowns, one record per endpoint and model, changed by    *)
(* compare-and-set. The Memory Steward (steward_agent.py) walks a snapshot *)
(* of the pool with a cursor that only advances, and spends a fixed budget *)
(* of decisions.                                                           *)
(*                                                                         *)
(* Time is a counter of the shortest delay the code uses; what a provider  *)
(* answers is a choice. An endpoint is one with its URL and key: with      *)
(* another one it has cooldowns of its own, and is another element.        *)
(***************************************************************************)
EXTENDS Naturals, FiniteSets, SequencesExt

CONSTANTS Endpoints,    \* provider endpoints
          NoEndpoint,
          Names,        \* what a pool calls a provider: an id, a name or a URL
          Models,       \* what a provider may be asked for
          NoModel,
          Catalogs,     \* the endpoint catalogs an administrator may save: what
                        \* each name matches, and the model an endpoint is bound to
          Pools,        \* the pools an administrator may save
          Callers,      \* the calls made of the dispatcher
          TaskOf,       \* what each call asks for
          Daily,        \* whether the pool is rotated every day
          DayLength,    \* ticks in a day
          Hints,        \* delays a rate-limited provider may ask for
          ShortHint,    \* the longest the Steward waits for one
          DeniedDelay,  \* cooldown after a refused credential
          DownDelay,    \* cooldown after an outage
          SearchLimit,  \* searches of one assessment
          SaveTries,    \* attempts to save a cooldown
          MaxClock,     \* bound of the clock
          MaxEdits      \* bound on administrator edits

Tasks == {"chat", "audio", "voice", "recall", "review"}

ASSUME DispatchAssumption ==
    /\ NoEndpoint \notin Endpoints /\ NoModel \notin Models
    /\ Catalogs \subseteq [match : [Names -> Endpoints \cup {NoEndpoint}],
                           bound : [Endpoints -> Models \cup {NoModel}]]
    /\ Pools \subseteq Seq([provider : Names, model : Models \cup {NoModel}])
    /\ TaskOf \in [Callers -> Tasks]
    /\ Daily \in BOOLEAN
    /\ Hints \subseteq Nat \ {0}
    /\ {DayLength, DownDelay, DeniedDelay, SearchLimit, SaveTries, MaxClock} \subseteq Nat \ {0}
    /\ {ShortHint, MaxEdits} \subseteq Nat

VARIABLES pool,      \* the saved order of providers and their models
          catalog,   \* the saved endpoints
          clock,     \* the time
          cooldown,  \* until when a model of an endpoint is left alone; 0 without a record
          call,      \* what each call is doing
          edits      \* administrator edits made

dispatchVars == <<pool, catalog, clock, cooldown, call, edits>>

Steps == {"idle", "choosing", "asking", "waiting", "pausing", "cooling", "storing",
          "deciding", "done"}
Endings == {"none", "answer", "exhausted", "timeout", "overrun"}

\* A call that was not made yet. left are the candidates it has not given up on,
\* past the ones it has, asked the endpoint and model it is waiting for, knew the
\* catalog it chose its candidates by, and again whether it has asked for one
\* that it had given up on.
NotMade == [step |-> "idle", ending |-> "none", left |-> <<>>, size |-> 0, knew |-> {},
            past |-> {}, asked |-> <<>>, again |-> FALSE, waited |-> FALSE, until |-> 0,
            read |-> 0, tries |-> 0, searches |-> 0, corrections |-> 0, decisions |-> 0]

DispatchInit ==
    /\ pool \in Pools
    /\ catalog \in Catalogs
    /\ clock = 1
    /\ cooldown = [t \in Endpoints \X Models |-> 0]
    /\ call = [c \in Callers |-> NotMade]
    /\ edits = 0

----------------------------------------------------------------------------
(* The pool.                                                               *)

\* The endpoint that provider and model h stand for, and the model to ask it for:
\* the one the endpoint is bound to, else the one that was saved with the task.
EndpointIn(cat, h) == cat.match[h.provider]
ModelIn(cat, h) ==
    IF EndpointIn(cat, h) # NoEndpoint /\ cat.bound[EndpointIn(cat, h)] # NoModel
    THEN cat.bound[EndpointIn(cat, h)] ELSE h.model
Target(cat, h) == <<EndpointIn(cat, h), ModelIn(cat, h)>>

Saved(h) == EndpointIn(catalog, h) # NoEndpoint
Cooling(t) == cooldown[t] > clock

\* What makes two places of the pool the same candidate.
Candidate(h) == IF Saved(h) THEN Target(catalog, h) ELSE <<h.provider, ModelIn(catalog, h)>>

\* The places of the pool that are complete, without a candidate that came before.
Distinct ==
    {i \in DOMAIN pool : /\ ModelIn(catalog, pool[i]) # NoModel
                         /\ \A j \in 1..(i - 1) : Candidate(pool[j]) # Candidate(pool[i])}

\* How many come before place i, as today orders the pool.
Rotated(i) ==
    LET before == Cardinality({j \in Distinct : j < i})
        size   == Cardinality(Distinct)
        offset == IF Daily THEN (clock \div DayLength) % size ELSE 0
    IN  IF before >= offset THEN before - offset ELSE before + size - offset

\* The places worth asking now (an unknown name fails when it is resolved), and
\* the k-th of them in the order of the day.
Eligible == {i \in Distinct : ~(Saved(pool[i]) /\ Cooling(Target(catalog, pool[i])))}
Place(k) == CHOOSE i \in Eligible : Cardinality({j \in Eligible : Rotated(j) < Rotated(i)}) = k - 1
Available ==
    [k \in 1..Cardinality(Eligible) |->
        [provider |-> pool[Place(k)].provider, model |-> ModelIn(catalog, pool[Place(k)])]]

----------------------------------------------------------------------------
(* A call.                                                                 *)

Steward(c) == TaskOf[c] \in {"recall", "review"}
InTurn(c) == Head(call[c].left)
Alone(c) == call[c].size = 1

Moves(c, r) == call' = [call EXCEPT ![c] = r]
Ends(c, r, how) ==
    Moves(c, [NotMade EXCEPT !.step = "done", !.ending = how, !.again = r.again])

Start(c) ==
    /\ call[c].step = "idle"
    /\ Moves(c, [call[c] EXCEPT !.step = "choosing"])
    /\ UNCHANGED <<pool, catalog, clock, cooldown, edits>>

Choose(c) ==
    /\ call[c].step = "choosing"
    /\ LET eligible == Available
       IN  IF eligible = <<>> THEN Ends(c, call[c], "exhausted")
           ELSE Moves(c, [call[c] EXCEPT !.step = "asking", !.left = eligible,
                                         !.size = Len(eligible), !.knew = catalog])
    /\ UNCHANGED <<pool, catalog, clock, cooldown, edits>>

\* The candidate failed or was rejected: the cursor moves on.
Onwards(r) ==
    [r EXCEPT !.left = Tail(@), !.past = @ \cup {Head(r.left)}, !.step = "asking",
              !.asked = <<>>, !.waited = FALSE, !.tries = 0, !.until = 0, !.read = 0]

\* What call c becomes when its candidate fails.
GivesUp(c, r) ==
    LET next == Onwards(r)
    IN  IF next.left = <<>> THEN Ends(c, next, "exhausted") ELSE Moves(c, next)

\* By the catalog the candidates were chosen by, one given up on is asked for again.
AsksAgain(c) ==
    /\ catalog = call[c].knew
    /\ \E h \in call[c].past : Target(catalog, h) = Target(catalog, InTurn(c))

\* The endpoint is no longer saved, or an assessment finds it cooling down.
Skips(c) == Saved(InTurn(c)) => Steward(c) /\ Cooling(Target(catalog, InTurn(c)))

Skip(c) ==
    /\ call[c].step = "asking"
    /\ Skips(c)
    /\ GivesUp(c, call[c])
    /\ UNCHANGED <<pool, catalog, clock, cooldown, edits>>

\* _resolve reads the catalog once more: the endpoint may be another one by now,
\* and bound to another model.
Ask(c) ==
    /\ call[c].step = "asking"
    /\ ~Skips(c)
    /\ Moves(c, [call[c] EXCEPT !.step = "waiting", !.asked = Target(catalog, InTurn(c)),
                                !.again = @ \/ AsksAgain(c)])
    /\ UNCHANGED <<pool, catalog, clock, cooldown, edits>>

Answers(c) ==
    /\ call[c].step = "waiting"
    /\ IF Steward(c) THEN Moves(c, [call[c] EXCEPT !.step = "deciding", !.asked = <<>>, !.waited = FALSE])
       ELSE Ends(c, call[c], "answer")
    /\ UNCHANGED <<pool, catalog, clock, cooldown, edits>>

\* A status without a cooldown, or an answer without usable content.
AnswersBadly(c) ==
    /\ call[c].step = "waiting"
    /\ GivesUp(c, call[c])
    /\ UNCHANGED <<pool, catalog, clock, cooldown, edits>>

\* The speech renderers report every failure without a cooldown.
SavesCooldown(c) == TaskOf[c] # "voice"

CoolDown(c, delay) ==
    /\ SavesCooldown(c)
    /\ Moves(c, [call[c] EXCEPT !.step = "cooling", !.until = clock + delay, !.tries = 0])
    /\ UNCHANGED <<pool, catalog, clock, cooldown, edits>>

\* With nobody else to ask, the Steward waits once for a short hint.
WorthWaiting(c, hint) == Steward(c) /\ Alone(c) /\ ~call[c].waited /\ hint <= ShortHint

RateLimited(c) ==
    /\ call[c].step = "waiting"
    /\ \E hint \in Hints :
          \/ /\ WorthWaiting(c, hint)
             /\ Moves(c, [call[c] EXCEPT !.step = "pausing", !.waited = TRUE])
             /\ UNCHANGED <<pool, catalog, clock, cooldown, edits>>
          \/ ~WorthWaiting(c, hint) /\ CoolDown(c, hint)

Resume(c) ==
    /\ call[c].step = "pausing"
    /\ Moves(c, [call[c] EXCEPT !.step = "waiting"])
    /\ UNCHANGED <<pool, catalog, clock, cooldown, edits>>

Denied(c) == call[c].step = "waiting" /\ CoolDown(c, DeniedDelay)
Down(c) == call[c].step = "waiting" /\ CoolDown(c, DownDelay)

----------------------------------------------------------------------------
(* Saving a cooldown.                                                      *)

\* A longer cooldown stands.
ReadCooldown(c) ==
    /\ call[c].step = "cooling"
    /\ IF cooldown[call[c].asked] >= call[c].until THEN GivesUp(c, call[c])
       ELSE Moves(c, [call[c] EXCEPT !.step = "storing", !.read = cooldown[call[c].asked]])
    /\ UNCHANGED <<pool, catalog, clock, cooldown, edits>>

\* Another failure came in between: read again, at most SaveTries times. The
\* call goes on without the cooldown when it could not be saved.
StoreCooldown(c) ==
    /\ call[c].step = "storing"
    /\ IF cooldown[call[c].asked] = call[c].read
       THEN /\ cooldown' = [cooldown EXCEPT ![call[c].asked] = call[c].until]
            /\ GivesUp(c, call[c])
       ELSE /\ IF call[c].tries + 1 = SaveTries THEN GivesUp(c, call[c])
               ELSE Moves(c, [call[c] EXCEPT !.step = "cooling", !.tries = @ + 1])
            /\ UNCHANGED cooldown
    /\ UNCHANGED <<pool, catalog, clock, edits>>

----------------------------------------------------------------------------
(* The Steward's decisions.                                                *)

\* A review with one provider may be corrected once.
Corrects(c) == TaskOf[c] = "review" /\ Alone(c)

\* Fault: the correction is not counted into the budget.
DecisionLimitUncorrected(c) == call[c].size + SearchLimit

DecisionLimit(c) == call[c].size + SearchLimit + (IF Corrects(c) THEN 1 ELSE 0)

\* The next decision, if the budget has one.
Decides(c, r) ==
    LET next == [r EXCEPT !.decisions = @ + 1, !.step = "asking"]
    IN  IF next.decisions = DecisionLimit(c) THEN Ends(c, next, "overrun") ELSE Moves(c, next)

Search(c) ==
    /\ call[c].step = "deciding"
    /\ call[c].searches < SearchLimit
    /\ Decides(c, [call[c] EXCEPT !.searches = @ + 1])
    /\ UNCHANGED <<pool, catalog, clock, cooldown, edits>>

Finish(c) ==
    /\ call[c].step = "deciding"
    /\ Ends(c, call[c], "answer")
    /\ UNCHANGED <<pool, catalog, clock, cooldown, edits>>

\* The decision breaks the protocol: correct it, or go to the next provider.
Reject(c) ==
    LET r == call[c]
        next == Onwards(r)
    IN  /\ r.step = "deciding"
        /\ IF Corrects(c) /\ r.corrections = 0 THEN Decides(c, [r EXCEPT !.corrections = 1])
           ELSE IF next.left = <<>> THEN Ends(c, next, "exhausted")
           ELSE Decides(c, IF TaskOf[c] = "review" THEN [next EXCEPT !.corrections = @ + 1]
                           ELSE next)
        /\ UNCHANGED <<pool, catalog, clock, cooldown, edits>>

\* The deadline of the whole assessment, whatever it is doing.
DeadlineExpires(c) ==
    /\ Steward(c)
    /\ call[c].step \notin {"idle", "done"}
    /\ Ends(c, call[c], "timeout")
    /\ UNCHANGED <<pool, catalog, clock, cooldown, edits>>

----------------------------------------------------------------------------
(* The surroundings.                                                       *)

Tick ==
    /\ clock < MaxClock
    /\ clock' = clock + 1
    /\ UNCHANGED <<pool, catalog, cooldown, call, edits>>

Edit ==
    /\ edits < MaxEdits
    /\ edits' = edits + 1
    /\ \/ pool' \in Pools /\ UNCHANGED catalog
       \/ catalog' \in Catalogs /\ UNCHANGED pool
    /\ UNCHANGED <<clock, cooldown, call>>

CallSteps(c) ==
    \/ Choose(c) \/ Skip(c) \/ Ask(c) \/ Answers(c) \/ AnswersBadly(c) \/ RateLimited(c)
    \/ Resume(c) \/ Denied(c) \/ Down(c) \/ ReadCooldown(c) \/ StoreCooldown(c)
    \/ Search(c) \/ Finish(c) \/ Reject(c)

DispatchNext ==
    \/ \E c \in Callers : Start(c) \/ CallSteps(c) \/ DeadlineExpires(c)
    \/ Tick
    \/ Edit

\* A call that was made runs on: a request ends or times out, a sleep ends.
DispatchFairness == \A c \in Callers : WF_dispatchVars(CallSteps(c))

DispatchSpec == DispatchInit /\ [][DispatchNext]_dispatchVars /\ DispatchFairness

----------------------------------------------------------------------------
(* Properties.                                                             *)

\* The dispatcher's state is well formed: a call that is asking still has
\* somebody to ask, and one that stores a cooldown read a shorter one.
DispatchOK ==
    /\ pool \in Pools
    /\ catalog \in Catalogs
    /\ clock \in 1..MaxClock
    /\ cooldown \in [Endpoints \X Models -> Nat]
    /\ edits \in 0..MaxEdits
    /\ \A c \in Callers :
          /\ call[c].step \in Steps /\ call[c].ending \in Endings
          /\ call[c].tries < SaveTries /\ call[c].searches <= SearchLimit
          /\ call[c].step \notin {"idle", "choosing", "done"} => call[c].left # <<>>
          /\ call[c].step \in {"waiting", "pausing", "cooling", "storing"} =>
                call[c].asked \in Endpoints \X Models
          /\ call[c].step = "storing" => call[c].read < call[c].until
          /\ (call[c].step = "done") = (call[c].ending # "none")

\* A short failure never cuts a longer cooldown short, whatever calls save one
\* at the same time.
CooldownsNeverShorten ==
    [][\A t \in Endpoints \X Models : cooldown'[t] >= cooldown[t]]_dispatchVars

\* An assessment never runs out of decisions: whatever it searches, corrects
\* and rejects, it first finishes or exhausts its providers.
BudgetSuffices == \A c \in Callers : call[c].ending # "overrun"

\* No call goes back to a model of an endpoint that it gave up on, though the pool
\* may name one endpoint several times, by different names or with models that it
\* is not asked for: as long as the catalog is the one it chose its candidates by.
\* (Another model of the endpoint is another candidate, and asked.)
NeverAskedAgain == \A c \in Callers : ~call[c].again

\* Every call ends, without its deadline: failing providers cannot keep it.
\* (A call is made once, so that the ones under way can be taken together.)
UnderWay == \E c \in Callers : call[c].step \notin {"idle", "done"}
EveryCallEnds == UnderWay ~> ~UnderWay

\* A call has the decisions it needs, and asks for no candidate again.
CallsAreBounded ==
    /\ DispatchOK
    /\ BudgetSuffices
    /\ NeverAskedAgain
=============================================================================
