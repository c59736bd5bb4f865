------------------------------ MODULE BodyRequests ------------------------------
(***************************************************************************)
(* The queue of a Body: HostRuntime of host_runtime.py.  submit() files a   *)
(* request and waits; a reasoning host (by its lease) or an event task (by  *)
(* the claim of one request) answers it.                                    *)
(*                                                                         *)
(* Everything is kept in runtime records, changed by read, decide, and      *)
(* RuntimeRecords.replace() if the record still is what was read: an        *)
(* operation is a step that reads and decides (call.saw, call.new) and a    *)
(* later Swap, or SwapLost.  A lost swap ends the operation: those that     *)
(* loop start over from the record as it is.  A call may also stop anywhere.*)
(***************************************************************************)
EXTENDS FiniteSets

CONSTANTS
  Requests,
  Kinds,        \* the kinds of request filed: "typed", "spoken", "passive"
  Hosts,        \* lease tokens, each of one attach_reasoning_host
  HostName,     \* HostName[t]: the host and model that attach with it
  Tasks,        \* claim tokens of event tasks
  Replies,      \* Replies[t]: the answers the holder of a token may give
  Calls,        \* concurrent calls of hosts and tasks
  Subscribed,   \* a subscription to message or sensory events is active
  SlowTasks,    \* an event task may outlive its lease of 900 seconds
  None

Tokens == Hosts \cup Tasks
Answers == UNION { Replies[t] : t \in Tokens }

ASSUME RequestsAssumption ==
  /\ Kinds \subseteq {"typed", "spoken", "passive"}
  /\ None \notin Tokens \cup Answers
ASSUME TokensAssumption == Hosts \cap Tasks = {} /\ DOMAIN HostName = Hosts /\ DOMAIN Replies = Tokens
ASSUME FlagsAssumption == Subscribed \in BOOLEAN /\ SlowTasks \in BOOLEAN

VARIABLES
  rec,        \* the body_request record of each request
  caller,     \* where submit() is
  late,       \* requests whose deadline has passed
  lapsed,     \* requests the last event lease of which has passed
  call,       \* what each call is doing
  issued,     \* tokens handed out
  host,       \* the record active_host: its token, and whether it is detached
  silent,     \* its last heartbeat is more than 180 seconds old
  attaching,  \* the tokens of attach() calls that may replace active_host
  naming,     \* naming_status of the Mind: open, required or chosen
  circuit,    \* The Breaker: open or closed
  committed,  \* the answer of each request's commit receipt
  begun,      \* was the circuit open when the claimant began (observer)
  permitted   \* requests whose persistence allowed presentation (observer)

time == <<late, lapsed>>
lease == <<host, silent, attaching>>
service == <<naming, circuit, committed>>
observers == <<begun, permitted>>
vars == <<rec, caller, time, call, issued, lease, service, observers>>

Absent == [state |-> "absent", kind |-> "typed", claim |-> None, until |-> "zero",
           presented |-> FALSE, result |-> None, frozen |-> None, open |-> "unset"]
Idle == [at |-> "idle", r |-> None, token |-> None, answer |-> None,
         saw |-> Absent, new |-> Absent, next |-> "idle", outcome |-> "none"]
NoCaller == [at |-> "none", got |-> None, saw |-> Absent, new |-> Absent]

Init ==
  /\ rec = [r \in Requests |-> Absent]
  /\ caller = [r \in Requests |-> NoCaller]
  /\ late = {} /\ lapsed = {}
  /\ call = [c \in Calls |-> Idle]
  /\ issued = {}
  /\ host = [token |-> None, detached |-> FALSE] /\ silent = FALSE /\ attaching = {}
  /\ naming \in {"open", "required", "chosen"}
  /\ circuit \in {"open", "closed"}
  /\ committed = [r \in Requests |-> None]
  /\ begun = [r \in Requests |-> "unset"] /\ permitted = {}

Bounded(r) == rec[r].kind # "typed"
Passive(r) == rec[r].kind = "passive"

ClaimOver(r) ==
  \/ rec[r].until = "zero"
  \/ rec[r].until = "deadline" /\ r \in late
  \/ rec[r].until = "lease" /\ r \in lapsed

Claimed(r) == rec[r].claim # None /\ ~ClaimOver(r)

(* _pending_requests *)
Queued(r) == rec[r].state = "pending" /\ r \notin late

(* RuntimeRecords.replace compares the fields that before has, so a field   *)
(* that somebody added since is neither noticed nor kept.                   *)
Matches(now, before) ==
  /\ now.state = before.state /\ now.claim = before.claim
  /\ now.until = before.until /\ now.result = before.result
  /\ before.presented => now.presented
  /\ before.frozen # None => now.frozen = before.frozen
  /\ before.open # "unset" => now.open = before.open

-----------------------------------------------------------------------------
(* Reading, deciding, and replacing. *)

Swapping(w, r, new, next) ==
  [w EXCEPT !.at = "swap", !.r = r, !.saw = rec[r], !.new = new, !.next = next]

By(t) == [Idle EXCEPT !.token = t]

Decide(c, t, r, new, next) ==
  /\ call[c].at = "idle"
  /\ call' = [call EXCEPT ![c] = Swapping(By(t), r, new, next)]
  /\ UNCHANGED <<rec, caller, time, lease, service, observers>>

(* A new claim starts a new lease, and its holder has yet to begin. *)
Replace(r, before, after) ==
  LET same == after.claim = before.claim IN
  /\ rec' = [rec EXCEPT ![r] = after]
  /\ lapsed' = IF same THEN lapsed ELSE lapsed \ {r}
  /\ begun' = IF same THEN begun ELSE [begun EXCEPT ![r] = "unset"]
  /\ UNCHANGED <<late, issued, lease, service, permitted>>

Finished(c) ==
  LET w == call[c] IN
  call' = [call EXCEPT ![c] = IF w.next = "idle" THEN Idle
             ELSE [w EXCEPT !.at = w.next, !.saw = w.new, !.new = Absent, !.next = "idle"]]

(* Fault: the record is replaced whoever replaced it in between. *)
SwapBlindly(c) ==
  /\ call[c].at = "swap"
  /\ Replace(call[c].r, call[c].saw, call[c].new)
  /\ Finished(c)
  /\ UNCHANGED caller

Swap(c) ==
  /\ call[c].at = "swap" /\ Matches(rec[call[c].r], call[c].saw)
  /\ Replace(call[c].r, call[c].saw, call[c].new)
  /\ Finished(c)
  /\ UNCHANGED caller

End(c) ==
  /\ call' = [call EXCEPT ![c] = Idle]
  /\ UNCHANGED <<rec, caller, time, issued, lease, service, observers>>

SwapLost(c) == call[c].at = "swap" /\ ~Matches(rec[call[c].r], call[c].saw) /\ End(c)

-----------------------------------------------------------------------------
(* The host's lease. *)

LiveHost == host.token # None /\ ~host.detached
Holds(t) == LiveHost /\ host.token = t
Active == LiveHost /\ (silent => \E r \in Requests : Queued(r) /\ Claimed(r))

AttachChecks(t) ==
  /\ t \in Hosts \ issued
  /\ LiveHost => HostName[host.token] = HostName[t] \/ (silent /\ ~Active)
  /\ attaching' = attaching \cup {t}
  /\ issued' = issued \cup {t}
  /\ UNCHANGED <<rec, caller, time, call, host, silent, service, observers>>

(* Fault: the record is replaced whoever wrote it in between. *)
WriteHostBlindly(token, detached) ==
  /\ host' = [token |-> token, detached |-> detached]
  /\ silent' = FALSE
  /\ attaching' = attaching \ {token}
  /\ UNCHANGED <<rec, caller, time, call, issued, service, observers>>

(* Whoever writes active_host defeats the attaches that have read it. *)
WriteHost(token, detached) ==
  /\ host' = [token |-> token, detached |-> detached]
  /\ silent' = FALSE
  /\ attaching' = {}
  /\ UNCHANGED <<rec, caller, time, call, issued, service, observers>>

AttachWrites(t) == t \in attaching /\ WriteHost(t, FALSE)

Renew(t, detach) == Holds(t) /\ WriteHost(t, detach)

Silence ==
  /\ LiveHost /\ ~silent
  /\ silent' = TRUE
  /\ UNCHANGED <<rec, caller, time, call, issued, host, attaching, service, observers>>

-----------------------------------------------------------------------------
(* Claims. *)

Claimable(r) == Queued(r) /\ ~Claimed(r)

(* next_request: a request of the queue that nobody holds, human ones first *)
(* (the order of arrival among them is left open).                          *)
NextRequest(c, t, r) ==
  /\ Holds(t) /\ Claimable(r)
  /\ Passive(r) => \A q \in Requests : Claimable(q) => Passive(q)
  /\ Decide(c, t, r,
            [rec[r] EXCEPT !.claim = t, !.until = IF Bounded(r) THEN "deadline" ELSE "never"],
            IF Passive(r) THEN "idle" ELSE "beginning")
  /\ UNCHANGED issued

(* begin_interaction says whether the circuit is open, and that is saved. *)
BeginClaimed(c) ==
  LET w == call[c] IN
  /\ w.at = "beginning"
  /\ IF rec[w.r].claim = w.token /\ rec[w.r].state = "pending"
     THEN /\ call' = [call EXCEPT ![c] =
                        Swapping(w, w.r, [rec[w.r] EXCEPT !.open = circuit], "idle")]
          /\ begun' = [begun EXCEPT ![w.r] = circuit]
     ELSE call' = [call EXCEPT ![c] = Idle] /\ UNCHANGED begun
  /\ UNCHANGED <<rec, caller, time, issued, lease, service, permitted>>

(* claim_incoming_message reads the request to answer for it... *)
ReadMessage(c, t, r) ==
  /\ call[c].at = "idle" /\ t \in Tasks \ issued /\ ~Passive(r)
  /\ rec[r].state \notin {"absent", "complete"}
  /\ call' = [call EXCEPT ![c] = [By(t) EXCEPT !.at = "looked", !.r = r]]
  /\ issued' = issued \cup {t}
  /\ UNCHANGED <<rec, caller, time, lease, service, observers>>

(* ... and again to claim it, whatever its state is then. *)
ClaimMessage(c) ==
  LET w == call[c] IN
  /\ w.at = "looked"
  /\ call' = [call EXCEPT ![c] =
                IF Claimed(w.r) THEN Idle
                ELSE Swapping(w, w.r, [rec[w.r] EXCEPT !.claim = w.token, !.until = "lease"], "idle")]
  /\ UNCHANGED <<rec, caller, time, issued, lease, service, observers>>

ClaimSensory(c, t, r) ==
  /\ t \in Tasks \ issued /\ Passive(r) /\ rec[r].state = "pending"
  /\ r \in late \/ ~Claimed(r)
  /\ Decide(c, t, r,
            IF r \in late THEN [rec[r] EXCEPT !.state = "expired"]
            ELSE [rec[r] EXCEPT !.claim = t, !.until = "deadline"],
            "idle")
  /\ issued' = IF r \in late THEN issued ELSE issued \cup {t}

Release(c, t, r) ==
  /\ t \in Tasks /\ rec[r].claim = t /\ rec[r].state = "pending"
  /\ Decide(c, t, r, [rec[r] EXCEPT !.claim = None, !.until = "zero"], "idle")
  /\ UNCHANGED issued

(* The task of a message calls begin_interaction itself. *)
TaskBegins(t, r) ==
  /\ t \in Tasks /\ ~Passive(r) /\ rec[r].claim = t /\ begun[r] = "unset"
  /\ begun' = [begun EXCEPT ![r] = circuit]
  /\ UNCHANGED <<rec, caller, time, call, issued, lease, service, permitted>>

Answerable(t, r) ==
  /\ t \in Hosts => Holds(t)
  /\ rec[r].claim = t /\ rec[r].state = "pending"

Overdue(r) == (Bounded(r) /\ r \in late) \/ ClaimOver(r)

FailSensory(c, t, r) ==
  /\ Passive(r) /\ Answerable(t, r) /\ ~Overdue(r)
  /\ Decide(c, t, r, [rec[r] EXCEPT !.state = "failed"], "idle")
  /\ UNCHANGED issued

-----------------------------------------------------------------------------
(* complete_body_interaction, complete_incoming_message and -_sensory. *)

(* A completed request is answered from its record: nothing to do. *)
Complete(c, t, r, a) ==
  /\ call[c].at = "idle" /\ Answerable(t, r)
  /\ Overdue(r) => rec[r].presented
  /\ ~Passive(r) => (IF t \in Hosts THEN rec[r].open ELSE begun[r]) # "unset"
  /\ rec[r].frozen \in {None, a}
  /\ call' = [call EXCEPT ![c] = [By(t) EXCEPT !.at = IF Passive(r) THEN "finishing" ELSE "naming",
                                              !.r = r, !.answer = a, !.saw = rec[r]]]
  /\ UNCHANGED <<rec, caller, time, issued, lease, service, observers>>

(* _retain_naming_blocked_response, against the request as it was read. *)
Retain(c) ==
  LET w == call[c] IN
  call' = [call EXCEPT ![c] =
             IF w.saw.frozen = w.answer THEN Idle
             ELSE [w EXCEPT !.at = "swap", !.new = [w.saw EXCEPT !.frozen = w.answer]]]

(* Fault: an open circuit does not hold the answer back. *)
MayReleaseAlways(w) == ~w.saw.presented /\ naming = "chosen"

MayRelease(w) == w.saw.open # "open" /\ ~w.saw.presented /\ naming = "chosen"

CheckNaming(c) ==
  /\ call[c].at = "naming"
  /\ IF naming = "required" THEN Retain(c)
     ELSE call' = [call EXCEPT ![c].at = IF MayRelease(call[c]) THEN "presenting" ELSE "persisting"]
  /\ UNCHANGED <<rec, caller, time, issued, lease, service, observers>>

(* The answer is presented while complete_interaction runs. *)
Present(c) ==
  LET w == call[c]
      shown == [w.saw EXCEPT !.presented = TRUE, !.result = w.answer] IN
  /\ w.at = "presenting"
  /\ \/ /\ Matches(rec[w.r], w.saw)
        /\ Replace(w.r, w.saw, shown)
        /\ call' = [call EXCEPT ![c] = [w EXCEPT !.at = "persisting", !.saw = shown]]
        /\ UNCHANGED caller
     \/ ~Matches(rec[w.r], w.saw) /\ End(c)

(* complete_interaction under the key of the request: it commits, or its    *)
(* persistence fails and The Breaker decides, or the naming limit blocks    *)
(* it, or it raises.                                                        *)
Serve(c, outcome) ==
  LET w == call[c] IN
  /\ w.at \in {"presenting", "persisting"} /\ w.outcome = "none"
  /\ CASE outcome = "committed" -> committed[w.r] = w.answer \/ committed[w.r] = None
       [] outcome = "failed" -> circuit = "closed"
       [] outcome = "withheld" -> circuit = "open"
       [] outcome = "naming" -> naming = "required"
       [] outcome = "raises" -> committed[w.r] # w.answer
  /\ outcome \in {"failed", "withheld"} => committed[w.r] = None
  /\ outcome # "naming" => naming # "required"
  /\ call' = [call EXCEPT ![c].outcome = outcome]
  /\ committed' = IF outcome = "committed" THEN [committed EXCEPT ![w.r] = w.answer] ELSE committed
  /\ permitted' = IF outcome \in {"committed", "failed"} THEN permitted \cup {w.r} ELSE permitted
  /\ UNCHANGED <<rec, caller, time, issued, lease, naming, circuit, begun>>

Settle(c) ==
  LET w == call[c] IN
  /\ w.at = "persisting" /\ w.outcome # "none"
  /\ CASE w.outcome = "raises" -> call' = [call EXCEPT ![c] = Idle]
       [] w.outcome = "withheld" /\ ~w.saw.presented ->
            call' = [call EXCEPT ![c] =
                       IF rec[w.r].state = "pending"
                       THEN Swapping(w, w.r, [rec[w.r] EXCEPT !.state = "failed"], "idle")
                       ELSE Idle]
       [] w.outcome = "naming" -> Retain(c)
       [] OTHER -> IF naming = "required" THEN Retain(c)
                   ELSE call' = [call EXCEPT ![c].at = "finishing"]
  /\ UNCHANGED <<rec, caller, time, issued, lease, service, observers>>

(* The last write rereads the request, but looks neither at its state nor   *)
(* at its claim again.                                                      *)
Finish(c) ==
  LET w == call[c] IN
  /\ w.at = "finishing"
  /\ call' = [call EXCEPT ![c] =
                Swapping(w, w.r, [rec[w.r] EXCEPT !.state = "complete", !.result = w.answer], "idle")]
  /\ UNCHANGED <<rec, caller, time, issued, lease, service, observers>>

-----------------------------------------------------------------------------
(* submit. *)

Submit(r, kind) ==
  /\ caller[r].at = "none"
  /\ Subscribed \/ Active
  /\ rec' = [rec EXCEPT ![r] = [Absent EXCEPT !.state = "pending", !.kind = kind]]
  /\ caller' = [caller EXCEPT ![r].at = "waiting"]
  /\ UNCHANGED <<time, call, issued, lease, service, observers>>

Gets(r, from, got) ==
  /\ caller[r].at = from
  /\ caller' = [caller EXCEPT ![r] = [NoCaller EXCEPT !.at = "done", !.got = got]]
  /\ UNCHANGED <<rec, time, call, issued, lease, service, observers>>

Shown(x) == x.state = "complete" \/ x.presented

ReturnAnswer(r) ==
  /\ Shown(rec[r])
  /\ Gets(r, "waiting", IF Passive(r) \/ naming # "required" THEN rec[r].result ELSE "naming")

ReturnFailure(r) ==
  /\ ~Shown(rec[r])
  /\ \/ rec[r].state = "failed"
     \/ Bounded(r) /\ rec[r].state \in {"expired", "cancelled"}
  /\ Gets(r, "waiting", rec[r].state)

CallerDecides(r, from, to, state) ==
  /\ caller[r].at = from /\ rec[r].state = "pending"
  /\ caller' = [caller EXCEPT ![r] = [@ EXCEPT !.at = to, !.saw = rec[r],
                                                !.new = [rec[r] EXCEPT !.state = state]]]
  /\ UNCHANGED <<rec, time, call, issued, lease, service, observers>>

(* Fault: a request that somebody works on is left alone. *)
ExpireUnclaimed(r) ==
  /\ Bounded(r) /\ r \in late /\ ~Shown(rec[r]) /\ rec[r].claim = None
  /\ CallerDecides(r, "waiting", "expiring", "expired")

Expire(r) ==
  /\ Bounded(r) /\ r \in late /\ ~Shown(rec[r])
  /\ CallerDecides(r, "waiting", "expiring", "expired")

(* The caller goes away; a bounded request is taken out of the queue. *)
Leave(r) ==
  /\ caller[r].at = "waiting"
  /\ caller' = [caller EXCEPT ![r].at = IF Bounded(r) THEN "leaving" ELSE "done"]
  /\ UNCHANGED <<rec, time, call, issued, lease, service, observers>>

Cancel(r) == CallerDecides(r, "leaving", "cancelling", "cancelled")

NothingToCancel(r) == rec[r].state # "pending" /\ Gets(r, "leaving", None)

(* Fault: the record is replaced whoever replaced it in between. *)
CallerSwapBlindly(r) ==
  LET w == caller[r] IN
  /\ w.at \in {"expiring", "cancelling"}
  /\ Replace(r, w.saw, w.new)
  /\ caller' = [caller EXCEPT ![r] = [NoCaller EXCEPT !.at = "done",
                  !.got = IF w.at = "expiring" THEN "expired" ELSE None]]
  /\ UNCHANGED call

CallerSwap(r) ==
  LET w == caller[r] IN
  /\ w.at \in {"expiring", "cancelling"}
  /\ Matches(rec[r], w.saw)
  /\ Replace(r, w.saw, w.new)
  /\ caller' = [caller EXCEPT ![r] = [NoCaller EXCEPT !.at = "done",
                  !.got = IF w.at = "expiring" THEN "expired" ELSE None]]
  /\ UNCHANGED call

CallerSwapLost(r) ==
  /\ caller[r].at \in {"expiring", "cancelling"}
  /\ ~Matches(rec[r], caller[r].saw)
  /\ caller' = [caller EXCEPT ![r] =
                  [NoCaller EXCEPT !.at = IF caller[r].at = "expiring" THEN "waiting" ELSE "leaving"]]
  /\ UNCHANGED <<rec, time, call, issued, lease, service, observers>>

-----------------------------------------------------------------------------
(* Time, and the service that other calls move on. *)

DeadlinePasses(r) ==
  /\ Bounded(r) /\ rec[r].state # "absent" /\ r \notin late
  /\ late' = late \cup {r}
  /\ UNCHANGED <<rec, caller, lapsed, call, issued, lease, service, observers>>

LeaseLapses(r) ==
  /\ SlowTasks /\ rec[r].until = "lease" /\ r \notin lapsed
  /\ lapsed' = lapsed \cup {r}
  /\ UNCHANGED <<rec, caller, late, call, issued, lease, service, observers>>

NamingMoves ==
  /\ naming # "chosen"
  /\ naming' \in {"required", "chosen"} \ {naming}
  /\ UNCHANGED <<rec, caller, time, call, issued, lease, circuit, committed, observers>>

CircuitMoves ==
  /\ circuit' \in {"open", "closed"} \ {circuit}
  /\ UNCHANGED <<rec, caller, time, call, issued, lease, naming, committed, observers>>

-----------------------------------------------------------------------------
Outcomes == {"committed", "failed", "withheld", "naming", "raises"}

CallerStep(r) ==
  \/ ReturnAnswer(r) \/ ReturnFailure(r) \/ Expire(r) \/ Cancel(r) \/ NothingToCancel(r)
  \/ CallerSwap(r) \/ CallerSwapLost(r)

Next ==
  \/ \E t \in Hosts : AttachChecks(t) \/ AttachWrites(t) \/ \E detach \in BOOLEAN : Renew(t, detach)
  \/ \E c \in Calls :
       \/ Swap(c) \/ SwapLost(c) \/ BeginClaimed(c) \/ ClaimMessage(c)
       \/ CheckNaming(c) \/ Present(c) \/ Settle(c) \/ Finish(c)
       \/ \E outcome \in Outcomes : Serve(c, outcome)
       \/ \E t \in Tokens, r \in Requests :
            \/ NextRequest(c, t, r) \/ ReadMessage(c, t, r) \/ ClaimSensory(c, t, r)
            \/ Release(c, t, r) \/ FailSensory(c, t, r)
            \/ \E a \in Replies[t] : Complete(c, t, r, a)
  \/ \E t \in Tasks, r \in Requests : TaskBegins(t, r)
  \/ \E r \in Requests :
       \/ CallerStep(r) \/ Leave(r) \/ DeadlinePasses(r) \/ LeaseLapses(r)
       \/ \E kind \in Kinds : Submit(r, kind)
  \/ Silence \/ NamingMoves \/ CircuitMoves

Spec == Init /\ [][Next]_vars

(* Time passes, and submit() keeps polling.  Nothing is asked of hosts and  *)
(* tasks.                                                                   *)
Fairness == \A r \in Requests : WF_vars(CallerStep(r)) /\ WF_vars(DeadlinePasses(r))

FairSpec == Spec /\ Fairness

-----------------------------------------------------------------------------
RecordType ==
  [state: {"absent", "pending", "complete", "failed", "expired", "cancelled"},
   kind: {"typed", "spoken", "passive"},
   claim: Tokens \cup {None}, until: {"zero", "never", "deadline", "lease"},
   presented: BOOLEAN, result: Answers \cup {None}, frozen: Answers \cup {None},
   open: {"unset", "open", "closed"}]

(* The variables hold values of the program's kinds; only spoken and typed  *)
(* turns are presented early, and only a bounded one expires.               *)
TypeOK ==
  /\ rec \in [Requests -> RecordType]
  /\ \A r \in Requests :
       /\ Passive(r) => ~rec[r].presented /\ rec[r].frozen = None /\ rec[r].open = "unset"
       /\ ~Bounded(r) => rec[r].state \notin {"expired", "cancelled"} /\ r \notin late
  /\ issued \subseteq Tokens /\ attaching \subseteq issued
  /\ host.token \in Hosts \cup {None}
  /\ committed \in [Requests -> Answers \cup {None}]

(* "A completion that won this race must still be delivered" (submit, line  *)
(* 697): whatever expires, cancels, fails, claims or releases a request at  *)
(* the same time, a complete request stays complete.                        *)
CompleteStands ==
  [][ \A r \in Requests : rec[r].state = "complete" => rec'[r].state = "complete" ]_vars

(* An answer the Body may already have shown does not expire under it: the  *)
(* deadline and the presentation race for one record (submit, lines 666 and *)
(* 696; _complete_claim, line 1023).                                        *)
PresentedNeverExpires ==
  [][ \A r \in Requests : rec[r].presented => rec'[r].state # "expired" \/ rec[r].state = "expired" ]_vars

(* The last write of a completion that complete_interaction has let pass    *)
(* (a passive request has none).                                            *)
Completes(w, r) ==
  /\ w.at = "swap" /\ w.r = r /\ w.new.state = "complete" /\ w.new.result = w.answer
  /\ ~Passive(r) => w.outcome \in {"committed", "failed", "withheld"}

(* "Body request already completed with another response" (lines 952-954)   *)
(* is asked when a completion starts, not when it ends: another one that is *)
(* under way may still write its answer over a complete one.  Nothing else  *)
(* does, and over the answer that the Mind has committed only one whose own *)
(* persistence failed.                                                      *)
LateAnswers ==
  [][ \A r \in Requests : rec[r].state = "complete" /\ rec'[r].result # rec[r].result =>
        \E c \in Calls :
          /\ Completes(call[c], r) /\ rec'[r] = call[c].new
          /\ rec[r].result = committed[r] => call[c].outcome # "committed" ]_vars

(* A request once answered is not taken back, whatever races it, and its    *)
(* answer changes by a completion that was under way, if at all.            *)
AnswersStand == []TypeOK /\ CompleteStands /\ PresentedNeverExpires /\ LateAnswers

(* Hosts and tasks that want the same request at the same time: nobody      *)
(* loses a claim that is neither over nor given back ("share the live       *)
(* host's compare-and-swap claim rules", docs/chatgpt-message-events.md).   *)
ClaimsAreExclusive ==
  [][ \A r \in Requests : Claimed(r) /\ rec[r].state = "pending" =>
        \/ rec'[r].claim = rec[r].claim
        \/ \E c \in Calls : call[c].at = "swap" /\ call[c].token = rec[r].claim
                            /\ rec'[r] = [call[c].new EXCEPT !.claim = None] ]_vars

(* Nothing takes a request away from the host that has claimed it: a task   *)
(* may take one over only when its deadline has passed.                     *)
Secure(r) == r \in late => Tasks = {}

(* "When the circuit was open at begin, hold delivery until the recovery    *)
(* completion permits presentation" (docs/0009, External-host operation):   *)
(* for what a host has claimed, next to event tasks that claim, lose and    *)
(* complete the same request.                                               *)
HeldUntilPermitted ==
  [][ \A r \in Requests :
        Shown(rec'[r]) /\ ~Shown(rec[r]) /\ begun[r] = "open" /\ rec[r].claim \in Hosts /\ Secure(r) =>
          r \in permitted ]_vars

(* The same of whoever claimed it.                                          *)
TasksHoldToo ==
  [][ \A r \in Requests : Shown(rec'[r]) /\ ~Shown(rec[r]) /\ begun[r] = "open" => r \in permitted ]_vars

(* A live lease passes to another host only when its holder has been silent *)
(* since the attach looked at it, or when it gave it up (attach, line 539). *)
LiveHostKept ==
  [][ LiveHost /\ host'.token # host.token =>
        silent \/ HostName[host'.token] = HostName[host.token] ]_vars

(* "Old tokens cannot complete requests after another host takes over"      *)
(* (docs/0009, External-host operation).  They can: the lease is checked    *)
(* when a completion starts (complete, line 816) and not when it ends.      *)
OldTokensStop ==
  [][ \A r \in Requests : rec[r].state # "complete" /\ rec'[r].state = "complete" =>
        \E c \in Calls :
          /\ Completes(call[c], r) /\ rec'[r] = call[c].new
          /\ call[c].token \in Hosts /\ LiveHost => Holds(call[c].token) ]_vars

(* "Once its caller is gone, neither passive admission nor a spoken         *)
(* conversational reply may complete as an orphaned request" (submit, line  *)
(* 715).                                                                    *)
OrphansStayOrphans ==
  [][ \A r \in Requests : rec[r].state = "cancelled" => rec'[r].state # "complete" ]_vars

(* "That tool commits the interaction and returns the response to the       *)
(* originating Body request" (docs/chatgpt-message-events.md): what the     *)
(* caller is given is what the Mind remembers to have said.                 *)
ShownIsCommitted ==
  \A r \in Requests :
    caller[r].got \in Answers /\ committed[r] # None => caller[r].got = committed[r]

(* Whatever hosts and tasks do, or if they do nothing, the caller of a      *)
(* bounded request is not left waiting (submit, lines 692-714).             *)
BoundedCallersEnd ==
  \A r \in Requests : (Bounded(r) /\ caller[r].at = "waiting") ~> caller[r].at = "done"
================================================================================
