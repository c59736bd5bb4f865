----------------------------- MODULE RequestsProofs -----------------------------
(***************************************************************************)
(* Proofs about BodyRequests: what may become of a request, and of a claim  *)
(* of one, whoever reads, decides and replaces its record at the same time. *)
(***************************************************************************)
EXTENDS BodyRequests, TLAPS

\* How long a claim lasts follows from who holds it, and of what.
Term(x) ==
    IF x.claim = None THEN "zero"
    ELSE IF x.claim \in Hosts THEN (IF x.kind = "typed" THEN "never" ELSE "deadline")
    ELSE (IF x.kind = "passive" THEN "deadline" ELSE "lease")

\* A record that a request of this kind may have: passive ones are never presented
\* early, typed ones never expire, and an answer is there once it was presented, and
\* of a pending request not before.
Proper(x, kind) ==
    /\ x \in RecordType /\ x.state # "absent" /\ x.kind = kind
    /\ x.until = Term(x)
    /\ kind = "passive" => ~x.presented /\ x.frozen = None /\ x.open = "unset"
    /\ kind = "typed" => x.state \notin {"expired", "cancelled"}
    /\ x.presented => x.result # None
    /\ x.state = "pending" /\ ~x.presented => x.result = None

\* A decision about a request that was read: what is complete stays so, nothing is
\* pending again, and only a request that was not presented expires.
Follows(saw, new, kind) ==
    /\ Proper(saw, kind) /\ Proper(new, kind)
    /\ saw.state = "complete" => new.state = "complete"
    /\ new.state = "pending" => saw.state = "pending"
    /\ new.state = "expired" =>
          saw.state = "expired" \/ (saw.state = "pending" /\ ~saw.presented)

-----------------------------------------------------------------------------
CallStages == {"idle", "swap", "beginning", "looked", "naming", "presenting", "persisting",
               "finishing"}
CallType == [at: CallStages, r: Requests \cup {None}, token: Tokens \cup {None},
             answer: Answers \cup {None}, saw: RecordType, new: RecordType,
             next: {"idle", "beginning"}, outcome: Outcomes \cup {"none"}]
CallerType == [at: {"none", "waiting", "expiring", "leaving", "cancelling", "done"},
               got: Answers \cup {None, "naming", "failed", "expired", "cancelled"},
               saw: RecordType, new: RecordType]

\* The values of the variables that the claims and answers depend on.
Typed ==
    /\ rec \in [Requests -> RecordType]
    /\ caller \in [Requests -> CallerType]
    /\ call \in [Calls -> CallType]
    /\ late \subseteq Requests /\ lapsed \subseteq Requests
    /\ issued \subseteq Tokens /\ attaching \subseteq issued
    /\ host.token \in Hosts \cup {None} /\ host.token \in issued \cup {None}
    /\ committed \in [Requests -> Answers \cup {None}]
    /\ naming \in {"open", "required", "chosen"} /\ circuit \in {"open", "closed"}

\* The record of a request, and what its caller may be about to make of it.
RequestKept(r) ==
    /\ caller[r].at = "none" <=> rec[r].state = "absent"
    /\ rec[r].state = "absent" => rec[r] = Absent
    /\ rec[r].state # "absent" => Proper(rec[r], rec[r].kind)
    /\ r \in late \/ caller[r].at \in {"expiring", "leaving", "cancelling"} => Bounded(r)
    /\ caller[r].at \in {"expiring", "cancelling"} =>
          /\ Follows(caller[r].saw, caller[r].new, rec[r].kind)
          /\ caller[r].new.claim = caller[r].saw.claim
    /\ caller[r].at \notin {"expiring", "cancelling"} =>
          caller[r].saw = Absent /\ caller[r].new = Absent

\* What a call is about to make of the request it has read.
WorkKept(w) ==
    /\ w.at = "idle" => w = Idle
    /\ w.at # "idle" => w.r \in Requests /\ rec[w.r].state # "absent" /\ w.token \in Tokens
    /\ w.at # "swap" => w.next = "idle"
    /\ w.at = "looked" => w.token \in Tasks
    /\ w.at = "swap" => /\ Follows(w.saw, w.new, rec[w.r].kind)
                        /\ w.next = "beginning" => ~Passive(w.r) /\ w.token \in Hosts
    /\ w.at \in {"beginning", "looked", "naming", "presenting", "persisting"} => ~Passive(w.r)
    /\ w.at \in {"naming", "presenting", "persisting"} =>
          Proper(w.saw, rec[w.r].kind) /\ w.saw.state = "pending"
    /\ w.at \in {"naming", "presenting", "persisting", "finishing"} => w.answer \in Answers

\* A call is about to claim with the token of an event task, which is its own.
Seeks(w) ==
    /\ w.token \in Tasks
    /\ w.at = "looked" \/ (w.at = "swap" /\ w.new.claim = w.token /\ w.saw.claim # w.token)

\* No request, no caller, and no call names this token (a call that finds a sensory
\* request out of time has made a token that it does not use).
UnnamedBy(w, t) ==
    /\ w.saw.claim # t /\ w.new.claim # t
    /\ w.token = t => w.at = "swap" /\ w.new.claim = w.saw.claim
Unrecorded(t) ==
    \A r \in Requests : rec[r].claim # t /\ caller[r].saw.claim # t /\ caller[r].new.claim # t

\* The token of a task is new when it is issued, and claims one request at most.
TokensFresh ==
    /\ \A t \in Tasks \ issued : Unrecorded(t) /\ \A d \in Calls : UnnamedBy(call[d], t)
    /\ \A c \in Calls : Seeks(call[c]) =>
          /\ Unrecorded(call[c].token) /\ call[c].saw.claim # call[c].token
          /\ \A d \in Calls \ {c} : UnnamedBy(call[d], call[c].token)

\* The claim that a call has read is over, and stays over.
SawOver(w) ==
    w.saw.claim # None =>
      \/ w.saw.until = "deadline" /\ w.r \in late
      \/ w.saw.until = "lease" /\ (rec[w.r].claim = w.saw.claim => w.r \in lapsed)

\* A call that changes a claim gives up its own, or takes what is free.
ClaimKept(w) ==
    w.at = "swap" /\ w.new.claim # w.saw.claim =>
      \/ w.new.claim = None /\ w.token = w.saw.claim
      \/ w.new.claim = w.token /\ SawOver(w)

Kept == Typed /\ (\A r \in Requests : RequestKept(r)) /\ \A c \in Calls : WorkKept(call[c])
Claiming == Kept /\ TokensFresh /\ \A c \in Calls : ClaimKept(call[c])

-----------------------------------------------------------------------------
LEMMA AbsentTyped ==
    /\ Absent \in RecordType /\ Absent.claim = None /\ Absent.state = "absent"
    /\ Idle \in CallType /\ Idle.at = "idle" /\ Idle.token = None /\ Idle.next = "idle"
    /\ Idle.saw.claim = None /\ Idle.new.claim = None
    /\ NoCaller \in CallerType /\ NoCaller.at = "none" /\ NoCaller.saw = Absent
    /\ NoCaller.new = Absent
    BY DEF Absent, Idle, NoCaller, RecordType, CallType, CallerType, CallStages

\* A call that does nothing keeps everything.
LEMMA IdleKept ==
    /\ WorkKept(Idle) /\ ClaimKept(Idle) /\ ~Seeks(Idle)
    /\ \A t \in Tokens : UnnamedBy(Idle, t)
    BY AbsentTyped, RequestsAssumption DEF WorkKept, ClaimKept, Seeks, UnnamedBy

LEMMA InitiallyClaiming == Init => Claiming
<1> SUFFICES ASSUME Init PROVE Claiming
    OBVIOUS
<1>1. Typed
    BY AbsentTyped DEF Init, Typed
<1>2. \A r \in Requests : RequestKept(r)
    BY AbsentTyped DEF Init, RequestKept
<1>3. \A c \in Calls : call[c] = Idle
    BY DEF Init
<1>4. \A t \in Tasks : Unrecorded(t)
    BY AbsentTyped, RequestsAssumption DEF Init, Unrecorded, Tokens
<1>5. TokensFresh
    BY <1>3, <1>4, IdleKept DEF TokensFresh, Tokens
<1> QED
    BY <1>1, <1>2, <1>3, <1>5, IdleKept DEF Claiming, Kept

\* What a call names is recorded, was named by it before, or is just made.
NamesKnown(w, before, made) ==
    \A t \in Tasks : \/ UnnamedBy(w, t) \/ t \in made \/ ~UnnamedBy(before, t)
                     \/ \E r \in Requests : rec[r].claim = t
SeeksOwn(w, before, made) ==
    Seeks(w) => /\ w.saw.claim # w.token
                /\ w.token \in made \/ (Seeks(before) /\ w.token = before.token)

\* The token that a call is about to claim with was issued.
LEMMA SeekersIssued ==
    ASSUME Claiming, NEW c \in Calls, Seeks(call[c])
    PROVE  call[c].token \in Tasks /\ call[c].token \in issued
    BY DEF Claiming, TokensFresh, Seeks, UnnamedBy

\* TokensFresh of the next state, token by token.
LEMMA TokensFreshNext ==
    ASSUME \A t \in Tasks \ issued' : Unrecorded(t)' /\ \A d \in Calls : UnnamedBy(call'[d], t),
           \A e \in Calls : \A t : Seeks(call'[e]) /\ t = call'[e].token =>
              /\ Unrecorded(t)' /\ call'[e].saw.claim # t
              /\ \A d \in Calls \ {e} : UnnamedBy(call'[d], t)
    PROVE  TokensFresh'
<1>1. \A t \in Tasks \ issued' : Unrecorded(t)' /\ \A d \in Calls : UnnamedBy(call[d], t)'
    BY DEF UnnamedBy
<1>2. ASSUME NEW e \in Calls, Seeks(call[e])'
      PROVE  /\ Unrecorded(call[e].token)' /\ (call[e].saw.claim # call[e].token)'
             /\ \A d \in Calls \ {e} : UnnamedBy(call[d], call[e].token)'
  <2>1. Seeks(call'[e])
      BY <1>2 DEF Seeks
  <2>2. PICK t : t = call'[e].token
      OBVIOUS
  <2>3. /\ Unrecorded(t)' /\ call'[e].saw.claim # t
        /\ \A d \in Calls \ {e} : UnnamedBy(call'[d], t)
      BY <2>1, <2>2
  <2>4. Unrecorded(call[e].token)'
      BY <2>2, <2>3 DEF Unrecorded
  <2> QED
      BY <2>2, <2>3, <2>4 DEF UnnamedBy
<1> QED
    BY <1>1, <1>2 DEF TokensFresh

\* A step of one call, which decides but writes no record.
LEMMA CallWorks ==
    ASSUME Claiming, NEW c \in Calls, NEW w \in CallType, NEW made \in SUBSET (Tasks \ issued),
           call' = [call EXCEPT ![c] = w], issued' = issued \cup made,
           UNCHANGED <<rec, caller, time, lease>>,
           naming' \in {"open", "required", "chosen"}, circuit' \in {"open", "closed"},
           committed' \in [Requests -> Answers \cup {None}],
           WorkKept(w), ClaimKept(w), NamesKnown(w, call[c], made), SeeksOwn(w, call[c], made)
    PROVE  Claiming'
<1> USE DEF time, lease
<1>1. Typed'
    BY DEF Claiming, Kept, Typed, Tokens
<1>2. \A r \in Requests : RequestKept(r)'
    BY DEF Claiming, Kept, RequestKept, Bounded
<1>3. call'[c] = w /\ \A d \in Calls \ {c} : call'[d] = call[d]
    BY DEF Claiming, Kept, Typed
<1>4. \A d \in Calls : WorkKept(call[d])' /\ ClaimKept(call[d])'
  <2> SUFFICES ASSUME NEW d \in Calls PROVE WorkKept(call[d])' /\ ClaimKept(call[d])'
      OBVIOUS
  <2>1. PICK v : v = call'[d] /\ WorkKept(v) /\ ClaimKept(v)
      BY <1>3 DEF Claiming, Kept
  <2> QED
      BY <2>1 DEF WorkKept, ClaimKept, SawOver, Passive
<1>5. \A t : Unrecorded(t)' <=> Unrecorded(t)
    BY DEF Unrecorded
<1>6. ASSUME NEW t \in Tasks \ issued' PROVE Unrecorded(t)' /\ \A d \in Calls : UnnamedBy(call'[d], t)
  <2>1. t \in Tasks \ issued /\ t \notin made
      BY <1>6
  <2>2. Unrecorded(t) /\ \A d \in Calls : UnnamedBy(call[d], t)
      BY <2>1 DEF Claiming, TokensFresh
  <2>3. UnnamedBy(w, t)
      BY <2>1, <2>2 DEF NamesKnown, Unrecorded
  <2> QED
      BY <1>3, <1>5, <2>2, <2>3
<1>7. ASSUME NEW e \in Calls, Seeks(call'[e]), NEW t, t = call'[e].token
      PROVE  /\ Unrecorded(t)' /\ call'[e].saw.claim # t
             /\ \A d \in Calls \ {e} : UnnamedBy(call'[d], t)
  <2>1. CASE e = c
    <3>1. call'[e] = w /\ Seeks(w) /\ t = w.token
        BY <1>3, <1>7, <2>1
    <3>2. w.saw.claim # t
        BY <3>1 DEF SeeksOwn
    <3>3. Unrecorded(t) /\ \A d \in Calls \ {c} : UnnamedBy(call[d], t)
      <4>1. CASE t \in made
          BY <4>1 DEF Claiming, TokensFresh
      <4>2. CASE Seeks(call[c]) /\ t = call[c].token
          BY <4>2 DEF Claiming, TokensFresh
      <4> QED
          BY <3>1, <4>1, <4>2 DEF SeeksOwn
    <3> QED
        BY <1>3, <1>5, <2>1, <3>1, <3>2, <3>3
  <2>2. CASE e # c
    <3>1. call'[e] = call[e] /\ Seeks(call[e]) /\ t = call[e].token
        BY <1>3, <1>7, <2>2
    <3>2. /\ Unrecorded(t) /\ call[e].saw.claim # t
          /\ \A d \in Calls \ {e} : UnnamedBy(call[d], t)
        BY <3>1 DEF Claiming, TokensFresh
    <3>3. t \in Tasks /\ t \notin made
        BY <3>1, SeekersIssued
    <3>4. UnnamedBy(w, t)
        BY <2>2, <3>2, <3>3 DEF NamesKnown, Unrecorded
    <3> QED
        BY <1>3, <1>5, <2>2, <3>1, <3>2, <3>4
  <2> QED
      BY <2>1, <2>2
<1>8. TokensFresh'
    BY <1>6, <1>7, TokensFreshNext
<1> QED
    BY <1>1, <1>2, <1>4, <1>8 DEF Claiming, Kept

\* What a call was about to do still fits when a record is replaced: its request
\* keeps its kind, and a claim that was over does not come back.
LEMMA WrittenKeeps ==
    ASSUME Claiming, NEW r \in Requests, rec[r].state # "absent",
           NEW new, Proper(new, rec[r].kind), rec' = [rec EXCEPT ![r] = new], late' = late,
           lapsed' = IF new.claim = rec[r].claim THEN lapsed ELSE lapsed \ {r},
           NEW w, w.at # "idle" => w.r \in Requests, WorkKept(w), ClaimKept(w),
           new.claim \in Tasks => new.claim = rec[r].claim \/ w.saw.claim # new.claim
    PROVE  WorkKept(w)' /\ ClaimKept(w)'
<1>1. /\ \A q \in Requests : rec'[q].kind = rec[q].kind
      /\ \A q \in Requests : rec[q].state # "absent" => rec'[q].state # "absent"
    BY DEF Claiming, Kept, Typed, Proper
<1>2. WorkKept(w)'
    BY <1>1 DEF WorkKept, Passive
<1>3. ASSUME w.at = "swap", SawOver(w) PROVE SawOver(w)'
  <2>1. CASE w.r # r \/ new.claim = rec[r].claim
      BY <1>3, <2>1 DEF Claiming, Kept, Typed, SawOver
  <2>2. CASE w.r = r /\ new.claim # rec[r].claim /\ new.claim \in Tasks
      BY <1>3, <2>2 DEF Claiming, Kept, Typed, SawOver
  <2>3. CASE w.r = r /\ new.claim # rec[r].claim /\ new.claim \notin Tasks
    <3>1. rec'[r] = new
        BY DEF Claiming, Kept, Typed
    <3>2. w.saw.claim # None /\ w.saw.until = "lease" => w.saw.claim \notin Hosts
        BY <1>3 DEF WorkKept, Follows, Proper, Term
    <3>3. new.claim \in Hosts \cup {None}
        BY <2>3 DEF Proper, RecordType, Tokens
    <3> QED
        BY <1>3, <2>3, <3>1, <3>2, <3>3 DEF SawOver
  <2> QED
      BY <2>1, <2>2, <2>3
<1> QED
    BY <1>2, <1>3 DEF ClaimKept

\* A record is replaced, by the caller or by a call that then goes on as w.
LEMMA RequestWritten ==
    ASSUME Claiming, NEW r \in Requests, rec[r].state # "absent",
           NEW new, Proper(new, rec[r].kind), rec' = [rec EXCEPT ![r] = new], late' = late,
           lapsed' = IF new.claim = rec[r].claim THEN lapsed ELSE lapsed \ {r},
           UNCHANGED <<issued, lease, service>>,
           NEW v \in CallerType, caller' = [caller EXCEPT ![r] = v], v.at # "none",
           v = caller[r] \/ (v.at = "done" /\ v.saw = Absent /\ v.new = Absent),
           NEW w, w.at \notin {"swap", "looked"}, WorkKept(w),
           call' \in [Calls -> CallType],
           \A d \in Calls : call'[d] = call[d] \/ (call'[d] = w /\ NamesKnown(w, call[d], {})),
           new.claim \in Tasks =>
              \/ new.claim = rec[r].claim
              \/ \E c \in Calls : Seeks(call[c]) /\ new.claim = call[c].token /\ call'[c] = w
    PROVE  Claiming'
<1> USE DEF lease, service
<1>0. ~Seeks(w)
    BY DEF Seeks
<1>1. Typed'
    BY DEF Claiming, Kept, Typed, Proper
<1>2. \A q \in Requests : RequestKept(q)'
  <2> SUFFICES ASSUME NEW q \in Requests PROVE RequestKept(q)'
      OBVIOUS
  <2>1. CASE q # r
      BY <2>1 DEF Claiming, Kept, Typed, RequestKept, Bounded
  <2>2. CASE q = r
    <3>1. rec'[r] = new /\ new.kind = rec[r].kind /\ new.state # "absent" /\ caller'[r] = v
        BY DEF Claiming, Kept, Typed, Proper
    <3>2. RequestKept(r)
        BY DEF Claiming, Kept
    <3> QED
        BY <2>2, <3>1, <3>2 DEF RequestKept, Bounded
  <2> QED
      BY <2>1, <2>2
\* Nobody else names the token that is written, if a call claims with it.
<1>3. \A d \in Calls : call'[d] # w /\ new.claim \in Tasks =>
        new.claim = rec[r].claim \/ UnnamedBy(call[d], new.claim)
    BY <1>0 DEF Claiming, TokensFresh
<1>4. \A d \in Calls : WorkKept(call[d])' /\ ClaimKept(call[d])'
  <2> SUFFICES ASSUME NEW d \in Calls PROVE WorkKept(call[d])' /\ ClaimKept(call[d])'
      OBVIOUS
  <2>1. PICK x : x = call'[d]
      OBVIOUS
  <2>2. x.at # "idle" => x.r \in Requests
      BY <2>1 DEF Claiming, Kept, WorkKept
  <2>3. WorkKept(x) /\ ClaimKept(x)
      BY <2>1 DEF Claiming, Kept, ClaimKept
  <2>4. CASE x = w
    <3>1. WorkKept(x)'
        BY <2>2, <2>3, <2>4 DEF WorkKept, Claiming, Kept, Typed, Proper, Passive
    <3> QED
        BY <2>1, <2>4, <3>1 DEF WorkKept, ClaimKept, Passive
  <2>5. CASE x # w
    <3>1. x = call[d]
        BY <2>1, <2>5
    <3>2. new.claim \in Tasks => new.claim = rec[r].claim \/ x.saw.claim # new.claim
        BY <1>3, <2>1, <2>5, <3>1 DEF UnnamedBy
    <3>3. WorkKept(x)' /\ ClaimKept(x)'
        BY <2>2, <2>3, <3>2, WrittenKeeps
    <3> QED
        BY <2>1, <3>3 DEF WorkKept, ClaimKept, SawOver, Passive
  <2> QED
      BY <2>4, <2>5
\* A token that nobody names, the writer neither, is not written.
<1>5. ASSUME NEW t \in Tasks, Unrecorded(t), new.claim # t PROVE Unrecorded(t)'
  <2>1. Absent.claim # t /\ (v.saw.claim # t /\ v.new.claim # t)
      BY <1>5, AbsentTyped, RequestsAssumption DEF Tokens, Unrecorded
  <2> QED
      BY <1>5, <2>1 DEF Unrecorded, Claiming, Kept, Typed
<1>6. ASSUME NEW t \in Tasks \ issued' PROVE Unrecorded(t)' /\ \A d \in Calls : UnnamedBy(call'[d], t)
  <2>1. t \in issued' <=> t \in issued
      OBVIOUS
  <2>2. Unrecorded(t) /\ \A d \in Calls : UnnamedBy(call[d], t)
      BY <1>6, <2>1 DEF Claiming, TokensFresh
  <2>3. new.claim # t
      BY <1>6, <2>1, <2>2, SeekersIssued DEF Unrecorded
  <2>4. \A d \in Calls : UnnamedBy(call'[d], t)
      BY <1>6, <2>2 DEF NamesKnown, Unrecorded
  <2> QED
      BY <1>5, <1>6, <2>2, <2>3, <2>4
<1>7. ASSUME NEW e \in Calls, Seeks(call'[e]), NEW t, t = call'[e].token
      PROVE  /\ Unrecorded(t)' /\ call'[e].saw.claim # t
             /\ \A d \in Calls \ {e} : UnnamedBy(call'[d], t)
  <2>1. call'[e] # w /\ call'[e] = call[e] /\ t \in Tasks
      BY <1>0, <1>7 DEF Seeks
  <2>2. /\ Unrecorded(t) /\ call[e].saw.claim # t
        /\ \A d \in Calls \ {e} : UnnamedBy(call[d], t)
      BY <1>7, <2>1 DEF Claiming, TokensFresh
  <2>3. new.claim # t
    <3>1. SUFFICES ASSUME new.claim = t PROVE FALSE
        OBVIOUS
    <3>2. PICK c \in Calls : Seeks(call[c]) /\ t = call[c].token /\ call'[c] = w
        BY <2>1, <2>2, <3>1 DEF Unrecorded
    <3>3. UnnamedBy(call[c], t)
        BY <2>1, <2>2, <3>2
    <3> QED
        BY <3>2, <3>3 DEF UnnamedBy, Seeks
  <2>4. \A d \in Calls \ {e} : UnnamedBy(call'[d], t)
      BY <2>1, <2>2 DEF NamesKnown, Unrecorded
  <2> QED
      BY <1>5, <2>1, <2>2, <2>3, <2>4
<1>8. TokensFresh'
    BY <1>6, <1>7, TokensFreshNext
<1> QED
    BY <1>1, <1>2, <1>4, <1>8 DEF Claiming, Kept

\* A step of the caller alone.
LEMMA CallerMoves ==
    ASSUME Claiming, NEW r \in Requests, rec[r].state # "absent",
           NEW v \in CallerType, caller' = [caller EXCEPT ![r] = v], v.at # "none",
           UNCHANGED <<rec, time, call, issued, lease, service>>,
           v.at \in {"leaving", "expiring", "cancelling"} => Bounded(r),
           \/ v.at \notin {"expiring", "cancelling"} /\ v.saw = Absent /\ v.new = Absent
           \/ /\ v.at \in {"expiring", "cancelling"}
              /\ Follows(v.saw, v.new, rec[r].kind) /\ v.saw = rec[r] /\ v.new.claim = rec[r].claim
    PROVE  Claiming'
<1> USE DEF time, lease, service
<1>1. Typed'
    BY DEF Claiming, Kept, Typed
<1>2. \A q \in Requests : RequestKept(q)'
  <2> SUFFICES ASSUME NEW q \in Requests PROVE RequestKept(q)'
      OBVIOUS
  <2>1. RequestKept(q)
      BY DEF Claiming, Kept
  <2>2. CASE q # r
      BY <2>1, <2>2 DEF Claiming, Kept, Typed, RequestKept, Bounded
  <2>3. CASE q = r
    <3>1. caller'[r] = v
        BY DEF Claiming, Kept, Typed
    <3> QED
        BY <2>1, <2>3, <3>1 DEF RequestKept, Bounded
  <2> QED
      BY <2>2, <2>3
<1>3. \A d \in Calls : WorkKept(call[d])' /\ ClaimKept(call[d])'
    BY DEF Claiming, Kept, WorkKept, ClaimKept, SawOver, Passive
<1>4. ASSUME NEW t \in Tasks, Unrecorded(t) PROVE Unrecorded(t)'
    BY <1>4, AbsentTyped, RequestsAssumption DEF Unrecorded, Tokens, Claiming, Kept, Typed
<1>5. TokensFresh'
  <2>1. \A t \in Tasks \ issued' : Unrecorded(t)' /\ \A d \in Calls : UnnamedBy(call'[d], t)
      BY <1>4 DEF Claiming, TokensFresh
  <2>2. \A e \in Calls : \A t : Seeks(call'[e]) /\ t = call'[e].token =>
          /\ Unrecorded(t)' /\ call'[e].saw.claim # t
          /\ \A d \in Calls \ {e} : UnnamedBy(call'[d], t)
      BY <1>4 DEF Claiming, TokensFresh, Seeks
  <2> QED
      BY <2>1, <2>2, TokensFreshNext
<1> QED
    BY <1>1, <1>2, <1>3, <1>5 DEF Claiming, Kept

\* A step that touches no record, no caller and no call: time passes, and tokens of
\* hosts are issued.
LEMMA OthersMove ==
    ASSUME Claiming, UNCHANGED <<rec, caller, call>>, Typed',
           late \subseteq late', \A r \in late' \ late : Bounded(r), lapsed \subseteq lapsed',
           issued \subseteq issued', issued' \ issued \subseteq Hosts
    PROVE  Claiming'
<1>1. \A q \in Requests : RequestKept(q)'
    BY DEF Claiming, Kept, RequestKept, Bounded
<1>2. \A d \in Calls : WorkKept(call[d])' /\ ClaimKept(call[d])'
    BY DEF Claiming, Kept, WorkKept, ClaimKept, SawOver, Passive
<1>3. \A t : Unrecorded(t)' <=> Unrecorded(t)
    BY DEF Unrecorded
<1>4. TokensFresh'
  <2>1. \A t \in Tasks \ issued' : Unrecorded(t)' /\ \A d \in Calls : UnnamedBy(call'[d], t)
      BY <1>3 DEF Claiming, TokensFresh
  <2>2. \A e \in Calls : \A t : Seeks(call'[e]) /\ t = call'[e].token =>
          /\ Unrecorded(t)' /\ call'[e].saw.claim # t
          /\ \A d \in Calls \ {e} : UnnamedBy(call'[d], t)
      BY <1>3 DEF Claiming, TokensFresh
  <2> QED
      BY <2>1, <2>2, TokensFreshNext
<1> QED
    BY <1>1, <1>2, <1>4 DEF Claiming, Kept

LEMMA SurroundingsClaim ==
    ASSUME Claiming,
           \/ \E t \in Hosts : AttachChecks(t) \/ AttachWrites(t)
                               \/ \E detach \in BOOLEAN : Renew(t, detach)
           \/ \E t \in Tasks, r \in Requests : TaskBegins(t, r)
           \/ \E r \in Requests : DeadlinePasses(r) \/ LeaseLapses(r)
           \/ Silence \/ NamingMoves \/ CircuitMoves
           \/ UNCHANGED vars
    PROVE  Claiming'
<1> USE DEF time, lease, service
<1>1. CASE \E t \in Hosts : AttachChecks(t) \/ AttachWrites(t)
                            \/ \E detach \in BOOLEAN : Renew(t, detach)
  <2>1. PICK t \in Hosts : AttachChecks(t) \/ AttachWrites(t)
                           \/ \E detach \in BOOLEAN : Renew(t, detach)
      BY <1>1
  <2>2. /\ UNCHANGED <<rec, caller, time, call, service>>
        /\ issued' \in {issued, issued \cup {t}} /\ attaching' \subseteq issued'
        /\ host' = host \/ (host'.token = t /\ t \in issued')
      BY <2>1 DEF AttachChecks, AttachWrites, Renew, WriteHost, Holds, LiveHost, Claiming, Kept, Typed
  <2>3. Typed'
      BY <2>2 DEF Claiming, Kept, Typed, Tokens
  <2> QED
      BY <2>2, <2>3, OthersMove
<1>2. CASE \E t \in Tasks, r \in Requests : TaskBegins(t, r)
  <2>1. UNCHANGED <<rec, caller, time, call, issued, lease, service>>
      BY <1>2 DEF TaskBegins
  <2>2. Typed'
      BY <2>1 DEF Claiming, Kept, Typed
  <2> QED
      BY <2>1, <2>2, OthersMove
<1>3. CASE \E r \in Requests : DeadlinePasses(r) \/ LeaseLapses(r)
  <2>1. PICK r \in Requests : DeadlinePasses(r) \/ LeaseLapses(r)
      BY <1>3
  <2>2. /\ UNCHANGED <<rec, caller, call, issued, lease, service>>
        /\ \/ late' = late \cup {r} /\ Bounded(r) /\ lapsed' = lapsed
           \/ lapsed' = lapsed \cup {r} /\ late' = late
      BY <2>1 DEF DeadlinePasses, LeaseLapses
  <2>3. Typed'
      BY <2>2 DEF Claiming, Kept, Typed
  <2> QED
      BY <2>2, <2>3, OthersMove
<1>4. CASE Silence \/ NamingMoves \/ CircuitMoves \/ UNCHANGED vars
  <2>1. /\ UNCHANGED <<rec, caller, time, call, issued, host, attaching, committed>>
        /\ naming' \in {naming, "required", "chosen"} /\ circuit' \in {circuit, "open", "closed"}
      BY <1>4 DEF Silence, NamingMoves, CircuitMoves, vars
  <2>2. Typed'
      BY <2>1 DEF Claiming, Kept, Typed
  <2> QED
      BY <2>1, <2>2, OthersMove
<1> QED
    BY <1>1, <1>2, <1>3, <1>4

\* A caller that is waiting, or further, has a request that was filed.
LEMMA CallersFiled ==
    ASSUME Claiming, NEW r \in Requests, caller[r].at # "none"
    PROVE  /\ rec[r].state # "absent" /\ Proper(rec[r], rec[r].kind) /\ caller[r] \in CallerType
           /\ rec[r] \in RecordType
    BY DEF Claiming, Kept, Typed, RequestKept

LEMMA GetsClaims ==
    ASSUME Claiming, NEW r \in Requests,
           ReturnAnswer(r) \/ ReturnFailure(r) \/ NothingToCancel(r)
    PROVE  Claiming'
<1>1. PICK from \in {"waiting", "leaving"},
           got \in Answers \cup {None, "naming", "failed", "expired", "cancelled"} : Gets(r, from, got)
  <2>1. rec[r].result \in Answers \cup {None}
      BY DEF Claiming, Kept, Typed, RecordType
  <2>2. CASE ReturnAnswer(r)
    <3> DEFINE got == IF Passive(r) \/ naming # "required" THEN rec[r].result ELSE "naming"
    <3>1. Gets(r, "waiting", got)
        BY <2>2 DEF ReturnAnswer
    <3>2. got \in Answers \cup {None, "naming", "failed", "expired", "cancelled"}
        BY <2>1
    <3> QED
        BY <3>1, <3>2
  <2>3. CASE ReturnFailure(r)
    <3>1. Gets(r, "waiting", rec[r].state) /\ rec[r].state \in {"failed", "expired", "cancelled"}
        BY <2>3 DEF ReturnFailure
    <3> QED
        BY <3>1
  <2>4. CASE NothingToCancel(r)
      BY <2>4 DEF NothingToCancel
  <2> QED
      BY <2>2, <2>3, <2>4
<1>2. PICK v : v = [NoCaller EXCEPT !.at = "done", !.got = got]
    OBVIOUS
<1>3. v \in CallerType /\ v.at = "done" /\ v.saw = Absent /\ v.new = Absent
    BY <1>1, <1>2, AbsentTyped DEF NoCaller, CallerType
<1>4. /\ caller[r].at # "none" /\ caller' = [caller EXCEPT ![r] = v]
      /\ UNCHANGED <<rec, time, call, issued, lease, service, observers>>
    BY <1>1, <1>2 DEF Gets
<1> QED
    BY <1>3, <1>4, CallersFiled, CallerMoves

LEMMA LeaveClaims ==
    ASSUME Claiming, NEW r \in Requests, Leave(r) \/ CallerSwapLost(r) PROVE Claiming'
<1>1. /\ caller[r].at \in {"waiting", "expiring", "cancelling"}
      /\ UNCHANGED <<rec, time, call, issued, lease, service, observers>>
    BY DEF Leave, CallerSwapLost
<1>2. caller[r] \in CallerType /\ RequestKept(r)
    BY DEF Claiming, Kept, Typed
<1>3. PICK v \in CallerType :
        /\ caller' = [caller EXCEPT ![r] = v]
        /\ v.at \in {"waiting", "leaving", "done"} /\ v.saw = Absent /\ v.new = Absent
        /\ v.at = "leaving" => Bounded(r)
  <2>1. CASE Leave(r)
    <3>1. caller[r].saw = Absent /\ caller[r].new = Absent
        BY <1>2, <2>1 DEF Leave, RequestKept
    <3>2. PICK to \in {"leaving", "done"} :
            /\ caller' = [caller EXCEPT ![r] = [caller[r] EXCEPT !.at = to]]
            /\ to = "leaving" => Bounded(r)
        BY <2>1 DEF Leave
    <3> DEFINE v == [caller[r] EXCEPT !.at = to]
    <3>3. v \in CallerType /\ v.at = to /\ v.saw = Absent /\ v.new = Absent
        BY <1>2, <3>1 DEF CallerType
    <3> QED
        BY <3>2, <3>3
  <2>2. CASE CallerSwapLost(r)
    <3>1. PICK to \in {"waiting", "leaving"} :
            /\ caller' = [caller EXCEPT ![r] = [NoCaller EXCEPT !.at = to]]
            /\ to = "leaving" => Bounded(r)
        BY <1>2, <2>2 DEF CallerSwapLost, RequestKept
    <3> DEFINE v == [NoCaller EXCEPT !.at = to]
    <3>2. v \in CallerType /\ v.at = to /\ v.saw = Absent /\ v.new = Absent
        BY AbsentTyped DEF NoCaller, CallerType
    <3> QED
        BY <3>1, <3>2
  <2> QED
      BY <2>1, <2>2
<1> QED
    BY <1>1, <1>3, CallersFiled, CallerMoves

LEMMA CallerDecidesClaims ==
    ASSUME Claiming, NEW r \in Requests, Expire(r) \/ Cancel(r) PROVE Claiming'
<1>1. PICK from \in {"waiting", "leaving"}, to \in {"expiring", "cancelling"},
           state \in {"expired", "cancelled"} :
        /\ CallerDecides(r, from, to, state)
        /\ Bounded(r) /\ (state = "expired" => ~rec[r].presented)
  <2>1. CASE Expire(r)
      BY <2>1 DEF Expire, Shown
  <2>2. CASE Cancel(r)
    <3>1. caller[r].at = "leaving"
        BY <2>2 DEF Cancel, CallerDecides
    <3>2. Bounded(r)
        BY <3>1 DEF Claiming, Kept, RequestKept
    <3> QED
        BY <2>2, <3>1, <3>2 DEF Cancel
  <2> QED
      BY <2>1, <2>2
<1>2. PICK v : v = [caller[r] EXCEPT !.at = to, !.saw = rec[r], !.new = [rec[r] EXCEPT !.state = state]]
    OBVIOUS
<1>3. /\ caller[r].at = from /\ rec[r].state = "pending"
      /\ caller' = [caller EXCEPT ![r] = v]
      /\ UNCHANGED <<rec, time, call, issued, lease, service>>
    BY <1>1, <1>2 DEF CallerDecides
<1>4. /\ Proper(rec[r], rec[r].kind) /\ caller[r] \in CallerType /\ rec[r] \in RecordType
      /\ rec[r].state # "absent"
    BY <1>3, CallersFiled
<1>5. PICK new : new = [rec[r] EXCEPT !.state = state]
    OBVIOUS
<1>6. /\ new \in RecordType /\ new.state = state /\ new.claim = rec[r].claim
      /\ new.kind = rec[r].kind /\ new.until = rec[r].until /\ new.presented = rec[r].presented
      /\ new.frozen = rec[r].frozen /\ new.open = rec[r].open /\ new.result = rec[r].result
    BY <1>4, <1>5 DEF RecordType
<1>7. Proper(new, rec[r].kind)
    BY <1>1, <1>4, <1>6 DEF Proper, Term, Bounded
<1>8. v \in CallerType /\ v.at = to /\ v.saw = rec[r] /\ v.new = new
    BY <1>2, <1>4, <1>5, <1>6 DEF CallerType
<1>9. Follows(v.saw, v.new, rec[r].kind)
    BY <1>1, <1>3, <1>4, <1>6, <1>7, <1>8 DEF Follows
<1> QED
    BY <1>1, <1>3, <1>4, <1>6, <1>8, <1>9, CallerMoves

LEMMA CallerSwapClaims ==
    ASSUME Claiming, NEW r \in Requests, CallerSwap(r) PROVE Claiming'
<1>1. /\ caller[r].at \in {"expiring", "cancelling"} /\ Matches(rec[r], caller[r].saw)
      /\ Replace(r, caller[r].saw, caller[r].new) /\ UNCHANGED call
    BY DEF CallerSwap
<1>2. PICK saw, new : saw = caller[r].saw /\ new = caller[r].new
    OBVIOUS
<1>3. Follows(saw, new, rec[r].kind) /\ new.claim = saw.claim /\ saw.claim = rec[r].claim
    BY <1>1, <1>2 DEF Claiming, Kept, RequestKept, Matches
<1>4. PICK got \in {"expired", None} : caller' = [caller EXCEPT ![r] = [NoCaller EXCEPT !.at = "done", !.got = got]]
    BY DEF CallerSwap
<1>5. PICK v : v = [NoCaller EXCEPT !.at = "done", !.got = got]
    OBVIOUS
<1>6. v \in CallerType /\ v.at = "done" /\ v.saw = Absent /\ v.new = Absent
    BY <1>5, AbsentTyped DEF NoCaller, CallerType
<1>7. /\ rec' = [rec EXCEPT ![r] = new] /\ late' = late
      /\ lapsed' = IF new.claim = rec[r].claim THEN lapsed ELSE lapsed \ {r}
      /\ UNCHANGED <<issued, lease, service>>
    BY <1>1, <1>2, <1>3 DEF Replace
<1>8. caller' = [caller EXCEPT ![r] = v] /\ call' \in [Calls -> CallType]
    BY <1>1, <1>4, <1>5 DEF Claiming, Kept, Typed
<1>9. rec[r].state # "absent" /\ Proper(new, rec[r].kind)
    BY <1>1, <1>3, CallersFiled DEF Follows
<1>10. \A d \in Calls : call'[d] = call[d]
    BY <1>1
<1> QED
    BY <1>3, <1>6, <1>7, <1>8, <1>9, <1>10, IdleKept, AbsentTyped, RequestWritten

LEMMA SubmitClaims ==
    ASSUME Claiming, NEW r \in Requests, NEW kind \in Kinds, Submit(r, kind) PROVE Claiming'
<1>1. /\ caller[r].at = "none" /\ UNCHANGED <<time, call, issued, lease, service>>
    BY DEF Submit
<1> USE DEF time, lease, service
<1>2. rec[r].state = "absent" /\ rec[r] = Absent /\ caller[r].saw = Absent /\ caller[r].new = Absent
    BY <1>1 DEF Claiming, Kept, RequestKept
<1>3. PICK new : new = [Absent EXCEPT !.state = "pending", !.kind = kind]
    OBVIOUS
<1>4. /\ new \in RecordType /\ new.state = "pending" /\ new.kind = kind /\ new.claim = None
      /\ new.until = "zero" /\ new.presented = FALSE /\ new.result = None /\ new.frozen = None
      /\ new.open = "unset"
    BY <1>3, RequestsAssumption DEF Absent, RecordType
<1>5. Proper(new, kind)
    BY <1>4 DEF Proper, Term
<1>6. PICK v : v = [caller[r] EXCEPT !.at = "waiting"]
    OBVIOUS
<1>7. v \in CallerType /\ v.at = "waiting" /\ v.saw = Absent /\ v.new = Absent
    BY <1>2, <1>6 DEF Claiming, Kept, Typed, CallerType
<1>8. rec' = [rec EXCEPT ![r] = new] /\ caller' = [caller EXCEPT ![r] = v]
    BY <1>3, <1>6 DEF Submit
<1>9. /\ rec'[r] = new /\ caller'[r] = v
      /\ \A q \in Requests \ {r} : rec'[q] = rec[q] /\ caller'[q] = caller[q]
    BY <1>8 DEF Claiming, Kept, Typed
<1>10. Typed'
    BY <1>1, <1>4, <1>7, <1>8 DEF Claiming, Kept, Typed
<1>11. \A q \in Requests : RequestKept(q)'
  <2> SUFFICES ASSUME NEW q \in Requests PROVE RequestKept(q)'
      OBVIOUS
  <2>1. RequestKept(q)
      BY DEF Claiming, Kept
  <2>2. CASE q # r
      BY <1>1, <1>9, <2>1, <2>2 DEF RequestKept, Bounded
  <2>3. CASE q = r
    <3>1. r \notin late
        BY <1>2, <2>1, <2>3, AbsentTyped DEF RequestKept, Bounded, Absent
    <3> QED
        BY <1>1, <1>4, <1>5, <1>7, <1>9, <2>3, <3>1 DEF RequestKept, Bounded
  <2> QED
      BY <2>2, <2>3
<1>12. \A d \in Calls : WorkKept(call[d])' /\ ClaimKept(call[d])'
  <2> SUFFICES ASSUME NEW d \in Calls PROVE WorkKept(call[d])' /\ ClaimKept(call[d])'
      OBVIOUS
  <2>1. PICK x : x = call[d] /\ x = call'[d] /\ WorkKept(x) /\ ClaimKept(x)
      BY <1>1 DEF Claiming, Kept
  <2>2. x.at # "idle" => x.r \in Requests \ {r}
      BY <1>2, <2>1 DEF WorkKept
  <2>3. x.at # "idle" => rec'[x.r] = rec[x.r]
      BY <1>9, <2>2
  <2>4. WorkKept(x)'
      BY <2>1, <2>2, <2>3 DEF WorkKept, Passive
  <2>5. ClaimKept(x)'
      BY <1>1, <2>1, <2>3 DEF ClaimKept, SawOver
  <2> QED
      BY <2>1, <2>4, <2>5 DEF WorkKept, ClaimKept, SawOver, Passive
<1>13. ASSUME NEW t \in Tasks, Unrecorded(t) PROVE Unrecorded(t)'
    BY <1>4, <1>7, <1>9, <1>13, AbsentTyped, RequestsAssumption DEF Unrecorded, Tokens
<1>14. TokensFresh'
  <2>1. \A t \in Tasks \ issued' : Unrecorded(t)' /\ \A d \in Calls : UnnamedBy(call'[d], t)
      BY <1>1, <1>13 DEF Claiming, TokensFresh
  <2>2. \A e \in Calls : \A t : Seeks(call'[e]) /\ t = call'[e].token =>
          /\ Unrecorded(t)' /\ call'[e].saw.claim # t
          /\ \A d \in Calls \ {e} : UnnamedBy(call'[d], t)
      BY <1>1, <1>13 DEF Claiming, TokensFresh, Seeks
  <2> QED
      BY <2>1, <2>2, TokensFreshNext
<1> QED
    BY <1>10, <1>11, <1>12, <1>14 DEF Claiming, Kept

\* What a call becomes once its swap is made.
LEMMA SwapClaims ==
    ASSUME Claiming, NEW c \in Calls, Swap(c) PROVE Claiming'
<1>1. /\ call[c].at = "swap" /\ Matches(rec[call[c].r], call[c].saw)
      /\ Replace(call[c].r, call[c].saw, call[c].new) /\ UNCHANGED caller /\ Finished(c)
    BY DEF Swap
<1>2. PICK x : x = call[c] /\ x \in CallType
    BY DEF Claiming, Kept, Typed
<1>3. WorkKept(x) /\ ClaimKept(x) /\ x.at = "swap"
    BY <1>1, <1>2 DEF Claiming, Kept
<1>4. PICK r \in Requests : r = x.r /\ rec[r].state # "absent"
    BY <1>3 DEF WorkKept
<1>5. PICK new : new = x.new
    OBVIOUS
<1>6. Follows(x.saw, new, rec[r].kind) /\ x.saw.claim = rec[r].claim
    BY <1>1, <1>2, <1>3, <1>4, <1>5 DEF WorkKept, Matches
<1>7. PICK w \in CallType :
        /\ call' = [call EXCEPT ![c] = w] /\ w.at \in {"idle", "beginning"} /\ WorkKept(w)
        /\ \A t \in Tasks : UnnamedBy(w, t) \/ new.claim = t
        /\ w.at = "beginning" => new.claim \notin Tasks \/ new.claim = x.saw.claim
  <2>1. CASE x.next = "idle"
      BY <1>1, <1>2, <2>1, IdleKept, AbsentTyped DEF Finished, Tokens
  <2>2. CASE x.next = "beginning"
    <3> DEFINE w == [x EXCEPT !.at = x.next, !.saw = x.new, !.new = Absent, !.next = "idle"]
    <3>1. call' = [call EXCEPT ![c] = w]
        BY <1>1, <1>2, <2>2 DEF Finished
    <3>2. /\ w \in CallType /\ w.at = "beginning" /\ w.saw = new /\ w.new = Absent /\ w.next = "idle"
          /\ w.r = r /\ w.token = x.token
        BY <1>2, <1>4, <1>5, <2>2, AbsentTyped DEF CallType, CallStages
    <3>3. x.token \in Hosts /\ ~Passive(r)
        BY <1>3, <1>4, <2>2 DEF WorkKept
    <3>4. WorkKept(w)
        BY <1>4, <3>2, <3>3 DEF WorkKept, Tokens
    <3>5. \A t \in Tasks : UnnamedBy(w, t) \/ new.claim = t
        BY <3>2, <3>3, TokensAssumption, RequestsAssumption, AbsentTyped DEF UnnamedBy, Tokens
    <3>6. new.claim \notin Tasks \/ new.claim = x.saw.claim
        BY <1>3, <1>5, <3>3, TokensAssumption, RequestsAssumption DEF ClaimKept, Tokens
    <3> HIDE DEF w
    <3> QED
        BY <3>1, <3>2, <3>4, <3>5, <3>6
  <2> QED
      BY <1>2, <2>1, <2>2 DEF CallType
<1>8. w.at \notin {"swap", "looked"} /\ call' \in [Calls -> CallType] /\ call'[c] = w
    BY <1>7 DEF Claiming, Kept, Typed
<1>9. \A d \in Calls : call'[d] = call[d] \/ (call'[d] = w /\ NamesKnown(w, call[d], {}))
  <2>1. \A d \in Calls : call'[d] = call[d] \/ d = c
      BY <1>7 DEF Claiming, Kept, Typed
  <2>2. NamesKnown(w, call[c], {})
      BY <1>2, <1>5, <1>7 DEF NamesKnown, UnnamedBy
  <2> QED
      BY <1>8, <2>1, <2>2
<1>10. new.claim \in Tasks =>
         \/ new.claim = rec[r].claim
         \/ \E d \in Calls : Seeks(call[d]) /\ new.claim = call[d].token /\ call'[d] = w
    BY <1>2, <1>3, <1>5, <1>6, <1>8, RequestsAssumption DEF ClaimKept, Seeks, Tokens
<1>11. /\ rec' = [rec EXCEPT ![r] = new] /\ late' = late
       /\ lapsed' = IF new.claim = rec[r].claim THEN lapsed ELSE lapsed \ {r}
       /\ UNCHANGED <<issued, lease, service>>
    BY <1>1, <1>2, <1>4, <1>5, <1>6 DEF Replace
<1>12. PICK v \in CallerType : v = caller[r] /\ caller' = [caller EXCEPT ![r] = v] /\ v.at # "none"
    BY <1>1, <1>4 DEF Claiming, Kept, Typed, RequestKept
<1>13. Proper(new, rec[r].kind)
    BY <1>6 DEF Follows
<1> QED
    BY <1>4, <1>7, <1>8, <1>9, <1>10, <1>11, <1>12, <1>13, RequestWritten, ZenonT(60)

\* A call that ends.
LEMMA EndClaims ==
    ASSUME Claiming, NEW c \in Calls, End(c) PROVE Claiming'
<1>1. /\ call' = [call EXCEPT ![c] = Idle] /\ issued' = issued \cup {}
      /\ UNCHANGED <<rec, caller, time, lease, service>>
    BY DEF End
<1>2. /\ naming' \in {"open", "required", "chosen"} /\ circuit' \in {"open", "closed"}
      /\ committed' \in [Requests -> Answers \cup {None}]
    BY <1>1 DEF service, Claiming, Kept, Typed
<1>3. NamesKnown(Idle, call[c], {}) /\ SeeksOwn(Idle, call[c], {})
    BY IdleKept DEF NamesKnown, SeeksOwn, Tokens
<1> QED
    BY <1>1, <1>2, <1>3, IdleKept, AbsentTyped, CallWorks

\* What is known of a call that is at work.
LEMMA CallIs ==
    ASSUME Claiming, NEW c \in Calls
    PROVE  /\ call[c] \in CallType /\ WorkKept(call[c]) /\ ClaimKept(call[c])
           /\ call[c].at # "idle" =>
                /\ call[c].r \in Requests /\ rec[call[c].r].state # "absent"
                /\ rec[call[c].r] \in RecordType /\ Proper(rec[call[c].r], rec[call[c].r].kind)
<1>1. call[c] \in CallType /\ WorkKept(call[c]) /\ ClaimKept(call[c])
    BY DEF Claiming, Kept, Typed
<1> QED
    BY <1>1 DEF WorkKept, Claiming, Kept, Typed, RequestKept

LEMMA PresentClaims ==
    ASSUME Claiming, NEW c \in Calls, Present(c) PROVE Claiming'
<1>1. PICK x : x = call[c]
    OBVIOUS
<1>2. x \in CallType /\ WorkKept(x) /\ x.at = "presenting"
    BY <1>1, CallIs DEF Present
<1>3. PICK r \in Requests : r = x.r /\ rec[r].state # "absent"
    BY <1>2 DEF WorkKept
<1>4. CASE End(c)
    BY <1>4, EndClaims
<1>5. CASE ~End(c)
  <2>1. PICK new : new = [x.saw EXCEPT !.presented = TRUE, !.result = x.answer]
      OBVIOUS
  <2>2. PICK w : w = [x EXCEPT !.at = "persisting", !.saw = new]
      OBVIOUS
  <2>3. /\ Matches(rec[r], x.saw) /\ Replace(r, x.saw, new) /\ UNCHANGED caller
        /\ call' = [call EXCEPT ![c] = w]
      BY <1>1, <1>3, <1>5, <2>1, <2>2 DEF Present
  <2>4. /\ Proper(x.saw, rec[r].kind) /\ x.saw.state = "pending" /\ x.answer \in Answers
        /\ ~Passive(r) /\ x.next = "idle" /\ x.saw \in RecordType /\ x.token \in Tokens
      BY <1>2, <1>3 DEF WorkKept, Proper
  <2>5. /\ new \in RecordType /\ new.presented = TRUE /\ new.result = x.answer
        /\ new.state = "pending" /\ new.kind = x.saw.kind /\ new.claim = x.saw.claim
        /\ new.until = x.saw.until /\ new.frozen = x.saw.frozen /\ new.open = x.saw.open
      BY <2>1, <2>4 DEF RecordType
  <2>6. Proper(new, rec[r].kind)
      BY <2>4, <2>5, RequestsAssumption DEF Proper, Term, Passive
  <2>7. /\ w \in CallType /\ w.at = "persisting" /\ w.saw = new /\ w.r = r /\ w.token = x.token
        /\ w.answer = x.answer /\ w.next = x.next /\ w.new = x.new
      BY <1>2, <1>3, <2>2, <2>5 DEF CallType, CallStages
  <2>8. WorkKept(w)
      BY <1>3, <2>4, <2>5, <2>6, <2>7 DEF WorkKept
  <2>9. new.claim = rec[r].claim
      BY <2>3, <2>5 DEF Matches
  <2>10. /\ rec' = [rec EXCEPT ![r] = new] /\ late' = late
         /\ lapsed' = IF new.claim = rec[r].claim THEN lapsed ELSE lapsed \ {r}
         /\ UNCHANGED <<issued, lease, service>>
      BY <2>3, <2>5, <2>9 DEF Replace
  <2>11. PICK v \in CallerType : v = caller[r] /\ caller' = [caller EXCEPT ![r] = v] /\ v.at # "none"
      BY <1>3, <2>3 DEF Claiming, Kept, Typed, RequestKept
  <2>12. call' \in [Calls -> CallType] /\ w.at \notin {"swap", "looked"}
      BY <2>3, <2>7 DEF Claiming, Kept, Typed
  <2>13. NamesKnown(w, x, {})
      BY <1>2, <2>5, <2>7 DEF NamesKnown, UnnamedBy
  <2>14. \A d \in Calls : call'[d] = call[d] \/ (call'[d] = w /\ NamesKnown(w, call[d], {}))
      BY <1>1, <2>3, <2>13 DEF Claiming, Kept, Typed
  <2> QED
      BY <1>3, <2>6, <2>8, <2>9, <2>10, <2>11, <2>12, <2>14, RequestWritten, ZenonT(60)
<1> QED
    BY <1>4, <1>5

\* Any call, once it decides, is about to swap: the record as it is for what is decided.
LEMMA SwappingIs ==
    ASSUME Claiming, NEW w \in CallType, NEW r \in Requests, NEW new \in RecordType,
           NEW next \in {"idle", "beginning"}
    PROVE  LET x == Swapping(w, r, new, next) IN
           /\ x \in CallType /\ x.at = "swap" /\ x.r = r /\ x.saw = rec[r] /\ x.new = new
           /\ x.next = next /\ x.token = w.token /\ x.answer = w.answer
    BY DEF Claiming, Kept, Typed, Swapping, CallType, CallStages

LEMMA ByIs ==
    ASSUME NEW t \in Tokens
    PROVE  By(t) \in CallType /\ By(t).token = t /\ By(t).next = "idle" /\ By(t).at = "idle"
           /\ By(t).saw = Absent /\ By(t).new = Absent
    BY AbsentTyped DEF By, Idle, CallType, CallStages

\* A call decides about a request as it is: with a token that claims it, or has just
\* been made, or of a host.
LEMMA DecisionClaims ==
    ASSUME Claiming, NEW c \in Calls, NEW t \in Tokens, NEW r \in Requests, NEW new \in RecordType,
           NEW next \in {"idle", "beginning"}, Decide(c, t, r, new, next),
           NEW made \in SUBSET (Tasks \ issued), issued' = issued \cup made,
           rec[r].state # "absent", Follows(rec[r], new, rec[r].kind),
           next = "beginning" => ~Passive(r) /\ t \in Hosts,
           \/ new.claim = rec[r].claim
           \/ new.claim = None /\ t = rec[r].claim
           \/ new.claim = t /\ ~Claimed(r) /\ (t \in Hosts \/ t \in made)
    PROVE  Claiming'
<1>1. PICK w : w = Swapping(By(t), r, new, next)
    OBVIOUS
<1>2. /\ w \in CallType /\ w.at = "swap" /\ w.r = r /\ w.saw = rec[r] /\ w.new = new
      /\ w.next = next /\ w.token = t
    BY <1>1, ByIs, SwappingIs
<1>3. /\ call' = [call EXCEPT ![c] = w] /\ UNCHANGED <<rec, caller, time, lease, service>>
      /\ call[c].at = "idle"
    BY <1>1 DEF Decide
<1>4. /\ naming' \in {"open", "required", "chosen"} /\ circuit' \in {"open", "closed"}
      /\ committed' \in [Requests -> Answers \cup {None}]
    BY <1>3 DEF service, Claiming, Kept, Typed
<1>5. WorkKept(w)
    BY <1>2 DEF WorkKept
<1>6. Proper(rec[r], rec[r].kind) /\ rec[r].claim \in Tokens \cup {None}
    BY DEF Follows, Proper, RecordType
<1>7. ~Claimed(r) => SawOver(w)
    BY <1>2, <1>6 DEF Claimed, ClaimOver, SawOver, Proper, Term
<1>8. ClaimKept(w)
    BY <1>2, <1>7 DEF ClaimKept
<1>9. NamesKnown(w, call[c], made)
    BY <1>2, TokensAssumption, RequestsAssumption DEF NamesKnown, UnnamedBy, Tokens
<1>10. SeeksOwn(w, call[c], made)
    BY <1>2, TokensAssumption, RequestsAssumption DEF SeeksOwn, Seeks, Tokens
<1> QED
    BY <1>2, <1>3, <1>4, <1>5, <1>8, <1>9, <1>10, CallWorks

\* A record with a field changed.
LEMMA WithState ==
    ASSUME NEW x \in RecordType, NEW s \in {"failed", "expired"}, NEW y, y = [x EXCEPT !.state = s]
    PROVE  /\ y \in RecordType /\ y.state = s /\ y.claim = x.claim /\ y.until = x.until
           /\ y.kind = x.kind /\ y.presented = x.presented /\ y.result = x.result
           /\ y.frozen = x.frozen /\ y.open = x.open
    BY DEF RecordType

LEMMA WithCircuit ==
    ASSUME NEW x \in RecordType, NEW o \in {"open", "closed"}, NEW y, y = [x EXCEPT !.open = o]
    PROVE  /\ y \in RecordType /\ y.state = x.state /\ y.claim = x.claim /\ y.until = x.until
           /\ y.kind = x.kind /\ y.presented = x.presented /\ y.result = x.result
           /\ y.frozen = x.frozen /\ y.open = o
    BY DEF RecordType

LEMMA WithFrozen ==
    ASSUME NEW x \in RecordType, NEW a \in Answers, NEW y, y = [x EXCEPT !.frozen = a]
    PROVE  /\ y \in RecordType /\ y.state = x.state /\ y.claim = x.claim /\ y.until = x.until
           /\ y.kind = x.kind /\ y.presented = x.presented /\ y.result = x.result
           /\ y.frozen = a /\ y.open = x.open
    BY DEF RecordType

\* A request that is pending has a proper record.
LEMMA FiledIs ==
    ASSUME Claiming, NEW r \in Requests, rec[r].state # "absent"
    PROVE  rec[r] \in RecordType /\ Proper(rec[r], rec[r].kind) /\ rec[r].kind \in {"typed", "spoken", "passive"}
    BY DEF Claiming, Kept, Typed, RequestKept, RecordType

LEMMA NextRequestClaims ==
    ASSUME Claiming, NEW c \in Calls, NEW t \in Tokens, NEW r \in Requests, NextRequest(c, t, r)
    PROVE  Claiming'
<1>1. PICK until \in {"deadline", "never"} : until = IF Bounded(r) THEN "deadline" ELSE "never"
    OBVIOUS
<1>2. PICK next \in {"idle", "beginning"} : next = IF Passive(r) THEN "idle" ELSE "beginning"
    OBVIOUS
<1>3. PICK new : new = [rec[r] EXCEPT !.claim = t, !.until = until]
    OBVIOUS
<1>4. /\ Decide(c, t, r, new, next) /\ issued' = issued \cup {} /\ Queued(r) /\ ~Claimed(r)
      /\ t \in Hosts
    <2>1. Decide(c, t, r, [rec[r] EXCEPT !.claim = t, !.until = IF Bounded(r) THEN "deadline" ELSE "never"],
                 IF Passive(r) THEN "idle" ELSE "beginning")
        BY DEF NextRequest
    <2>2. t \in Hosts
        BY RequestsAssumption DEF NextRequest, Holds, LiveHost, Claiming, Kept, Typed
    <2> QED
        BY <1>1, <1>2, <1>3, <2>1, <2>2 DEF NextRequest, Claimable
<1>5. rec[r].state = "pending"
    BY <1>4 DEF Queued
<1>6. rec[r] \in RecordType /\ Proper(rec[r], rec[r].kind) /\ rec[r].kind \in {"typed", "spoken", "passive"}
    BY <1>5, FiledIs
<1>7. /\ new \in RecordType /\ new.claim = t /\ new.until = until /\ new.state = rec[r].state
      /\ new.kind = rec[r].kind /\ new.presented = rec[r].presented /\ new.result = rec[r].result
      /\ new.frozen = rec[r].frozen /\ new.open = rec[r].open
    BY <1>3, <1>6 DEF RecordType
<1>8. t # None
    BY RequestsAssumption
<1>9. Proper(new, rec[r].kind)
    BY <1>1, <1>4, <1>6, <1>7, <1>8 DEF Proper, Term, Bounded
<1>10. Follows(rec[r], new, rec[r].kind)
    BY <1>5, <1>6, <1>7, <1>9 DEF Follows
<1> QED
    BY <1>2, <1>4, <1>5, <1>7, <1>10, DecisionClaims

LEMMA SensoryClaims ==
    ASSUME Claiming, NEW c \in Calls, NEW t \in Tokens, NEW r \in Requests,
           ClaimSensory(c, t, r) \/ Release(c, t, r) \/ FailSensory(c, t, r)
    PROVE  Claiming'
<1>1. rec[r].state = "pending"
    BY DEF ClaimSensory, Release, FailSensory, Answerable
<1>2. rec[r] \in RecordType /\ Proper(rec[r], rec[r].kind) /\ rec[r].kind \in {"typed", "spoken", "passive"}
    BY <1>1, FiledIs
<1>3. PICK next \in {"idle", "beginning"} : next = "idle"
    OBVIOUS
<1>4. CASE ClaimSensory(c, t, r) /\ r \notin late
  <2>1. PICK until \in {"deadline"} : TRUE
      OBVIOUS
  <2>2. PICK new : new = [rec[r] EXCEPT !.claim = t, !.until = until]
      OBVIOUS
  <2>3. /\ Decide(c, t, r, new, next) /\ issued' = issued \cup {t} /\ t \in Tasks \ issued
        /\ Passive(r) /\ ~Claimed(r)
      BY <1>3, <1>4, <2>1, <2>2 DEF ClaimSensory
  <2>4. /\ new \in RecordType /\ new.claim = t /\ new.until = "deadline" /\ new.state = rec[r].state
        /\ new.kind = rec[r].kind /\ new.presented = rec[r].presented /\ new.result = rec[r].result
        /\ new.frozen = rec[r].frozen /\ new.open = rec[r].open
      BY <1>2, <2>1, <2>2 DEF RecordType
  <2>5. t \notin Hosts /\ t # None
      BY <2>3, TokensAssumption, RequestsAssumption
  <2>6. Proper(new, rec[r].kind)
      BY <1>2, <2>3, <2>4, <2>5 DEF Proper, Term, Passive
  <2>7. Follows(rec[r], new, rec[r].kind)
      BY <1>1, <1>2, <2>4, <2>6 DEF Follows
  <2>8. {t} \in SUBSET (Tasks \ issued)
      BY <2>3
  <2> QED
      BY <1>1, <1>3, <2>3, <2>4, <2>7, <2>8, DecisionClaims
<1>5. CASE (ClaimSensory(c, t, r) /\ r \in late) \/ FailSensory(c, t, r)
  <2>1. PICK state \in {"failed", "expired"} :
          /\ Decide(c, t, r, [rec[r] EXCEPT !.state = state], "idle") /\ issued' = issued /\ Passive(r)
      BY <1>5 DEF ClaimSensory, FailSensory
  <2>2. PICK new : new = [rec[r] EXCEPT !.state = state]
      OBVIOUS
  <2>3. Decide(c, t, r, new, next) /\ issued' = issued \cup {}
      BY <1>3, <2>1, <2>2
  <2>4. /\ new \in RecordType /\ new.state = state /\ new.claim = rec[r].claim
        /\ new.until = rec[r].until /\ new.kind = rec[r].kind /\ new.presented = rec[r].presented
        /\ new.result = rec[r].result /\ new.frozen = rec[r].frozen /\ new.open = rec[r].open
      BY <1>2, <2>2, WithState
  <2>5. Proper(new, rec[r].kind)
      BY <1>2, <2>1, <2>4 DEF Proper, Term, Passive
  <2>6. Follows(rec[r], new, rec[r].kind)
      BY <1>1, <1>2, <2>1, <2>4, <2>5 DEF Follows, Proper, Passive
  <2> QED
      BY <1>1, <1>3, <2>3, <2>4, <2>6, DecisionClaims
<1>6. CASE Release(c, t, r)
  <2>1. PICK until \in {"zero"}, nobody \in {None} : TRUE
      OBVIOUS
  <2>2. PICK new : new = [rec[r] EXCEPT !.claim = nobody, !.until = until]
      OBVIOUS
  <2>3. Decide(c, t, r, new, next) /\ issued' = issued \cup {} /\ rec[r].claim = t
      BY <1>3, <1>6, <2>1, <2>2 DEF Release
  <2>4. /\ new \in RecordType /\ new.claim = None /\ new.until = "zero" /\ new.state = rec[r].state
        /\ new.kind = rec[r].kind /\ new.presented = rec[r].presented /\ new.result = rec[r].result
        /\ new.frozen = rec[r].frozen /\ new.open = rec[r].open
      BY <1>2, <2>1, <2>2 DEF RecordType
  <2>5. Proper(new, rec[r].kind)
      BY <1>2, <2>4 DEF Proper, Term
  <2>6. Follows(rec[r], new, rec[r].kind)
      BY <1>1, <1>2, <2>4, <2>5 DEF Follows
  <2> QED
      BY <1>1, <1>3, <2>3, <2>4, <2>6, DecisionClaims
<1> QED
    BY <1>4, <1>5, <1>6

\* A call at work decides about its request as it is now.
LEMMA WorkSwaps ==
    ASSUME Claiming, NEW c \in Calls, NEW x, x = call[c], x.at \notin {"idle", "swap"},
           NEW new \in RecordType, call' = [call EXCEPT ![c] = Swapping(x, x.r, new, "idle")],
           UNCHANGED <<rec, caller, time, issued, lease, service>>,
           Follows(rec[x.r], new, rec[x.r].kind),
           \/ new.claim = rec[x.r].claim
           \/ Seeks(x) /\ new.claim = x.token /\ ~Claimed(x.r)
    PROVE  Claiming'
<1>1. PICK next \in {"idle", "beginning"} : next = "idle"
    OBVIOUS
<1>2. /\ x \in CallType /\ x.r \in Requests /\ rec[x.r].state # "absent" /\ WorkKept(x)
      /\ Proper(rec[x.r], rec[x.r].kind) /\ x.token \in Tokens
    BY CallIs DEF WorkKept
<1>3. PICK w : w = Swapping(x, x.r, new, next)
    OBVIOUS
<1>4. /\ w \in CallType /\ w.at = "swap" /\ w.r = x.r /\ w.saw = rec[x.r] /\ w.new = new
      /\ w.next = "idle" /\ w.token = x.token
    BY <1>1, <1>2, <1>3, SwappingIs
<1>5. call' = [call EXCEPT ![c] = w] /\ issued' = issued \cup {}
    BY <1>1, <1>3
<1>6. /\ naming' \in {"open", "required", "chosen"} /\ circuit' \in {"open", "closed"}
      /\ committed' \in [Requests -> Answers \cup {None}]
    BY DEF service, Claiming, Kept, Typed
<1>7. WorkKept(w)
    BY <1>2, <1>4 DEF WorkKept
<1>8. ~Claimed(x.r) => SawOver(w)
    BY <1>2, <1>4 DEF Claimed, ClaimOver, SawOver, Proper, Term
<1>9. ClaimKept(w)
    BY <1>4, <1>8 DEF ClaimKept
<1>10. NamesKnown(w, x, {})
    BY <1>2, <1>4 DEF NamesKnown, UnnamedBy, Seeks
<1>11. SeeksOwn(w, x, {})
    BY <1>2, <1>4 DEF SeeksOwn, Seeks
<1> QED
    BY <1>4, <1>5, <1>6, <1>7, <1>9, <1>10, <1>11, CallWorks

\* A call at work goes on with what it has read, changes its record as it read it,
\* or stops.
LEMMA WorkGoesOn ==
    ASSUME Claiming, NEW c \in Calls, NEW x, x = call[c], x.at \notin {"idle", "swap"},
           NEW w \in CallType, call' = [call EXCEPT ![c] = w], w.at # "looked",
           UNCHANGED <<rec, caller, time, issued, lease, naming, circuit>>,
           committed' \in [Requests -> Answers \cup {None}],
           WorkKept(w), w.token \in {x.token, None}, w.saw.claim \in {x.saw.claim, None},
           w.new.claim \in {x.new.claim, x.saw.claim, None},
           w.at = "swap" => w.new.claim = w.saw.claim
    PROVE  Claiming'
<1>1. issued' = issued \cup {}
    OBVIOUS
<1>2. /\ naming' \in {"open", "required", "chosen"} /\ circuit' \in {"open", "closed"}
    BY DEF Claiming, Kept, Typed
<1>3. ClaimKept(w)
    BY DEF ClaimKept
<1>4. NamesKnown(w, x, {})
    BY RequestsAssumption DEF NamesKnown, UnnamedBy, Tokens
<1>5. SeeksOwn(w, x, {})
    BY DEF SeeksOwn, Seeks
<1> QED
    BY <1>1, <1>2, <1>3, <1>4, <1>5, CallWorks

LEMMA IdleEnds ==
    ASSUME Claiming, NEW c \in Calls, call[c].at \notin {"idle", "swap"},
           call' = [call EXCEPT ![c] = Idle],
           UNCHANGED <<rec, caller, time, issued, lease, service>>
    PROVE  Claiming'
<1>1. PICK w : w = Idle
    OBVIOUS
<1>2. committed' \in [Requests -> Answers \cup {None}] /\ UNCHANGED <<naming, circuit>>
    BY DEF service, Claiming, Kept, Typed
<1> QED
    BY <1>1, <1>2, IdleKept, AbsentTyped, WorkGoesOn

LEMMA BeginClaimedClaims ==
    ASSUME Claiming, NEW c \in Calls, BeginClaimed(c) PROVE Claiming'
<1>1. PICK x : x = call[c]
    OBVIOUS
<1>2. /\ x.at = "beginning" /\ x \in CallType /\ x.r \in Requests /\ rec[x.r] \in RecordType
      /\ Proper(rec[x.r], rec[x.r].kind) /\ ~Passive(x.r)
    BY <1>1, CallIs DEF BeginClaimed, WorkKept
<1>3. UNCHANGED <<rec, caller, time, issued, lease, service>>
    BY DEF BeginClaimed
<1>4. CASE rec[x.r].claim = x.token /\ rec[x.r].state = "pending"
  <2>1. PICK o \in {"open", "closed"} : o = circuit
      BY DEF Claiming, Kept, Typed
  <2>2. PICK new : new = [rec[x.r] EXCEPT !.open = o]
      OBVIOUS
  <2>3. call' = [call EXCEPT ![c] = Swapping(x, x.r, new, "idle")]
      BY <1>1, <1>4, <2>1, <2>2 DEF BeginClaimed
  <2>4. /\ new \in RecordType /\ new.state = rec[x.r].state /\ new.claim = rec[x.r].claim
        /\ new.until = rec[x.r].until /\ new.kind = rec[x.r].kind
        /\ new.presented = rec[x.r].presented /\ new.result = rec[x.r].result
        /\ new.frozen = rec[x.r].frozen
      BY <1>2, <2>2, WithCircuit
  <2>5. Proper(new, rec[x.r].kind)
      BY <1>2, <2>4 DEF Proper, Term, Passive
  <2>6. Follows(rec[x.r], new, rec[x.r].kind)
      BY <1>2, <1>4, <2>4, <2>5 DEF Follows
  <2> QED
      BY <1>1, <1>2, <1>3, <2>3, <2>4, <2>6, WorkSwaps
<1>5. CASE ~(rec[x.r].claim = x.token /\ rec[x.r].state = "pending")
  <2>1. call' = [call EXCEPT ![c] = Idle]
      BY <1>1, <1>5 DEF BeginClaimed
  <2> QED
      BY <1>1, <1>2, <1>3, <2>1, IdleEnds
<1> QED
    BY <1>4, <1>5

LEMMA ClaimMessageClaims ==
    ASSUME Claiming, NEW c \in Calls, ClaimMessage(c) PROVE Claiming'
<1>1. PICK x : x = call[c]
    OBVIOUS
<1>2. /\ x.at = "looked" /\ x \in CallType /\ x.r \in Requests /\ rec[x.r] \in RecordType
      /\ Proper(rec[x.r], rec[x.r].kind) /\ ~Passive(x.r)
    BY <1>1, CallIs DEF ClaimMessage, WorkKept
<1>3. UNCHANGED <<rec, caller, time, issued, lease, service>>
    BY DEF ClaimMessage
<1>4. CASE ~Claimed(x.r)
  <2>1. PICK new : new = [rec[x.r] EXCEPT !.claim = x.token, !.until = "lease"]
      OBVIOUS
  <2>2. call' = [call EXCEPT ![c] = Swapping(x, x.r, new, "idle")]
      BY <1>1, <1>4, <2>1 DEF ClaimMessage
  <2>3. x.token \in Tokens
      BY <1>1, <1>2, CallIs DEF WorkKept
  <2>4. /\ new \in RecordType /\ new.claim = x.token /\ new.until = "lease"
        /\ new.state = rec[x.r].state /\ new.kind = rec[x.r].kind
        /\ new.presented = rec[x.r].presented /\ new.result = rec[x.r].result
        /\ new.frozen = rec[x.r].frozen /\ new.open = rec[x.r].open
      BY <1>2, <2>1, <2>3 DEF RecordType
  <2>5. x.token \in Tasks
      BY <1>1, <1>2, CallIs DEF WorkKept
  <2>6. x.token \notin Hosts /\ x.token # None /\ Seeks(x)
      BY <1>2, <2>3, <2>5, TokensAssumption, RequestsAssumption DEF Seeks
  <2>7. Proper(new, rec[x.r].kind)
      BY <1>2, <2>4, <2>6 DEF Proper, Term, Passive
  <2>8. Follows(rec[x.r], new, rec[x.r].kind)
      BY <1>2, <2>4, <2>7 DEF Follows, Proper
  <2> QED
      BY <1>1, <1>2, <1>3, <1>4, <2>2, <2>4, <2>6, <2>8, WorkSwaps
<1>5. CASE Claimed(x.r)
  <2>1. call' = [call EXCEPT ![c] = Idle]
      BY <1>1, <1>5 DEF ClaimMessage
  <2> QED
      BY <1>1, <1>2, <1>3, <2>1, IdleEnds
<1> QED
    BY <1>4, <1>5

LEMMA FinishClaims ==
    ASSUME Claiming, NEW c \in Calls, Finish(c) PROVE Claiming'
<1>1. PICK x : x = call[c]
    OBVIOUS
<1>2. /\ x.at = "finishing" /\ x.r \in Requests /\ rec[x.r] \in RecordType /\ x.answer \in Answers
      /\ Proper(rec[x.r], rec[x.r].kind)
    BY <1>1, CallIs DEF Finish, WorkKept
<1>3. PICK new : new = [rec[x.r] EXCEPT !.state = "complete", !.result = x.answer]
    OBVIOUS
<1>4. /\ UNCHANGED <<rec, caller, time, issued, lease, service>>
      /\ call' = [call EXCEPT ![c] = Swapping(x, x.r, new, "idle")]
    BY <1>1, <1>3 DEF Finish
<1>5. /\ new \in RecordType /\ new.state = "complete" /\ new.claim = rec[x.r].claim
      /\ new.until = rec[x.r].until /\ new.kind = rec[x.r].kind
      /\ new.presented = rec[x.r].presented /\ new.result = x.answer
      /\ new.frozen = rec[x.r].frozen /\ new.open = rec[x.r].open
    BY <1>2, <1>3 DEF RecordType
<1>6. x.answer # None
    BY <1>2, RequestsAssumption
<1>7. Proper(new, rec[x.r].kind)
    BY <1>2, <1>5, <1>6 DEF Proper, Term
<1>8. Follows(rec[x.r], new, rec[x.r].kind)
    BY <1>2, <1>5, <1>7 DEF Follows
<1> QED
    BY <1>1, <1>2, <1>4, <1>5, <1>8, WorkSwaps

\* A frozen answer is kept with the request as it was read.
LEMMA RetainClaims ==
    ASSUME Claiming, NEW c \in Calls, call[c].at \in {"naming", "persisting"}, Retain(c),
           UNCHANGED <<rec, caller, time, issued, lease, service>>
    PROVE  Claiming'
<1>1. PICK x : x = call[c]
    OBVIOUS
<1>2. /\ x \in CallType /\ x.r \in Requests /\ rec[x.r].state # "absent" /\ ~Passive(x.r)
      /\ Proper(x.saw, rec[x.r].kind) /\ x.saw \in RecordType /\ x.saw.state = "pending"
      /\ x.answer \in Answers /\ x.next = "idle" /\ x.token \in Tokens
      /\ x.at \in {"naming", "persisting"}
    BY <1>1, CallIs DEF WorkKept, Proper
<1>3. CASE x.saw.frozen = x.answer
  <2>1. call' = [call EXCEPT ![c] = Idle]
      BY <1>1, <1>3 DEF Retain
  <2> QED
      BY <1>1, <1>2, <2>1, IdleEnds
<1>4. CASE x.saw.frozen # x.answer
  <2>1. PICK new : new = [x.saw EXCEPT !.frozen = x.answer]
      OBVIOUS
  <2>2. PICK w : w = [x EXCEPT !.at = "swap", !.new = new]
      OBVIOUS
  <2>3. call' = [call EXCEPT ![c] = w]
      BY <1>1, <1>4, <2>1, <2>2 DEF Retain
  <2>4. /\ new \in RecordType /\ new.state = x.saw.state /\ new.claim = x.saw.claim
        /\ new.until = x.saw.until /\ new.kind = x.saw.kind
        /\ new.presented = x.saw.presented /\ new.result = x.saw.result /\ new.open = x.saw.open
      BY <1>2, <2>1, WithFrozen
  <2>5. Proper(new, rec[x.r].kind)
      BY <1>2, <2>4 DEF Proper, Term, Passive
  <2>6. Follows(x.saw, new, rec[x.r].kind)
      BY <1>2, <2>4, <2>5 DEF Follows
  <2>7. /\ w \in CallType /\ w.at = "swap" /\ w.new = new /\ w.saw = x.saw /\ w.r = x.r
        /\ w.token = x.token /\ w.next = x.next /\ w.answer = x.answer
      BY <1>2, <2>2, <2>4 DEF CallType, CallStages
  <2>8. WorkKept(w)
      BY <1>2, <2>6, <2>7 DEF WorkKept
  <2>9. /\ UNCHANGED <<naming, circuit>> /\ committed' \in [Requests -> Answers \cup {None}]
      BY DEF service, Claiming, Kept, Typed
  <2> QED
      BY <1>1, <1>2, <2>3, <2>4, <2>7, <2>8, <2>9, WorkGoesOn
<1> QED
    BY <1>3, <1>4

\* A call goes to another stage with all it has.
LEMMA StageClaims ==
    ASSUME Claiming, NEW c \in Calls, NEW x, x = call[c],
           NEW w \in CallType, call' = [call EXCEPT ![c] = w],
           x.at \in {"naming", "presenting", "persisting"},
           w.at \in {"presenting", "persisting", "finishing"},
           w.saw = x.saw, w.new = x.new, w.r = x.r, w.token = x.token, w.next = x.next,
           w.answer = x.answer,
           UNCHANGED <<rec, caller, time, issued, lease, naming, circuit>>,
           committed' \in [Requests -> Answers \cup {None}]
    PROVE  Claiming'
<1>1. x \in CallType /\ WorkKept(x)
    BY CallIs
<1>2. WorkKept(w)
    BY <1>1 DEF WorkKept
<1> QED
    BY <1>2, WorkGoesOn

LEMMA ServiceClaims ==
    ASSUME Claiming, NEW c \in Calls,
           CheckNaming(c) \/ Settle(c) \/ \E outcome \in Outcomes : Serve(c, outcome)
    PROVE  Claiming'
<1>1. PICK x \in CallType : x = call[c] /\ WorkKept(x)
    BY CallIs
<1>2. CASE CheckNaming(c)
  <2>1. x.at = "naming" /\ UNCHANGED <<rec, caller, time, issued, lease, service>>
      BY <1>1, <1>2 DEF CheckNaming
  <2>2. CASE naming = "required"
      BY <1>2, <2>1, <2>2, <1>1, RetainClaims DEF CheckNaming
  <2>3. CASE naming # "required"
    <3>1. PICK to \in {"presenting", "persisting"} : call' = [call EXCEPT ![c] = [x EXCEPT !.at = to]]
        BY <1>1, <1>2, <2>3 DEF CheckNaming
    <3>2. PICK w : w = [x EXCEPT !.at = to]
        OBVIOUS
    <3>3. /\ w \in CallType /\ w.at = to /\ w.saw = x.saw /\ w.new = x.new /\ w.r = x.r
          /\ w.token = x.token /\ w.next = x.next /\ w.answer = x.answer
        BY <3>2 DEF CallType, CallStages
    <3>4. /\ UNCHANGED <<naming, circuit>> /\ committed' \in [Requests -> Answers \cup {None}]
        BY <2>1 DEF service, Claiming, Kept, Typed
    <3> QED
        BY <1>1, <2>1, <3>1, <3>2, <3>3, <3>4, StageClaims
  <2> QED
      BY <2>2, <2>3
<1>3. ASSUME NEW outcome \in Outcomes, Serve(c, outcome) PROVE Claiming'
  <2>1. /\ x.at \in {"presenting", "persisting"}
        /\ UNCHANGED <<rec, caller, time, issued, lease, naming, circuit>>
        /\ call' = [call EXCEPT ![c] = [x EXCEPT !.outcome = outcome]]
        /\ committed' \in {committed, [committed EXCEPT ![x.r] = x.answer]}
      BY <1>1, <1>3 DEF Serve
  <2>2. PICK w : w = [x EXCEPT !.outcome = outcome]
      OBVIOUS
  <2>3. /\ w \in CallType /\ w.at = x.at /\ w.saw = x.saw /\ w.new = x.new /\ w.r = x.r
        /\ w.token = x.token /\ w.next = x.next /\ w.answer = x.answer
      BY <2>2 DEF CallType
  <2>4. committed' \in [Requests -> Answers \cup {None}]
      BY <1>1, <2>1 DEF Claiming, Kept, Typed, WorkKept
  <2>5. call' = [call EXCEPT ![c] = w]
      BY <2>1, <2>2
  <2>6. w.at \in {"presenting", "persisting", "finishing"} /\ x.at \in {"naming", "presenting", "persisting"}
      BY <2>1, <2>3
  <2>7. UNCHANGED <<rec, caller, time, issued, lease, naming, circuit>>
      BY <2>1
  <2> QED
      BY <1>1, <2>3, <2>4, <2>5, <2>6, <2>7, StageClaims
<1>4. CASE Settle(c)
  <2>1. x.at = "persisting" /\ UNCHANGED <<rec, caller, time, issued, lease, service>>
      BY <1>1, <1>4 DEF Settle
  <2>2. x.r \in Requests /\ rec[x.r] \in RecordType /\ Proper(rec[x.r], rec[x.r].kind)
      BY <1>1, <2>1, CallIs
  <2>3. CASE Retain(c)
      BY <1>1, <2>1, <2>3, RetainClaims
  <2>4. CASE call' = [call EXCEPT ![c] = Idle]
      BY <1>1, <2>1, <2>4, IdleEnds
  <2>5. CASE call' = [call EXCEPT ![c].at = "finishing"]
    <3>1. PICK w : w = [x EXCEPT !.at = "finishing"]
        OBVIOUS
    <3>2. /\ w \in CallType /\ w.at = "finishing" /\ w.saw = x.saw /\ w.new = x.new /\ w.r = x.r
          /\ w.token = x.token /\ w.next = x.next /\ w.answer = x.answer
        BY <3>1 DEF CallType, CallStages
    <3>3. /\ UNCHANGED <<naming, circuit>> /\ committed' \in [Requests -> Answers \cup {None}]
        BY <2>1 DEF service, Claiming, Kept, Typed
    <3>4. call' = [call EXCEPT ![c] = w]
        BY <1>1, <2>5, <3>1
    <3> QED
        BY <1>1, <2>1, <3>2, <3>3, <3>4, StageClaims
  <2>6. CASE /\ rec[x.r].state = "pending"
             /\ call' = [call EXCEPT ![c] =
                          Swapping(x, x.r, [rec[x.r] EXCEPT !.state = "failed"], "idle")]
    <3>1. PICK state \in {"failed", "expired"} : state = "failed"
        OBVIOUS
    <3>2. PICK new : new = [rec[x.r] EXCEPT !.state = state]
        OBVIOUS
    <3>3. /\ new \in RecordType /\ new.state = "failed" /\ new.claim = rec[x.r].claim
          /\ new.until = rec[x.r].until /\ new.kind = rec[x.r].kind
          /\ new.presented = rec[x.r].presented /\ new.result = rec[x.r].result
          /\ new.frozen = rec[x.r].frozen /\ new.open = rec[x.r].open
        BY <2>2, <3>1, <3>2, WithState
    <3>4. Proper(new, rec[x.r].kind)
        BY <2>2, <3>3 DEF Proper, Term
    <3>5. Follows(rec[x.r], new, rec[x.r].kind)
        BY <2>2, <2>6, <3>3, <3>4 DEF Follows
    <3>6. call' = [call EXCEPT ![c] = Swapping(x, x.r, new, "idle")]
        BY <2>6, <3>1, <3>2
    <3> QED
        BY <1>1, <2>1, <3>3, <3>5, <3>6, WorkSwaps
  <2> QED
      BY <1>1, <1>4, <2>3, <2>4, <2>5, <2>6 DEF Settle
<1> QED
    BY <1>2, <1>3, <1>4

LEMMA ArrivalClaims ==
    ASSUME Claiming, NEW c \in Calls, NEW t \in Tokens, NEW r \in Requests,
           ReadMessage(c, t, r) \/ \E a \in Replies[t] : Complete(c, t, r, a)
    PROVE  Claiming'
<1>1. UNCHANGED <<rec, caller, time, lease, service>>
    BY DEF ReadMessage, Complete
<1>2. /\ naming' \in {"open", "required", "chosen"} /\ circuit' \in {"open", "closed"}
      /\ committed' \in [Requests -> Answers \cup {None}]
    BY <1>1 DEF service, Claiming, Kept, Typed
<1>3. CASE ReadMessage(c, t, r)
  <2>0. PICK b \in CallType : /\ b = By(t) /\ b.token = t /\ b.saw = Absent /\ b.new = Absent
                              /\ b.next = "idle"
      BY ByIs
  <2>1. PICK w : w = [b EXCEPT !.at = "looked", !.r = r]
      OBVIOUS
  <2>2. /\ w \in CallType /\ w.at = "looked" /\ w.r = r /\ w.token = t /\ w.saw = Absent
        /\ w.new = Absent /\ w.next = "idle"
      BY <2>0, <2>1 DEF CallType, CallStages
  <2>3. /\ call' = [call EXCEPT ![c] = w] /\ issued' = issued \cup {t} /\ t \in Tasks \ issued
        /\ ~Passive(r) /\ rec[r].state # "absent" /\ {t} \in SUBSET (Tasks \ issued)
      BY <1>3, <2>0, <2>1 DEF ReadMessage
  <2>4. WorkKept(w) /\ ClaimKept(w)
      BY <2>2, <2>3 DEF WorkKept, ClaimKept
  <2>5. NamesKnown(w, call[c], {t})
      BY <2>2, AbsentTyped, RequestsAssumption DEF NamesKnown, UnnamedBy, Tokens
  <2>6. SeeksOwn(w, call[c], {t})
      BY <2>2, AbsentTyped, RequestsAssumption DEF SeeksOwn, Tokens
  <2> QED
      BY <1>1, <1>2, <2>2, <2>3, <2>4, <2>5, <2>6, CallWorks
<1>4. ASSUME NEW a \in Replies[t], Complete(c, t, r, a) PROVE Claiming'
  <2>1. PICK at \in {"finishing", "naming"} : at = IF Passive(r) THEN "finishing" ELSE "naming"
      OBVIOUS
  <2>0. PICK b \in CallType : /\ b = By(t) /\ b.token = t /\ b.saw = Absent /\ b.new = Absent
                              /\ b.next = "idle"
      BY ByIs
  <2>2. PICK w : w = [b EXCEPT !.at = at, !.r = r, !.answer = a, !.saw = rec[r]]
      OBVIOUS
  <2>3. call' = [call EXCEPT ![c] = w] /\ issued' = issued \cup {}
      BY <1>4, <2>0, <2>1, <2>2 DEF Complete
  <2>4. rec[r].claim = t /\ rec[r].state = "pending"
      BY <1>4 DEF Complete, Answerable
  <2>5. rec[r] \in RecordType /\ Proper(rec[r], rec[r].kind) /\ a \in Answers
      BY <2>4, FiledIs DEF Answers
  <2>6. /\ w \in CallType /\ w.at = at /\ w.r = r /\ w.token = t /\ w.saw = rec[r]
        /\ w.new = Absent /\ w.next = "idle" /\ w.answer = a
      BY <2>0, <2>2, <2>5 DEF CallType, CallStages
  <2>7. WorkKept(w) /\ ClaimKept(w)
      BY <2>1, <2>4, <2>5, <2>6 DEF WorkKept, ClaimKept
  <2>8. NamesKnown(w, call[c], {})
      BY <2>4, <2>6, AbsentTyped, RequestsAssumption DEF NamesKnown, UnnamedBy, Tokens
  <2>9. SeeksOwn(w, call[c], {})
      BY <2>6 DEF SeeksOwn, Seeks
  <2> QED
      BY <1>1, <1>2, <2>3, <2>6, <2>7, <2>8, <2>9, CallWorks
<1> QED
    BY <1>3, <1>4

LEMMA StepClaims == Claiming /\ [Next]_vars => Claiming'
<1> SUFFICES ASSUME Claiming, [Next]_vars PROVE Claiming'
    OBVIOUS
<1>1. ASSUME NEW c \in Calls,
             Swap(c) \/ SwapLost(c) \/ BeginClaimed(c) \/ ClaimMessage(c) \/ CheckNaming(c)
             \/ Present(c) \/ Settle(c) \/ Finish(c) \/ \E outcome \in Outcomes : Serve(c, outcome)
      PROVE  Claiming'
    BY <1>1, SwapClaims, EndClaims, BeginClaimedClaims, ClaimMessageClaims, ServiceClaims,
       PresentClaims, FinishClaims DEF SwapLost
<1>2. ASSUME NEW c \in Calls, NEW t \in Tokens, NEW r \in Requests,
             NextRequest(c, t, r) \/ ReadMessage(c, t, r) \/ ClaimSensory(c, t, r)
             \/ Release(c, t, r) \/ FailSensory(c, t, r) \/ \E a \in Replies[t] : Complete(c, t, r, a)
      PROVE  Claiming'
    BY <1>2, NextRequestClaims, ArrivalClaims, SensoryClaims
<1>3. ASSUME NEW r \in Requests, CallerStep(r) \/ Leave(r) PROVE Claiming'
    BY <1>3, GetsClaims, LeaveClaims, CallerDecidesClaims, CallerSwapClaims DEF CallerStep
<1>4. ASSUME NEW r \in Requests, NEW kind \in Kinds, Submit(r, kind) PROVE Claiming'
    BY <1>4, SubmitClaims
<1> QED
    BY <1>1, <1>2, <1>3, <1>4, SurroundingsClaim DEF Next

\* The invariant every result of this module rests on.
THEOREM ClaimingHolds == Spec => []Claiming
<1> QED
    BY InitiallyClaiming, StepClaims, PTL DEF Spec

-----------------------------------------------------------------------------
\* A record is written by a swap of a call, by the presentation of an answer, by its
\* caller, or when it is filed.
LEMMA OnlySwapsWrite ==
    ASSUME Next
    PROVE  \/ UNCHANGED rec
           \/ \E c \in Calls : Swap(c) \/ (Present(c) /\ ~End(c))
           \/ \E r \in Requests : CallerSwap(r) \/ \E kind \in Kinds : Submit(r, kind)
<1>1. ASSUME NEW c \in Calls,
             SwapLost(c) \/ BeginClaimed(c) \/ ClaimMessage(c) \/ CheckNaming(c)
             \/ (Present(c) /\ End(c)) \/ Settle(c) \/ Finish(c)
             \/ \E outcome \in Outcomes : Serve(c, outcome)
      PROVE  UNCHANGED rec
    BY <1>1 DEF SwapLost, End, BeginClaimed, ClaimMessage, CheckNaming, Settle, Finish, Serve
<1>2. ASSUME NEW c \in Calls, NEW t \in Tokens, NEW r \in Requests,
             NextRequest(c, t, r) \/ ReadMessage(c, t, r) \/ ClaimSensory(c, t, r)
             \/ Release(c, t, r) \/ FailSensory(c, t, r) \/ \E a \in Replies[t] : Complete(c, t, r, a)
      PROVE  UNCHANGED rec
    BY <1>2 DEF NextRequest, ReadMessage, ClaimSensory, Release, FailSensory, Complete, Decide
<1>3. ASSUME NEW r \in Requests, CallerStep(r) \/ Leave(r), ~CallerSwap(r) PROVE UNCHANGED rec
    BY <1>3 DEF CallerStep, Leave, ReturnAnswer, ReturnFailure, NothingToCancel, Gets, Expire,
                Cancel, CallerDecides, CallerSwapLost
<1>4. ASSUME \/ \E t \in Hosts : AttachChecks(t) \/ AttachWrites(t)
                                \/ \E detach \in BOOLEAN : Renew(t, detach)
             \/ \E t \in Tasks, r \in Requests : TaskBegins(t, r)
             \/ \E r \in Requests : DeadlinePasses(r) \/ LeaseLapses(r)
             \/ Silence \/ NamingMoves \/ CircuitMoves
      PROVE  UNCHANGED rec
    BY <1>4 DEF AttachChecks, AttachWrites, Renew, WriteHost, TaskBegins, DeadlinePasses,
                LeaseLapses, Silence, NamingMoves, CircuitMoves
<1> QED
    BY <1>1, <1>2, <1>3, <1>4 DEF Next

\* What becomes of a record that was filed, in any step: it stays, or it still is what
\* was read of it and becomes what was decided.
Decided(r, saw, new) ==
    Matches(rec[r], saw) /\ Follows(saw, new, rec[r].kind) /\ rec'[r] = new

LEMMA RecordsFollow ==
    ASSUME Claiming, [Next]_vars, NEW r \in Requests, rec[r].state # "absent"
    PROVE  \/ rec'[r] = rec[r]
           \/ \E saw, new : /\ Decided(r, saw, new)
                            /\ \/ new.claim = saw.claim
                               \/ \E c \in Calls : /\ call[c].at = "swap" /\ call[c].r = r
                                                   /\ saw = call[c].saw /\ new = call[c].new
<1>1. CASE UNCHANGED rec
    BY <1>1
<1>2. ASSUME NEW c \in Calls, Swap(c), rec'[r] # rec[r]
      PROVE  \E saw, new : /\ Decided(r, saw, new) /\ call[c].at = "swap" /\ call[c].r = r
                           /\ saw = call[c].saw /\ new = call[c].new
  <2>1. /\ call[c].at = "swap" /\ Matches(rec[call[c].r], call[c].saw)
        /\ rec' = [rec EXCEPT ![call[c].r] = call[c].new]
      BY <1>2 DEF Swap, Replace
  <2>2. call[c].r = r /\ rec'[r] = call[c].new
      BY <1>2, <2>1 DEF Claiming, Kept, Typed
  <2>3. Follows(call[c].saw, call[c].new, rec[r].kind)
      BY <2>1, <2>2, CallIs DEF WorkKept
  <2> QED
      BY <2>1, <2>2, <2>3 DEF Decided
<1>3. ASSUME NEW c \in Calls, Present(c), ~End(c), rec'[r] # rec[r]
      PROVE  \E saw, new : Decided(r, saw, new) /\ new.claim = saw.claim
  <2>1. PICK x : x = call[c] /\ x \in CallType /\ WorkKept(x) /\ x.at = "presenting"
      BY <1>3, CallIs DEF Present
  <2>2. PICK new : new = [x.saw EXCEPT !.presented = TRUE, !.result = x.answer]
      OBVIOUS
  <2>3. Matches(rec[x.r], x.saw) /\ rec' = [rec EXCEPT ![x.r] = new]
      BY <1>3, <2>1, <2>2 DEF Present, Replace
  <2>4. x.r = r /\ rec'[r] = new
      BY <1>3, <2>3 DEF Claiming, Kept, Typed
  <2>5. /\ Proper(x.saw, rec[r].kind) /\ x.saw.state = "pending" /\ x.answer \in Answers
        /\ ~Passive(r) /\ x.saw \in RecordType
      BY <2>1, <2>4 DEF WorkKept, Proper
  <2>6. /\ new \in RecordType /\ new.presented = TRUE /\ new.result = x.answer
        /\ new.state = "pending" /\ new.kind = x.saw.kind /\ new.claim = x.saw.claim
        /\ new.until = x.saw.until /\ new.frozen = x.saw.frozen /\ new.open = x.saw.open
      BY <2>2, <2>5 DEF RecordType
  <2>7. Proper(new, rec[r].kind)
      BY <2>5, <2>6, RequestsAssumption DEF Proper, Term, Passive
  <2>8. Follows(x.saw, new, rec[r].kind)
      BY <2>5, <2>6, <2>7 DEF Follows
  <2> QED
      BY <2>3, <2>4, <2>6, <2>8 DEF Decided
<1>4. ASSUME NEW q \in Requests, CallerSwap(q), rec'[r] # rec[r]
      PROVE  \E saw, new : Decided(r, saw, new) /\ new.claim = saw.claim
  <2>1. /\ caller[q].at \in {"expiring", "cancelling"} /\ Matches(rec[q], caller[q].saw)
        /\ rec' = [rec EXCEPT ![q] = caller[q].new]
      BY <1>4 DEF CallerSwap, Replace
  <2>2. q = r /\ rec'[r] = caller[r].new
      BY <1>4, <2>1 DEF Claiming, Kept, Typed
  <2>3. Follows(caller[r].saw, caller[r].new, rec[r].kind) /\ caller[r].new.claim = caller[r].saw.claim
      BY <2>1, <2>2 DEF Claiming, Kept, RequestKept
  <2> QED
      BY <2>1, <2>2, <2>3 DEF Decided
<1>5. ASSUME NEW q \in Requests, NEW kind \in Kinds, Submit(q, kind) PROVE rec'[r] = rec[r]
  <2>1. caller[q].at = "none" /\ rec' = [rec EXCEPT ![q] = [Absent EXCEPT !.state = "pending", !.kind = kind]]
      BY <1>5 DEF Submit
  <2>2. rec[q].state = "absent"
      BY <2>1 DEF Claiming, Kept, RequestKept
  <2> QED
      BY <2>1, <2>2 DEF Claiming, Kept, Typed
<1>6. CASE UNCHANGED vars
    BY <1>6 DEF vars
<1> QED
    BY <1>1, <1>2, <1>3, <1>4, <1>5, <1>6, OnlySwapsWrite

LEMMA ClaimingTyped == Claiming => TypeOK
<1> SUFFICES ASSUME Claiming PROVE TypeOK
    OBVIOUS
<1>1. ASSUME NEW r \in Requests
      PROVE  /\ Passive(r) => ~rec[r].presented /\ rec[r].frozen = None /\ rec[r].open = "unset"
             /\ ~Bounded(r) => rec[r].state \notin {"expired", "cancelled"} /\ r \notin late
  <2>1. CASE rec[r].state = "absent"
    <3>1. rec[r] = Absent /\ RequestKept(r)
        BY <2>1 DEF Claiming, Kept, RequestKept
    <3> QED
        BY <3>1 DEF Absent, Passive, Bounded, RequestKept
  <2>2. CASE rec[r].state # "absent"
    <3>1. Proper(rec[r], rec[r].kind) /\ RequestKept(r)
        BY <2>2 DEF Claiming, Kept, RequestKept
    <3> QED
        BY <3>1 DEF Proper, Passive, Bounded, RequestKept
  <2> QED
      BY <2>1, <2>2
<1> QED
    BY <1>1 DEF Claiming, Kept, Typed, TypeOK

\* Whoever wants the same request at the same time, nobody loses a claim that is
\* neither over nor given back (next_request, claim_incoming_message and
\* claim_sensory_event of host_runtime.py).
THEOREM ClaimsAlwaysExclusive == Spec => ClaimsAreExclusive
<1> DEFINE Exclusive == \A r \in Requests : Claimed(r) /\ rec[r].state = "pending" =>
              \/ rec'[r].claim = rec[r].claim
              \/ \E c \in Calls : call[c].at = "swap" /\ call[c].token = rec[r].claim
                                  /\ rec'[r] = [call[c].new EXCEPT !.claim = None]
<1>1. Claiming /\ [Next]_vars => Exclusive
  <2> SUFFICES ASSUME Claiming, [Next]_vars, NEW r \in Requests, Claimed(r),
                      rec[r].state = "pending", rec'[r].claim # rec[r].claim
               PROVE  \E c \in Calls : call[c].at = "swap" /\ call[c].token = rec[r].claim
                                       /\ rec'[r] = [call[c].new EXCEPT !.claim = None]
      OBVIOUS
  <2>1. PICK saw, new : /\ Decided(r, saw, new)
                        /\ \/ new.claim = saw.claim
                           \/ \E c \in Calls : /\ call[c].at = "swap" /\ call[c].r = r
                                               /\ saw = call[c].saw /\ new = call[c].new
      BY RecordsFollow
  <2>2. rec'[r] = new /\ saw.claim = rec[r].claim /\ saw.until = rec[r].until
      BY <2>1 DEF Decided, Matches
  <2>3. PICK c \in Calls : /\ call[c].at = "swap" /\ call[c].r = r
                           /\ saw = call[c].saw /\ new = call[c].new
      BY <2>1, <2>2
  <2>4. ClaimKept(call[c]) /\ new.claim # saw.claim
      BY <2>2, CallIs
  <2>5. ~SawOver(call[c])
      BY <2>2, <2>3 DEF SawOver, Claimed, ClaimOver
  <2>6. new.claim = None /\ call[c].token = rec[r].claim
      BY <2>2, <2>3, <2>4, <2>5 DEF ClaimKept
  <2>7. new \in RecordType
      BY <2>1 DEF Decided, Follows, Proper
  <2>8. new = [new EXCEPT !.claim = None]
      BY <2>6, <2>7 DEF RecordType
  <2> QED
      BY <2>2, <2>3, <2>6, <2>8
<1> HIDE DEF Exclusive
<1>2. Claiming /\ [Next]_vars => [Exclusive]_vars
    BY <1>1
<1> QED
    BY <1>2, ClaimingHolds, PTL DEF Spec, ClaimsAreExclusive, Exclusive

-----------------------------------------------------------------------------
\* An attach that may still write found the lease free to take: a host that answers
\* writes the record of its lease, which defeats the attach.
Attachable == \A t \in attaching : LiveHost => HostName[host.token] = HostName[t] \/ silent

\* Only attaches, heartbeats, detaches and silence are about the lease of the host.
LEMMA LeaseMoves ==
    ASSUME [Next]_vars
    PROVE  \/ UNCHANGED lease \/ Silence
           \/ \E t \in Hosts : AttachChecks(t) \/ AttachWrites(t)
                               \/ \E detach \in BOOLEAN : Renew(t, detach)
<1>1. ASSUME NEW c \in Calls,
             Swap(c) \/ SwapLost(c) \/ BeginClaimed(c) \/ ClaimMessage(c) \/ CheckNaming(c)
             \/ Present(c) \/ Settle(c) \/ Finish(c) \/ \E outcome \in Outcomes : Serve(c, outcome)
      PROVE  UNCHANGED lease
    BY <1>1 DEF Swap, Replace, SwapLost, End, BeginClaimed, ClaimMessage, CheckNaming, Present,
                Settle, Finish, Serve
<1>2. ASSUME NEW c \in Calls, NEW t \in Tokens, NEW r \in Requests,
             NextRequest(c, t, r) \/ ReadMessage(c, t, r) \/ ClaimSensory(c, t, r)
             \/ Release(c, t, r) \/ FailSensory(c, t, r) \/ \E a \in Replies[t] : Complete(c, t, r, a)
      PROVE  UNCHANGED lease
    BY <1>2 DEF NextRequest, ReadMessage, ClaimSensory, Release, FailSensory, Complete, Decide
<1>3. ASSUME NEW r \in Requests, CallerStep(r) \/ Leave(r) \/ \E kind \in Kinds : Submit(r, kind)
      PROVE  UNCHANGED lease
    BY <1>3 DEF CallerStep, Leave, ReturnAnswer, ReturnFailure, NothingToCancel, Gets, Expire,
                Cancel, CallerDecides, CallerSwap, Replace, CallerSwapLost, Submit
<1>4. ASSUME \/ \E t \in Tasks, r \in Requests : TaskBegins(t, r)
             \/ \E r \in Requests : DeadlinePasses(r) \/ LeaseLapses(r)
             \/ NamingMoves \/ CircuitMoves \/ UNCHANGED vars
      PROVE  UNCHANGED lease
    BY <1>4 DEF TaskBegins, DeadlinePasses, LeaseLapses, NamingMoves, CircuitMoves, vars
<1> QED
    BY <1>1, <1>2, <1>3, <1>4 DEF Next

LEMMA AttachesFair == Attachable /\ [Next]_vars => Attachable'
<1> SUFFICES ASSUME Attachable, [Next]_vars PROVE Attachable'
    OBVIOUS
<1>1. ASSUME NEW t \in Hosts, AttachChecks(t) PROVE Attachable'
    BY <1>1 DEF AttachChecks, Attachable, LiveHost
<1>2. ASSUME NEW t \in Hosts, AttachWrites(t) \/ \E detach \in BOOLEAN : Renew(t, detach)
      PROVE  Attachable'
    BY <1>2 DEF AttachWrites, Renew, WriteHost, Attachable
<1>3. CASE Silence
    BY <1>3 DEF Silence, Attachable, LiveHost
<1>4. CASE UNCHANGED lease
    BY <1>4 DEF lease, Attachable, LiveHost
<1> QED
    BY <1>1, <1>2, <1>3, <1>4, LeaseMoves

THEOREM AttachableHolds == Spec => []Attachable
<1>1. Init => Attachable
    BY DEF Init, Attachable
<1> QED
    BY <1>1, AttachesFair, PTL DEF Spec

\* A live lease passes to another host only when its holder has been silent since the
\* attach looked at it, or when it gave it up (attach of host_runtime.py).
THEOREM LiveHostAlwaysKept == Spec => LiveHostKept
<1> DEFINE Kept1 == LiveHost /\ host'.token # host.token =>
              silent \/ HostName[host'.token] = HostName[host.token]
<1>1. Attachable /\ [Next]_vars => Kept1
  <2> SUFFICES ASSUME Attachable, [Next]_vars, LiveHost, host'.token # host.token
               PROVE  silent \/ HostName[host'.token] = HostName[host.token]
      OBVIOUS
  <2>1. PICK t \in Hosts : AttachChecks(t) \/ AttachWrites(t) \/ \E detach \in BOOLEAN : Renew(t, detach)
      BY LeaseMoves DEF lease, Silence
  <2>2. t \in attaching /\ host'.token = t
      BY <2>1 DEF AttachChecks, AttachWrites, Renew, WriteHost, Holds
  <2> QED
      BY <2>2 DEF Attachable
<1> HIDE DEF Kept1
<1>2. Attachable /\ [Next]_vars => [Kept1]_vars
    BY <1>1
<1> QED
    BY <1>2, AttachableHolds, PTL DEF Spec, LiveHostKept, Kept1

-----------------------------------------------------------------------------
(* What the answers depend on: how the circuit was, who permitted what, and who *)
(* may still write.                                                             *)

\* Only the record of a request that a host holds tells how the circuit was, and as long
\* as nothing may take it away, it tells how it was when its claimant began.
Tells(x, r) ==
    Secure(r) => \/ x.open = "unset"
                 \/ x.claim \in Hosts /\ rec[r].claim \in Hosts /\ x.open = begun[r]

\* What was read of a request that nobody can answer any more is still so.
Past(x, r) ==
    x.state # "pending" => rec[r].state # "pending" /\ (rec[r].presented => x.presented)

AnsweringRequest(r) ==
    /\ Tells(rec[r], r)
    /\ rec[r].state = "absent" \/ Passive(r) => begun[r] = "unset"
    /\ caller[r].at \in {"expiring", "cancelling"} =>
          /\ Tells(caller[r].saw, r) /\ Tells(caller[r].new, r)
          /\ caller[r].saw.state = "pending" /\ caller[r].new.state # "complete"
          /\ caller[r].new.presented = caller[r].saw.presented
          /\ caller[r].new.result = caller[r].saw.result

\* A completion ends with an answer that its persistence permitted, or that was shown
\* before, and that complete_interaction took.
MayComplete(w) == Passive(w.r) \/ w.r \in permitted \/ rec[w.r].presented
Served(w) == Passive(w.r) \/ w.outcome \in {"committed", "failed", "withheld"}

AnsweringCall(w) ==
    /\ w.at = "swap" =>
          /\ Tells(w.saw, w.r) /\ Tells(w.new, w.r) /\ Past(w.saw, w.r)
          /\ w.new.presented = w.saw.presented
          /\ Secure(w.r) /\ w.saw.claim \in Hosts => w.new.claim = w.saw.claim
          /\ Secure(w.r) /\ w.next = "beginning" => w.saw.claim \notin Hosts /\ w.new.claim \in Hosts
          /\ w.new.state = "complete" => w.saw.state = "complete" \/ MayComplete(w)
          /\ \/ w.new.result = w.saw.result
             \/ w.new.state = "complete" /\ w.new.result = w.answer /\ Served(w)
    /\ w.at = "beginning" /\ Secure(w.r) => begun[w.r] = "unset" /\ rec[w.r].claim \in Hosts
    /\ w.at \in {"naming", "presenting", "persisting"} =>
          /\ Tells(w.saw, w.r)
          /\ w.saw.claim \in Hosts => w.saw.open # "unset"
          /\ w.saw.presented => rec[w.r].presented
    /\ w.at = "presenting" => w.saw.open # "open"
    /\ w.at # "idle" /\ w.outcome \in {"committed", "failed"} => w.r \in permitted
    /\ w.at # "idle" /\ w.outcome = "committed" => committed[w.r] = w.answer /\ w.answer # None
    /\ w.at = "finishing" => MayComplete(w) /\ Served(w)

OneBegins ==
    \A c, d \in Calls :
        call[c].at = "beginning" /\ call[d].at = "beginning" /\ call[c].r = call[d].r
        /\ Secure(call[c].r) => c = d

Answering ==
    /\ begun \in [Requests -> {"unset", "open", "closed"}]
    /\ \A r \in Requests : AnsweringRequest(r)
    /\ \A c \in Calls : AnsweringCall(call[c])
    /\ OneBegins

\* What no step takes back of a request.
Onward(r) ==
    /\ rec'[r].kind = rec[r].kind
    /\ rec[r].presented => rec'[r].presented
    /\ rec[r].state # "pending" => rec'[r].state # "pending" /\ (rec'[r].presented => rec[r].presented)
    /\ r \in late => r \in late'
    /\ rec[r].claim \in Hosts /\ Secure(r) => rec'[r].claim \in Hosts /\ begun[r] \in {"unset", begun'[r]}
    /\ r \in permitted => r \in permitted'
    /\ committed[r] \in {None, committed'[r]}

LEMMA TellsStay ==
    ASSUME NEW r, NEW x, Tells(x, r), Onward(r) PROVE Tells(x, r)'
BY DEF Tells, Secure, Onward

LEMMA CallStays ==
    ASSUME NEW w, AnsweringCall(w), w.at # "idle" => Onward(w.r),
           w.at = "beginning" /\ Secure(w.r) => begun'[w.r] = "unset"
    PROVE  AnsweringCall(w)'
<1>1. CASE w.at = "idle"
  BY <1>1 DEF AnsweringCall
<1>2. CASE w.at # "idle"
  <2>1. PICK r, saw, new : r = w.r /\ saw = w.saw /\ new = w.new
    OBVIOUS
  <2>2. Onward(r)
    BY <1>2, <2>1
  <2>3. /\ Tells(saw, r) => Tells(saw, r)'
        /\ Tells(new, r) => Tells(new, r)'
    BY <2>2, TellsStay
  <2>4. Past(saw, r) => Past(saw, r)'
    BY <2>2 DEF Past, Onward
  <2>5. MayComplete(w) => MayComplete(w)'
    BY <2>1, <2>2 DEF MayComplete, Onward, Passive
  <2>6. Served(w) => Served(w)'
    BY <2>1, <2>2 DEF Served, Onward, Passive
  <2>7. Secure(r)' => Secure(r)
    BY <2>2 DEF Secure, Onward
  <2>8. w.at = "swap" =>
          (/\ Tells(w.saw, w.r) /\ Tells(w.new, w.r) /\ Past(w.saw, w.r)
           /\ w.new.presented = w.saw.presented
           /\ Secure(w.r) /\ w.saw.claim \in Hosts => w.new.claim = w.saw.claim
           /\ Secure(w.r) /\ w.next = "beginning" => w.saw.claim \notin Hosts /\ w.new.claim \in Hosts
           /\ w.new.state = "complete" => w.saw.state = "complete" \/ MayComplete(w)
           /\ \/ w.new.result = w.saw.result
              \/ w.new.state = "complete" /\ w.new.result = w.answer /\ Served(w))'
    BY <2>1, <2>3, <2>4, <2>5, <2>6, <2>7 DEF AnsweringCall
  <2>9. w.at = "beginning" => (Secure(w.r) => begun[w.r] = "unset" /\ rec[w.r].claim \in Hosts)'
    BY <2>1, <2>2, <2>7 DEF AnsweringCall, Onward
  <2>10. w.at \in {"naming", "presenting", "persisting"} =>
          (/\ Tells(w.saw, w.r)
           /\ w.saw.claim \in Hosts => w.saw.open # "unset"
           /\ w.saw.presented => rec[w.r].presented)'
    BY <2>1, <2>2, <2>3 DEF AnsweringCall, Onward
  <2>11. /\ w.outcome \in {"committed", "failed"} => w.r \in permitted'
         /\ w.outcome = "committed" => committed'[w.r] = w.answer /\ w.answer # None
    BY <1>2, <2>1, <2>2 DEF AnsweringCall, Onward
  <2>12. w.at = "finishing" => MayComplete(w)' /\ Served(w)'
    BY <2>5, <2>6 DEF AnsweringCall
  <2>13. w.at = "presenting" => w.saw.open # "open"
    BY DEF AnsweringCall
  <2> QED BY <2>8, <2>9, <2>10, <2>11, <2>12, <2>13 DEF AnsweringCall
<1> QED BY <1>1, <1>2

LEMMA IdleAnswers == AnsweringCall(Idle) /\ AnsweringCall(Idle)'
BY AbsentTyped DEF AnsweringCall

\* A step after which nothing but what its own request and call become is to be shown.
LEMMA Moves ==
    ASSUME Answering, Claiming, \A q \in Requests : Onward(q) \/ rec[q].state = "absent",
           \A q \in Requests : AnsweringRequest(q)',
           \A d \in Calls :
              \/ AnsweringCall(call[d])'
              \/ /\ call'[d] = call[d]
                 /\ call[d].at = "beginning" /\ Secure(call[d].r) => begun'[call[d].r] = "unset",
           begun' \in [Requests -> {"unset", "open", "closed"}], OneBegins'
    PROVE  Answering'
<1>1. ASSUME NEW d \in Calls, call'[d] = call[d],
             call[d].at = "beginning" /\ Secure(call[d].r) => begun'[call[d].r] = "unset"
      PROVE  AnsweringCall(call[d])'
  <2>1. PICK v : v = call[d] /\ v = call'[d] /\ AnsweringCall(v)
    BY <1>1 DEF Answering
  <2>2. call[d].at # "idle" => call[d].r \in Requests /\ rec[call[d].r].state # "absent"
    BY CallIs
  <2>3. v.at # "idle" => Onward(v.r)
    BY <2>1, <2>2
  <2>4. AnsweringCall(v)'
    BY <1>1, <2>1, <2>3, CallStays
  <2> QED BY <2>1, <2>4
<1> QED BY <1>1 DEF Answering

\* A step that leaves requests alone.
Aside ==
    /\ UNCHANGED <<rec, begun, late>> /\ permitted \subseteq permitted'
    /\ \A r \in Requests : committed[r] \in {None, committed'[r]}

LEMMA AsideOnward == ASSUME Aside, NEW r \in Requests PROVE Onward(r)
BY DEF Aside, Onward

LEMMA AsideKeeps ==
    ASSUME Answering, Aside, NEW q \in Requests,
           caller'[q] = caller[q] \/ caller'[q].at \notin {"expiring", "cancelling"}
    PROVE  AnsweringRequest(q)'
<1>1. AnsweringRequest(q) /\ Onward(q)
  BY AsideOnward DEF Answering
<1>2. PICK x, saw, new : x = rec[q] /\ x = rec'[q] /\ saw = caller[q].saw /\ new = caller[q].new
  BY DEF Aside
<1>3. /\ Tells(x, q) => Tells(x, q)'
      /\ Tells(saw, q) => Tells(saw, q)'
      /\ Tells(new, q) => Tells(new, q)'
  BY <1>1, TellsStay
<1>4. begun' = begun
  BY DEF Aside
<1> QED BY <1>1, <1>2, <1>3, <1>4 DEF AnsweringRequest, Passive

\* A step of one call, which reads and decides.
LEMMA CallHolds ==
    ASSUME Answering, Claiming, NEW c \in Calls, NEW w, w.at # "beginning",
           call' = [call EXCEPT ![c] = w], Aside, UNCHANGED caller, AnsweringCall(w)'
    PROVE  Answering'
<1>1. call'[c] = w /\ \A d \in Calls : d # c => call'[d] = call[d]
  BY DEF Claiming, Kept, Typed
<1>2. \A q \in Requests : AnsweringRequest(q)'
  BY AsideKeeps
<1>3. \A q \in Requests : Onward(q)
  BY AsideOnward
<1>4. begun' = begun /\ UNCHANGED late
  BY DEF Aside
<1>5. ASSUME NEW d \in Calls
      PROVE  \/ AnsweringCall(call[d])'
             \/ /\ call'[d] = call[d]
                /\ call[d].at = "beginning" /\ Secure(call[d].r) => begun'[call[d].r] = "unset"
  <2>1. AnsweringCall(call[d])
    BY DEF Answering
  <2>2. CASE d = c
    BY <1>1, <2>2
  <2>3. CASE d # c
    BY <1>1, <1>4, <2>1, <2>3 DEF AnsweringCall
  <2> QED BY <2>2, <2>3
<1>6. OneBegins'
  BY <1>1, <1>4 DEF Answering, OneBegins, Secure
<1>7. begun' \in [Requests -> {"unset", "open", "closed"}]
  BY <1>4 DEF Answering
<1> QED BY <1>2, <1>3, <1>5, <1>6, <1>7, Moves

\* What still is what was read was presented if what was read was.
LEMMA MatchesPresented ==
    ASSUME Claiming, NEW r \in Requests, NEW saw, Matches(rec[r], saw), Past(saw, r),
           rec[r].state # "absent", Proper(saw, rec[r].kind)
    PROVE  rec[r].presented <=> saw.presented
<1>1. Proper(rec[r], rec[r].kind)
  BY FiledIs
<1>2. saw.presented => rec[r].presented
  BY DEF Matches
<1>3. ASSUME rec[r].presented, saw.state = "pending" PROVE saw.presented
  <2>1. rec[r].result # None /\ saw.result = rec[r].result
    BY <1>1, <1>3 DEF Proper, Matches
  <2> QED BY <1>3, <2>1 DEF Proper
<1>4. ASSUME rec[r].presented, saw.state # "pending" PROVE saw.presented
  BY <1>4 DEF Past
<1>5. rec[r].presented \in BOOLEAN /\ saw.presented \in BOOLEAN
  BY <1>1 DEF Proper, RecordType
<1> QED BY <1>2, <1>3, <1>4, <1>5

\* A record is replaced.
LEMMA ReplacedHolds ==
    ASSUME Answering, Claiming, NEW r \in Requests, NEW saw, NEW new, Matches(rec[r], saw),
           Replace(r, saw, new), rec[r].state # "absent", new.kind = rec[r].kind, Tells(new, r),
           rec[r].presented => new.presented,
           rec[r].state # "pending" => new.state # "pending" /\ (new.presented => rec[r].presented),
           new.state # "absent",
           Secure(r) /\ saw.claim \in Hosts => new.claim = saw.claim,
           \A q \in Requests : \/ caller'[q] = caller[q]
                               \/ caller'[q].at \notin {"expiring", "cancelling"},
           \A d \in Calls : call'[d] = call[d] \/ AnsweringCall(call[d])',
           OneBegins'
    PROVE  Answering'
<1>1. /\ rec' = [rec EXCEPT ![r] = new] /\ permitted' = permitted /\ late' = late
      /\ committed' = committed /\ rec[r].claim = saw.claim
      /\ begun' = IF new.claim = saw.claim THEN begun ELSE [begun EXCEPT ![r] = "unset"]
  BY DEF Replace, Matches, service
<1>2. rec'[r] = new /\ \A q \in Requests : q # r => rec'[q] = rec[q]
  BY <1>1 DEF Claiming, Kept, Typed
<1>3. /\ begun' \in [Requests -> {"unset", "open", "closed"}]
      /\ \A q \in Requests : begun'[q] = begun[q] \/ (q = r /\ begun'[q] = "unset")
      /\ new.claim = saw.claim => begun'[r] = begun[r]
  BY <1>1 DEF Answering
<1>4. Onward(r)
  BY <1>1, <1>2, <1>3 DEF Onward
<1>5. \A q \in Requests : Onward(q)
  BY <1>1, <1>2, <1>3, <1>4 DEF Onward
<1>6. ASSUME NEW q \in Requests PROVE AnsweringRequest(q)'
  <2>1. AnsweringRequest(q) /\ Onward(q)
    BY <1>5 DEF Answering
  <2>2. PICK x, s, n : x = rec'[q] /\ s = caller[q].saw /\ n = caller[q].new
    OBVIOUS
  <2>3. Tells(x, q)
    BY <1>2, <2>1, <2>2 DEF AnsweringRequest
  <2>4. /\ Tells(x, q)'
        /\ Tells(s, q) => Tells(s, q)'
        /\ Tells(n, q) => Tells(n, q)'
    BY <2>1, <2>3, TellsStay
  <2>5. rec'[q].kind = rec[q].kind /\ (rec'[q].state = "absent" => rec[q].state = "absent")
    BY <1>2
  <2> QED BY <1>3, <2>1, <2>2, <2>4, <2>5 DEF AnsweringRequest, Passive
<1>7. ASSUME NEW d \in Calls, call'[d] = call[d], call[d].at = "beginning", Secure(call[d].r)
      PROVE  begun'[call[d].r] = "unset"
  <2>1. AnsweringCall(call[d]) /\ call[d].r \in Requests
    BY <1>7, CallIs DEF Answering
  <2> QED BY <1>3, <1>7, <2>1 DEF AnsweringCall
<1> QED BY <1>3, <1>5, <1>6, <1>7, Moves

\* A call decides about a request as it is.
LEMMA DecidesAnswering ==
    ASSUME Answering, Claiming, NEW x \in CallType, NEW r \in Requests, NEW new \in RecordType,
           NEW next \in {"idle", "beginning"}, NEW w, w = Swapping(x, r, new, next), Aside,
           Tells(new, r), new.presented = rec[r].presented,
           Secure(r) /\ rec[r].claim \in Hosts => new.claim = rec[r].claim,
           Secure(r) /\ next = "beginning" => rec[r].claim \notin Hosts /\ new.claim \in Hosts,
           new.state = "complete" => rec[r].state = "complete" \/ (x.r = r /\ MayComplete(x)),
           \/ new.result = rec[r].result
           \/ x.r = r /\ new.state = "complete" /\ new.result = x.answer /\ Served(x),
           x.outcome \in {"committed", "failed"} => r \in permitted,
           x.outcome = "committed" => committed[r] = x.answer /\ x.answer # None
    PROVE  AnsweringCall(w)' /\ w.at = "swap"
<1>1. /\ w.at = "swap" /\ w.r = r /\ w.saw = rec[r] /\ w.new = new /\ w.next = next
      /\ w.outcome = x.outcome /\ w.answer = x.answer
  BY DEF Swapping, CallType
<1>2. Tells(rec[r], r) /\ Past(rec[r], r)
  BY DEF Answering, AnsweringRequest, Past
<1>3. AnsweringCall(w)
  BY <1>1, <1>2 DEF AnsweringCall, MayComplete, Served
<1> QED BY <1>1, <1>3, AsideOnward, CallStays

\* Somebody begins, where nobody had if it is a host that no task can follow.
LEMMA BeginsOnward ==
    ASSUME Answering, NEW r \in Requests, NEW o \in {"open", "closed"}, ~Passive(r),
           rec[r].state # "absent", begun' = [begun EXCEPT ![r] = o],
           UNCHANGED <<rec, caller, late, permitted, committed>>,
           Secure(r) /\ rec[r].claim \in Hosts => begun[r] = "unset"
    PROVE  /\ begun' \in [Requests -> {"unset", "open", "closed"}] /\ begun'[r] = o
           /\ \A q \in Requests : Onward(q) /\ AnsweringRequest(q)'
           /\ \A q \in Requests : q # r => begun'[q] = begun[q]
<1>1. /\ begun' \in [Requests -> {"unset", "open", "closed"}] /\ begun'[r] = o
      /\ \A q \in Requests : q # r => begun'[q] = begun[q]
  BY DEF Answering
<1>2. ASSUME NEW q \in Requests PROVE Onward(q)
  BY <1>1 DEF Onward
<1>3. ASSUME NEW q \in Requests PROVE AnsweringRequest(q)'
  <2>1. AnsweringRequest(q) /\ Onward(q)
    BY <1>2 DEF Answering
  <2>2. PICK x, s, n : x = rec[q] /\ x = rec'[q] /\ s = caller[q].saw /\ n = caller[q].new
    OBVIOUS
  <2>3. /\ Tells(x, q) => Tells(x, q)'
        /\ Tells(s, q) => Tells(s, q)'
        /\ Tells(n, q) => Tells(n, q)'
    BY <2>1, TellsStay
  <2> QED BY <1>1, <2>1, <2>2, <2>3 DEF AnsweringRequest, Passive
<1> QED BY <1>1, <1>2, <1>3

LEMMA BeginClaimedHolds ==
    ASSUME Answering, Claiming, NEW c \in Calls, BeginClaimed(c) PROVE Answering'
<1>1. PICK x : x = call[c] /\ x.at = "beginning" /\ AnsweringCall(x)
  BY DEF BeginClaimed, Answering
<1>2. PICK r \in Requests : r = x.r /\ x \in CallType /\ ~Passive(r) /\ rec[r] \in RecordType
                            /\ rec[r].state # "absent"
  BY <1>1, CallIs DEF WorkKept
<1>3. UNCHANGED <<rec, caller, late, permitted, committed>>
  BY DEF BeginClaimed, time, service
<1>4. Secure(r) => begun[r] = "unset" /\ rec[r].claim \in Hosts
  BY <1>1, <1>2 DEF AnsweringCall
<1>5. CASE call' = [call EXCEPT ![c] = Idle] /\ UNCHANGED begun
  <2>1. Aside
    BY <1>3, <1>5 DEF Aside
  <2> QED BY <1>3, <1>5, <2>1, IdleAnswers, AbsentTyped, CallHolds
<1>6. CASE ~(call' = [call EXCEPT ![c] = Idle] /\ UNCHANGED begun)
  <2>1. PICK o \in {"open", "closed"} : o = circuit
    BY DEF Claiming, Kept, Typed
  <2>2. PICK new : new = [rec[r] EXCEPT !.open = o]
    OBVIOUS
  <2>3. PICK w : w = Swapping(x, r, new, "idle")
    OBVIOUS
  <2>4. /\ call' = [call EXCEPT ![c] = w] /\ begun' = [begun EXCEPT ![r] = o]
        /\ rec[r].state = "pending"
    BY <1>1, <1>2, <1>6, <2>1, <2>2, <2>3 DEF BeginClaimed
  <2>5. /\ new.state = rec[r].state /\ new.claim = rec[r].claim /\ new.result = rec[r].result
        /\ new.presented = rec[r].presented /\ new.open = o
    BY <1>2, <2>2, WithCircuit
  <2>6. /\ w.at = "swap" /\ w.r = r /\ w.saw = rec[r] /\ w.new = new /\ w.next = "idle"
        /\ w.outcome = x.outcome /\ w.answer = x.answer
    BY <1>2, <2>3 DEF Swapping, CallType
  <2>7. /\ begun' \in [Requests -> {"unset", "open", "closed"}] /\ begun'[r] = o
        /\ \A q \in Requests : Onward(q) /\ AnsweringRequest(q)'
        /\ \A q \in Requests : q # r => begun'[q] = begun[q]
    BY <1>2, <1>3, <1>4, <2>4, BeginsOnward
  <2>8. AnsweringCall(w)'
    <3>1. Tells(w.saw, w.r)' /\ Past(w.saw, w.r)'
      BY <1>3, <2>6, <2>7 DEF AnsweringRequest, Past
    <3>2. Tells(w.new, w.r)'
      BY <1>3, <1>4, <2>5, <2>6, <2>7 DEF Tells, Secure
    <3>3. /\ w.outcome \in {"committed", "failed"} => w.r \in permitted'
          /\ w.outcome = "committed" => committed'[w.r] = w.answer /\ w.answer # None
      BY <1>1, <1>2, <1>3, <2>6 DEF AnsweringCall
    <3> QED BY <2>4, <2>5, <2>6, <3>1, <3>2, <3>3 DEF AnsweringCall
  <2>9. \A d \in Calls : (d = c /\ call'[d] = w) \/ (d # c /\ call'[d] = call[d])
    BY <2>4 DEF Claiming, Kept, Typed
  <2>10. ASSUME NEW d \in Calls
         PROVE  \/ AnsweringCall(call[d])'
                \/ /\ call'[d] = call[d]
                   /\ call[d].at = "beginning" /\ Secure(call[d].r) => begun'[call[d].r] = "unset"
    <3>1. CASE d = c
      BY <2>8, <2>9, <3>1
    <3>2. CASE d # c
      <4>1. call'[d] = call[d] /\ AnsweringCall(call[d])
        BY <2>9, <3>2 DEF Answering
      <4>2. ASSUME call[d].at = "beginning", Secure(call[d].r) PROVE begun'[call[d].r] = "unset"
        <5>1. call[d].r # r
          BY <1>1, <1>2, <3>2, <4>2 DEF Answering, OneBegins
        <5>2. call[d].r \in Requests
          BY <4>2, CallIs
        <5> QED BY <2>7, <4>1, <4>2, <5>1, <5>2 DEF AnsweringCall
      <4> QED BY <4>1, <4>2
    <3> QED BY <3>1, <3>2
  <2>11. OneBegins'
    BY <1>3, <2>6, <2>9 DEF Answering, OneBegins, Secure
  <2> QED BY <2>7, <2>10, <2>11, Moves
<1> QED BY <1>5, <1>6

\* The task of a message begins it.
LEMMA TaskBeginsHolds ==
    ASSUME Answering, Claiming, NEW t \in Tasks, NEW r \in Requests, TaskBegins(t, r)
    PROVE  Answering'
<1>1. PICK o \in {"open", "closed"} : o = circuit
  BY DEF Claiming, Kept, Typed
<1>2. /\ begun' = [begun EXCEPT ![r] = o] /\ ~Passive(r) /\ rec[r].claim = t
      /\ UNCHANGED <<rec, caller, call, late, permitted, committed>>
  BY <1>1 DEF TaskBegins, time, service
<1>3. rec[r].claim \notin Hosts /\ rec[r].state # "absent"
  <2>1. t \notin Hosts /\ t # None
    BY TokensAssumption, RequestsAssumption DEF Tokens
  <2> QED BY <1>2, <2>1, AbsentTyped DEF Claiming, Kept, RequestKept
<1>4. /\ begun' \in [Requests -> {"unset", "open", "closed"}]
      /\ \A q \in Requests : Onward(q) /\ AnsweringRequest(q)'
      /\ \A q \in Requests : q # r => begun'[q] = begun[q]
  BY <1>2, <1>3, BeginsOnward
<1>5. ASSUME NEW d \in Calls, call[d].at = "beginning", Secure(call[d].r)
      PROVE  begun'[call[d].r] = "unset"
  <2>1. AnsweringCall(call[d]) /\ call[d].r \in Requests
    BY <1>5, CallIs DEF Answering
  <2> QED BY <1>3, <1>4, <1>5, <2>1 DEF AnsweringCall
<1>6. OneBegins'
  BY <1>2 DEF Answering, OneBegins, Secure
<1> QED BY <1>2, <1>4, <1>5, <1>6, Moves

-----------------------------------------------------------------------------
\* What nobody may lose is not taken over: a host's claim lasts until the deadline.
LEMMA FreeIsNoHosts ==
    ASSUME Claiming, NEW r \in Requests, rec[r].state # "absent", ~Claimed(r),
           r \in late => Tasks # {}, Secure(r)
    PROVE  rec[r].claim \notin Hosts
<1>1. rec[r] \in RecordType /\ Proper(rec[r], rec[r].kind)
  BY FiledIs
<1>2. r \notin late
  BY DEF Secure
<1>3. ASSUME rec[r].claim \in Hosts PROVE FALSE
  <2>1. rec[r].claim # None
    BY <1>3, RequestsAssumption DEF Tokens
  <2> QED BY <1>1, <1>2, <1>3, <2>1 DEF Claimed, ClaimOver, Proper, Term
<1> QED BY <1>3

\* A call comes and decides about a request.
LEMMA DecisionHolds ==
    ASSUME Answering, Claiming, NEW c \in Calls, NEW t \in Tokens, NEW r \in Requests,
           NEW new \in RecordType, NEW next \in {"idle", "beginning"}, Decide(c, t, r, new, next),
           new.open = rec[r].open, new.presented = rec[r].presented, new.result = rec[r].result,
           new.state = "complete" => rec[r].state = "complete",
           Secure(r) /\ rec[r].claim \in Hosts => new.claim = rec[r].claim,
           Secure(r) /\ next = "beginning" => rec[r].claim \notin Hosts /\ new.claim \in Hosts
    PROVE  Answering'
<1>1. PICK x \in CallType : x = By(t) /\ x.outcome = "none"
  BY ByIs DEF By, Idle
<1>2. PICK w : w = Swapping(x, r, new, next)
  OBVIOUS
<1>3. /\ call' = [call EXCEPT ![c] = w] /\ UNCHANGED caller /\ Aside
  BY <1>1, <1>2 DEF Decide, observers, service, time, Aside
<1>4. Tells(new, r)
  <2>1. Tells(rec[r], r)
    BY DEF Answering, AnsweringRequest
  <2> QED BY <2>1 DEF Tells
<1>5. AnsweringCall(w)' /\ w.at = "swap"
  BY <1>1, <1>2, <1>3, <1>4, DecidesAnswering
<1> QED BY <1>3, <1>5, CallHolds

LEMMA NextRequestHolds ==
    ASSUME Answering, Claiming, NEW c \in Calls, NEW t \in Tokens, NEW r \in Requests,
           NextRequest(c, t, r)
    PROVE  Answering'
<1>1. PICK until \in {"deadline", "never"} : until = IF Bounded(r) THEN "deadline" ELSE "never"
  OBVIOUS
<1>2. PICK next \in {"idle", "beginning"} : next = IF Passive(r) THEN "idle" ELSE "beginning"
  OBVIOUS
<1>3. PICK new : new = [rec[r] EXCEPT !.claim = t, !.until = until]
  OBVIOUS
<1>4. Decide(c, t, r, new, next) /\ Claimable(r) /\ Holds(t)
  BY <1>1, <1>2, <1>3 DEF NextRequest
<1>5. rec[r].state = "pending" /\ ~Claimed(r) /\ r \notin late /\ t \in Hosts
  BY <1>4, RequestsAssumption DEF Claimable, Queued, Holds, LiveHost, Claiming, Kept, Typed
<1>6. rec[r] \in RecordType
  BY <1>5, FiledIs
<1>7. /\ new \in RecordType /\ new.claim = t /\ new.state = rec[r].state
      /\ new.presented = rec[r].presented /\ new.open = rec[r].open /\ new.result = rec[r].result
  BY <1>3, <1>6 DEF RecordType
<1>8. Secure(r) => rec[r].claim \notin Hosts
  BY <1>5, FreeIsNoHosts
<1> QED BY <1>2, <1>4, <1>5, <1>7, <1>8, DecisionHolds

LEMMA SensoryHolds ==
    ASSUME Answering, Claiming, NEW c \in Calls, NEW t \in Tokens, NEW r \in Requests,
           ClaimSensory(c, t, r) \/ FailSensory(c, t, r) \/ Release(c, t, r)
    PROVE  Answering'
<1>1. rec[r].state = "pending"
  BY DEF ClaimSensory, FailSensory, Answerable, Release
<1>2. rec[r] \in RecordType
  BY <1>1, FiledIs
<1>3. PICK next \in {"idle", "beginning"} : next = "idle"
  OBVIOUS
<1>4. ASSUME NEW s \in {"failed", "expired"}, NEW new, new = [rec[r] EXCEPT !.state = s],
             Decide(c, t, r, new, next)
      PROVE  Answering'
  <2>1. /\ new \in RecordType /\ new.claim = rec[r].claim /\ new.state = s
        /\ new.presented = rec[r].presented /\ new.open = rec[r].open /\ new.result = rec[r].result
    BY <1>2, <1>4, WithState
  <2>2. new.state # "complete"
    BY <2>1
  <2> QED BY <1>3, <1>4, <2>1, <2>2, DecisionHolds
<1>5. CASE FailSensory(c, t, r)
  <2>1. Decide(c, t, r, [rec[r] EXCEPT !.state = "failed"], next)
    BY <1>3, <1>5 DEF FailSensory
  <2> QED BY <1>4, <2>1
<1>6. ASSUME ClaimSensory(c, t, r), r \in late PROVE Answering'
  <2>1. Decide(c, t, r, [rec[r] EXCEPT !.state = "expired"], next)
    BY <1>3, <1>6 DEF ClaimSensory
  <2> QED BY <1>4, <2>1
<1>7. ASSUME ClaimSensory(c, t, r), r \notin late PROVE Answering'
  <2>1. PICK new : new = [rec[r] EXCEPT !.claim = t, !.until = "deadline"]
    OBVIOUS
  <2>2. Decide(c, t, r, new, next) /\ ~Claimed(r)
    BY <1>3, <1>7, <2>1 DEF ClaimSensory
  <2>3. /\ new \in RecordType /\ new.claim = t /\ new.state = rec[r].state
        /\ new.presented = rec[r].presented /\ new.open = rec[r].open /\ new.result = rec[r].result
    BY <1>2, <2>1 DEF RecordType
  <2>4. Secure(r) => rec[r].claim \notin Hosts
    BY <1>1, <1>7, <2>2, FreeIsNoHosts
  <2> QED BY <1>3, <2>2, <2>3, <2>4, DecisionHolds
<1>8. CASE Release(c, t, r)
  <2>1. PICK new : new = [rec[r] EXCEPT !.claim = None, !.until = "zero"]
    OBVIOUS
  <2>2. Decide(c, t, r, new, next) /\ rec[r].claim \in Tasks
    BY <1>3, <1>8, <2>1 DEF Release
  <2>3. /\ new \in RecordType /\ new.state = rec[r].state
        /\ new.presented = rec[r].presented /\ new.open = rec[r].open /\ new.result = rec[r].result
    BY <1>2, <2>1 DEF RecordType
  <2>4. rec[r].claim \notin Hosts
    BY <2>2, TokensAssumption
  <2> QED BY <1>3, <2>2, <2>3, <2>4, DecisionHolds
<1> QED BY <1>5, <1>6, <1>7, <1>8

LEMMA ClaimMessageHolds ==
    ASSUME Answering, Claiming, NEW c \in Calls, ClaimMessage(c) PROVE Answering'
<1>1. PICK x : x = call[c] /\ x \in CallType /\ AnsweringCall(x)
  BY CallIs DEF Answering
<1>2. PICK r \in Requests : r = x.r /\ x.at = "looked" /\ rec[r] \in RecordType
                            /\ rec[r].state # "absent" /\ x.token \in Tasks
  BY <1>1, CallIs DEF ClaimMessage, WorkKept
<1>3. UNCHANGED caller /\ Aside
  BY DEF ClaimMessage, observers, service, time, Aside
<1>4. CASE Claimed(r)
  <2>1. call' = [call EXCEPT ![c] = Idle]
    BY <1>1, <1>2, <1>4 DEF ClaimMessage
  <2> QED BY <1>3, <2>1, IdleAnswers, AbsentTyped, CallHolds
<1>5. CASE ~Claimed(r)
  <2>1. PICK new : new = [rec[r] EXCEPT !.claim = x.token, !.until = "lease"]
    OBVIOUS
  <2>2. PICK w : w = Swapping(x, r, new, "idle")
    OBVIOUS
  <2>3. call' = [call EXCEPT ![c] = w]
    BY <1>1, <1>2, <1>5, <2>1, <2>2 DEF ClaimMessage
  <2>4. /\ new \in RecordType /\ new.state = rec[r].state
        /\ new.presented = rec[r].presented /\ new.open = rec[r].open /\ new.result = rec[r].result
    BY <1>2, <2>1 DEF RecordType, Tokens
  <2>5. Secure(r) => rec[r].claim \notin Hosts
    BY <1>2, <1>5, FreeIsNoHosts
  <2>6. Tells(new, r)
    <3>1. Tells(rec[r], r)
      BY DEF Answering, AnsweringRequest
    <3> QED BY <2>4, <2>5, <3>1 DEF Tells
  <2>7. /\ x.outcome \in {"committed", "failed"} => r \in permitted
        /\ x.outcome = "committed" => committed[r] = x.answer /\ x.answer # None
    BY <1>1, <1>2 DEF AnsweringCall
  <2>8. AnsweringCall(w)' /\ w.at = "swap"
    BY <1>1, <1>3, <2>2, <2>4, <2>5, <2>6, <2>7, DecidesAnswering
  <2> QED BY <1>3, <2>3, <2>8, CallHolds
<1> QED BY <1>4, <1>5

\* A call arrives with a message to claim, or with an answer.
LEMMA ArrivalHolds ==
    ASSUME Answering, Claiming, NEW c \in Calls, NEW t \in Tokens, NEW r \in Requests,
           ReadMessage(c, t, r) \/ \E a \in Replies[t] : Complete(c, t, r, a)
    PROVE  Answering'
<1>1. PICK x \in CallType : x = By(t) /\ x.outcome = "none"
  BY ByIs DEF By, Idle
<1>2. UNCHANGED caller /\ Aside
  BY DEF ReadMessage, Complete, observers, service, time, Aside
<1>3. CASE ReadMessage(c, t, r)
  <2>1. PICK w : w = [x EXCEPT !.at = "looked", !.r = r]
    OBVIOUS
  <2>2. call' = [call EXCEPT ![c] = w] /\ w.at = "looked" /\ w.outcome = "none"
    BY <1>1, <1>3, <2>1 DEF ReadMessage, CallType
  <2>3. AnsweringCall(w)'
    BY <2>2 DEF AnsweringCall
  <2> QED BY <1>2, <2>2, <2>3, CallHolds
<1>4. ASSUME NEW a \in Replies[t], Complete(c, t, r, a) PROVE Answering'
  <2>1. PICK at \in {"finishing", "naming"} : at = IF Passive(r) THEN "finishing" ELSE "naming"
    OBVIOUS
  <2>2. PICK w : w = [x EXCEPT !.at = at, !.r = r, !.answer = a, !.saw = rec[r]]
    OBVIOUS
  <2>3. /\ call' = [call EXCEPT ![c] = w] /\ rec[r].claim = t
    BY <1>1, <1>4, <2>1, <2>2 DEF Complete, Answerable
  <2>4. w.at = at /\ w.r = r /\ w.saw = rec[r] /\ w.outcome = "none"
    BY <1>1, <2>2 DEF CallType
  <2>5. ~Passive(r) /\ rec[r].claim \in Hosts => rec[r].open # "unset"
    BY <1>4, <2>3 DEF Complete
  <2>6. Tells(rec[r], r)
    BY DEF Answering, AnsweringRequest
  <2>7. AnsweringCall(w)
    BY <2>1, <2>4, <2>5, <2>6 DEF AnsweringCall, MayComplete, Served
  <2>8. AnsweringCall(w)'
    BY <1>2, <2>1, <2>4, <2>7, AsideOnward, CallStays
  <2> QED BY <1>2, <2>1, <2>3, <2>4, <2>8, CallHolds
<1> QED BY <1>3, <1>4

-----------------------------------------------------------------------------
\* A frozen answer is kept with the request as it was read.
LEMMA RetainHolds ==
    ASSUME Answering, Claiming, NEW c \in Calls, call[c].at \in {"naming", "persisting"}, Retain(c),
           UNCHANGED caller, Aside
    PROVE  Answering'
<1>1. PICK x : x = call[c] /\ x \in CallType /\ WorkKept(x) /\ AnsweringCall(x)
  BY CallIs DEF Answering
<1>2. x.at \in {"naming", "persisting"} /\ x.next = "idle" /\ x.saw.state = "pending"
      /\ x.r \in Requests /\ x.saw \in RecordType
  BY <1>1 DEF WorkKept, Proper
<1>3. CASE call' = [call EXCEPT ![c] = Idle]
  BY <1>3, IdleAnswers, AbsentTyped, CallHolds
<1>4. CASE call' # [call EXCEPT ![c] = Idle]
  <2>1. PICK new : new = [x.saw EXCEPT !.frozen = x.answer]
    OBVIOUS
  <2>2. PICK w : w = [x EXCEPT !.at = "swap", !.new = new]
    OBVIOUS
  <2>3. call' = [call EXCEPT ![c] = w]
    BY <1>1, <1>4, <2>1, <2>2 DEF Retain
  <2>4. /\ new.state = "pending" /\ new.claim = x.saw.claim /\ new.result = x.saw.result
        /\ new.presented = x.saw.presented /\ new.open = x.saw.open
    BY <1>2, <2>1 DEF RecordType
  <2>5. /\ w.at = "swap" /\ w.new = new /\ w.saw = x.saw /\ w.r = x.r /\ w.next = "idle"
        /\ w.outcome = x.outcome /\ w.answer = x.answer
    BY <1>1, <1>2, <2>2 DEF CallType
  <2>6. Tells(w.saw, w.r) /\ Tells(w.new, w.r) /\ Past(w.saw, w.r)
    BY <1>1, <1>2, <2>4, <2>5 DEF AnsweringCall, Tells, Past
  <2>7. AnsweringCall(w)
    BY <1>1, <1>2, <2>4, <2>5, <2>6 DEF AnsweringCall
  <2>8. AnsweringCall(w)'
    BY <1>2, <2>5, <2>7, AsideOnward, CallStays
  <2> QED BY <2>3, <2>5, <2>8, CallHolds
<1> QED BY <1>3, <1>4

LEMMA CheckNamingHolds ==
    ASSUME Answering, Claiming, NEW c \in Calls, CheckNaming(c) PROVE Answering'
<1>1. PICK x : x = call[c] /\ x \in CallType /\ AnsweringCall(x) /\ WorkKept(x)
  BY CallIs DEF Answering
<1>2. x.at = "naming" /\ x.r \in Requests /\ UNCHANGED caller /\ Aside
  BY <1>1 DEF CheckNaming, WorkKept, observers, service, time, Aside
<1>3. CASE naming = "required"
  BY <1>1, <1>2, <1>3, RetainHolds DEF CheckNaming
<1>4. CASE naming # "required"
  <2>1. PICK to \in {"presenting", "persisting"} :
          /\ call' = [call EXCEPT ![c] = [x EXCEPT !.at = to]]
          /\ to = "presenting" => x.saw.open # "open"
    BY <1>1, <1>4 DEF CheckNaming, MayRelease
  <2>2. PICK w : w = [x EXCEPT !.at = to]
    OBVIOUS
  <2>3. w.at = to /\ w.r = x.r /\ w.saw = x.saw /\ w.outcome = x.outcome /\ w.answer = x.answer
    BY <1>1, <2>2 DEF CallType
  <2>4. AnsweringCall(w)
    BY <1>1, <1>2, <2>1, <2>3 DEF AnsweringCall
  <2>5. AnsweringCall(w)'
    BY <1>2, <2>1, <2>3, <2>4, AsideOnward, CallStays
  <2> QED BY <1>2, <2>1, <2>2, <2>3, <2>5, CallHolds
<1> QED BY <1>3, <1>4

\* What was permitted is permitted from then on, and what was committed stays.
LEMMA ServeHolds ==
    ASSUME Answering, Claiming, NEW c \in Calls, NEW outcome \in Outcomes, Serve(c, outcome)
    PROVE  Answering'
<1>1. PICK x : x = call[c] /\ x \in CallType /\ AnsweringCall(x) /\ WorkKept(x)
  BY CallIs DEF Answering
<1>2. PICK r \in Requests : r = x.r /\ x.answer \in Answers
  BY <1>1 DEF Serve, WorkKept
<1>3. /\ x.at \in {"presenting", "persisting"} /\ UNCHANGED <<rec, caller, begun, late>>
      /\ call' = [call EXCEPT ![c] = [x EXCEPT !.outcome = outcome]]
      /\ permitted \subseteq permitted'
      /\ outcome \in {"committed", "failed"} => r \in permitted'
      /\ outcome = "committed" =>
            committed[r] \in {None, x.answer} /\ committed' = [committed EXCEPT ![r] = x.answer]
      /\ outcome # "committed" => committed' = committed
  BY <1>1, <1>2 DEF Serve, time
<1>4. committed \in [Requests -> Answers \cup {None}]
  BY DEF Claiming, Kept, Typed
<1>5. \A q \in Requests : committed[q] \in {None, committed'[q]}
  BY <1>2, <1>3, <1>4
<1>6. Aside
  BY <1>3, <1>5 DEF Aside
<1>7. PICK w : w = [x EXCEPT !.outcome = outcome]
  OBVIOUS
<1>8. w.at = x.at /\ w.r = r /\ w.saw = x.saw /\ w.outcome = outcome /\ w.answer = x.answer
  BY <1>1, <1>2, <1>7 DEF CallType
<1>9. /\ outcome = "committed" => committed'[r] = x.answer /\ x.answer # None
  BY <1>2, <1>3, <1>4, RequestsAssumption
<1>10. Tells(x.saw, r)'
  BY <1>1, <1>2, <1>3, <1>6, AsideOnward, TellsStay DEF AnsweringCall
<1>11. AnsweringCall(w)'
  BY <1>1, <1>2, <1>3, <1>8, <1>9, <1>10 DEF AnsweringCall
<1> QED BY <1>3, <1>6, <1>7, <1>8, <1>11, CallHolds

LEMMA FinishHolds ==
    ASSUME Answering, Claiming, NEW c \in Calls, Finish(c) PROVE Answering'
<1>1. PICK x : x = call[c] /\ x \in CallType /\ AnsweringCall(x)
  BY CallIs DEF Answering
<1>2. PICK r \in Requests : r = x.r /\ x.at = "finishing" /\ rec[r] \in RecordType
  BY <1>1, CallIs DEF Finish
<1>3. PICK new : new = [rec[r] EXCEPT !.state = "complete", !.result = x.answer]
  OBVIOUS
<1>4. PICK w : w = Swapping(x, r, new, "idle")
  OBVIOUS
<1>5. call' = [call EXCEPT ![c] = w] /\ UNCHANGED caller /\ Aside
  BY <1>1, <1>2, <1>3, <1>4 DEF Finish, observers, service, time, Aside
<1>6. /\ new \in RecordType /\ new.claim = rec[r].claim /\ new.state = "complete"
      /\ new.presented = rec[r].presented /\ new.open = rec[r].open /\ new.result = x.answer
  <2>1. x.answer \in Answers \cup {None}
    BY <1>1 DEF CallType
  <2> QED BY <1>2, <1>3, <2>1 DEF RecordType
<1>7. Tells(new, r)
  <2>1. Tells(rec[r], r)
    BY DEF Answering, AnsweringRequest
  <2> QED BY <1>6, <2>1 DEF Tells
<1>8. /\ MayComplete(x) /\ Served(x)
      /\ x.outcome \in {"committed", "failed"} => r \in permitted
      /\ x.outcome = "committed" => committed[r] = x.answer /\ x.answer # None
  BY <1>1, <1>2 DEF AnsweringCall
<1>9. AnsweringCall(w)' /\ w.at = "swap"
  BY <1>1, <1>2, <1>4, <1>5, <1>6, <1>7, <1>8, DecidesAnswering
<1> QED BY <1>5, <1>9, CallHolds

\* An answer is withheld, or was presented before.
LEMMA SettleHolds ==
    ASSUME Answering, Claiming, NEW c \in Calls, Settle(c) PROVE Answering'
<1>1. PICK x : x = call[c] /\ x \in CallType /\ AnsweringCall(x)
  BY CallIs DEF Answering
<1>2. PICK r \in Requests : r = x.r /\ x.at = "persisting" /\ rec[r] \in RecordType /\ x.outcome # "none"
  BY <1>1, CallIs DEF Settle
<1>3. UNCHANGED caller /\ Aside
  BY DEF Settle, observers, service, time, Aside
<1>4. /\ Tells(x.saw, r) /\ (x.outcome \in {"committed", "failed"} => r \in permitted)
      /\ x.outcome = "committed" => committed[r] = x.answer /\ x.answer # None
      /\ x.saw.presented => rec[r].presented
  BY <1>1, <1>2 DEF AnsweringCall
<1>5. CASE call' = [call EXCEPT ![c] = Idle]
  BY <1>3, <1>5, IdleAnswers, AbsentTyped, CallHolds
<1>6. CASE Retain(c)
  BY <1>1, <1>2, <1>3, <1>6, RetainHolds
<1>7. ASSUME x.outcome = "withheld", ~x.saw.presented, ~(call' = [call EXCEPT ![c] = Idle])
      PROVE  Answering'
  <2>1. PICK new : new = [rec[r] EXCEPT !.state = "failed"]
    OBVIOUS
  <2>2. PICK w : w = Swapping(x, r, new, "idle")
    OBVIOUS
  <2>3. call' = [call EXCEPT ![c] = w]
    BY <1>1, <1>2, <1>7, <2>1, <2>2 DEF Settle
  <2>4. /\ new \in RecordType /\ new.claim = rec[r].claim /\ new.state = "failed"
        /\ new.presented = rec[r].presented /\ new.open = rec[r].open /\ new.result = rec[r].result
    BY <1>2, <2>1, WithState
  <2>5. Tells(new, r)
    <3>1. Tells(rec[r], r)
      BY DEF Answering, AnsweringRequest
    <3> QED BY <2>4, <3>1 DEF Tells
  <2>6. AnsweringCall(w)' /\ w.at = "swap"
    BY <1>1, <1>3, <1>4, <2>2, <2>4, <2>5, DecidesAnswering
  <2> QED BY <1>3, <2>3, <2>6, CallHolds
<1>8. ASSUME x.outcome \notin {"raises", "naming"}, x.outcome = "withheld" => x.saw.presented,
             ~Retain(c)
      PROVE  Answering'
  <2>1. PICK w : w = [x EXCEPT !.at = "finishing"]
    OBVIOUS
  <2>2. call' = [call EXCEPT ![c] = w]
    BY <1>1, <1>2, <1>8, <2>1 DEF Settle
  <2>3. w.at = "finishing" /\ w.r = r /\ w.outcome = x.outcome /\ w.answer = x.answer
    BY <1>1, <1>2, <2>1 DEF CallType
  <2>4. x.outcome \in {"committed", "failed", "withheld"}
    BY <1>1, <1>2, <1>8 DEF CallType, Outcomes
  <2>5. AnsweringCall(w)
    BY <1>4, <1>8, <2>3, <2>4 DEF AnsweringCall, MayComplete, Served
  <2>6. AnsweringCall(w)'
    BY <1>3, <2>3, <2>5, AsideOnward, CallStays
  <2> QED BY <1>3, <2>2, <2>3, <2>6, CallHolds
<1>9. \/ call' = [call EXCEPT ![c] = Idle] \/ Retain(c)
      \/ x.outcome = "withheld" /\ ~x.saw.presented
      \/ x.outcome \notin {"raises", "naming"} /\ (x.outcome = "withheld" => x.saw.presented)
  BY <1>1 DEF Settle
<1> QED BY <1>5, <1>6, <1>7, <1>8, <1>9

\* A host's claim takes what no host had, and its host has yet to begin.
LEMMA SwapHolds ==
    ASSUME Answering, Claiming, NEW c \in Calls, Swap(c) PROVE Answering'
<1>1. PICK x : x = call[c] /\ x \in CallType /\ WorkKept(x) /\ AnsweringCall(x)
  BY CallIs DEF Answering
<1>2. PICK saw, new, r : saw = x.saw /\ new = x.new /\ r = x.r
  OBVIOUS
<1>3. /\ x.at = "swap" /\ Matches(rec[r], saw) /\ Replace(r, saw, new) /\ UNCHANGED caller
      /\ Finished(c)
  BY <1>1, <1>2 DEF Swap
<1>4. r \in Requests /\ rec[r].state # "absent" /\ Follows(saw, new, rec[r].kind)
  BY <1>1, <1>2, <1>3 DEF WorkKept
<1>5. /\ Proper(saw, rec[r].kind) /\ new.kind = rec[r].kind /\ new.state # "absent"
      /\ new.state = "pending" => saw.state = "pending"
  BY <1>4 DEF Follows, Proper
<1>6. /\ Tells(new, r) /\ Past(saw, r) /\ new.presented = saw.presented
      /\ Secure(r) /\ saw.claim \in Hosts => new.claim = saw.claim
      /\ Secure(r) /\ x.next = "beginning" => saw.claim \notin Hosts /\ new.claim \in Hosts
      /\ x.outcome \in {"committed", "failed"} => r \in permitted
      /\ x.outcome = "committed" => committed[r] = x.answer /\ x.answer # None
  BY <1>1, <1>2, <1>3 DEF AnsweringCall
<1>7. /\ rec' = [rec EXCEPT ![r] = new] /\ permitted' = permitted /\ rec[r].claim = saw.claim
      /\ begun' = IF new.claim = saw.claim THEN begun ELSE [begun EXCEPT ![r] = "unset"]
      /\ UNCHANGED <<late, committed>> /\ rec[r].state = saw.state
  BY <1>3 DEF Replace, Matches, service
<1>8. rec'[r] = new
  BY <1>4, <1>7 DEF Claiming, Kept, Typed
<1>9. rec[r].presented <=> new.presented
  BY <1>3, <1>4, <1>5, <1>6, MatchesPresented
<1>10. rec[r].state # "pending" => new.state # "pending"
  BY <1>5, <1>7
<1>11. CASE x.next = "idle"
  <2>1. call' = [call EXCEPT ![c] = Idle]
    BY <1>1, <1>3, <1>11 DEF Finished
  <2>2. \A d \in Calls : (d = c /\ call'[d] = Idle) \/ (d # c /\ call'[d] = call[d])
    BY <2>1 DEF Claiming, Kept, Typed
  <2>3. \A d \in Calls : call'[d] = call[d] \/ AnsweringCall(call[d])'
    BY <2>2, IdleAnswers
  <2>4. OneBegins'
    BY <1>7, <2>2, AbsentTyped DEF Answering, OneBegins, Secure
  <2> QED BY <1>3, <1>4, <1>5, <1>6, <1>9, <1>10, <2>3, <2>4, ReplacedHolds
<1>12. CASE x.next = "beginning"
  <2>1. PICK w : w = [x EXCEPT !.at = "beginning", !.saw = new, !.new = Absent, !.next = "idle"]
    OBVIOUS
  <2>2. call' = [call EXCEPT ![c] = w]
    BY <1>1, <1>2, <1>3, <1>12, <2>1 DEF Finished
  <2>3. w.at = "beginning" /\ w.r = r /\ w.outcome = x.outcome /\ w.answer = x.answer
    BY <1>1, <1>2, <2>1 DEF CallType
  <2>4. Secure(r) => begun'[r] = "unset" /\ rec'[r].claim \in Hosts
    BY <1>4, <1>6, <1>7, <1>8, <1>12 DEF Answering
  <2>5. AnsweringCall(w)'
    BY <1>6, <1>7, <2>3, <2>4 DEF AnsweringCall, Secure
  <2>6. \A d \in Calls : (d = c /\ call'[d] = w) \/ (d # c /\ call'[d] = call[d])
    BY <2>2 DEF Claiming, Kept, Typed
  <2>7. \A d \in Calls : call'[d] = call[d] \/ AnsweringCall(call[d])'
    BY <2>5, <2>6
  <2>8. ASSUME NEW d \in Calls, d # c, call[d].at = "beginning", call[d].r = r, Secure(r) PROVE FALSE
    <3>1. AnsweringCall(call[d])
      BY DEF Answering
    <3> QED BY <1>6, <1>7, <1>12, <2>8, <3>1 DEF AnsweringCall
  <2>9. OneBegins'
    BY <1>7, <2>3, <2>6, <2>8 DEF Answering, OneBegins, Secure
  <2> QED BY <1>3, <1>4, <1>5, <1>6, <1>9, <1>10, <2>7, <2>9, ReplacedHolds
<1> QED BY <1>1, <1>11, <1>12 DEF CallType

\* An answer is presented early by a call that did not find the circuit open.
LEMMA PresentHolds ==
    ASSUME Answering, Claiming, NEW c \in Calls, Present(c) PROVE Answering'
<1>1. CASE End(c)
  <2>1. call' = [call EXCEPT ![c] = Idle] /\ UNCHANGED caller /\ Aside
    BY <1>1 DEF End, observers, service, time, Aside
  <2> QED BY <2>1, IdleAnswers, AbsentTyped, CallHolds
<1>2. CASE ~End(c)
  <2>1. PICK x : x = call[c] /\ x \in CallType /\ WorkKept(x) /\ AnsweringCall(x)
    BY CallIs DEF Answering
  <2>2. PICK saw, r : saw = x.saw /\ r = x.r
    OBVIOUS
  <2>3. PICK new : new = [saw EXCEPT !.presented = TRUE, !.result = x.answer]
    OBVIOUS
  <2>4. PICK w : w = [x EXCEPT !.at = "persisting", !.saw = new]
    OBVIOUS
  <2>5. /\ x.at = "presenting" /\ Matches(rec[r], saw) /\ Replace(r, saw, new) /\ UNCHANGED caller
        /\ call' = [call EXCEPT ![c] = w]
    BY <1>2, <2>1, <2>2, <2>3, <2>4 DEF Present
  <2>6. r \in Requests /\ rec[r].state # "absent" /\ Proper(saw, rec[r].kind) /\ saw \in RecordType
        /\ saw.state = "pending" /\ rec[r].state = "pending" /\ saw.claim = rec[r].claim
    BY <2>1, <2>2, <2>5 DEF WorkKept, Proper, Matches
  <2>7. new.kind = rec[r].kind /\ new.claim = saw.claim /\ new.open = saw.open
        /\ new.presented = TRUE /\ new.state = "pending"
    BY <2>3, <2>6 DEF Proper, RecordType
  <2>8. Tells(saw, r) /\ Tells(new, r)
    BY <2>1, <2>2, <2>5, <2>7 DEF AnsweringCall, Tells
  <2>9. begun' = begun /\ UNCHANGED <<permitted, committed, late>>
    BY <2>5, <2>7 DEF Replace, service
  <2>10. rec'[r] = new
    BY <2>5, <2>6 DEF Replace, Claiming, Kept, Typed
  <2>11. w.at = "persisting" /\ w.r = r /\ w.saw = new /\ w.outcome = x.outcome /\ w.answer = x.answer
    BY <2>1, <2>2, <2>4 DEF CallType
  <2>12. AnsweringCall(w)'
    <3>1. /\ x.outcome \in {"committed", "failed"} => r \in permitted
          /\ x.outcome = "committed" => committed[r] = x.answer /\ x.answer # None
          /\ saw.claim \in Hosts => saw.open # "unset"
      BY <2>1, <2>2, <2>5 DEF AnsweringCall
    <3>2. Tells(new, r)'
      BY <2>6, <2>7, <2>8, <2>9, <2>10 DEF Tells, Secure
    <3> QED BY <2>7, <2>9, <2>10, <2>11, <3>1, <3>2 DEF AnsweringCall
  <2>13. \A d \in Calls : (d = c /\ call'[d] = w) \/ (d # c /\ call'[d] = call[d])
    BY <2>5 DEF Claiming, Kept, Typed
  <2>14. \A d \in Calls : call'[d] = call[d] \/ AnsweringCall(call[d])'
    BY <2>12, <2>13
  <2>15. OneBegins'
    BY <2>9, <2>11, <2>13 DEF Answering, OneBegins, Secure
  <2> QED BY <2>5, <2>6, <2>7, <2>8, <2>14, <2>15, ReplacedHolds
<1> QED BY <1>1, <1>2

-----------------------------------------------------------------------------
\* The caller moves on, or decides about its request as it is.
LEMMA CallerHolds ==
    ASSUME Answering, Claiming, NEW r \in Requests, NEW v, caller' = [caller EXCEPT ![r] = v],
           Aside, call' = call,
           v.at \in {"expiring", "cancelling"} =>
             /\ Tells(v.saw, r) /\ Tells(v.new, r)
             /\ v.saw.state = "pending" /\ v.new.state # "complete"
             /\ v.new.presented = v.saw.presented /\ v.new.result = v.saw.result
    PROVE  Answering'
<1>1. caller'[r] = v /\ \A q \in Requests : q # r => caller'[q] = caller[q]
  BY DEF Claiming, Kept, Typed
<1>2. begun' = begun /\ rec' = rec /\ late' = late
  BY DEF Aside
<1>3. AnsweringRequest(r)'
  <2>1. AnsweringRequest(r) /\ Onward(r)
    BY AsideOnward DEF Answering
  <2>2. PICK x, s, n : x = rec[r] /\ x = rec'[r] /\ s = v.saw /\ n = v.new
    BY <1>2
  <2>3. /\ Tells(x, r) => Tells(x, r)'
        /\ Tells(s, r) => Tells(s, r)'
        /\ Tells(n, r) => Tells(n, r)'
    BY <2>1, TellsStay
  <2> QED BY <1>1, <1>2, <2>1, <2>2, <2>3 DEF AnsweringRequest, Passive
<1>4. ASSUME NEW q \in Requests PROVE AnsweringRequest(q)'
  BY <1>1, <1>3, AsideKeeps
<1>5. ASSUME NEW d \in Calls, call[d].at = "beginning", Secure(call[d].r)
      PROVE  begun'[call[d].r] = "unset"
  <2>1. AnsweringCall(call[d])
    BY DEF Answering
  <2> QED BY <1>2, <1>5, <2>1 DEF AnsweringCall
<1>6. OneBegins'
  BY <1>2 DEF Answering, OneBegins, Secure
<1>7. begun' \in [Requests -> {"unset", "open", "closed"}]
  BY <1>2 DEF Answering
<1> QED BY <1>4, <1>5, <1>6, <1>7, AsideOnward, Moves

LEMMA CallerGoesHolds ==
    ASSUME Answering, Claiming, NEW r \in Requests,
           ReturnAnswer(r) \/ ReturnFailure(r) \/ NothingToCancel(r) \/ Leave(r) \/ CallerSwapLost(r)
    PROVE  Answering'
<1>1. PICK v : v = caller[r] /\ v \in CallerType
  BY DEF Claiming, Kept, Typed
<1>2. PICK w : caller' = [caller EXCEPT ![r] = w] /\ w.at \notin {"expiring", "cancelling"}
  <2>1. ASSUME NEW from, NEW got, Gets(r, from, got)
        PROVE  \E w : caller' = [caller EXCEPT ![r] = w] /\ w.at \notin {"expiring", "cancelling"}
    <3>1. [NoCaller EXCEPT !.at = "done", !.got = got].at = "done"
      BY DEF NoCaller
    <3> QED BY <2>1, <3>1 DEF Gets
  <2>2. CASE Leave(r)
    <3>1. PICK at \in {"leaving", "done"} : caller' = [caller EXCEPT ![r].at = at]
      BY <2>2 DEF Leave
    <3>2. [v EXCEPT !.at = at].at = at
      BY <1>1 DEF CallerType
    <3> QED BY <1>1, <3>1, <3>2
  <2>3. CASE CallerSwapLost(r)
    <3>1. PICK at \in {"leaving", "waiting"} : caller' = [caller EXCEPT ![r] = [NoCaller EXCEPT !.at = at]]
      BY <2>3 DEF CallerSwapLost
    <3>2. [NoCaller EXCEPT !.at = at].at = at
      BY DEF NoCaller
    <3> QED BY <3>1, <3>2
  <2> QED BY <2>1, <2>2, <2>3 DEF ReturnAnswer, ReturnFailure, NothingToCancel
<1>3. Aside /\ call' = call
  BY DEF ReturnAnswer, ReturnFailure, NothingToCancel, Gets, Leave, CallerSwapLost, observers,
         service, time, Aside
<1> QED BY <1>2, <1>3, CallerHolds

LEMMA CallerDecidesHolds ==
    ASSUME Answering, Claiming, NEW r \in Requests, Expire(r) \/ Cancel(r)
    PROVE  Answering'
<1>1. PICK to \in {"expiring", "cancelling"}, state \in {"expired", "cancelled"} :
        /\ caller' = [caller EXCEPT ![r] = [@ EXCEPT !.at = to, !.saw = rec[r],
                                                    !.new = [rec[r] EXCEPT !.state = state]]]
        /\ rec[r].state = "pending" /\ call' = call /\ Aside
  BY DEF Expire, Cancel, CallerDecides, observers, service, time, Aside
<1>2. PICK v : v = caller[r] /\ v \in CallerType
  BY DEF Claiming, Kept, Typed
<1>3. PICK new : new = [rec[r] EXCEPT !.state = state]
  OBVIOUS
<1>4. PICK w : w = [v EXCEPT !.at = to, !.saw = rec[r], !.new = new]
  OBVIOUS
<1>5. caller' = [caller EXCEPT ![r] = w]
  BY <1>1, <1>2, <1>3, <1>4
<1>6. w.at = to /\ w.saw = rec[r] /\ w.new = new
  BY <1>2, <1>4 DEF CallerType
<1>7. /\ new.state = state /\ new.presented = rec[r].presented /\ new.open = rec[r].open
      /\ new.claim = rec[r].claim /\ new.result = rec[r].result
  <2>1. rec[r] \in RecordType
    BY DEF Claiming, Kept, Typed
  <2> QED BY <1>3, <2>1 DEF RecordType
<1>8. Tells(rec[r], r)
  BY DEF Answering, AnsweringRequest
<1>9. Tells(new, r)
  BY <1>7, <1>8 DEF Tells
<1>10. /\ Tells(w.saw, r) /\ Tells(w.new, r)
       /\ w.saw.state = "pending" /\ w.new.state # "complete"
       /\ w.new.presented = w.saw.presented /\ w.new.result = w.saw.result
  BY <1>1, <1>6, <1>7, <1>8, <1>9
<1> QED BY <1>1, <1>5, <1>10, CallerHolds

LEMMA CallerSwapHolds ==
    ASSUME Answering, Claiming, NEW r \in Requests, CallerSwap(r) PROVE Answering'
<1>1. PICK saw, new : saw = caller[r].saw /\ new = caller[r].new
  OBVIOUS
<1>2. /\ caller[r].at \in {"expiring", "cancelling"} /\ Matches(rec[r], saw)
      /\ Replace(r, saw, new) /\ call' = call
  BY <1>1 DEF CallerSwap
<1>3. Follows(saw, new, rec[r].kind) /\ new.claim = saw.claim /\ rec[r].state # "absent"
  BY <1>1, <1>2 DEF Claiming, Kept, RequestKept
<1>4. Proper(saw, rec[r].kind) /\ new.kind = rec[r].kind /\ new.state # "absent"
  BY <1>3 DEF Follows, Proper
<1>5. /\ Tells(new, r) /\ saw.state = "pending" /\ new.presented = saw.presented
  BY <1>1, <1>2 DEF Answering, AnsweringRequest
<1>6. rec[r].state = "pending" /\ Past(saw, r)
  BY <1>2, <1>5 DEF Matches, Past
<1>7. rec[r].presented <=> new.presented
  BY <1>2, <1>3, <1>4, <1>5, <1>6, MatchesPresented
<1>8. \A q \in Requests : caller'[q] = caller[q] \/ caller'[q].at \notin {"expiring", "cancelling"}
  <2>1. PICK got : caller' = [caller EXCEPT ![r] = [NoCaller EXCEPT !.at = "done", !.got = got]]
    BY DEF CallerSwap
  <2>2. [NoCaller EXCEPT !.at = "done", !.got = got].at = "done"
    BY DEF NoCaller
  <2> QED BY <2>1, <2>2 DEF Claiming, Kept, Typed
<1>9. OneBegins'
  BY <1>2 DEF Answering, OneBegins, Secure, Replace
<1> QED BY <1>2, <1>3, <1>4, <1>5, <1>6, <1>7, <1>8, <1>9, ReplacedHolds

LEMMA SubmitHolds ==
    ASSUME Answering, Claiming, NEW r \in Requests, NEW kind \in Kinds, Submit(r, kind)
    PROVE  Answering'
<1>1. /\ caller[r].at = "none" /\ UNCHANGED <<call, begun, permitted, late, committed>>
      /\ rec' = [rec EXCEPT ![r] = [Absent EXCEPT !.state = "pending", !.kind = kind]]
      /\ caller' = [caller EXCEPT ![r].at = "waiting"]
  BY DEF Submit, observers, service, time
<1>2. rec[r].state = "absent" /\ rec[r] = Absent
  BY <1>1 DEF Claiming, Kept, RequestKept
<1>3. rec'[r] = [Absent EXCEPT !.state = "pending", !.kind = kind]
      /\ \A q \in Requests : q # r => rec'[q] = rec[q]
  BY <1>1 DEF Claiming, Kept, Typed
<1>4. rec'[r].open = "unset" /\ rec'[r].state # "absent"
  BY <1>3 DEF Absent
<1>5. begun[r] = "unset"
  BY <1>2 DEF Answering, AnsweringRequest
<1>6. caller'[r].at = "waiting" /\ \A q \in Requests : q # r => caller'[q] = caller[q]
  <2>1. PICK v : v = caller[r] /\ v \in CallerType
    BY DEF Claiming, Kept, Typed
  <2>2. [v EXCEPT !.at = "waiting"].at = "waiting"
    BY <2>1 DEF CallerType
  <2> QED BY <1>1, <2>1, <2>2 DEF Claiming, Kept, Typed
<1>7. \A q \in Requests : q # r => Onward(q)
  BY <1>1, <1>3 DEF Onward
<1>8. ASSUME NEW q \in Requests PROVE AnsweringRequest(q)'
  <2>1. AnsweringRequest(q)
    BY DEF Answering
  <2>2. CASE q = r
    BY <1>1, <1>4, <1>5, <1>6, <2>2 DEF AnsweringRequest, Tells
  <2>3. CASE q # r
    <3>1. PICK x, s, n : x = rec[q] /\ x = rec'[q] /\ s = caller[q].saw /\ n = caller[q].new
      BY <1>3, <2>3
    <3>2. /\ Tells(x, q) => Tells(x, q)'
          /\ Tells(s, q) => Tells(s, q)'
          /\ Tells(n, q) => Tells(n, q)'
      BY <1>7, <2>3, TellsStay
    <3> QED BY <1>1, <1>6, <2>1, <2>3, <3>1, <3>2 DEF AnsweringRequest, Passive
  <2> QED BY <2>2, <2>3
<1>9. ASSUME NEW d \in Calls, call[d].at = "beginning", Secure(call[d].r)
      PROVE  begun'[call[d].r] = "unset"
  <2>1. AnsweringCall(call[d])
    BY DEF Answering
  <2> QED BY <1>1, <1>9, <2>1 DEF AnsweringCall
<1>10. \A q \in Requests : Onward(q) \/ rec[q].state = "absent"
  BY <1>2, <1>7
<1>11. OneBegins' /\ begun' \in [Requests -> {"unset", "open", "closed"}]
  BY <1>1 DEF Answering, OneBegins, Secure
<1> QED BY <1>1, <1>8, <1>9, <1>10, <1>11, Moves

\* Leases, time and the service leave requests and their callers alone.
LEMMA AloneHolds ==
    ASSUME Answering, Claiming, UNCHANGED <<rec, caller, call, begun, permitted, committed>>,
           late \subseteq late'
    PROVE  Answering'
<1>1. ASSUME NEW q \in Requests PROVE Onward(q)
  BY DEF Onward
<1>2. ASSUME NEW q \in Requests PROVE AnsweringRequest(q)'
  <2>1. AnsweringRequest(q)
    BY DEF Answering
  <2>2. PICK x, s, n : x = rec[q] /\ x = rec'[q] /\ s = caller[q].saw /\ n = caller[q].new
    OBVIOUS
  <2>3. /\ Tells(x, q) => Tells(x, q)'
        /\ Tells(s, q) => Tells(s, q)'
        /\ Tells(n, q) => Tells(n, q)'
    BY <1>1, TellsStay
  <2> QED BY <2>1, <2>2, <2>3 DEF AnsweringRequest, Passive
<1>3. ASSUME NEW d \in Calls, call[d].at = "beginning", Secure(call[d].r)
      PROVE  begun'[call[d].r] = "unset"
  <2>1. AnsweringCall(call[d])
    BY DEF Answering
  <2> QED BY <1>3, <2>1 DEF AnsweringCall
<1>4. OneBegins' /\ begun' \in [Requests -> {"unset", "open", "closed"}]
  BY DEF Answering, OneBegins, Secure
<1> QED BY <1>1, <1>2, <1>3, <1>4, Moves

LEMMA StepHolds ==
    ASSUME Answering, Claiming, [Next]_vars PROVE Answering'
<1>1. ASSUME NEW c \in Calls,
             Swap(c) \/ SwapLost(c) \/ BeginClaimed(c) \/ ClaimMessage(c) \/ CheckNaming(c)
             \/ Present(c) \/ Settle(c) \/ Finish(c) \/ \E outcome \in Outcomes : Serve(c, outcome)
      PROVE  Answering'
  <2>1. CASE SwapLost(c)
    <3>1. call' = [call EXCEPT ![c] = Idle] /\ UNCHANGED caller /\ Aside
      BY <2>1 DEF SwapLost, End, observers, service, time, Aside
    <3> QED BY <3>1, IdleAnswers, AbsentTyped, CallHolds
  <2>2. ASSUME Swap(c) \/ BeginClaimed(c) \/ ClaimMessage(c) \/ CheckNaming(c) PROVE Answering'
    BY <2>2, SwapHolds, BeginClaimedHolds, ClaimMessageHolds, CheckNamingHolds
  <2>3. ASSUME Present(c) \/ Settle(c) \/ Finish(c) \/ \E outcome \in Outcomes : Serve(c, outcome)
        PROVE  Answering'
    BY <2>3, PresentHolds, SettleHolds, FinishHolds, ServeHolds
  <2> QED BY <1>1, <2>1, <2>2, <2>3
<1>2. ASSUME NEW c \in Calls, NEW t \in Tokens, NEW r \in Requests,
             NextRequest(c, t, r) \/ ReadMessage(c, t, r) \/ ClaimSensory(c, t, r)
             \/ Release(c, t, r) \/ FailSensory(c, t, r) \/ \E a \in Replies[t] : Complete(c, t, r, a)
      PROVE  Answering'
  BY <1>2, NextRequestHolds, SensoryHolds, ArrivalHolds
<1>3. ASSUME NEW r \in Requests, CallerStep(r) \/ Leave(r) PROVE Answering'
  BY <1>3, CallerGoesHolds, CallerDecidesHolds, CallerSwapHolds DEF CallerStep
<1>4. ASSUME NEW r \in Requests, NEW kind \in Kinds, Submit(r, kind) PROVE Answering'
  BY <1>4, SubmitHolds
<1>5. ASSUME NEW t \in Tasks, NEW r \in Requests, TaskBegins(t, r) PROVE Answering'
  BY <1>5, TaskBeginsHolds
<1>6. ASSUME \/ \E t \in Hosts : AttachChecks(t) \/ AttachWrites(t)
                                \/ \E detach \in BOOLEAN : Renew(t, detach)
             \/ \E r \in Requests : DeadlinePasses(r) \/ LeaseLapses(r)
             \/ Silence \/ NamingMoves \/ CircuitMoves \/ UNCHANGED vars
      PROVE  Answering'
  <2>1. UNCHANGED <<rec, caller, call, begun, permitted, committed>> /\ late \subseteq late'
    BY <1>6 DEF AttachChecks, AttachWrites, Renew, WriteHost, DeadlinePasses, LeaseLapses, Silence,
                NamingMoves, CircuitMoves, vars, observers, service, time
  <2> QED BY <2>1, AloneHolds
<1> QED BY <1>1, <1>2, <1>3, <1>4, <1>5, <1>6 DEF Next

LEMMA InitiallyAnswering == Init => Answering
<1> SUFFICES ASSUME Init PROVE Answering
  OBVIOUS
<1>1. /\ begun = [r \in Requests |-> "unset"] /\ caller = [r \in Requests |-> NoCaller]
      /\ rec = [r \in Requests |-> Absent] /\ call = [c \in Calls |-> Idle]
  BY DEF Init
<1>2. \A r \in Requests : AnsweringRequest(r)
  <2>1. Absent.open = "unset"
    BY DEF Absent
  <2> QED BY <1>1, <2>1, AbsentTyped DEF AnsweringRequest, Tells
<1>3. \A c \in Calls : AnsweringCall(call[c])
  BY <1>1, IdleAnswers
<1>4. OneBegins
  BY <1>1, AbsentTyped DEF OneBegins
<1> QED BY <1>1, <1>2, <1>3, <1>4 DEF Answering

THEOREM AnsweringHolds == Spec => []Answering
<1>1. Answering /\ Claiming /\ [Next]_vars => Answering'
  BY StepHolds
<1> QED BY <1>1, InitiallyAnswering, ClaimingHolds, PTL DEF Spec

\* What of a record that was filed a step shows for the first time, or answers anew,
\* is written by a call, or presented.
LEMMA ShownBy ==
    ASSUME Answering, Claiming, [Next]_vars, NEW r \in Requests,
           \/ Shown(rec'[r]) /\ ~Shown(rec[r])
           \/ rec[r].state = "complete" /\ rec'[r].result # rec[r].result
    PROVE  \E c \in Calls :
             /\ call[c].r = r /\ Matches(rec[r], call[c].saw) /\ AnsweringCall(call[c])
             /\ \/ call[c].at = "swap" /\ rec'[r] = call[c].new
                \/ call[c].at = "presenting" /\ call[c].saw.state = "pending"
<1>1. ASSUME NEW c \in Calls, Swap(c) \/ (Present(c) /\ ~End(c))
      PROVE  /\ call[c].r = r /\ Matches(rec[r], call[c].saw) /\ AnsweringCall(call[c])
             /\ \/ call[c].at = "swap" /\ rec'[r] = call[c].new
                \/ call[c].at = "presenting" /\ call[c].saw.state = "pending"
  <2>1. PICK x : x = call[c] /\ WorkKept(x) /\ AnsweringCall(x)
    BY CallIs DEF Answering
  <2>2. PICK new : Matches(rec[x.r], x.saw) /\ rec' = [rec EXCEPT ![x.r] = new]
                   /\ (Swap(c) => x.at = "swap" /\ new = x.new)
                   /\ (~Swap(c) => x.at = "presenting")
    BY <1>1, <2>1 DEF Swap, Present, Replace
  <2>3. x.r = r /\ rec'[r] = new
    BY <2>2 DEF Claiming, Kept, Typed
  <2>4. x.at = "presenting" => x.saw.state = "pending"
    BY <2>1 DEF WorkKept
  <2> QED BY <2>1, <2>2, <2>3, <2>4
<1>2. ASSUME NEW q \in Requests, CallerSwap(q) PROVE FALSE
  <2>1. /\ caller[q].at \in {"expiring", "cancelling"} /\ Matches(rec[q], caller[q].saw)
        /\ rec' = [rec EXCEPT ![q] = caller[q].new]
    BY <1>2 DEF CallerSwap, Replace
  <2>2. q = r /\ rec'[r] = caller[r].new
    BY <2>1 DEF Claiming, Kept, Typed
  <2>3. /\ caller[r].saw.state = "pending" /\ caller[r].new.state # "complete"
        /\ caller[r].new.presented = caller[r].saw.presented
    BY <2>1, <2>2 DEF Answering, AnsweringRequest
  <2> QED BY <2>1, <2>2, <2>3 DEF Matches, Shown
<1>3. ASSUME NEW q \in Requests, NEW kind \in Kinds, Submit(q, kind) PROVE FALSE
  <2>1. /\ rec' = [rec EXCEPT ![q] = [Absent EXCEPT !.state = "pending", !.kind = kind]]
        /\ rec[q].state = "absent"
    BY <1>3 DEF Submit, Claiming, Kept, RequestKept
  <2>2. q = r /\ rec'[r] = [Absent EXCEPT !.state = "pending", !.kind = kind]
    BY <2>1 DEF Claiming, Kept, Typed
  <2> QED BY <2>1, <2>2 DEF Absent, Shown
<1>4. ~UNCHANGED rec
  OBVIOUS
<1>5. \/ \E c \in Calls : Swap(c) \/ (Present(c) /\ ~End(c))
      \/ \E q \in Requests : CallerSwap(q) \/ \E kind \in Kinds : Submit(q, kind)
  BY <1>4, OnlySwapsWrite DEF vars
<1> QED BY <1>1, <1>2, <1>3, <1>5

\* A request once answered is not taken back, whatever expires, cancels, fails, claims
\* or releases it at the same time: what is complete stays complete, and what the Body
\* may have shown does not expire under it.  Another answer takes the place of a
\* complete one only by the last write of a completion that complete_interaction took,
\* and of the answer that was committed only if its own persistence failed (submit and
\* _complete_claim of host_runtime.py).
THEOREM AnswersAlwaysStand == Spec => AnswersStand
<1> DEFINE Complete1 == \A r \in Requests : rec[r].state = "complete" => rec'[r].state = "complete"
           Presented1 == \A r \in Requests :
              rec[r].presented => rec'[r].state # "expired" \/ rec[r].state = "expired"
           Late1 == \A r \in Requests : rec[r].state = "complete" /\ rec'[r].result # rec[r].result =>
              \E c \in Calls :
                /\ Completes(call[c], r) /\ rec'[r] = call[c].new
                /\ rec[r].result = committed[r] => call[c].outcome # "committed"
<1>1. Claiming /\ [Next]_vars => Complete1
  <2> SUFFICES ASSUME Claiming, [Next]_vars, NEW r \in Requests, rec[r].state = "complete"
               PROVE  rec'[r].state = "complete"
      OBVIOUS
  <2> QED
      BY RecordsFollow DEF Decided, Follows, Matches
<1>2. Claiming /\ [Next]_vars => Presented1
  <2> SUFFICES ASSUME Claiming, [Next]_vars, NEW r \in Requests, rec[r].presented,
                      rec'[r].state = "expired", rec[r].state # "expired"
               PROVE  FALSE
      OBVIOUS
  <2>1. rec[r].state # "absent" /\ Proper(rec[r], rec[r].kind)
      BY AbsentTyped DEF Claiming, Kept, RequestKept, Absent
  <2>2. PICK saw, new : Decided(r, saw, new)
      BY <2>1, RecordsFollow
  <2>3. /\ saw.state = rec[r].state /\ saw.result = rec[r].result /\ new.state = "expired"
        /\ saw.state = "pending" /\ ~saw.presented
      BY <2>2 DEF Decided, Matches, Follows
  <2> QED
      BY <2>1, <2>2, <2>3 DEF Decided, Follows, Proper
<1>3. Answering /\ Claiming /\ [Next]_vars => Late1
  <2> SUFFICES ASSUME Answering, Claiming, [Next]_vars, NEW r \in Requests,
                      rec[r].state = "complete", rec'[r].result # rec[r].result
               PROVE  \E c \in Calls :
                        /\ Completes(call[c], r) /\ rec'[r] = call[c].new
                        /\ rec[r].result = committed[r] => call[c].outcome # "committed"
      OBVIOUS
  <2>1. PICK c \in Calls :
          /\ call[c].r = r /\ Matches(rec[r], call[c].saw) /\ AnsweringCall(call[c])
          /\ \/ call[c].at = "swap" /\ rec'[r] = call[c].new
             \/ call[c].at = "presenting" /\ call[c].saw.state = "pending"
      BY ShownBy
  <2>2. PICK w : w = call[c]
      OBVIOUS
  <2>3. w.at = "swap" /\ rec'[r] = w.new /\ w.saw.result = rec[r].result /\ w.r = r
      BY <2>1, <2>2 DEF Matches
  <2>4. w.new.state = "complete" /\ w.new.result = w.answer /\ Served(w)
      BY <2>1, <2>2, <2>3 DEF AnsweringCall
  <2>5. w.outcome = "committed" => committed[r] = w.answer
      BY <2>1, <2>2, <2>3 DEF AnsweringCall
  <2> QED
      BY <2>2, <2>3, <2>4, <2>5 DEF Completes, Served
<1> HIDE DEF Complete1, Presented1, Late1
<1>4. Claiming /\ [Next]_vars => [Complete1]_vars /\ [Presented1]_vars
    BY <1>1, <1>2
<1>5. Answering /\ Claiming /\ [Next]_vars => [Late1]_vars
    BY <1>3
<1>6. Spec => []TypeOK
    BY ClaimingTyped, ClaimingHolds, PTL
<1>7. Spec => CompleteStands
    BY <1>4, ClaimingHolds, PTL DEF Spec, CompleteStands, Complete1
<1>8. Spec => PresentedNeverExpires
    BY <1>4, ClaimingHolds, PTL DEF Spec, PresentedNeverExpires, Presented1
<1>9. Spec => LateAnswers
    BY <1>5, ClaimingHolds, AnsweringHolds, PTL DEF Spec, LateAnswers, Late1
<1> QED
    BY <1>6, <1>7, <1>8, <1>9 DEF AnswersStand

\* An answer that a host prepared while the circuit was open is not shown before its
\* persistence permitted it, whatever event tasks claim, lose and complete the request
\* next to it (next_request and _complete_claim of host_runtime.py).  What a task has
\* claimed is not among it: a task begins without saving how the circuit was.
THEOREM HostAnswersHeld == Spec => HeldUntilPermitted
<1> DEFINE Held1 == \A r \in Requests :
              Shown(rec'[r]) /\ ~Shown(rec[r]) /\ begun[r] = "open" /\ rec[r].claim \in Hosts
              /\ Secure(r) => r \in permitted
<1>1. Answering /\ Claiming /\ [Next]_vars => Held1
  <2> SUFFICES ASSUME Answering, Claiming, [Next]_vars, NEW r \in Requests, Shown(rec'[r]),
                      ~Shown(rec[r]), begun[r] = "open", rec[r].claim \in Hosts, Secure(r)
               PROVE  r \in permitted
    OBVIOUS
  <2>1. PICK c \in Calls :
          /\ call[c].r = r /\ Matches(rec[r], call[c].saw) /\ AnsweringCall(call[c])
          /\ \/ call[c].at = "swap" /\ rec'[r] = call[c].new
             \/ call[c].at = "presenting" /\ call[c].saw.state = "pending"
    BY ShownBy
  <2>2. PICK w : w = call[c] /\ w.r = r /\ Matches(rec[r], w.saw) /\ AnsweringCall(w)
    BY <2>1
  <2>3. CASE w.at = "swap" /\ rec'[r] = w.new
    <3>1. /\ w.new.presented = w.saw.presented
          /\ w.new.state = "complete" => w.saw.state = "complete" \/ MayComplete(w)
      BY <2>2, <2>3 DEF AnsweringCall
    <3>2. MayComplete(w)
      BY <2>2, <2>3, <3>1 DEF Matches, Shown
    <3>3. ~Passive(r)
      BY DEF Answering, AnsweringRequest
    <3> QED BY <2>2, <3>2, <3>3 DEF MayComplete, Shown
  <2>4. CASE w.at = "presenting"
    <3>1. w.saw.claim \in Hosts
      BY <2>2 DEF Matches
    <3>2. Tells(w.saw, r) /\ w.saw.open \notin {"unset", "open"}
      BY <2>2, <2>4, <3>1 DEF AnsweringCall
    <3> QED BY <3>2 DEF Tells
  <2> QED BY <2>1, <2>2, <2>3, <2>4
<1> HIDE DEF Held1
<1>2. Answering /\ Claiming /\ [Next]_vars => [Held1]_vars
  BY <1>1
<1>3. Spec => [][Held1]_vars
  BY <1>2, AnsweringHolds, ClaimingHolds, PTL DEF Spec
<1> QED BY <1>3 DEF HeldUntilPermitted, Held1
=============================================================================
