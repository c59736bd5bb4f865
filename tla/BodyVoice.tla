------------------------------- MODULE BodyVoice -------------------------------
(***************************************************************************)
(* How what the Mind says is heard once: the Body windows that contend for  *)
(* being the active Body (register_active_body_session of api.py), the      *)
(* durable queue of each (BodyQueue of body_sessions.py), the stream that   *)
(* wakes a window (mouth_output_events), and the window's loop that fetches, *)
(* speaks and acknowledges (live_body.html).  Records change by compare and *)
(* swap in loops of ten tries: every change is one step.  Time is a fact:   *)
(* the owner's heartbeat is older than 120 seconds.                         *)
(***************************************************************************)
EXTENDS Naturals, Sequences, FiniteSets, SequencesExt

CONSTANTS
    Windows,        \* Body sessions
    Intents,        \* what is to be said, each with its delivery id
    NoWindow,       \* the session "legacy": nobody owns the Body
    Nothing,
    Capacity,       \* intents a queue holds (32)
    MaxMishaps      \* bound: requests or their answers that are lost, speech that fails

ASSUME VoiceAssumption ==
    /\ NoWindow \notin Windows /\ Nothing \notin Intents
    /\ Capacity \in Nat \ {0} /\ MaxMishaps \in Nat

VARIABLES
    owner,      \* the record active_body_session
    queue,      \* the record of each session's queue
    asked,      \* intents whose turn came to be queued, in order, by session
    page,       \* each window
    mishaps,
    said        \* observer: what each window has said, in order

voiceVars == <<owner, queue, asked, page, mishaps, said>>

Quiet == [active |-> FALSE, focused |-> FALSE, woken |-> FALSE,
          at |-> "idle", again |-> FALSE, intent |-> Nothing, played |-> {}]

VcInit ==
    /\ owner = [window |-> NoWindow, fresh |-> FALSE]
    /\ queue = [w \in Windows |-> <<>>]
    /\ asked = [w \in Windows |-> <<>>]
    /\ page = [w \in Windows |-> Quiet]
    /\ mishaps = 0
    /\ said = [w \in Windows |-> <<>>]

Page(w, p) == page' = [page EXCEPT ![w] = p]

\* consumeExpressionOutputs: one loop at a time; a busy one will look again.
Drain(p) == IF p.at = "idle" THEN [p EXCEPT !.at = "fetch"] ELSE [p EXCEPT !.again = TRUE]

\* pauseBodyOwnership: the stream is closed and speech is cancelled.
Pause(p) == [p EXCEPT !.active = FALSE, !.woken = FALSE,
                      !.at = IF @ = "speak" THEN "idle" ELSE @]

-----------------------------------------------------------------------------
(* Ownership *)

Fresh == owner.window # NoWindow /\ owner.fresh

Focus(w) ==
    /\ ~page[w].focused
    /\ page' = [v \in Windows |-> IF v = w THEN [page[w] EXCEPT !.focused = TRUE]
                                  ELSE [page[v] EXCEPT !.focused = FALSE]]
    /\ UNCHANGED <<owner, queue, asked, mishaps, said>>

\* The heartbeat of a focused window acquires, renews or, on takeover, transfers.
Heartbeat(w) ==
    /\ page[w].focused
    /\ \E takeover \in BOOLEAN :
        IF Fresh /\ owner.window # w /\ ~takeover
        THEN /\ Page(w, Pause(page[w]))
             /\ UNCHANGED owner
        ELSE /\ owner' = [window |-> w, fresh |-> TRUE]
             /\ Page(w, Drain([page[w] EXCEPT !.active = TRUE]))
    /\ UNCHANGED <<queue, asked, mishaps, said>>

\* A window out of focus pauses, and releases what it owns: its request may be
\* lost, or come when another window owns the Body.
Release(w) ==
    /\ ~page[w].focused /\ page[w].active
    /\ Page(w, Pause(page[w]))
    /\ \/ /\ owner' = IF owner.window = w THEN [window |-> NoWindow, fresh |-> FALSE] ELSE owner
          /\ UNCHANGED mishaps
       \/ mishaps < MaxMishaps /\ mishaps' = mishaps + 1 /\ UNCHANGED owner
    /\ UNCHANGED <<queue, asked, said>>

OwnerGrowsStale ==
    /\ Fresh
    /\ owner' = [owner EXCEPT !.fresh = FALSE]
    /\ UNCHANGED <<queue, asked, page, mishaps, said>>

-----------------------------------------------------------------------------
(* Speech *)

\* BodyQueue.speak: a full queue refuses; subscribers of this process are woken,
\* those of another API worker are not.
Speak(w, i) ==
    /\ \A v \in Windows : i \notin Range(asked[v])
    /\ Len(queue[w]) < Capacity
    /\ queue' = [queue EXCEPT ![w] = Append(@, i)]
    /\ asked' = [asked EXCEPT ![w] = Append(@, i)]
    /\ page' \in {page, [page EXCEPT ![w].woken = page[w].active]}
    /\ UNCHANGED <<owner, mishaps, said>>

\* The stream's event "voice-ready".
Wake(w) ==
    /\ page[w].woken
    /\ Page(w, Drain([page[w] EXCEPT !.woken = FALSE]))
    /\ UNCHANGED <<owner, queue, asked, mishaps, said>>

\* The end of the loop: once more if somebody asked for it meanwhile.
LoopEnds(p) ==
    IF p.again /\ p.active THEN [p EXCEPT !.at = "fetch", !.again = FALSE]
    ELSE [p EXCEPT !.at = "idle", !.again = FALSE]

Fails(p) == [p EXCEPT !.at = "idle", !.again = FALSE]

\* next_mouth_intent: only for the owner, and the head stays in the queue.
Fetch(w) ==
    /\ page[w].at = "fetch"
    /\ LET p == page[w]
           i == Head(queue[w])
       IN  Page(w, IF ~p.active THEN [p EXCEPT !.at = "idle"]
                   ELSE IF owner.window # w \/ ~owner.fresh THEN Fails(p)
                   ELSE IF queue[w] = <<>> THEN LoopEnds(p)
                   ELSE [p EXCEPT !.intent = i, !.at = IF i \in p.played THEN "ack" ELSE "speak"])
    /\ UNCHANGED <<owner, queue, asked, mishaps, said>>

\* Fault: the window does not remember what it has played.
SpokenUnnoted(w) ==
    /\ page[w].at = "speak"
    /\ Page(w, [page[w] EXCEPT !.at = "ack"])
    /\ said' = [said EXCEPT ![w] = Append(@, page[w].intent)]
    /\ UNCHANGED <<owner, queue, asked, mishaps>>

Spoken(w) ==
    /\ page[w].at = "speak"
    /\ Page(w, [page[w] EXCEPT !.at = "ack", !.played = @ \cup {page[w].intent}])
    /\ said' = [said EXCEPT ![w] = Append(@, page[w].intent)]
    /\ UNCHANGED <<owner, queue, asked, mishaps>>

SpeechFails(w) ==
    /\ page[w].at = "speak" /\ mishaps < MaxMishaps
    /\ mishaps' = mishaps + 1
    /\ Page(w, Fails(page[w]))
    /\ UNCHANGED <<owner, queue, asked, said>>

\* BodyQueue.acknowledge: of the head only; a repeated receipt is harmless.
Acknowledged(w, i) ==
    queue' = [queue EXCEPT ![w] = IF @ # <<>> /\ Head(@) = i THEN Tail(@) ELSE @]

Acknowledge(w) ==
    /\ page[w].at = "ack"
    /\ Acknowledged(w, page[w].intent)
    /\ Page(w, [page[w] EXCEPT !.at = "fetch", !.intent = Nothing])
    /\ UNCHANGED <<owner, asked, mishaps, said>>

\* The request is lost, or its answer: then another may acknowledge it again.
AcknowledgmentLost(w) ==
    /\ page[w].at = "ack" /\ mishaps < MaxMishaps
    /\ mishaps' = mishaps + 1
    /\ UNCHANGED queue \/ Acknowledged(w, page[w].intent)
    /\ Page(w, Fails([page[w] EXCEPT !.intent = Nothing]))
    /\ UNCHANGED <<owner, asked, said>>

Listens(w) == Wake(w) \/ Fetch(w) \/ Spoken(w) \/ Acknowledge(w)

VcNext ==
    \/ OwnerGrowsStale
    \/ \E w \in Windows :
        \/ Focus(w) \/ Heartbeat(w) \/ Release(w)
        \/ \E i \in Intents : Speak(w, i)
        \/ Listens(w) \/ SpeechFails(w) \/ AcknowledgmentLost(w)

\* A page runs its loop, and sends heartbeats while it has the focus.
VcFairness ==
    \A w \in Windows : /\ WF_voiceVars(Listens(w))
                       /\ WF_voiceVars(Heartbeat(w))

VcSpec == VcInit /\ [][VcNext]_voiceVars /\ VcFairness

-----------------------------------------------------------------------------
\* Types, and the bound of a queue.
VoiceOK ==
    /\ owner.window \in Windows \cup {NoWindow} /\ owner.fresh \in BOOLEAN
    /\ \A w \in Windows :
        /\ Len(queue[w]) <= Capacity
        /\ page[w].at \in {"idle", "fetch", "speak", "ack"}
        /\ page[w].at \in {"speak", "ack"} => page[w].intent \in Intents

\* What a window says, it says in the order it was asked to and once, although
\* answers get lost, windows change and several events wake one loop
\* (consumeExpressionOutputs, deliver, acknowledge).
SaidOnceInOrder == \A w \in Windows : IsPrefix(said[w], asked[w])

\* Nothing leaves a queue unsaid: a receipt removes what it is the receipt of.
NothingUnsaid == \A w \in Windows : IsSuffix(queue[w], asked[w])
                    /\ Len(asked[w]) - Len(queue[w]) <= Len(said[w])

\* A window that keeps the Body says what is queued for it, though the event
\* that should wake it came to another process, or when it was busy.
KeepsTheBody(w) == owner.window = w /\ owner.fresh /\ page[w].active /\ page[w].focused
Silent(w) == KeepsTheBody(w) /\ Range(asked[w]) # Range(said[w])
EveryIntentIsSaid == \A w \in Windows : Silent(w) ~> ~Silent(w)

\* The windows of a Body say what it was given, each utterance once and in order,
\* and acknowledge nothing that was not said.
SpeechIsFaithful ==
    /\ VoiceOK
    /\ SaidOnceInOrder
    /\ NothingUnsaid
=============================================================================
