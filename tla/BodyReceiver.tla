----------------------------- MODULE BodyReceiver -----------------------------
(***************************************************************************)
(* The local receiver (codex_body_receiver.py) and what it asks of the      *)
(* server (ready_events of host_runtime.py, body_host_events.py): it polls  *)
(* for requests that wait, has audio transcribed if it is configured to,    *)
(* forwards them as a prompt to the reasoning chat, and writes that down.   *)
(* Receiver and chat share one lease, so that a claim of either is the same *)
(* host's. Bounded requests have a deadline, and their claims last till it. *)
(***************************************************************************)
EXTENDS Naturals, FiniteSets

CONSTANTS
    Jobs,       \* requests of the Body
    KindOf,     \* KindOf[j]: "human", "vision" or "audio"
    BatchSize,  \* requests of one prompt (MAX_BATCH_SIZE)
    MaxCrashes, \* bound: receivers that stop anywhere
    MaxLosses   \* bound: prompts or replies that get lost, servers that do not answer

ASSUME ReceiverAssumption ==
    /\ IsFiniteSet(Jobs)
    /\ KindOf \in [Jobs -> {"human", "vision", "audio"}]
    /\ {BatchSize, MaxCrashes, MaxLosses} \subseteq Nat

VARIABLES
    job,        \* the request: state, claim ("prep" or "chat"), transcript
    receiver,   \* where the receiver is, and the notices it is about to send
    sent,       \* what it knows to be with the chat
    stateFile,  \* what its ledger on disk says of that
    prompts,    \* prompts the chat has accepted, each a set of requests
    crashes,
    losses,
    transcriber \* the receiver is configured with one (transcribe_enabled); by default not

receiverVars == <<job, receiver, sent, stateFile, prompts, crashes, losses, transcriber>>

ReceiverDown == [at |-> "down", notices |-> {}, current |-> {}, prepared |-> {}]
Human(j) == KindOf[j] = "human"
Pending(j) == job[j].state = "pending"
Humans(js) == {j \in js : Human(j)}

RcInit ==
    /\ job = [j \in Jobs |-> [state |-> "none", claim |-> "none", derived |-> FALSE]]
    /\ receiver = ReceiverDown
    /\ sent = {} /\ stateFile = {}
    /\ prompts = {}
    /\ crashes = 0 /\ losses = 0
    /\ transcriber \in BOOLEAN

RequestMade(j) ==
    /\ job[j].state = "none"
    /\ job' = [job EXCEPT ![j].state = "pending"]
    /\ UNCHANGED <<receiver, sent, stateFile, prompts, crashes, losses, transcriber>>

\* Only typed messages wait for ever.
DeadlinePasses(j) ==
    /\ Pending(j) /\ ~Human(j)
    /\ job' = [job EXCEPT ![j] = [@ EXCEPT !.state = "over", !.claim = "none"]]
    /\ UNCHANGED <<receiver, sent, stateFile, prompts, crashes, losses, transcriber>>

-----------------------------------------------------------------------------
(* The receiver *)

At(where) == receiver' = [receiver EXCEPT !.at = where]

\* DeliveryState reads the ledger; receive_loop checks the chat before it polls.
StartReceiver ==
    /\ receiver.at = "down"
    /\ sent' = stateFile
    /\ At("check")
    /\ UNCHANGED <<job, stateFile, prompts, crashes, losses, transcriber>>

AppAnswers ==
    /\ receiver.at = "check"
    /\ At("poll")
    /\ UNCHANGED <<job, sent, stateFile, prompts, crashes, losses, transcriber>>

\* ready_events: requests not excluded that nobody has claimed, or that this
\* host was preparing.
Ready == {j \in Jobs \ sent : Pending(j) /\ job[j].claim # "chat"}

\* Of excluded requests, the ones that are finished.
Finished == {j \in sent : ~Pending(j)}

\* Fault: what is with the chat does not hold back what follows.
NoticesAtOnce(latched, choice) ==
    Cardinality(choice) = (IF Cardinality(Ready) < BatchSize THEN Cardinality(Ready) ELSE BatchSize)

\* The receiver forgets what has finished, and writes that down.  As long as
\* a prompt is with the chat, one human message may overtake it.
Notices(latched, choice) ==
    LET humans == Humans(Ready)
    IN  IF latched # {}
        THEN /\ choice \subseteq humans
             /\ Cardinality(choice) = (IF Humans(latched) # {} \/ humans = {} THEN 0 ELSE 1)
        ELSE /\ Cardinality(choice) = (IF Cardinality(Ready) < BatchSize THEN Cardinality(Ready)
                                       ELSE BatchSize)
             /\ choice # humans /\ ~(humans \subseteq choice) => choice \subseteq humans

Poll ==
    /\ receiver.at = "poll"
    /\ sent' = sent \ Finished
    /\ stateFile' = IF Finished = {} THEN stateFile ELSE sent \ Finished
    /\ \E choice \in SUBSET Ready :
        /\ Notices(sent \ Finished, choice)
        /\ receiver' = [at |-> IF choice = {} THEN "poll" ELSE "prepare",
                        notices |-> choice, current |-> {}, prepared |-> {}]
    /\ UNCHANGED <<job, prompts, crashes, losses, transcriber>>

\* _prepare_audio: whatever is not audio, or has its transcript, goes along, and
\* without a transcriber everything does.
Prepare(j, notice) ==
    receiver' = [receiver EXCEPT !.notices = @ \ {j}, !.current = {}, !.at = "prepare",
                                 !.prepared = IF notice THEN @ \cup {j} ELSE @]

Include(j) ==
    /\ receiver.at = "prepare" /\ j \in receiver.notices
    /\ \/ ~transcriber \/ Human(j)
       \/ Pending(j) /\ (KindOf[j] = "vision" \/ job[j].derived)
    /\ Prepare(j, TRUE)
    /\ UNCHANGED <<job, sent, stateFile, prompts, crashes, losses, transcriber>>

\* read_input: gone, or being processed (410, 409).
LeaveOut(j) ==
    /\ receiver.at = "prepare" /\ j \in receiver.notices
    /\ transcriber /\ ~Human(j)
    /\ ~Pending(j) \/ (KindOf[j] = "audio" /\ ~job[j].derived /\ job[j].claim = "chat")
    /\ Prepare(j, FALSE)
    /\ UNCHANGED <<job, sent, stateFile, prompts, crashes, losses, transcriber>>

\* read_input: the claim to prepare, which a restarted receiver may renew.
ReadInput(j) ==
    /\ receiver.at = "prepare" /\ j \in receiver.notices
    /\ transcriber /\ KindOf[j] = "audio" /\ Pending(j) /\ ~job[j].derived /\ job[j].claim # "chat"
    /\ job' = [job EXCEPT ![j].claim = "prep"]
    /\ receiver' = [receiver EXCEPT !.at = "transcribe", !.current = {j}]
    /\ UNCHANGED <<sent, stateFile, prompts, crashes, losses, transcriber>>

Preparing(j) == receiver.at = "transcribe" /\ j \in receiver.current /\ job[j].claim = "prep"

\* attach_transcript: the claim ends with the transcript attached.
Attach(j) ==
    /\ Preparing(j)
    /\ job' = [job EXCEPT ![j] = [@ EXCEPT !.claim = "none", !.derived = TRUE]]
    /\ Prepare(j, TRUE)
    /\ UNCHANGED <<sent, stateFile, prompts, crashes, losses, transcriber>>

\* A decoder that fails ends the request with it.
FailInput(j) ==
    /\ Preparing(j)
    /\ job' = [job EXCEPT ![j] = [@ EXCEPT !.claim = "none", !.state = "over"]]
    /\ Prepare(j, FALSE)
    /\ UNCHANGED <<sent, stateFile, prompts, crashes, losses, transcriber>>

\* The request ran out of time under the transcriber (410).
TooLate(j) ==
    /\ receiver.at = "transcribe" /\ j \in receiver.current
    /\ job[j].claim # "prep"
    /\ Prepare(j, FALSE)
    /\ UNCHANGED <<job, sent, stateFile, prompts, crashes, losses, transcriber>>

\* The chat takes the prompt in, for good; its acknowledgement may be lost, or
\* the prompt itself, and then the chat is checked before anything else.
Send ==
    /\ receiver.at = "prepare" /\ receiver.notices = {}
    /\ IF receiver.prepared = {} THEN At("poll") /\ UNCHANGED <<prompts, losses>>
       ELSE \/ /\ prompts' = prompts \cup {receiver.prepared}
               /\ At("save")
               /\ UNCHANGED losses
            \/ /\ losses < MaxLosses /\ losses' = losses + 1
               /\ prompts' \in {prompts, prompts \cup {receiver.prepared}}
               /\ receiver' = [ReceiverDown EXCEPT !.at = "check"]
    /\ UNCHANGED <<job, sent, stateFile, crashes, transcriber>>

\* accepted(): the ledger is replaced before memory.
SaveState ==
    /\ receiver.at = "save"
    /\ stateFile' = sent \cup receiver.prepared
    /\ sent' = sent \cup receiver.prepared
    /\ receiver' = [ReceiverDown EXCEPT !.at = "poll"]
    /\ UNCHANGED <<job, prompts, crashes, losses, transcriber>>

\* The server does not answer, or not as it should: once() starts over.
ServerFails ==
    /\ receiver.at \in {"poll", "prepare", "transcribe"} /\ losses < MaxLosses
    /\ losses' = losses + 1
    /\ receiver' = [ReceiverDown EXCEPT !.at = "poll"]
    /\ UNCHANGED <<job, sent, stateFile, prompts, crashes, transcriber>>

ReceiverCrashes ==
    /\ receiver.at # "down" /\ crashes < MaxCrashes
    /\ crashes' = crashes + 1
    /\ receiver' = ReceiverDown
    /\ sent' = {}
    /\ UNCHANGED <<job, stateFile, prompts, losses, transcriber>>

-----------------------------------------------------------------------------
(* The chat: woken by a prompt it claims what waits, people first. *)

ChatClaims(j) ==
    /\ \E p \in prompts : \E k \in p : Pending(k)
    /\ Pending(j) /\ job[j].claim = "none"
    /\ Human(j) \/ \A k \in Humans(Jobs) : ~(Pending(k) /\ job[k].claim = "none")
    /\ job' = [job EXCEPT ![j].claim = "chat"]
    /\ UNCHANGED <<receiver, sent, stateFile, prompts, crashes, losses, transcriber>>

ChatCompletes(j) ==
    /\ Pending(j) /\ job[j].claim = "chat"
    /\ job' = [job EXCEPT ![j] = [@ EXCEPT !.state = "over", !.claim = "none"]]
    /\ UNCHANGED <<receiver, sent, stateFile, prompts, crashes, losses, transcriber>>

ReceiverSteps ==
    \/ StartReceiver \/ AppAnswers \/ Poll \/ Send \/ SaveState
    \/ \E j \in Jobs : Include(j) \/ LeaveOut(j) \/ ReadInput(j) \/ Attach(j) \/ FailInput(j) \/ TooLate(j)

RcNext ==
    \/ ReceiverSteps
    \/ ServerFails \/ ReceiverCrashes
    \/ \E j \in Jobs : RequestMade(j) \/ DeadlinePasses(j) \/ ChatClaims(j) \/ ChatCompletes(j)

\* The receiver is a loop that its user restarts; the chat works off its prompts.
RcFairness ==
    /\ WF_receiverVars(ReceiverSteps)
    /\ \A j \in Jobs : WF_receiverVars(ChatClaims(j)) /\ WF_receiverVars(ChatCompletes(j))

RcSpec == RcInit /\ [][RcNext]_receiverVars /\ RcFairness

-----------------------------------------------------------------------------
\* Types, and what the receiver knows of memory and disk: while it runs, its
\* ledger on disk is what it has in memory.
LedgerOK ==
    /\ job \in [Jobs -> [state : {"none", "pending", "over"}, claim : {"none", "prep", "chat"},
                         derived : BOOLEAN]]
    /\ receiver.at # "down" => sent = stateFile
    /\ receiver.notices \cup receiver.prepared \subseteq Jobs

Unfinished == {p \in prompts : \E j \in p : Pending(j)}

\* The chat is not flooded: unless something was lost, at most two prompts
\* with work left are with it, and at most one holds a message of a person
\* (the latch of once(), against polling, finishing and overtaking).
NoFlood ==
    crashes + losses = 0 =>
        /\ Cardinality(Unfinished) <= 2
        /\ \A p, q \in Unfinished : p # q => Humans(p) = {} \/ Humans(q) = {} \/
                \A j \in Humans(p) : ~Pending(j) \/ \A k \in Humans(q) : ~Pending(k)

\* What the ledger holds is with the chat: nothing is taken for forwarded
\* that was not, whatever crashed or was lost (accepted() after send()).
LedgerIsTrue == stateFile \subseteq UNION prompts

\* A receiver that has a transcriber tells the chat of audio only once its transcript
\* is attached; one that has none tells it of the audio as it is.
AudioIsTranscribed ==
    transcriber => \A p \in prompts : \A j \in p : KindOf[j] = "audio" => job[j].derived

\* A person's message is answered, although something else was in the way when
\* it came, the receiver crashed, or a prompt or its acknowledgement was lost.
\* (A message comes once, so that the ones that wait can be taken together.)
Unanswered == \E j \in Humans(Jobs) : Pending(j)
EveryMessageIsAnswered == Unanswered ~> ~Unanswered

\* The receiver's memory of what it delivered is true, and prompts the host
\* with what is pending, transcribed where it transcribes, and no more often than that.
PromptsAreTrue ==
    /\ LedgerOK
    /\ NoFlood
    /\ LedgerIsTrue
    /\ AudioIsTranscribed
=============================================================================
