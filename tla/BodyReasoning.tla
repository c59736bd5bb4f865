---------------------------- MODULE BodyReasoning ----------------------------
(***************************************************************************)
(* Who reasons for the Body: HostAwareCore and HostAwareInterpreter.        *)
(*                                                                          *)
(* Something said to the Body goes to the reasoning host when one is live   *)
(* (BodyRequests shows what happens to it there); otherwise, when a         *)
(* fallback is allowed, to the configured reasoning endpoint, or to the     *)
(* standalone core.  The endpoint's interaction chooses the Mind's first    *)
(* name and pronouns when it may, and again when its completion is blocked  *)
(* for want of them, and then completes once more with the same key.  Media *)
(* goes to the configured specialist, then to the host, then to the         *)
(* fallback interpreter; automatic observations never leave the first of    *)
(* specialist and host that is there.                                       *)
(***************************************************************************)
EXTENDS Naturals, FiniteSets

CONSTANTS
    Turns,           \* calls
    KindOfTurn,      \* "talk", "interpret" or "automatic"
    Eligible,        \* experiences before a first choice is allowed
    Required,        \* experiences that need one
    MaxFlips,        \* bound: the host attaches or goes
    MaxExperience    \* bound: journal entries

ASSUME ReasoningAssumption ==
    /\ KindOfTurn \in [Turns -> {"talk", "interpret", "automatic"}]
    /\ Eligible \in Nat /\ Required \in Nat /\ Eligible <= Required

VARIABLES
    routes,          \* what is configured: events, fallback, endpoint, specialist
    live,            \* a reasoning host is live
    flips,
    mind,            \* [entries, chosen, choices]
    turn             \* each call

reasoningVars == <<routes, live, flips, mind, turn>>

-----------------------------------------------------------------------------
\* asked: who reasoned about it; may, must: whether what it read allows and needs
\* a choice; choosing: before the reply, or again after a blocked completion;
\* tries: bad choices.  No call carries a human's explicit naming command.
Unasked == [stage |-> "idle", asked |-> {}, may |-> FALSE, must |-> FALSE, choosing |-> "first",
            tries |-> 0, shown |-> FALSE]

MayChoose    == ~mind.chosen /\ mind.entries >= Eligible
MustChoose   == ~mind.chosen /\ mind.entries + 1 >= Required

ReasoningInit ==
    /\ routes \in [events : BOOLEAN, fallback : BOOLEAN, endpoint : BOOLEAN,
                   specialist : BOOLEAN]
    /\ live \in BOOLEAN /\ flips = 0
    /\ mind = [entries |-> 0, chosen |-> FALSE, choices |-> 0]
    /\ turn = [t \in Turns |-> Unasked]

Set(t, record) == turn' = [turn EXCEPT ![t] = record]
Ended(t, shown) == Set(t, [turn[t] EXCEPT !.stage = "ended", !.shown = shown])
AskReasoner(t, reasoner) ==
    Set(t, [turn[t] EXCEPT !.stage = reasoner, !.asked = @ \cup {reasoner}])

Outside == UNCHANGED <<routes, live, flips>>

-----------------------------------------------------------------------------
(* Routes.                                                                  *)

\* HostAwareCore.interact.  The endpoint's interaction begins at once, and reads
\* whether a choice is allowed.
Talk(t) ==
    /\ KindOfTurn[t] = "talk" /\ turn[t].stage = "idle"
    /\ \/ (routes.events \/ live) /\ AskReasoner(t, "host")
       \/ ~(routes.events \/ live) /\ ~routes.fallback /\ Ended(t, FALSE)
       \/ ~(routes.events \/ live) /\ routes.fallback /\ routes.endpoint
          /\ Set(t, [turn[t] EXCEPT !.stage = "choosing", !.asked = {"endpoint"},
                                    !.may = MayChoose, !.must = MustChoose])
       \/ ~(routes.events \/ live) /\ routes.fallback /\ ~routes.endpoint
          /\ AskReasoner(t, "standalone")
    /\ UNCHANGED mind /\ Outside

\* interpret and interpret_automatically: the specialist, if there is one.
InterpretTurn(t) ==
    /\ KindOfTurn[t] # "talk" /\ turn[t].stage = "idle"
    /\ IF routes.specialist THEN AskReasoner(t, "specialist")
       ELSE Set(t, [turn[t] EXCEPT !.stage = "handing"])
    /\ UNCHANGED mind /\ Outside

\* The specialist answers, or fails: what was automatic fails with it, while a
\* deliberate interpretation is handed on.
SpecialistAnswers(t) ==
    /\ turn[t].stage = "specialist"
    /\ \/ Ended(t, TRUE)
       \/ KindOfTurn[t] = "automatic" /\ Ended(t, FALSE)
       \/ KindOfTurn[t] = "interpret" /\ Set(t, [turn[t] EXCEPT !.stage = "handing"])
    /\ UNCHANGED mind /\ Outside

\* The host, if one is live; then, for a deliberate interpretation, the fallback
\* interpreter, unless the specialist already failed: then the media is left
\* uninterpreted and only its reference is passed on.
HandOn(t) ==
    /\ turn[t].stage = "handing"
    /\ LET reachable == live \/ (KindOfTurn[t] = "automatic" /\ routes.events)
       IN  \/ reachable /\ AskReasoner(t, "host")
           \/ ~reachable /\ (KindOfTurn[t] = "automatic" \/ ~routes.fallback) /\ Ended(t, FALSE)
           \/ ~reachable /\ KindOfTurn[t] = "interpret" /\ routes.fallback
              /\ IF "specialist" \in turn[t].asked THEN Ended(t, TRUE)
                                                   ELSE AskReasoner(t, "fallback")
    /\ UNCHANGED mind /\ Outside

\* The host's answer, the standalone core's or the fallback's; or it times out,
\* was detached or fails, and the call fails.
ReasonerAnswers(t) ==
    /\ turn[t].stage \in {"host", "standalone", "fallback"}
    /\ \/ Ended(t, TRUE) \/ Ended(t, FALSE)
    /\ \/ UNCHANGED mind
       \/ KindOfTurn[t] = "talk" /\ mind.entries < MaxExperience /\ ~MustChoose
          /\ mind' = [mind EXCEPT !.entries = @ + 1]
    /\ Outside

-----------------------------------------------------------------------------
(* The endpoint's interaction.                                              *)

\* _choose_initial_identity: unless what was read forbids a choice, the model is
\* asked; it may decline what is not required, answer badly twice, or choose.
Chosen(t) ==
    Set(t, [turn[t] EXCEPT !.stage = IF turn[t].choosing = "first" THEN "replying" ELSE "completing",
                           !.tries = 0])

NoChoice(t) ==
    /\ turn[t].stage = "choosing"
    /\ ~turn[t].may \/ ~turn[t].must
    /\ Chosen(t)
    /\ UNCHANGED mind /\ Outside

BadChoice(t) ==
    /\ turn[t].stage = "choosing" /\ turn[t].may
    /\ IF turn[t].tries = 1 THEN Ended(t, FALSE)
                            ELSE Set(t, [turn[t] EXCEPT !.tries = 1])
    /\ UNCHANGED mind /\ Outside

\* Fault: the choice is accepted as it was allowed when the turn began.
ChoiceAsBegun(t) ==
    /\ turn[t].stage = "choosing" /\ turn[t].may
    /\ mind' = [mind EXCEPT !.chosen = TRUE, !.choices = @ + 1]
    /\ Chosen(t)
    /\ Outside

\* The Governance Steward accepts the choice only if nobody chose meanwhile.
Choice(t) ==
    /\ turn[t].stage = "choosing" /\ turn[t].may
    /\ IF MayChoose
       THEN /\ mind' = [mind EXCEPT !.chosen = TRUE, !.choices = @ + 1]
            /\ Chosen(t)
       ELSE /\ UNCHANGED mind
            /\ Ended(t, FALSE)
    /\ Outside

\* The endpoint replies, or fails.
Reply(t) ==
    /\ turn[t].stage = "replying"
    /\ Set(t, [turn[t] EXCEPT !.stage = "completing"]) \/ Ended(t, FALSE)
    /\ UNCHANGED mind /\ Outside

\* The first blocked completion chooses and completes again; the second is
\* withheld.  A completion that cannot be stored is shown if The Breaker lets it.
CompleteTurn(t) ==
    /\ turn[t].stage = "completing"
    /\ IF MustChoose
       THEN /\ IF turn[t].choosing = "first"
               THEN Set(t, [turn[t] EXCEPT !.stage = "choosing", !.choosing = "again",
                                           !.may = MayChoose, !.must = TRUE])
               ELSE Ended(t, FALSE)
            /\ UNCHANGED mind
       ELSE \/ /\ mind.entries < MaxExperience
               /\ mind' = [mind EXCEPT !.entries = @ + 1]
               /\ Ended(t, TRUE)
            \/ \E allowed \in BOOLEAN : Ended(t, allowed) /\ UNCHANGED mind
    /\ Outside

-----------------------------------------------------------------------------
\* The host attaches, or its heartbeat stops.
HostFlips ==
    /\ flips < MaxFlips
    /\ flips' = flips + 1 /\ live' = ~live
    /\ UNCHANGED <<routes, mind, turn>>

\* Other interactions and observations add to the journal.
Experience ==
    /\ mind.entries < MaxExperience
    /\ mind' = [mind EXCEPT !.entries = @ + 1]
    /\ UNCHANGED <<routes, live, flips, turn>>

TurnSteps(t) ==
    \/ Talk(t) \/ InterpretTurn(t) \/ SpecialistAnswers(t) \/ HandOn(t) \/ ReasonerAnswers(t)
    \/ NoChoice(t) \/ BadChoice(t) \/ Choice(t) \/ Reply(t) \/ CompleteTurn(t)

ReasoningNext ==
    \/ \E t \in Turns : TurnSteps(t)
    \/ HostFlips \/ Experience

ReasoningSpec == ReasoningInit /\ [][ReasoningNext]_reasoningVars

-----------------------------------------------------------------------------
\* Every record holds what its stage allows.
BodyReasoningOK ==
    \A t \in Turns :
        /\ turn[t].stage = "idle" => turn[t] = Unasked
        /\ turn[t].tries \in 0 .. 1
        /\ turn[t].stage \in {"choosing", "replying", "completing"} => turn[t].asked = {"endpoint"}

\* "never silently double-run a timeout": what was said is reasoned about once,
\* whatever attaches, goes or times out meanwhile; an automatic observation too;
\* and a deliberate interpretation never goes from a failed specialist or host
\* to the fallback interpreter.
ReasonedOnce ==
    \A t \in Turns :
        IF KindOfTurn[t] = "interpret"
        THEN turn[t].asked \in {{}, {"specialist"}, {"host"}, {"fallback"}, {"specialist", "host"}}
        ELSE Cardinality(turn[t].asked) <= 1

\* Two interactions that were both allowed a first choice, one of them before the
\* other chose, do not choose twice; and no first choice comes too early.
ChosenOnce == mind.choices <= 1 /\ (mind.chosen => mind.entries >= Eligible)

\* A turn of the Body is answered by one reasoner, and the identity is chosen once.
TurnsAreReasoned ==
    /\ BodyReasoningOK
    /\ ReasonedOnce
    /\ ChosenOnce
=============================================================================
