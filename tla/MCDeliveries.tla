----------------------------- MODULE MCDeliveries -----------------------------
(***************************************************************************)
(* What has to arrive, on small instances: events to subscribers, prompts to *)
(* the reasoning chat, speech to a Body's windows, tasks to providers.       *)
(*                                                                           *)
(* These components share no state: as in MCRecords, an initial state        *)
(* chooses the one that moves.                                               *)
(***************************************************************************)
EXTENDS MessageEvents, BodyReceiver, BodyVoice, TaskDispatch

CONSTANTS h1, h2, a1, k1, k2, g1, g2, e1, e2, q1, q2

VARIABLE component

-----------------------------------------------------------------------------
(* Values of the components' constants. *)

\* Two messages of people, and something heard.
PeopleAndSound == h1 :> "human" @@ h2 :> "human" @@ a1 :> "audio"

\* Two endpoints: neither bound to a model, one bound, one under both names,
\* and one not saved.
Matching(a, b, bound) == [match |-> k1 :> a @@ k2 :> b, bound |-> e1 :> bound @@ e2 :> NoModel]
FirstCatalog == Matching(e1, e2, NoModel)
SavedCatalogs == {FirstCatalog, Matching(e1, e2, g1), Matching(e1, e1, NoModel),
                  Matching(NoEndpoint, e2, NoModel)}

\* A provider and another, and a provider with two models: two candidates or
\* one, as the catalog has it.
Choice(name, model) == [provider |-> name, model |-> model]
TwoNames == <<Choice(k1, g1), Choice(k2, g1)>>
SavedPools == {TwoNames, <<Choice(k1, g1), Choice(k1, g2)>>}
ReviewAndChat == q1 :> "review" @@ q2 :> "chat"

-----------------------------------------------------------------------------
Components == {"events", "receiver", "voice", "dispatch"}

\* The initial choices of a component that does not move make no difference; a
\* catalog with another one is an edit away.
DeliveriesInit ==
    /\ component \in Components
    /\ EvInit /\ RcInit /\ VcInit /\ DispatchInit
    /\ component # "receiver" => ~transcriber
    /\ catalog = FirstCatalog
    /\ component # "dispatch" => pool = TwoNames

Acting(name) ==
    /\ component = name /\ UNCHANGED component
    /\ IF name = "events"   THEN EvNext       ELSE UNCHANGED eventVars
    /\ IF name = "receiver" THEN RcNext       ELSE UNCHANGED receiverVars
    /\ IF name = "voice"    THEN VcNext       ELSE UNCHANGED voiceVars
    /\ IF name = "dispatch" THEN DispatchNext ELSE UNCHANGED dispatchVars

DeliveriesNext == \E name \in Components : Acting(name)

deliveriesVars == <<component, eventVars, receiverVars, voiceVars, dispatchVars>>

\* EvFairness, RcFairness, VcFairness and DispatchFairness, each for as long as
\* its component is the one that moves.
DeliveriesFairness ==
    /\ \A w \in Workers : WF_eventVars(component = "events" /\ Works(w))
    /\ \A m \in Messages :
          WF_eventVars(component = "events" /\ (SubmitAppends(m) \/ SubmitMarks(m)))
    /\ \A k \in Keys : /\ WF_eventVars(component = "events" /\ ClaimLapses(k))
                       /\ WF_eventVars(component = "events" /\ BackoffPasses(k))
    /\ WF_receiverVars(component = "receiver" /\ ReceiverSteps)
    /\ \A j \in Jobs : /\ WF_receiverVars(component = "receiver" /\ ChatClaims(j))
                       /\ WF_receiverVars(component = "receiver" /\ ChatCompletes(j))
    /\ \A w \in Windows : /\ WF_voiceVars(component = "voice" /\ Listens(w))
                          /\ WF_voiceVars(component = "voice" /\ Heartbeat(w))
    /\ \A q \in Callers : WF_dispatchVars(component = "dispatch" /\ CallSteps(q))

DeliveriesSpec == DeliveriesInit /\ [][DeliveriesNext]_deliveriesVars /\ DeliveriesFairness

\* Who comes late changes nothing: a worker whose claim was taken over, and a
\* failure that asks for a shorter cooldown than the one that stands.
LateComersYield == LateResultsIgnored /\ CooldownsNeverShorten

\* Every event owed, every message, everything to be said and every call ends,
\* whatever is lost, lapses, crashes or fails on the way: EveryOwedEventEnds,
\* EveryMessageIsAnswered, EveryIntentIsSaid and EveryCallEnds, of which only the
\* one of the component that moves is not met at once.
Unended(w) == StillOwed \/ Unanswered \/ Silent(w) \/ UnderWay
EverythingEnds == \A w \in Windows : Unended(w) ~> ~Unended(w)
=============================================================================
