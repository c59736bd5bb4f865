------------------------------ MODULE MCRecords ------------------------------
(***************************************************************************)
(* What the Mind records, on small instances: beliefs, the current-state    *)
(* ledger, consolidations, people, evidence, settings, identity, accounts.  *)
(*                                                                          *)
(* These components share no state, so that a behavior of all of them is    *)
(* one behavior of each: here an initial state chooses the component that   *)
(* moves, and the others stay in an initial state of theirs.                *)
(***************************************************************************)
EXTENDS MCBeliefGovernance, StateLedger, Sleep, People, Perception, AdminSettings,
        BodyReasoning, Accounts

CONSTANTS p1, p2, n1, n2, here1, here2, sight1, sight2, sight3

VARIABLE component

-----------------------------------------------------------------------------
(* Values of the components' constants. *)

\* A session starts, the topic or the speaker changes, two people talk, somebody unknown does,
\* and the Body perceives someone, or nobody.
TurnsAndEvents ==
    {[kind |-> "event", event |-> "session_started", invalidate |-> {}, values |-> <<>>],
     [kind |-> "event", event |-> "topic_changed", invalidate |-> {"who_is_present"},
      values |-> <<>>],
     [kind |-> "event", event |-> "speaker_changed", invalidate |-> {},
      values |-> [who_is_speaking |-> Answer({p2}, "current", "event")]],
     [kind |-> "begin", from |-> "human", participants |-> {p1, p2}, speaker |-> {p1},
      sensed |-> {}, notes |-> {"summary"}],
     [kind |-> "begin", from |-> "human", participants |-> {}, speaker |-> {}, sensed |-> {},
      notes |-> {}],
     [kind |-> "begin", from |-> "body", participants |-> {}, speaker |-> {}, sensed |-> {p2},
      notes |-> {"references"}],
     [kind |-> "begin", from |-> "body", participants |-> {}, speaker |-> {}, sensed |-> {},
      notes |-> {}]}

ByName == n1 :> 1 @@ n2 :> 2

\* Two sights of one place, one of another.
Captured == sight1 :> here1 @@ sight2 :> here1 @@ sight3 :> here2

TwoTalkOneLooks == 1 :> "talk" @@ 2 :> "talk" @@ 3 :> "interpret" @@ 4 :> "automatic"

\* Every component's actors are the same two, and so are the things they handle;
\* all components treat them alike.
Symmetric == Permutations(Editors) \cup Permutations(Evidence)

-----------------------------------------------------------------------------
Components == {"beliefs", "ledger", "sleep", "people", "perception", "settings", "reasoning",
               "accounts"}

\* The initial choices of a component that does not move make no difference.
RecordsInit ==
    /\ component \in Components
    /\ BeliefsInit /\ LedgerInit /\ SleepInit /\ PeopleInit /\ PerceptionInit
    /\ SettingsInit /\ ReasoningInit /\ AccountsInit
    /\ component # "ledger" => store = "memory"
    /\ component # "settings" => shape = "fields"
    /\ component # "reasoning" => ~live /\ \A route \in DOMAIN routes : ~routes[route]

Acting(name) ==
    /\ component = name /\ UNCHANGED component
    /\ IF name = "beliefs"    THEN BeliefsNext    ELSE UNCHANGED beliefVars
    /\ IF name = "ledger"     THEN LedgerNext     ELSE UNCHANGED ledgerVars
    /\ IF name = "sleep"      THEN SleepNext      ELSE UNCHANGED sleepVars
    /\ IF name = "people"     THEN PeopleNext     ELSE UNCHANGED peopleVars
    /\ IF name = "perception" THEN PerceptionNext ELSE UNCHANGED perceptionVars
    /\ IF name = "settings"   THEN SettingsNext   ELSE UNCHANGED settingsVars
    /\ IF name = "reasoning"  THEN ReasoningNext  ELSE UNCHANGED reasoningVars
    /\ IF name = "accounts"   THEN AccountsNext   ELSE UNCHANGED accountVars

RecordsNext == \E name \in Components : Acting(name)

recordsVars == <<component, beliefVars, ledgerVars, sleepVars, peopleVars, perceptionVars,
                 settingsVars, reasoningVars, accountVars>>

RecordsSpec == RecordsInit /\ [][RecordsNext]_recordsVars

\* Later interactions do not rewrite the evidence behind beliefs, nor saves that
\* carry a revision what another administrator saved.
NothingIsRewritten == EvidencePreserved /\ OthersEditsStay
=============================================================================
