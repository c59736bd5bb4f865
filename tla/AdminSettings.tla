---------------------------- MODULE AdminSettings ----------------------------
(***************************************************************************)
(* What administrators save: settings of five shapes, edited on pages that *)
(* show what was saved when they were opened.                              *)
(*                                                                         *)
(*   fields     voice settings and the cognitive configuration: one        *)
(*              revision, the changed fields are merged                    *)
(*              (voice_settings.py, cognitive_configuration.py)            *)
(*   catalog    host behaviors: one revision, the whole catalog is         *)
(*              replaced (host_behaviors.py)                               *)
(*   endpoints  provider endpoints: likewise, but a caller may leave the   *)
(*              revision out (provider_endpoints.py)                       *)
(*   skills     a revision per skill (effective_skills.py)                 *)
(*   table      task behaviors, assignments and MCP servers: the whole     *)
(*              table is replaced and no revision is asked for             *)
(*              (task_behaviors.py, task_model_assignments.py,             *)
(*              mcp_registry.py)                                           *)
(*                                                                         *)
(* One setting stands for all of its shape.  The catalog depends on two    *)
(* tables: until it is first saved, the inline instructions of tasks are   *)
(* items of it as long as the tasks have no explicit behaviors; and saving *)
(* the assignments, which gives them such, first stores those items by     *)
(* replacing the catalog.                                                  *)
(*                                                                         *)
(* The Mind's identity (admin_configuration.py) and the durable memories   *)
(* an administrator corrects (api.py) are changed by an atomic operation   *)
(* that journals what it replaced.                                         *)
(***************************************************************************)
EXTENDS Naturals, FiniteSets, Sequences

CONSTANTS Items,        \* the fields, skills or rows of a setting
          Promoted,     \* of a catalog: the items that stand for a task's inline instructions
          Options,      \* what they may be set to
          Default,      \* what the package ships
          Nothing,      \* no such item, no such instructions
          Admins,       \* the administrators' pages
          Unsaved,      \* a setting nobody saved yet
          Shut,         \* a page that is not open
          MaxSaves,     \* bound on the saves of a setting
          MaxRevisions  \* bound on the revisions of the identity

Shapes == {"fields", "catalog", "endpoints", "skills", "table"}
Documents == Options \cup {Default, Nothing}

ASSUME SettingsAssumption ==
    /\ {MaxSaves, MaxRevisions} \subseteq Nat
    /\ Unsaved \notin [rev : Nat, items : [Items -> Documents], revs : [Items -> Nat]]

VARIABLES shape,    \* the shape of the setting; it never changes
          saved,    \* its record
          inline,   \* the inline instructions of the promoted items' tasks
          assigned, \* the tasks have explicit behaviors
          shelf,    \* what each page shows and is saving
          identity, \* the governed document: the identity, or one memory
          history   \* what the journal says replaced what in it

settingsVars == <<shape, saved, inline, assigned, shelf, identity, history>>

----------------------------------------------------------------------------
(* Records and pages.                                                      *)

\* What is shown of a setting that nobody saved: the package's defaults, and
\* what a catalog promotes.
Packaged ==
    [rev |-> 0, revs |-> [i \in Items |-> 0],
     items |-> [i \in Items |-> IF shape # "catalog" \/ i \notin Promoted THEN Default
                                ELSE IF assigned THEN Nothing ELSE inline[i]]]

\* Whatever saves a catalog marks it as migrated: nothing is promoted any more.
Effective(record) == IF record = Unsaved THEN Packaged ELSE record

\* The revision that a page must still be at to change item i.
RevisionOf(record, i) == IF shape = "skills" THEN record.revs[i] ELSE record.rev

SettingsInit ==
    /\ shape \in Shapes
    /\ saved = Unsaved
    /\ inline = [i \in Promoted |-> Nothing]
    /\ assigned = FALSE
    /\ shelf = [a \in Admins |-> Shut]
    /\ identity = Default
    /\ history = <<>>

----------------------------------------------------------------------------
(* Saving a setting.                                                       *)

At(a, step) == shelf[a] # Shut /\ shelf[a].step = step
Shows(a) == At(a, "open")
PageBecomes(a, page) == shelf' = [shelf EXCEPT ![a] = page]

NoDocuments == UNCHANGED <<identity, history>>
NoTables == UNCHANGED <<shape, inline, assigned>>

OpenSetting(a) ==
    /\ shelf[a] = Shut
    /\ PageBecomes(a, [step |-> "open", seen |-> Effective(saved)])
    /\ UNCHANGED saved /\ NoTables /\ NoDocuments

Close(a) ==
    /\ Shows(a)
    /\ PageBecomes(a, Shut)
    /\ UNCHANGED saved /\ NoTables /\ NoDocuments

\* The saves that carry a revision: none of a table's, and of the endpoints'
\* those of a caller that does not leave it out.
MayCheck == shape # "table"
MayOmit == shape \in {"table", "endpoints"}

\* A revision the page no longer matches: somebody saved since.
PageStale(a, i) == RevisionOf(shelf[a].seen, i) # RevisionOf(Effective(saved), i)

\* Merged fields keep what else was saved; a catalog or a table is what the
\* page shows; a skill is added to what was saved of the others.
Revised(page, i, v) ==
    LET base == Effective(saved)
        items == IF shape \in {"fields", "skills"} THEN base.items ELSE page.items
    IN  [rev |-> base.rev + 1,
         items |-> [items EXCEPT ![i] = v],
         revs |-> IF shape = "skills" THEN [base.revs EXCEPT ![i] = @ + 1] ELSE base.revs]

Settable == IF shape = "catalog" THEN Options \cup {Nothing} ELSE Options

Saving(after, checked, assigns) ==
    [step |-> "saving", before |-> saved, after |-> after, checked |-> checked,
     assigns |-> assigns]

\* The administrator changes one item and saves: the record is read again,
\* and the save is refused if the revision it carries is another.
Submit(a, i, v) ==
    /\ Shows(a)
    /\ Effective(saved).rev < MaxSaves
    /\ \/ MayCheck /\ PageStale(a, i) /\ PageBecomes(a, Shut)
       \/ MayCheck /\ ~PageStale(a, i)
             /\ PageBecomes(a, Saving(Revised(shelf[a].seen, i, v), TRUE, FALSE))
       \/ MayOmit /\ PageBecomes(a, Saving(Revised(shelf[a].seen, i, v), FALSE, FALSE))
    /\ UNCHANGED saved /\ NoTables /\ NoDocuments

\* Create if there was no record, replace the one that was read otherwise: a
\* save in between refuses this one.
Write(a) ==
    /\ At(a, "saving")
    /\ IF saved = shelf[a].before
       THEN /\ saved' = shelf[a].after
            /\ PageBecomes(a, IF shelf[a].assigns THEN [step |-> "assigning"] ELSE Shut)
       ELSE PageBecomes(a, Shut) /\ UNCHANGED saved
    /\ NoTables /\ NoDocuments

----------------------------------------------------------------------------
(* The tables a catalog depends on.                                        *)

\* The inline instructions of a task are edited, while the catalog still
\* promotes them.
EditInline(i, v) ==
    /\ shape = "catalog" /\ saved = Unsaved /\ ~assigned
    /\ inline' = [inline EXCEPT ![i] = v]
    /\ UNCHANGED <<shape, saved, assigned, shelf>> /\ NoDocuments

\* The assignments of tasks are saved: first the catalog is listed.
BeginAssignments(a) ==
    /\ shape = "catalog" /\ shelf[a] = Shut
    /\ PageBecomes(a, [step |-> "listed", items |-> Effective(saved).items])
    /\ UNCHANGED saved /\ NoTables /\ NoDocuments

Stored == IF saved = Unsaved THEN {} ELSE {i \in Items : saved.items[i] # Nothing}

\* Then its record is read: is an item of a task listed that is not stored?
Materialize(a) ==
    /\ At(a, "listed")
    /\ IF \E i \in Promoted \ Stored : shelf[a].items[i] # Nothing
       THEN PageBecomes(a, [shelf[a] EXCEPT !.step = "materializing"])
       ELSE PageBecomes(a, [step |-> "assigning"])
    /\ UNCHANGED saved /\ NoTables /\ NoDocuments

\* If so, what was listed becomes the catalog, whatever its revision is now.
Rewrite(a) ==
    /\ At(a, "materializing")
    /\ Effective(saved).rev < MaxSaves
    /\ PageBecomes(a, Saving([Effective(saved) EXCEPT !.rev = @ + 1, !.items = shelf[a].items],
                             FALSE, TRUE))
    /\ UNCHANGED saved /\ NoTables /\ NoDocuments

\* At last the assignments, in which every task names its behaviors.
Assign(a) ==
    /\ At(a, "assigning")
    /\ assigned' = TRUE
    /\ PageBecomes(a, Shut)
    /\ UNCHANGED <<shape, saved, inline>> /\ NoDocuments

----------------------------------------------------------------------------
(* Governed documents.                                                     *)

NoSettings == UNCHANGED <<shape, saved, inline, assigned>>

OpenDocument(a) ==
    /\ shelf[a] = Shut
    /\ PageBecomes(a, [step |-> "document", shown |-> identity])
    /\ NoSettings /\ NoDocuments

\* Fault: the page's document is replaced although it is not the current one.
SaveDocumentBlindly(a, v) ==
    /\ At(a, "document")
    /\ Len(history) < MaxRevisions
    /\ identity' = v
    /\ history' = Append(history, [before |-> shelf[a].shown, after |-> v])
    /\ PageBecomes(a, Shut)
    /\ NoSettings

\* One atomic operation replaces the document the page shows and journals it;
\* an unchanged one is left alone, a changed one refuses the page.
SaveDocument(a, v) ==
    /\ At(a, "document")
    /\ Len(history) < MaxRevisions
    /\ IF identity = shelf[a].shown /\ v # identity
       THEN /\ identity' = v
            /\ history' = Append(history, [before |-> shelf[a].shown, after |-> v])
       ELSE NoDocuments
    /\ PageBecomes(a, Shut)
    /\ NoSettings

SettingsNext ==
    \/ \E a \in Admins :
          \/ OpenSetting(a)
          \/ \E i \in Items, v \in Settable : Submit(a, i, v)
          \/ Write(a) \/ Close(a) \/ OpenDocument(a)
          \/ BeginAssignments(a) \/ Materialize(a) \/ Rewrite(a) \/ Assign(a)
          \/ \E v \in Options \cup {Default} : SaveDocument(a, v)
    \/ \E i \in Promoted, v \in Options \cup {Nothing} : EditInline(i, v)

SettingsSpec == SettingsInit /\ [][SettingsNext]_settingsVars

----------------------------------------------------------------------------
(* Properties.                                                             *)

Record(r) ==
    /\ r.rev \in 0..MaxSaves
    /\ r.items \in [Items -> Documents]
    /\ r.revs \in [Items -> Nat]

\* Settings, pages and the governed document are well formed.
SettingsOK ==
    /\ shape \in Shapes
    /\ saved # Unsaved => Record(saved)
    /\ identity \in Documents
    /\ \A a \in Admins : Shows(a) => Record(shelf[a].seen)

Changed == {i \in Items : Effective(saved').items[i] # Effective(saved).items[i]}

\* A save that carries a revision changes what its administrator changed and
\* nothing else, whoever saved, with or without a revision, since its page was
\* opened.  Excepted is the first save of a catalog: its page may have been
\* opened before the inline instructions of a task were last edited.
OthersEditsStay ==
    [][\A w \in Admins :
          (At(w, "saving") /\ shelf[w].checked /\ shelf'[w] # shelf[w]
              /\ (shape = "catalog" => saved # Unsaved))
                => Cardinality(Changed) <= 1]_settingsVars

\* Of the behavior catalog the tests say "Behavior saves must carry a current
\* revision and preserve competing saves": once it is saved no step changes two
\* items.  It does not hold: saving the assignments of tasks replaces the
\* catalog by what was listed before a competing save.
CompetingSavesStay ==
    [][shape = "catalog" /\ saved # Unsaved => Cardinality(Changed) <= 1]_settingsVars

\* The revision of what was saved names its content: a page that is still at it
\* shows what is saved, whatever saves raced, with a revision or without.
\* (Before it is saved, a catalog has revision 0 whatever it promotes.)
RevisionNamesContent ==
    \A a \in Admins, i \in Items :
        (saved # Unsaved /\ MayCheck /\ Shows(a) /\ ~PageStale(a, i)) =>
            LET shown == shelf[a].seen.items
                now == Effective(saved).items
            IN  IF shape = "skills" THEN shown[i] = now[i] ELSE shown = now

\* The journal tells how the document came to be what it is: each entry
\* replaced what the one before it left.
HistoryTellsDocument ==
    /\ identity = IF history = <<>> THEN Default ELSE history[Len(history)].after
    /\ \A k \in 1..Len(history) :
          history[k].before = IF k = 1 THEN Default ELSE history[k - 1].after

\* Administrators who save at once never lose track of what a revision, or an
\* entry of the history, stands for.
SettingsHold ==
    /\ SettingsOK
    /\ RevisionNamesContent
    /\ HistoryTellsDocument
=============================================================================
