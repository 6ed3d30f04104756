------------------------------- MODULE Manage -------------------------------
(***************************************************************************)
(* The interactive manager (commands/manage/tui.rs, app/, deps.rs): one    *)
(* thread takes keys and the results of background tasks in turns; a task  *)
(* asks a provider for versions or an update, or adds dependencies.        *)
(*                                                                         *)
(* Abstracted: Mode::Normal is "List" or "Detail" by its focus; cursors,   *)
(* scrolling, the query and the category filter are a choice of what is    *)
(* selected; naming a category is a way to toggle one; the help overlay    *)
(* only withholds keys; status lines and the mouse are left out.  A task   *)
(* that asks is done when its result is taken from the channel.  "version" *)
(* stands for version, download_url, hash and hash_type.  What a dialog    *)
(* shows is dropped when it closes; the code drops it when it next opens,  *)
(* and looks at it in the dialog alone.  The three stores are one; what a  *)
(* key reads and writes at once is one step; a dependency that the tree    *)
(* shows twice is added once.                                              *)
(***************************************************************************)
EXTENDS Naturals, FiniteSets

CONSTANTS
  Items,       \* ids (slugs) a tracked mod or a dependency may have
  Sources,     \* sources a mod may come from (ModSource)
  IdOf,        \* IdOf[s]: ModSource::source_id, which leaves the kind out
  SlugOf,      \* SlugOf[s]: the slug an added mod of that source is stored under
  Finds,       \* Finds[s]: what asking for s may find, itself or by a search
  Start,       \* Start[m]: the record of each mod the command loaded
  Editable,    \* items that are resolved and of a source with an API
  Provided,    \* items whose source the registry has a provider for
  VersionsOf,  \* VersionsOf[s]: the versions the provider lists for s
  Values,      \* what the other edited fields may hold
  Default,     \* what they hold in an entry that was just added
  NoItem, NoUpdate, NoOp,  \* the None of selected_mod, update_result and pending_async
  MaxEdits,    \* bound on saved edits and toggles
  MaxTasks,    \* bound on background tasks
  MaxFaults    \* bound on mods a disk operation fails for

Mods == DOMAIN Start

Versions == UNION {VersionsOf[s] : s \in Sources}

\* Dependency: an id and a source.
Edges == Items \X Sources

Ids(S) == {e[1] : e \in S}

Records == [source : Sources, version : Versions, env : Values,
            description : Values, categories : Values, deps : SUBSET Edges]

\* What AddContext::add is about to save under a slug, and whether it waits for
\* the answer to "Update to latest version?" or "Overwrite existing entry?".
Adds == [slug : Items, record : Records, prompt : {"none", "update", "replace"}]

Ops == {"FetchVersions", "CheckUpdate", "InstallDeps"}

Tasks == [id : 1..MaxTasks, op : Ops, mod : Mods, current : Versions,
          asked : SUBSET Items, todo : SUBSET Edges, adding : SUBSET Adds,
          failed : BOOLEAN]

ASSUME ManageAssumption ==
  /\ Mods \subseteq Items
  /\ Start \in [Mods -> Records]
  /\ VersionsOf \in [Sources -> SUBSET Versions]
  /\ SlugOf \in [Sources -> Items]
  /\ Finds \in [Sources -> SUBSET Sources]
  /\ NoItem \notin Items
  /\ NoUpdate \notin Items \X Versions
  /\ NoOp \notin Ops
  /\ MaxEdits \in Nat
  /\ MaxTasks \in Nat
  /\ MaxFaults \in Nat
  /\ Default \in Values

VARIABLES
  mods,        \* ManageApp::mods, the records loaded at the start and edited
  disk,        \* the entries of the modpack's stores
  selected,    \* selected_mod()
  mode,        \* ManageApp::mode
  versions,    \* version_list, as <<mod, version>> pairs
  loading,     \* version_loading
  update,      \* update_result: <<ModUpdate::id, latest_version>>
  pending,     \* pending_async
  missing,     \* the dep_entries that are not installed, as <<mod_id, source>>
  marked,      \* dep_marked
  installing,  \* dep_installing
  tasks,       \* background tasks whose result has not been taken
  spawned,     \* tasks so far
  edits,       \* edits so far
  spoiled,     \* history: mods a disk operation has failed for
  agreed,      \* history: entries an install's prompt got a yes for
  on           \* the program runs

data == <<mods, disk, spoiled, agreed, edits>>
dialog == <<versions, loading, update>>
install == <<missing, marked, installing>>
work == <<tasks, spawned>>
vars == <<data, selected, mode, dialog, pending, install, work, on>>

-----------------------------------------------------------------------------
(* Background tasks *)

\* The three spawn_ functions share the guard on pending_async; one without a
\* provider returns without a task.
Spawn(op, ready, todo) ==
  IF pending' = op /\ ready
    THEN /\ spawned < MaxTasks
         /\ spawned' = spawned + 1
         /\ tasks' = tasks \cup
              {[id |-> spawned', op |-> op, mod |-> selected,
                current |-> mods[selected].version,
                asked |-> Ids(todo), todo |-> todo, adding |-> {},
                failed |-> FALSE]}
    ELSE UNCHANGED work

Take(t, op) ==
  /\ on
  /\ t.op = op
  /\ tasks' = tasks \ {t}
  /\ UNCHANGED <<data, selected, on, spawned>>

\* AsyncResult::Versions: the filters let any part of the list through, or the
\* request failed.
HearVersions(t) ==
  /\ Take(t, "FetchVersions")
  /\ IF mode # "EditVersion"
       THEN UNCHANGED <<versions, loading, pending, mode>>
       ELSE /\ loading' = FALSE
            /\ \/ /\ \E vs \in SUBSET VersionsOf[Start[t.mod].source] :
                       versions' = {t.mod} \X vs
                  /\ UNCHANGED <<pending, mode>>
               \/ /\ pending' = NoOp
                  /\ mode' = "Detail"
                  /\ UNCHANGED versions
  /\ UNCHANGED <<update, install>>

\* AsyncResult::UpdateCheck, in the dialog and, as the code has it, in two
\* modes of the dependency screens.
HearUpdate(t) ==
  /\ Take(t, "CheckUpdate")
  /\ IF mode \in {"InstallDeps", "DepTree"}
       THEN installing' = FALSE /\ pending' = NoOp /\ UNCHANGED update
       ELSE /\ UNCHANGED installing
            /\ \/ /\ mode = "UpdateCheck"
                  /\ \/ \E v \in VersionsOf[Start[t.mod].source] \ {t.current} :
                          update' = <<t.mod, v>>
                     \/ update' = NoUpdate
                  /\ UNCHANGED pending
               \/ /\ mode = "UpdateCheck"  \* the request failed
                  /\ pending' = NoOp
                  /\ UNCHANGED update
               \/ mode # "UpdateCheck" /\ UNCHANGED <<update, pending>>
  /\ UNCHANGED <<versions, loading, missing, marked, mode>>

\* A failed install is reported, but stays in progress.
HearInstallOnlySuccess(t) ==
  /\ Take(t, "InstallDeps")
  /\ t.todo = {} /\ t.adding = {}
  /\ IF mode = "InstallProgress" /\ ~t.failed
       THEN installing' = FALSE /\ pending' = NoOp /\ marked' = marked \ t.asked
       ELSE UNCHANGED <<installing, pending, marked>>
  /\ UNCHANGED <<dialog, missing, mode>>

\* AsyncResult::InstallDeps, heard on the progress screen only.
HearInstall(t) ==
  /\ Take(t, "InstallDeps")
  /\ t.todo = {} /\ t.adding = {}
  /\ IF mode = "InstallProgress"
       THEN /\ installing' = FALSE
            /\ pending' = NoOp
            /\ marked' = IF t.failed THEN marked ELSE marked \ t.asked
       ELSE UNCHANGED <<installing, pending, marked>>
  /\ UNCHANGED <<dialog, missing, mode>>

Becomes(t, u) == tasks' = (tasks \ {t}) \cup {u}

Fresh(s, v) == [source |-> s, version |-> v, env |-> Default,
                description |-> Default, categories |-> Default, deps |-> {}]

\* What is found is added whatever is stored under its slug.
BeginAddUnchecked(t, e) ==
  /\ on /\ t.adding = {}
  /\ \E s \in Finds[e[2]] : \E v \in VersionsOf[s] :
       Becomes(t, [t EXCEPT !.todo = @ \ {e},
         !.adding = {[slug |-> SlugOf[s], record |-> Fresh(s, v), prompt |-> "none"]}])
  /\ UNCHANGED <<data, selected, mode, dialog, pending, install, spawned, on>>

\* AddContext::add of a dependency, up to where it waits: for the version of
\* what is new, for a yes to replace the entry of another source, or for a yes to
\* the latest version of the entry, as it was loaded.
BeginAdd(t, e) ==
  /\ on /\ t.adding = {}
  /\ \/ \E s \in Finds[e[2]] :
          LET slug == SlugOf[s]
              Waits(record, prompt) ==
                Becomes(t, [t EXCEPT !.todo = @ \ {e},
                  !.adding = {[slug |-> slug, record |-> record, prompt |-> prompt]}])
          IN  \/ /\ slug \notin DOMAIN disk
                 /\ \E v \in VersionsOf[s] : Waits(Fresh(s, v), "none")
              \/ /\ slug \in DOMAIN disk
                 /\ IdOf[disk[slug].source] # IdOf[e[2]]
                 /\ \E v \in VersionsOf[s] : Waits(Fresh(s, v), "replace")
              \/ /\ slug \in DOMAIN disk
                 /\ IdOf[disk[slug].source] = IdOf[e[2]]
                 /\ \E v \in VersionsOf[disk[slug].source] \ {disk[slug].version} :
                      Waits([disk[slug] EXCEPT !.version = v], "update")
              \/ /\ slug \in DOMAIN disk  \* unreadable, up to date, not checked
                 /\ Becomes(t, [t EXCEPT !.todo = @ \ {e}])
     \/ Becomes(t, [t EXCEPT !.todo = @ \ {e}, !.failed = TRUE])
  /\ UNCHANGED <<data, selected, mode, dialog, pending, install, spawned, on>>

Stored(slug, record) ==
  [m \in DOMAIN disk \cup {slug} |-> IF m = slug THEN record ELSE disk[m]]

\* The prompt is answered.  A no ends the addition; a yes saves the update, or
\* removes the entry to replace, unless the disk fails.
Answer(t, a) ==
  /\ on /\ a.prompt # "none"
  /\ \/ /\ a.prompt = "update"
        /\ disk' = Stored(a.slug, a.record)
        /\ agreed' = agreed \cup {a.slug}
        /\ Becomes(t, [t EXCEPT !.adding = {}])
     \/ /\ a.prompt = "replace"
        /\ disk' = [m \in DOMAIN disk \ {a.slug} |-> disk[m]]
        /\ agreed' = agreed \cup {a.slug}
        /\ Becomes(t, [t EXCEPT !.adding = {[a EXCEPT !.prompt = "none"]}])
     \/ \E yes \in BOOLEAN :
          /\ Becomes(t, [t EXCEPT !.adding = {}, !.failed = @ \/ yes])
          /\ UNCHANGED <<disk, agreed>>
  /\ UNCHANGED <<mods, spoiled, edits, selected, mode, dialog, pending,
                 install, spawned, on>>

\* The rest of AddContext::add: a version is found and the record saved,
\* whatever is there by now, or one of them fails.
EndAdd(t, a) ==
  /\ on /\ a.prompt = "none"
  /\ \E ok \in BOOLEAN :
       /\ disk' = IF ok THEN Stored(a.slug, a.record) ELSE disk
       /\ Becomes(t, [t EXCEPT !.adding = {}, !.failed = @ \/ ~ok])
  /\ UNCHANGED <<mods, spoiled, agreed, edits, selected, mode, dialog, pending,
                 install, spawned, on>>

-----------------------------------------------------------------------------
(* Keys: the lists and the dialogs *)

In(place) == on /\ mode = place

Goto(place) == mode' = place

\* Cursor, search and filter keys of the mod list; nothing may be left to
\* select.
Select ==
  /\ In("List")
  /\ selected' \in DOMAIN mods \cup {NoItem}
  /\ UNCHANGED <<data, mode, dialog, pending, install, work, on>>

\* switch_to_detail; keys of the detail pane act on the selected mod.
ToDetail ==
  /\ In("List")
  /\ selected # NoItem
  /\ Goto("Detail")
  /\ UNCHANGED <<data, selected, dialog, pending, install, work, on>>

ToList ==
  /\ In("Detail")
  /\ Goto("List")
  /\ UNCHANGED <<data, selected, dialog, pending, install, work, on>>

\* Esc in the mod list: the command returns, and the runtime drops its tasks.
Quit ==
  /\ In("List")
  /\ on' = FALSE
  /\ tasks' = {}
  /\ UNCHANGED <<data, selected, mode, dialog, pending, install, spawned>>

\* start_edit_env, start_edit_description, start_edit_categories, start_remove.
OpenPlain(place) ==
  /\ In("Detail")
  /\ Goto(place)
  /\ UNCHANGED <<data, selected, dialog, pending, install, work, on>>

\* 'v'; the dialog is refused to a mod whose versions cannot be listed.
OpenVersions ==
  /\ In("Detail")
  /\ IF selected \in Editable
       THEN /\ versions' = {}
            /\ loading' = TRUE
            /\ pending' = "FetchVersions"
            /\ Goto("EditVersion")
       ELSE UNCHANGED <<versions, loading, pending, mode>>
  /\ Spawn("FetchVersions", selected \in Provided, {})
  /\ UNCHANGED <<data, selected, update, install, on>>

\* 'u'.
OpenUpdate ==
  /\ In("Detail")
  /\ IF selected \in Editable
       THEN /\ update' = NoUpdate
            /\ pending' = "CheckUpdate"
            /\ Goto("UpdateCheck")
       ELSE UNCHANGED <<update, pending, mode>>
  /\ Spawn("CheckUpdate", selected \in Provided, {})
  /\ UNCHANGED <<data, selected, versions, loading, install, on>>

\* Esc where it only closes; the progress screen closes over a running install.
Close ==
  /\ \/ In("EditEnv") /\ Goto("Detail")
     \/ In("RemoveConfirm") /\ Goto("Detail")
     \/ In("InstallProgress") /\ Goto("DepTree")
  /\ UNCHANGED <<data, selected, dialog, pending, install, work, on>>

CloseTree ==
  /\ In("DepTree")
  /\ Goto("Detail")
  /\ missing' = {}
  /\ marked' = {}
  /\ UNCHANGED <<data, selected, dialog, pending, installing, work, on>>

\* Esc closes the dialog while its list is loading.
CloseVersionsLoading ==
  /\ In("EditVersion")
  /\ Goto("Detail")
  /\ versions' = {}
  /\ loading' = FALSE
  /\ pending' = NoOp
  /\ UNCHANGED <<data, selected, update, install, work, on>>

\* Every key of this dialog is ignored while its list is loading.
CloseVersions ==
  /\ In("EditVersion")
  /\ ~loading
  /\ Goto("Detail")
  /\ versions' = {}
  /\ loading' = FALSE
  /\ pending' = NoOp
  /\ UNCHANGED <<data, selected, update, install, work, on>>

CloseUpdate ==
  /\ In("UpdateCheck")
  /\ Goto("Detail")
  /\ update' = NoUpdate
  /\ pending' = NoOp
  /\ UNCHANGED <<data, selected, versions, loading, install, work, on>>

\* Enter when there is no update to apply: pending_async stays.
LeaveUpdate ==
  /\ In("UpdateCheck")
  /\ update = NoUpdate
  /\ Goto("Detail")
  /\ UNCHANGED <<data, selected, dialog, pending, install, work, on>>

-----------------------------------------------------------------------------
(* Keys: edits *)

\* A disk operation on the selected mod fails.
Fault ==
  /\ spoiled' = spoiled \cup {selected}
  /\ Cardinality(spoiled') <= MaxFaults

\* The whole record in memory is written.
SaveWhole(field, value) ==
  LET record == [mods[selected] EXCEPT ![field] = value] IN
  /\ edits < MaxEdits
  /\ edits' = edits + 1
  /\ mods' = [mods EXCEPT ![selected] = record]
  /\ \/ /\ selected \in DOMAIN disk
        /\ disk' = [disk EXCEPT ![selected] = record]
        /\ UNCHANGED spoiled
     \/ disk' = disk /\ Fault
  /\ UNCHANGED agreed

\* The record in memory changes; then the entry is loaded, that field changed,
\* and the entry saved, of which the load or the save may fail.
Save(field, value) ==
  /\ edits < MaxEdits
  /\ edits' = edits + 1
  /\ mods' = [mods EXCEPT ![selected][field] = value]
  /\ \/ /\ selected \in DOMAIN disk
        /\ disk' = [disk EXCEPT ![selected][field] = value]
        /\ UNCHANGED spoiled
     \/ disk' = disk /\ Fault
  /\ UNCHANGED agreed

\* confirm_edit_env, confirm_edit_description.
ConfirmText ==
  /\ \/ In("EditEnv") /\ \E x \in Values : Save("env", x)
     \/ In("EditDescription") /\ \E x \in Values : Save("description", x)
  /\ Goto("Detail")
  /\ UNCHANGED <<selected, dialog, pending, install, work, on>>

\* toggle_category_for_selected, add_new_category: in memory until Esc.
ToggleCategory ==
  /\ In("EditCategories")
  /\ edits < MaxEdits
  /\ edits' = edits + 1
  /\ \E x \in Values : mods' = [mods EXCEPT ![selected].categories = x]
  /\ UNCHANGED <<disk, spoiled, agreed, selected, mode, dialog, pending, install, work, on>>

\* confirm_edit_categories: Esc.
ConfirmCategories ==
  /\ In("EditCategories")
  /\ \/ /\ selected \in DOMAIN disk
        /\ disk' = [disk EXCEPT ![selected].categories = mods[selected].categories]
        /\ UNCHANGED spoiled
     \/ disk' = disk /\ Fault
  /\ Goto("Detail")
  /\ UNCHANGED <<mods, agreed, edits, selected, dialog, pending, install, work, on>>

\* confirm_edit_version: Enter; an empty list only closes.
ConfirmVersion ==
  /\ In("EditVersion")
  /\ ~loading
  /\ \/ \E p \in versions : Save("version", p[2])
     \/ versions = {} /\ UNCHANGED data
  /\ Goto("Detail")
  /\ versions' = {}
  /\ loading' = FALSE
  /\ pending' = NoOp
  /\ UNCHANGED <<selected, update, install, work, on>>

\* The record in memory keeps the old version.
ApplyUpdateOnDiskOnly ==
  /\ In("UpdateCheck")
  /\ update # NoUpdate
  /\ selected \in DOMAIN disk
  /\ disk' = [disk EXCEPT ![selected].version = update[2]]
  /\ update' = NoUpdate
  /\ Goto("Detail")
  /\ pending' = NoOp
  /\ UNCHANGED <<mods, edits, spoiled, agreed, selected, versions, loading, install, work, on>>

\* apply_update: Enter; the update's own id is not looked at.
ApplyUpdate ==
  /\ In("UpdateCheck")
  /\ update # NoUpdate
  /\ Save("version", update[2])
  /\ update' = NoUpdate
  /\ Goto("Detail")
  /\ pending' = NoOp
  /\ UNCHANGED <<selected, versions, loading, install, work, on>>

-----------------------------------------------------------------------------
(* Keys: removal and dependencies *)

\* cleanup_stale_deps leaves what names neither the mod nor its source.
Kept(deps) ==
  {e \in deps : e[1] # selected /\ IdOf[e[2]] # IdOf[mods[selected].source]}

\* confirm_remove: Enter.  cleanup_stale_deps rewrites the dependents, or some
\* of them when a store is not listed or a save fails; what cannot be removed
\* may be gone all the same.
ConfirmRemove ==
  /\ In("RemoveConfirm")
  /\ \/ /\ \E cleaned \in SUBSET (DOMAIN disk \ {selected}) :
             disk' = [m \in DOMAIN disk \ {selected} |->
               IF m \in cleaned THEN [disk[m] EXCEPT !.deps = Kept(@)]
                                ELSE disk[m]]
        /\ mods' = [m \in DOMAIN mods \ {selected} |-> mods[m]]
        /\ selected' \in DOMAIN mods' \cup {NoItem}
        /\ Goto("List")
        /\ UNCHANGED spoiled
     \/ /\ \/ disk' = disk
           \/ disk' = [m \in DOMAIN disk \ {selected} |-> disk[m]]
        /\ Fault
        /\ Goto("Detail")
        /\ UNCHANGED <<mods, selected>>
  /\ UNCHANGED <<agreed, edits, dialog, pending, install, work, on>>

\* find_mod_by_source: the very source counts.
Installed(e) == e[1] \in DOMAIN disk /\ disk[e[1]].source = e[2]

\* One level of build_dep_tree below the nodes given, as pairs of a dependency
\* and the ids on the way to it, none of which is entered again.
WithDeps(N) ==
  N \cup UNION {{<<d, n[2] \cup {d[1]}>> :
                   d \in {d \in disk[n[1][1]].deps : d[1] \notin n[2]}} :
                n \in {n \in N : Installed(n[1])}}

\* build_dep_tree, five levels deep.
Tree(m) ==
  LET root == <<<<m, mods[m].source>>, {m}>>
  IN  Ids(WithDeps(WithDeps(WithDeps(WithDeps({root})))))

\* start_dep_tree.
OpenTree ==
  /\ In("Detail")
  /\ missing' = {e \in Tree(selected) : ~Installed(e)}
  /\ marked' = {}
  /\ Goto("DepTree")
  /\ UNCHANGED <<data, selected, dialog, pending, installing, work, on>>

\* start_install_deps: 'i', with what was missing when the tree was built.
OpenInstall ==
  /\ In("DepTree")
  /\ missing # {}
  /\ marked' = {}
  /\ Goto("InstallDeps")
  /\ UNCHANGED <<data, selected, dialog, pending, missing, installing, work, on>>

\* Every key of this screen is ignored while dep_installing.
ToggleMark ==
  /\ In("InstallDeps")
  /\ ~installing
  /\ \/ \E d \in Ids(missing) :
          marked' = IF d \in marked THEN marked \ {d} ELSE marked \cup {d}
     \/ marked' = IF Ids(missing) \subseteq marked THEN {} ELSE marked \cup Ids(missing)
  /\ UNCHANGED <<data, selected, mode, dialog, pending, missing, installing, work, on>>

CloseInstall ==
  /\ In("InstallDeps")
  /\ ~installing
  /\ Goto("DepTree")
  /\ UNCHANGED <<data, selected, dialog, pending, install, work, on>>

\* Enter.  All that is marked is missing, so there is something to add.
Install ==
  /\ In("InstallDeps")
  /\ ~installing
  /\ marked # {}
  /\ installing' = TRUE
  /\ pending' = "InstallDeps"
  /\ Goto("InstallProgress")
  /\ Spawn("InstallDeps", TRUE, {e \in missing : e[1] \in marked})
  /\ UNCHANGED <<data, selected, dialog, missing, marked, on>>

-----------------------------------------------------------------------------

Init ==
  /\ mods = Start
  /\ disk = Start
  /\ selected \in Mods
  /\ mode = "List"
  /\ versions = {}
  /\ loading = FALSE
  /\ update = NoUpdate
  /\ pending = NoOp
  /\ missing = {}
  /\ marked = {}
  /\ installing = FALSE
  /\ tasks = {}
  /\ spawned = 0
  /\ edits = 0
  /\ spoiled = {}
  /\ agreed = {}
  /\ on = TRUE

Key ==
  \/ Select \/ ToDetail \/ ToList \/ Quit
  \/ \E place \in {"EditEnv", "EditDescription", "EditCategories",
                   "RemoveConfirm"} : OpenPlain(place)
  \/ OpenVersions \/ OpenUpdate \/ OpenTree \/ OpenInstall
  \/ Close \/ CloseTree \/ CloseVersions \/ CloseUpdate \/ LeaveUpdate \/ CloseInstall
  \/ ConfirmText \/ ToggleCategory \/ ConfirmCategories
  \/ ConfirmVersion \/ ApplyUpdate \/ ConfirmRemove
  \/ ToggleMark \/ Install

Progress(t) ==
  \/ HearVersions(t) \/ HearUpdate(t) \/ HearInstall(t)
  \/ \E e \in t.todo : BeginAdd(t, e)
  \/ \E a \in t.adding : EndAdd(t, a)

Next ==
  \/ Key
  \/ \E t \in tasks : Progress(t) \/ \E a \in t.adding : Answer(t, a)

\* The user need not press any key, nor answer a prompt; else a task goes on,
\* since the client's requests time out, and the loop takes its result.
Spec ==
  /\ Init /\ [][Next]_vars
  /\ \A i \in 1..MaxTasks : WF_vars(\E t \in tasks : t.id = i /\ Progress(t))

-----------------------------------------------------------------------------
(* Properties *)

TypeOK ==
  /\ DOMAIN mods \subseteq Mods
  /\ mods \in [DOMAIN mods -> Records]
  /\ DOMAIN disk \subseteq Items
  /\ disk \in [DOMAIN disk -> Records]
  /\ selected \in Mods \cup {NoItem}
  /\ mode \in {"List", "Detail", "EditEnv", "EditVersion", "EditDescription",
               "EditCategories", "DepTree", "InstallDeps", "InstallProgress",
               "RemoveConfirm", "UpdateCheck"}
  /\ versions \subseteq Mods \X Versions
  /\ update \in (Mods \X Versions) \cup {NoUpdate}
  /\ {loading, installing, on} \subseteq BOOLEAN
  /\ pending \in Ops \cup {NoOp}
  /\ marked \subseteq Ids(missing)
  /\ missing \subseteq Edges
  /\ tasks \subseteq Tasks
  /\ spawned \in 0..MaxTasks
  /\ edits \in 0..MaxEdits
  /\ spoiled \subseteq Mods
  /\ agreed \subseteq Items

\* A dialog or pane that acts on the selected mod has one, and the selection
\* never points past the list, which a removal shortens under it.
SelectionLive ==
  /\ selected \in DOMAIN mods \cup {NoItem}
  /\ mode # "List" => selected # NoItem

\* The versions offered are those of the selected mod, whatever fetches were
\* started and given up before: a version picked from another mod's list would
\* put that mod's file and hash into this one's entry.
VersionsBelong ==
  mode = "EditVersion" => \A p \in versions : p[1] = selected

\* What the screen shows of a mod is what its entry holds, unless a disk
\* operation on that mod has failed, or the user said yes to an install that
\* asked to update or replace the entry: the list keeps the mods it loaded.
\* Categories differ while they are edited.
ShownIsSaved ==
  \A m \in DOMAIN mods \ (spoiled \cup agreed) :
    /\ m \in DOMAIN disk
    /\ \A f \in {"source", "version", "env", "description"} : mods[m][f] = disk[m][f]
    /\ mods[m].categories = disk[m].categories
         \/ (mode = "EditCategories" /\ m = selected)

\* The stored version and source of a mod on the list change only when the
\* version or the update dialog of that very mod is confirmed, or by an install
\* whose prompt about that entry got a yes; a dependency that is planned by its
\* source and stored by its slug must not slip past the prompt.
VersionOnlyByChoice ==
  [][\A m \in ((DOMAIN mods \ spoiled) \cap DOMAIN disk \cap DOMAIN disk') \ agreed' :
       /\ disk'[m].source = disk[m].source
       /\ disk'[m].version # disk[m].version =>
            m = selected /\ mode \in {"EditVersion", "UpdateCheck"}]_vars

\* An entry never gets a dependency back that was cleaned out of it: edits go
\* through the entry on disk, for the records in memory keep stale ones.  The
\* update an install was allowed to make writes the record it read before.
DepsNeverReturn ==
  [][\A m \in (DOMAIN disk \cap DOMAIN disk') \ agreed' :
       disk'[m].deps \subseteq disk[m].deps]_vars

Asked == \E t \in tasks : \E a \in t.adding : a.prompt # "none"

\* A user who waits on the progress screen sees the install end, whatever of it
\* fails, or is asked something.
ProgressEnds ==
  (mode = "InstallProgress" /\ installing)
    ~> (~installing \/ mode # "InstallProgress" \/ Asked)

\* Every stored version of an entry is one of its own source.  (ModUpdate::id is
\* "Slug / identifier of the mod" the update is for, commands/update.rs.)
OwnVersions == \A m \in DOMAIN disk : disk[m].version \in VersionsOf[disk[m].source]

\* Esc is "Back / Quit / Cancel" everywhere (render/help_overlay.rs), so the
\* install screen does not ignore all keys for good.
Deaf == mode = "InstallDeps" /\ installing

NotTrapped == Deaf ~> ~Deaf
=============================================================================
