------------------------------- MODULE Modpack -------------------------------
(***************************************************************************)
(* The modpack on disk, one entry.ron per tracked mod (storage/), and the  *)
(* commands that change it: add, update, remove, import and the shared     *)
(* installation of dependencies.                                           *)
(*                                                                         *)
(* A project of a provider goes by up to three names: the slug its entry   *)
(* is stored under, the source id of its canonical ModSource, and the raw  *)
(* id by which dependency lists refer to it.  Entries are keyed by name.   *)
(* The source ids of an API are taken to be slugs; raw ids need not be.    *)
(* The provider publishes new releases at any time and any request to it   *)
(* may fail.  One command runs at a time; inside it dependencies are       *)
(* installed in parallel.  A kill ends the command where it stands; a      *)
(* power loss may also tear every entry written since the last sync.       *)
(*                                                                         *)
(* Abstracted: an entry's metadata other than what is below; which of the  *)
(* three directories holds it (Packs are the projects whose entry is not   *)
(* in mods/); loader filters and the connector fallback, which only decide *)
(* whether a request finds a release; wording and JSON output.             *)
(***************************************************************************)
EXTENDS Naturals, FiniteSets

CONSTANTS
  Names,       \* every slug, source id, raw id and file name stem
  Projects,
  NoProject,
  SlugOf, SidOf, RawOf,  \* the names of a project
  TitleOf,     \* its title, as it would be the stem of a file name
  Slugify,     \* what slugify makes of a name
  Api,         \* projects of a source with an API; the others are URLs
  Packs,       \* projects that are resource or shader packs
  DepsOf,      \* DepsOf[p][v]: what release v of p depends on
  Files,       \* the files an imported archive lists: project and file name stem
  MaxRelease,  \* bound on the releases of a project
  MaxCommands  \* bound on the commands of a behaviour

Releases == 1 .. MaxRelease
Kinds == {"required", "optional"}
Dep == [to : Projects, kind : Kinds]

ASSUME ModpackAssumption ==
  /\ NoProject \notin Projects
  /\ SlugOf \in [Projects -> Names]
  /\ SidOf \in [Projects -> Names]
  /\ RawOf \in [Projects -> Names]
  /\ TitleOf \in [Projects -> Names]
  /\ Slugify \in [Names -> Names]
  /\ Api \subseteq Projects
  /\ Packs \subseteq Projects
  /\ MaxRelease \in Nat \ {0}
  /\ MaxCommands \in Nat
  /\ DepsOf \in [Projects -> [Releases -> SUBSET Dep]]
  /\ Files \subseteq [project : Projects, stem : Names]

\* A release depends on projects of its own provider, where a source id is of one
\* project; provider[p] stands for p's provider.
ASSUME SourceIdsAssumption ==
  \E provider \in [Projects -> Projects] :
    /\ \A p \in Projects : \A v \in Releases : \A d \in DepsOf[p][v] :
         provider[d.to] = provider[p]
    /\ \A p \in Api : \A q \in Api :
         provider[p] = provider[q] /\ SidOf[p] = SidOf[q] => p = q

\* A Dependency: the mod_id it is recorded under and the id of its source.
Edge == [id : Names, sid : Names]

\* A TrackedMod: the project it stands for, its source id, its version (0 for the
\* version of an unresolved file) and its dependencies.
Entry == [project : Projects, sid : Names, version : 0 .. MaxRelease,
          edges : SUBSET Edge, unresolved : BOOLEAN]

Absent == [project |-> NoProject]

VARIABLES
  disk,      \* disk[n]: the entry stored under n, or Absent
  torn,      \* names whose entry.ron exists but does not parse
  unsynced,  \* names written since the file system last synced
  manifest,  \* modpack.toml: "absent", "valid" (names its Minecraft version) or "invalid"
  release,   \* release[p]: the latest release the provider has of p
  pc,        \* where the running command stands
  cmd,       \* its arguments and what it has found out
  task,      \* task[p]: the installation of dependency p
  queue,     \* what the command has yet to go through
  budget     \* commands left

vars == <<disk, torn, unsynced, manifest, release, pc, cmd, task, queue, budget>>
stores == <<disk, torn, unsynced, manifest, release>>

Readable(n) == disk[n] # Absent
Exists(n) == Readable(n) \/ n \in torn

\* list skips an entry that does not parse.
Listed == {n \in Names : Readable(n)}

InstalledMod(p) == Exists(SlugOf[p]) /\ p \notin Packs

\* The project a provider answers with when asked for n.
Answers(n) == {p \in Projects : n \in {SidOf[p], RawOf[p]}}

\* Mutant: the version is the one after the latest.
FromModInfoAhead(p) == [project |-> p, sid |-> SidOf[p], version |-> release[p] + 1,
                        edges |-> {}, unresolved |-> FALSE]

FromModInfo(p) == [project |-> p, sid |-> SidOf[p], version |-> release[p],
                   edges |-> {}, unresolved |-> FALSE]

Save(n, e) ==
  /\ disk' = [disk EXCEPT ![n] = e]
  /\ torn' = torn \ {n}
  /\ unsynced' = unsynced \cup {n}

RemoveDir(n) ==
  /\ disk' = [disk EXCEPT ![n] = Absent]
  /\ torn' = torn \ {n}
  /\ unsynced' = unsynced \ {n}

\* An edge refers to the entry of this key and source id, of whatever provider.
Refers(e, key, sid) == key \in {e.id, Slugify[e.id]} \/ e.sid = sid

\* find_reverse_deps: the entries with an edge to n's entry by its slug or source id.
ReverseDeps(n) ==
  {m \in Listed \ {n} : \E e \in disk[m].edges : Refers(e, n, disk[n].sid)}

\* What categorize_deps makes of the projects of these source ids.
EdgesTo(sids) == {[id |-> s, sid |-> s] : s \in sids}

\* record_dep_edges: an edge is added unless there is one under its mod_id.
WithEdges(e, new) ==
  [e EXCEPT !.edges = @ \cup {d \in new : \A old \in e.edges : old.id # d.id}]

\* The dependencies of the latest release, as the resolver's walk sees them.
Lists(p) == DepsOf[p][release[p]]

\* q is reached from p inside S by dependencies of the given kinds.
Reaches(S, p, q, kinds) ==
  \A T \in SUBSET S : (p \in T /\ q \notin T) =>
    \E x \in T : \E d \in Lists(x) : d.to \in S \ T /\ d.kind \in kinds

\* Possible answers of DependencyResolver for root p: any part of its closure that is
\* connected to p, for a list that cannot be read and an optional mod cost what is below.
ResolverAnswers(p) ==
  {S \in SUBSET Projects : p \in S /\ \A q \in S : Reaches(S, p, q, Kinds)}

NoCmd == [name |-> "none"]
Idle == pc' = "idle" /\ cmd' = NoCmd /\ queue' = {} /\ task' = [p \in Projects |-> "none"]
Begin == pc = "idle" /\ budget > 0 /\ budget' = budget - 1
Goto(l) == pc' = l /\ UNCHANGED <<task, queue, budget>>

-----------------------------------------------------------------------------
(* add: AddCommand::run and AddContext::add *)

Add(n, force) ==
  /\ Begin
  /\ manifest = "valid"
  /\ pc' = "fetch"
  /\ cmd' = [name |-> "add", asked |-> n, project |-> NoProject, key |-> n,
             force |-> force, batch |-> {}, later |-> {}, accepted |-> {}, edges |-> {}]
  /\ UNCHANGED <<stores, task, queue>>

\* The metadata of the mod asked for or, when that lookup fails, of a search hit the
\* user picks; the entry is named after the identifier for a source with search.
FetchModInfo ==
  /\ pc = "fetch"
  /\ UNCHANGED <<stores, budget>>
  /\ \/ \E p \in Answers(cmd.asked) :
          /\ cmd' = [cmd EXCEPT !.project = p,
                                !.key = IF p \in Api THEN cmd.asked ELSE SlugOf[p]]
          /\ Goto("existing")
     \/ \E p \in Api :
          /\ cmd.asked \notin {SidOf[u] : u \in Projects \ Api}
          /\ cmd' = [cmd EXCEPT !.project = p, !.key = SidOf[p]]
          /\ Goto("existing")
     \/ Idle

NotInstalledYet ==
  /\ pc = "existing"
  /\ ~Exists(cmd.key)
  /\ Goto("resolve")
  /\ UNCHANGED <<stores, cmd>>

\* handle_existing_mod with --force, or after the user agreed to overwrite the entry
\* of another source: it goes before the new one is resolved.
Overwrite ==
  /\ pc = "existing"
  /\ Exists(cmd.key)
  /\ cmd.force \/ (Readable(cmd.key) /\ disk[cmd.key].sid # cmd.asked)
  /\ RemoveDir(cmd.key)
  /\ Goto("resolve")
  /\ UNCHANGED <<manifest, release, cmd>>

KeepOtherSource ==
  /\ pc = "existing"
  /\ ~cmd.force
  /\ Readable(cmd.key)
  /\ disk[cmd.key].sid # cmd.asked
  /\ Goto("closure")
  /\ UNCHANGED <<stores, cmd>>

\* The entry of the same source is kept, updated if the user agrees.  One that does
\* not load is taken for present.
CheckForUpdate ==
  /\ pc = "existing"
  /\ ~cmd.force
  /\ Exists(cmd.key)
  /\ Readable(cmd.key) => disk[cmd.key].sid = cmd.asked
  /\ Goto("closure")
  /\ UNCHANGED <<manifest, release, cmd>>
  /\ \/ UNCHANGED <<disk, torn, unsynced>>
     \/ /\ Readable(cmd.key)
        /\ release[disk[cmd.key].project] # disk[cmd.key].version
        /\ Save(cmd.key, [disk[cmd.key] EXCEPT !.version = release[disk[cmd.key].project]])

\* A compatible release is found, natively or through the connector, and saved; or not.
ResolveVersion ==
  /\ pc = "resolve"
  /\ UNCHANGED <<manifest, release, budget>>
  /\ \/ /\ Save(cmd.key, FromModInfo(cmd.project))
        /\ Goto("closure")
        /\ UNCHANGED cmd
     \/ Idle /\ UNCHANGED <<disk, torn, unsynced>>

\* categorize_deps: what the resolver found, less the roots.
Categorized(S, roots) == {q \in S : SidOf[q] \notin roots}

\* resolve_dependencies of the identifier that was asked for, up to the first prompt.
ResolveDependencies ==
  /\ pc = "closure"
  /\ UNCHANGED <<stores, budget>>
  /\ \/ Idle
     \/ \E p \in Answers(cmd.asked) \cap Api : \E S \in ResolverAnswers(p) :
          LET found == Categorized(S, {cmd.asked})
              missing == {q \in found : ~InstalledMod(q) /\ q \in Api}
              needed == {q \in missing : Reaches(S, p, q, {"required"})} IN
          /\ cmd' = [cmd EXCEPT !.batch = needed, !.later = missing \ needed,
                                !.edges = {SidOf[q] : q \in found}]
          /\ Goto("prompt")

-----------------------------------------------------------------------------
(* prompt_and_install_deps: first the required, then the optional ones *)

\* The user accepts some of the batch; the tasks are spawned.
PromptDeps ==
  /\ pc = "prompt"
  /\ \E accepted \in SUBSET cmd.batch :
       /\ task' = [p \in Projects |-> IF p \in accepted THEN "todo" ELSE "none"]
       /\ cmd' = [cmd EXCEPT !.accepted = @ \cup accepted]
  /\ pc' = "install"
  /\ UNCHANGED <<stores, queue, budget>>

TaskStep(p, from, to) ==
  /\ pc = "install"
  /\ task[p] = from
  /\ task' = [task EXCEPT ![p] = to]
  /\ UNCHANGED <<manifest, release, pc, cmd, queue, budget>>

\* Mutant: an entry that exists is removed whether or not --force was given.
InstallStartAlwaysForced(p) ==
  /\ TaskStep(p, "todo", "resolve")
  /\ RemoveDir(SidOf[p])

\* install_mod up to the version: an entry that exists ends it, or is removed by force.
InstallStart(p) ==
  \/ /\ TaskStep(p, "todo", "resolve")
     /\ IF Exists(SidOf[p]) THEN cmd.force /\ RemoveDir(SidOf[p])
                            ELSE UNCHANGED <<disk, torn, unsynced>>
  \/ /\ TaskStep(p, "todo", "done")
     /\ Exists(SidOf[p]) /\ ~cmd.force
     /\ UNCHANGED <<disk, torn, unsynced>>

InstallFinish(p) ==
  /\ TaskStep(p, "resolve", "done")
  /\ Save(SidOf[p], FromModInfo(p))

\* A request fails or the task panics.
InstallFails(p) ==
  /\ \/ TaskStep(p, "todo", "failed")
     \/ TaskStep(p, "resolve", "failed")
  /\ UNCHANGED <<disk, torn, unsynced>>

\* Mutant: the errors of the tasks are dropped.
InstallDepsEndIgnoresErrors ==
  /\ pc = "install"
  /\ \A p \in Projects : task[p] \in {"none", "done", "failed"}
  /\ pc' = IF cmd.later = {} THEN "edges" ELSE "prompt"
  /\ cmd' = [cmd EXCEPT !.batch = cmd.later, !.later = {}]
  /\ UNCHANGED <<stores, task, queue, budget>>

\* install_deps returns when every task has ended, with the first error if any.
InstallDepsEnd ==
  /\ pc = "install"
  /\ \A p \in Projects : task[p] \in {"none", "done", "failed"}
  /\ UNCHANGED <<stores, budget>>
  /\ IF \E p \in Projects : task[p] = "failed" THEN Idle
     ELSE /\ pc' = IF cmd.later = {} THEN "edges" ELSE "prompt"
          /\ cmd' = [cmd EXCEPT !.batch = cmd.later, !.later = {}]
          /\ UNCHANGED <<task, queue>>

RecordDepEdges ==
  /\ pc = "edges"
  /\ IF cmd.edges # {} /\ Readable(cmd.key)
     THEN Save(cmd.key, WithEdges(disk[cmd.key], EdgesTo(cmd.edges)))
     ELSE UNCHANGED <<disk, torn, unsynced>>
  /\ Idle
  /\ UNCHANGED <<manifest, release, budget>>

-----------------------------------------------------------------------------
(* update: UpdateCommand::run *)

Update ==
  /\ Begin
  /\ manifest = "valid"
  /\ pc' = "check"
  /\ queue' = {n \in Listed : disk[n].project \in Api /\ ~disk[n].unresolved}
  /\ cmd' = [name |-> "update", found |-> {}]
  /\ UNCHANGED <<stores, task>>

\* One task of check_for_updates ends; a failed check is only reported.
CheckOne(n) ==
  /\ pc = "check"
  /\ n \in queue
  /\ queue' = queue \ {n}
  /\ \/ UNCHANGED cmd
     \/ LET latest == release[disk[n].project] IN
        /\ latest # disk[n].version
        /\ cmd' = [cmd EXCEPT !.found = @ \cup {[key |-> n, version |-> latest]}]
  /\ UNCHANGED <<stores, pc, task, budget>>

CheckEnds ==
  /\ pc = "check"
  /\ queue = {}
  /\ Goto("apply")
  /\ UNCHANGED <<stores, cmd>>

\* fetch_updated_deps: the dependencies of what is latest now, by their raw ids, which
\* become slugs as mod_id only; None when a request fails.
UpdatedDeps(n) ==
  LET listed == {RawOf[d.to] : d \in Lists(disk[n].project)} IN
  {disk[n].edges, {[id |-> Slugify[r], sid |-> r] : r \in listed \ {n}}}

\* apply_update, if the user wants it: version and hash of the check, dependencies of now.
ApplyUpdate(u) ==
  /\ pc = "apply"
  /\ u \in cmd.found
  /\ cmd' = [cmd EXCEPT !.found = @ \ {u}]
  /\ UNCHANGED <<manifest, release, pc, task, queue, budget>>
  /\ \/ UNCHANGED <<disk, torn, unsynced>>
     \/ \E edges \in UpdatedDeps(u.key) :
          Save(u.key, [disk[u.key] EXCEPT !.version = u.version, !.edges = edges])

UpdateEnds ==
  /\ pc = "apply"
  /\ cmd.found = {}
  /\ Idle
  /\ UNCHANGED <<stores, budget>>

-----------------------------------------------------------------------------
(* remove: RemoveCommand::run *)

\* The user removes n alone or, when asked, with the mods that were found to depend on
\* it: none when a directory cannot be listed, and not one whose entry cannot be read.
Remove(n) ==
  /\ Begin
  /\ manifest = "valid"
  /\ Readable(n)
  /\ pc' = "remove"
  /\ \E others \in SUBSET ReverseDeps(n) :
       /\ queue' = others
       /\ cmd' = [name |-> "remove", target |-> n, sid |-> disk[n].sid,
                  key |-> n, doomed |-> others \cup {n}, missed |-> {}]
  /\ UNCHANGED <<stores, task>>

RemoveOne ==
  /\ pc = "remove"
  /\ UNCHANGED <<manifest, release, budget>>
  /\ \/ /\ Readable(cmd.key)
        /\ RemoveDir(cmd.key)
        /\ Goto("cleanup")
        /\ UNCHANGED cmd
     \/ Idle /\ UNCHANGED <<disk, torn, unsynced>>

\* Mutant: the clean-up matches the source id only.
CleanupBySourceOnly ==
  /\ pc = "cleanup"
  /\ disk' = [m \in Names |-> IF Readable(m)
                              THEN [disk[m] EXCEPT !.edges = {e \in @ : e.sid # cmd.sid}]
                              ELSE disk[m]]
  /\ Goto("removed")
  /\ UNCHANGED <<torn, unsynced, manifest, release, cmd>>

\* cleanup_stale_deps with the source of the mod that was named: it saves the entries
\* that lose an edge one by one, and the error of one stops it.  A directory that cannot
\* be listed has no entries for it (unwrap_or_default), and one that cannot be read is
\* skipped: what is missed keeps its edges and the command goes on.
CleanupStaleDeps ==
  /\ pc = "cleanup"
  /\ UNCHANGED <<manifest, release, budget>>
  /\ LET stale == {m \in Listed : \E e \in disk[m].edges : Refers(e, cmd.key, cmd.sid)} IN
     \E missed \in SUBSET stale : \E done \in SUBSET (stale \ missed) :
       /\ disk' = [m \in Names |->
            IF m \in done
            THEN [disk[m] EXCEPT !.edges = {e \in @ : ~Refers(e, cmd.key, cmd.sid)}]
            ELSE disk[m]]
       /\ unsynced' = unsynced \cup done
       /\ torn' = torn
       /\ \/ Idle
          \/ /\ done = stale \ missed
             /\ Goto("removed")
             /\ cmd' = [cmd EXCEPT !.missed = @ \cup missed]

RemoveNextOne ==
  /\ pc = "removed"
  /\ UNCHANGED <<stores, budget>>
  /\ IF queue = {} THEN Idle
     ELSE \E m \in queue :
            /\ cmd' = [cmd EXCEPT !.key = m]
            /\ queue' = queue \ {m}
            /\ pc' = "remove"
            /\ task' = task

-----------------------------------------------------------------------------
(* import: ImportCommand::import_ympk and import_mrpack *)

\* A modpack.toml that is there must load.
Import(format) ==
  /\ Begin
  /\ manifest # "invalid"
  /\ pc' = format
  /\ queue' = Files
  /\ cmd' = [name |-> "import", imported |-> {}, before |-> {n \in Names : Exists(n)}]
  /\ UNCHANGED <<stores, task>>

ImportMrpack == Import("mrpack")
ImportYmpk == Import("ympk")

\* try_resolve_by_hash: the release is known; its project is looked up for the slug, for
\* which the raw id stands in, slugified, when that fails.
ResolveByHash(f) ==
  IF f.project \notin Api THEN {}
  ELSE {[key |-> n, project |-> f.project, unresolved |-> FALSE] :
          n \in {SidOf[f.project], Slugify[RawOf[f.project]]}}

\* try_resolve_by_search: a hit whose slug or title is the stem of the file name.
ResolveBySearch(f) ==
  {[key |-> SidOf[p], project |-> p, unresolved |-> FALSE] :
     p \in {q \in Api : f.stem \in {SidOf[q], TitleOf[q]}}}

\* resolve_mrpack_mod: by hash, by search, or unresolved; each request may fail.
ResolveMrpackMod(f) ==
  ResolveByHash(f) \cup ResolveBySearch(f) \cup
  {[key |-> f.stem, project |-> f.project, unresolved |-> TRUE]}

\* determine_source of an unresolved file: the id in its download URL, or its stem.
DetermineSource(f) == IF f.project \in Api THEN {RawOf[f.project], f.stem} ELSE {SidOf[f.project]}

ImportMrpackFile(f) ==
  /\ pc = "mrpack"
  /\ f \in queue
  /\ queue' = queue \ {f}
  /\ UNCHANGED <<manifest, release, pc, task, budget>>
  /\ \E r \in ResolveMrpackMod(f) :
       IF Exists(r.key) THEN UNCHANGED <<disk, torn, unsynced, cmd>>
       ELSE \E sid \in IF r.unresolved THEN DetermineSource(f) ELSE {r.key} :
            /\ Save(r.key, [project |-> r.project, sid |-> sid, edges |-> {},
                            version |-> IF r.unresolved THEN 0 ELSE 1,
                            unresolved |-> r.unresolved])
            /\ cmd' = IF r.unresolved \/ r.project \in Packs THEN cmd
                      ELSE [cmd EXCEPT !.imported = @ \cup {r.key}]

\* A .ympk holds the entries themselves, edges included.
ImportYmpkEntry(f) ==
  /\ pc = "ympk"
  /\ f \in queue
  /\ queue' = queue \ {f}
  /\ UNCHANGED <<manifest, release, pc, cmd, task, budget>>
  /\ LET n == SlugOf[f.project] IN
     IF Exists(n) THEN UNCHANGED <<disk, torn, unsynced>>
     ELSE Save(n, [FromModInfo(f.project) EXCEPT
                     !.version = 1,
                     !.edges = EdgesTo({SidOf[d.to] : d \in DepsOf[f.project][1]})])

\* The archive fills in what modpack.toml lacks.  It need not name a Minecraft version,
\* and save, unlike load, does not ask for one.
FilledIn == IF manifest = "valid" THEN {"valid"} ELSE {"valid", "invalid"}

\* modpack.toml comes after the entries.
SaveManifest ==
  /\ pc \in {"mrpack", "ympk"}
  /\ queue = {}
  /\ manifest' \in FilledIn
  /\ UNCHANGED <<disk, torn, unsynced, release, budget>>
  /\ IF pc = "mrpack"
     THEN pc' = "importdeps" /\ queue' = cmd.imported /\ UNCHANGED <<cmd, task>>
     ELSE Idle

\* Mutant: the edges of an imported mod go to the entry of what it depends on.
ResolveImportDepsSwapped(n) ==
  /\ pc = "importdeps"
  /\ n \in queue
  /\ queue' = queue \ {n}
  /\ UNCHANGED <<manifest, release, pc, cmd, task, budget>>
  /\ \E p \in Answers(disk[n].sid) : \E d \in Lists(p) :
       /\ Readable(SidOf[d.to])
       /\ Save(SidOf[d.to], WithEdges(disk[SidOf[d.to]], EdgesTo({n})))

\* resolve_import_deps of one new entry: edges are recorded, nothing is installed.
ResolveImportDeps(n) ==
  /\ pc = "importdeps"
  /\ n \in queue
  /\ queue' = queue \ {n}
  /\ UNCHANGED <<manifest, release, pc, cmd, task, budget>>
  /\ \/ UNCHANGED <<disk, torn, unsynced>>
     \/ \E p \in Answers(disk[n].sid) : \E S \in ResolverAnswers(p) :
          LET found == Categorized(S, {disk[n].sid, SidOf[p]}) IN
          /\ found # {}
          /\ Save(n, WithEdges(disk[n], EdgesTo({SidOf[q] : q \in found})))

\* The overrides or the configuration files are written last; nothing else reads them.
ImportEnds ==
  /\ pc = "importdeps"
  /\ queue = {}
  /\ Idle
  /\ UNCHANGED <<stores, budget>>

-----------------------------------------------------------------------------
(* The world *)

Publish(p) ==
  /\ release[p] < MaxRelease
  /\ release' = [release EXCEPT ![p] = @ + 1]
  /\ UNCHANGED <<disk, torn, unsynced, manifest, pc, cmd, task, queue, budget>>

\* The user gives a refused modpack.toml the Minecraft version it lacks.
EditManifest ==
  /\ pc = "idle"
  /\ manifest = "invalid"
  /\ manifest' = "valid"
  /\ UNCHANGED <<disk, torn, unsynced, release, pc, cmd, task, queue, budget>>

Kill ==
  /\ pc # "idle"
  /\ Idle
  /\ UNCHANGED <<stores, budget>>

\* EntryStore::save does not fsync: what is not yet synced may come back empty.
PowerLoss ==
  /\ unsynced # {}
  /\ \E lost \in SUBSET {n \in unsynced : Readable(n)} :
       /\ disk' = [n \in Names |-> IF n \in lost THEN Absent ELSE disk[n]]
       /\ torn' = torn \cup lost
  /\ unsynced' = {}
  /\ Idle
  /\ UNCHANGED <<manifest, release, budget>>

Sync ==
  /\ unsynced # {}
  /\ unsynced' = {}
  /\ UNCHANGED <<disk, torn, manifest, release, pc, cmd, task, queue, budget>>

Init ==
  /\ disk = [n \in Names |-> Absent]
  /\ torn = {}
  /\ unsynced = {}
  /\ manifest \in {"absent", "valid"}
  /\ release = [p \in Projects |-> 1]
  /\ pc = "idle"
  /\ cmd = NoCmd
  /\ task = [p \in Projects |-> "none"]
  /\ queue = {}
  /\ budget = MaxCommands

AddNext ==
  \/ \E n \in Names, force \in BOOLEAN : Add(n, force)
  \/ FetchModInfo \/ NotInstalledYet \/ Overwrite \/ KeepOtherSource \/ CheckForUpdate
  \/ ResolveVersion \/ ResolveDependencies

InstallNext ==
  \/ PromptDeps \/ InstallDepsEnd \/ RecordDepEdges
  \/ \E p \in Projects : InstallStart(p) \/ InstallFinish(p) \/ InstallFails(p)

UpdateNext ==
  \/ Update \/ CheckEnds \/ UpdateEnds
  \/ \E n \in Names : CheckOne(n)
  \/ \E u \in [key : Names, version : Releases] : ApplyUpdate(u)

RemoveNext ==
  \/ \E n \in Names : Remove(n)
  \/ RemoveOne \/ CleanupStaleDeps \/ RemoveNextOne

ImportNext ==
  \/ ImportMrpack \/ ImportYmpk
  \/ \E f \in Files : ImportMrpackFile(f) \/ ImportYmpkEntry(f)
  \/ \E n \in Names : ResolveImportDeps(n)
  \/ SaveManifest \/ ImportEnds

WorldNext ==
  \/ \E p \in Projects : Publish(p)
  \/ EditManifest \/ Kill \/ PowerLoss \/ Sync

Next ==
  \/ AddNext \/ InstallNext \/ UpdateNext \/ RemoveNext \/ ImportNext \/ WorldNext

Spec == Init /\ [][Next]_vars

-----------------------------------------------------------------------------
(* Properties *)

\* Every variable has the values the commands give it.
TypeOK ==
  /\ disk \in [Names -> Entry \cup {Absent}]
  /\ torn \in SUBSET Names
  /\ unsynced \in SUBSET Names
  /\ \A n \in torn : disk[n] = Absent
  /\ manifest \in {"absent", "valid", "invalid"}
  /\ release \in [Projects -> Releases]
  /\ task \in [Projects -> {"none", "todo", "resolve", "done", "failed"}]
  /\ budget \in 0 .. MaxCommands

\* An entry that loads goes away only if the user named it for removal or agreed to
\* remove it as a dependent, forced an add of it or of what depends on it, agreed to
\* overwrite the entry of another source, or if the power failed before it was synced:
\* no failure, kill or other command of storage/ and services/ costs a mod.
LossOnlyByConsent ==
  [][\A n \in Names : (Readable(n) /\ ~Readable(n)') =>
       \/ cmd.name = "remove" /\ n \in cmd.doomed
       \/ cmd.name = "add" /\ n = cmd.key /\ (cmd.force \/ disk[n].sid # cmd.asked)
       \/ cmd.name = "add" /\ cmd.force /\ n \in cmd.edges
       \/ cmd' = NoCmd /\ n \in unsynced]_vars

\* install_deps reports the first error of its parallel tasks: when add goes on to
\* record the dependencies in the new entry, all that the user accepted exist.
EdgesAfterInstall ==
  pc = "edges" => \A p \in cmd.accepted : Exists(SidOf[p])

\* After the clean-up that follows a removal no entry it could read refers to the mod
\* that was named, by slug or by source id, nor by slug to a dependent removed with it,
\* whatever failed or is left to remove.
CleanRemoval ==
  cmd.name = "remove" =>
    LET cleaned == (cmd.doomed \ queue) \ (IF pc = "removed" THEN {} ELSE {cmd.key}) IN
    \A m \in Listed \ cmd.missed : \A e \in disk[m].edges : \A n \in cleaned :
      ~Refers(e, n, cmd.sid)

\* An import, however often it is repeated or cut short, changes no entry that was there
\* before it, under whatever name a file of the archive is resolved.
ImportKeepsExisting ==
  [][cmd.name = "import" =>
       \A n \in cmd.before : disk'[n] = disk[n] \/ (n \in unsynced /\ cmd' = NoCmd)]_vars

\* categorize_deps leaves out the root of the resolution, which is being added already
\* (deps_install.rs:57).
RootExcluded ==
  cmd.name = "add" => Answers(cmd.asked) \cap (cmd.batch \cup cmd.later) = {}

\* An entry with an edge to a project, under any of its names, is among the dependents
\* remove finds of the project's entry (remove.rs:3).
ReverseDepsFound ==
  \A n \in Names : \A m \in Names \ {n} :
    (/\ Readable(n) /\ Readable(m)
     /\ \E e \in disk[m].edges : e.sid \in {SidOf[disk[n].project], RawOf[disk[n].project]})
    => m \in ReverseDeps(n)
=============================================================================
