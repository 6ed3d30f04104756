------------------------------- MODULE Export -------------------------------
(***************************************************************************)
(* `export` (commands/export/): the JARs that are missing are downloaded,  *)
(* and an archive is made of the entries, their JARs and config/.  A ympk  *)
(* is written straight into its file; the files of an mrpack are collected *)
(* in a directory of the system's temporary directory that is named by the *)
(* process id, after an index of the entries.  An item's file is named     *)
(* after its name, in an mrpack after its filename if it has one, so that  *)
(* two items may ask for one path.                                         *)
(*                                                                         *)
(* Other commands add and remove entries, evict JARs and change config/ at *)
(* the same time.  What a command reads is modelled item by item, as       *)
(* read_dir and the loops over the list do.                                *)
(***************************************************************************)
EXTENDS Integers, FiniteSets

CONSTANTS
  Exporters,  \* process ids of export commands; one may come again
  Items,      \* ids of mods, resource packs and shaders
  Configs,    \* names of files in config/
  PathIn,     \* PathIn[f][i]: where a format has the file of an item
  MaxExports, MaxEdits, MaxDeaths

Things == Items \cup Configs
None == "none"

Formats == {"mrpack", "ympk"}

ASSUME ExportAssumption ==
  /\ \A f \in Formats, i \in Items : PathIn[f][i] \notin Configs
  /\ Items \cap Configs = {} /\ None \notin Things
  /\ IsFiniteSet(Exporters) /\ IsFiniteSet(Items) /\ IsFiniteSet(Configs)
  /\ {MaxExports, MaxEdits, MaxDeaths} \subseteq Nat

NoIndex == {}
Path(f, x) == IF x \in Items THEN PathIn[f][x] ELSE x

VARIABLES
  entries,    \* the entries of the modpack
  jars,       \* the items whose JAR is in the cache
  configs,    \* the files of config/
  versions,   \* modpack.toml has the versions of Minecraft and of the loader
  doing,      \* the step of each export
  format,     \* --format
  todo,       \* what the loop it is in has listed and not reached
  index,      \* the items that modrinth.index.json or an entry.ron names
  temp,       \* temp[p]: what is in mrpack_export_<p>, or None
  archive,    \* archive[p]: the items and files in the output, or None
  kept,       \* history: what was there at every moment since the download
  ever,       \* history: what was there at some moment since then
  stale,      \* history: an export with this id has left its directory
  exports, edits, deaths

project == <<entries, jars, configs, versions>>
exporting == <<doing, format, todo, index, temp, archive, stale>>
exportVars == <<project, exporting, kept, ever, exports, edits, deaths>>

ExportInit ==
  /\ entries = Items /\ jars = {} /\ configs = Configs
  /\ versions = TRUE
  /\ doing = [p \in Exporters |-> "idle"]
  /\ format = [p \in Exporters |-> "ympk"]
  /\ todo = [p \in Exporters |-> {}]
  /\ index = [p \in Exporters |-> NoIndex]
  /\ temp = [p \in Exporters |-> {None}]
  /\ archive = [p \in Exporters |-> {None}]
  /\ kept = [p \in Exporters |-> {}]
  /\ ever = [p \in Exporters |-> {}]
  /\ stale = [p \in Exporters |-> FALSE]
  /\ exports = 0 /\ edits = 0 /\ deaths = 0

To(p, step) == doing' = [doing EXCEPT ![p] = step]
Here == (entries \cap jars) \cup configs
Unseen == UNCHANGED <<kept, ever, edits, deaths>>

----------------------------------------------------------------------------
(* ExportCommand::run *)

\* download_missing_mods: every entry has its JAR, or the command ends.
StartExport(p, f) ==
  /\ doing[p] = "idle" /\ exports < MaxExports /\ exports' = exports + 1
  /\ To(p, IF f = "ympk" THEN "create" ELSE "collect")
  /\ format' = [format EXCEPT ![p] = f]
  /\ jars' = jars \cup entries
  /\ kept' = [kept EXCEPT ![p] = entries \cup configs]
  /\ ever' = [ever EXCEPT ![p] = entries \cup configs]
  /\ index' = [index EXCEPT ![p] = NoIndex]
  /\ archive' = [archive EXCEPT ![p] = {None}]
  /\ UNCHANGED <<entries, configs, versions, todo, temp, stale, edits, deaths>>

\* An error, the user declines, or the process is killed.  The directory of an mrpack
\* stays.
ExportFails(p) ==
  /\ doing[p] \notin {"idle", "done"} /\ To(p, "idle")
  /\ deaths < MaxDeaths /\ deaths' = deaths + 1
  /\ todo' = [todo EXCEPT ![p] = {}]
  /\ stale' = [stale EXCEPT ![p] = @ \/ temp[p] # {None}]
  /\ UNCHANGED <<project, format, index, temp, archive, kept, ever, exports, edits>>

\* MrpackIndex::from_modpack lists the entries with or without their JARs; without
\* a version the directory made before is left.
CollectIndex(p) ==
  /\ doing[p] = "collect"
  /\ temp' = [temp EXCEPT ![p] = @ \ {None}]
  /\ IF versions
     THEN To(p, "list") /\ index' = [index EXCEPT ![p] = entries] /\ UNCHANGED stale
     ELSE To(p, "idle") /\ UNCHANGED index /\ stale' = [stale EXCEPT ![p] = TRUE]
  /\ UNCHANGED <<project, format, todo, archive, exports>> /\ Unseen

\* export_ympk: File::create and modpack.toml.
CreateYmpk(p) ==
  /\ doing[p] = "create" /\ To(p, "list")
  /\ archive' = [archive EXCEPT ![p] = {}]
  /\ UNCHANGED <<project, format, todo, index, temp, stale, exports>> /\ Unseen

\* storage.list, for the loop over the JARs.
ListItems(p) ==
  /\ doing[p] = "list" /\ To(p, "jars")
  /\ todo' = [todo EXCEPT ![p] = entries]
  /\ UNCHANGED <<project, format, index, temp, archive, stale, exports>> /\ Unseen

\* fs::copy replaces a file that is there.
Collects(p, x) ==
  IF format[p] = "ympk"
  THEN archive' = [archive EXCEPT ![p] = @ \cup {x}] /\ UNCHANGED temp
  ELSE /\ temp' = [temp EXCEPT ![p] = {y \in @ : Path("mrpack", y) # Path("mrpack", x)} \cup {x}]
       /\ UNCHANGED archive

\* A ympk has an entry.ron for each item whose entry is there.
Describes(p, i) ==
  index' = IF format[p] = "ympk" /\ i \in entries
           THEN [index EXCEPT ![p] = @ \cup {i}] ELSE index

\* ZipWriter::start_file: a name that the archive has already is an error.
Clashes(p, i) ==
  format[p] = "ympk" /\ i \in jars /\ \E y \in archive[p] : Path("ympk", y) = Path("ympk", i)

\* Mistake: an item whose JAR has been evicted ends the loop.
AddJarOrStop(p, i) ==
  /\ doing[p] = "jars" /\ i \in todo[p] /\ ~Clashes(p, i)
  /\ Describes(p, i)
  /\ IF i \in jars THEN Collects(p, i) ELSE UNCHANGED <<temp, archive>>
  /\ todo' = [todo EXCEPT ![p] = IF i \in jars THEN @ \ {i} ELSE {}]
  /\ UNCHANGED <<project, doing, format, stale, exports>> /\ Unseen

\* copy_project_files_to_dir, export_project_type_to_ympk: an item whose JAR has
\* been evicted is passed over.
AddJar(p, i) ==
  /\ doing[p] = "jars" /\ i \in todo[p] /\ ~Clashes(p, i)
  /\ Describes(p, i)
  /\ todo' = [todo EXCEPT ![p] = @ \ {i}]
  /\ IF i \in jars THEN Collects(p, i) ELSE UNCHANGED <<temp, archive>>
  /\ UNCHANGED <<project, doing, format, stale, exports>> /\ Unseen

JarClashes(p, i) ==
  /\ doing[p] = "jars" /\ i \in todo[p] /\ Clashes(p, i) /\ To(p, "idle")
  /\ Describes(p, i)
  /\ todo' = [todo EXCEPT ![p] = {}]
  /\ UNCHANGED <<project, format, temp, archive, stale, exports>> /\ Unseen

ListConfigs(p) ==
  /\ doing[p] = "jars" /\ todo[p] = {} /\ To(p, "configs")
  /\ todo' = [todo EXCEPT ![p] = configs]
  /\ UNCHANGED <<project, format, index, temp, archive, stale, exports>> /\ Unseen

\* copy_dir_recursive, add_dir_to_zip: a file that has gone is an error.
AddConfig(p, c) ==
  /\ doing[p] = "configs" /\ c \in todo[p] /\ c \in configs
  /\ todo' = [todo EXCEPT ![p] = @ \ {c}]
  /\ Collects(p, c)
  /\ UNCHANGED <<project, doing, format, index, stale, exports>> /\ Unseen

ConfigGone(p) ==
  /\ doing[p] = "configs" /\ todo[p] \ configs # {} /\ To(p, "idle")
  /\ todo' = [todo EXCEPT ![p] = {}]
  /\ stale' = [stale EXCEPT ![p] = @ \/ format[p] = "mrpack"]
  /\ UNCHANGED <<project, format, index, temp, archive, exports>> /\ Unseen

\* ZipWriter::finish.
FinishYmpk(p) ==
  /\ doing[p] = "configs" /\ todo[p] = {} /\ format[p] = "ympk" /\ To(p, "done")
  /\ UNCHANGED <<project, format, todo, index, temp, archive, stale, exports>> /\ Unseen

\* create_archive: all that is in the directory.
CreateArchive(p) ==
  /\ doing[p] = "configs" /\ todo[p] = {} /\ format[p] = "mrpack" /\ To(p, "clean")
  /\ archive' = [archive EXCEPT ![p] = temp[p]]
  /\ UNCHANGED <<project, format, todo, index, temp, stale, exports>> /\ Unseen

CleanTemp(p) ==
  /\ doing[p] = "clean" /\ To(p, "done")
  /\ temp' = [temp EXCEPT ![p] = {None}]
  /\ UNCHANGED <<project, format, todo, index, archive, stale, exports>> /\ Unseen

\* The process has ended; another may get its id.
Leave(p) ==
  /\ doing[p] = "done" /\ To(p, "idle")
  /\ stale' = [stale EXCEPT ![p] = @ /\ format[p] = "ympk"]
  /\ UNCHANGED <<project, format, todo, index, temp, archive, exports>> /\ Unseen

----------------------------------------------------------------------------
(* The other commands, and the user *)

Edit ==
  /\ edits < MaxEdits /\ edits' = edits + 1
  /\ kept' = [p \in Exporters |-> kept[p] \cap Here']
  /\ ever' = [p \in Exporters |-> ever[p] \cup entries' \cup configs']
  /\ UNCHANGED <<exporting, exports, deaths>>

\* add installs the JAR first; manage and import make an entry without it.
AddEntry(i) ==
  /\ i \notin entries /\ entries' = entries \cup {i}
  /\ jars' \in {jars, jars \cup {i}}
  /\ UNCHANGED <<configs, versions>> /\ Edit

RemoveEntry(i) ==
  /\ i \in entries /\ entries' = entries \ {i}
  /\ UNCHANGED <<jars, configs, versions>> /\ Edit

EvictJar(i) ==
  /\ i \in jars /\ jars' = jars \ {i}
  /\ UNCHANGED <<entries, configs, versions>> /\ Edit

EditConfig(c) ==
  /\ configs' = (configs \ {c}) \cup ({c} \ configs)
  /\ UNCHANGED <<entries, jars, versions>> /\ Edit

ForgetVersions ==
  /\ versions /\ versions' = FALSE
  /\ UNCHANGED <<entries, jars, configs>> /\ Edit

ExportNext ==
  \/ \E p \in Exporters :
       \/ \E f \in Formats : StartExport(p, f)
       \/ CollectIndex(p) \/ CreateYmpk(p) \/ ListItems(p)
       \/ \E i \in Items : AddJar(p, i) \/ JarClashes(p, i)
       \/ \E c \in Configs : AddConfig(p, c)
       \/ ListConfigs(p) \/ ConfigGone(p) \/ FinishYmpk(p) \/ CreateArchive(p)
       \/ CleanTemp(p) \/ Leave(p) \/ ExportFails(p)
  \/ \E i \in Items : AddEntry(i) \/ RemoveEntry(i) \/ EvictJar(i)
  \/ \E c \in Configs : EditConfig(c)
  \/ ForgetVersions

ExportSpec == ExportInit /\ [][ExportNext]_exportVars

----------------------------------------------------------------------------
\* export_ympk, export_to_mrpack: a finished archive has, for every item and file
\* of config/ that was there all along since the download, with its JAR, the file
\* itself or, in an mrpack, one of an item with the same file name; its index or
\* its entry.ron files name every such item; and both have nothing that was not
\* in the project at some moment since then, unless the directory an mrpack is
\* collected in was left by a failed or killed export with the same process id:
\* even then what is at the path of such a thing is not what that one left.
ArchiveExact ==
  \A p \in Exporters : doing[p] = "done" =>
    /\ \A x \in kept[p] : \E y \in archive[p] \cap ever[p] : Path(format[p], y) = Path(format[p], x)
    /\ format[p] = "ympk" => kept[p] \subseteq archive[p]
    /\ (format[p] = "mrpack" /\ stale[p]) \/ archive[p] \subseteq ever[p]
    /\ kept[p] \cap Items \subseteq index[p] /\ index[p] \subseteq ever[p]
=============================================================================
