------------------------------- MODULE Launch -------------------------------
(***************************************************************************)
(* `yammm launch` from the run directory on (commands/launch/): the        *)
(* virtual tree that is built from the modpack and realized as symbolic    *)
(* links, what the server side adds, and the Java child with its signals,  *)
(* over several launches of one run directory (client/ or server/).        *)
(*                                                                         *)
(* Between and during the launches other commands change the modpack and   *)
(* the cache, and the game writes into its directory.  Downloads and the   *)
(* preparation are steps that succeed or fail (modules Download, Prepare). *)
(***************************************************************************)
EXTENDS Naturals, FiniteSets

CONSTANTS
  Mods, Slugs, Slug,   \* Slug[m]: the file name of m's link, from its display name
  MaxVersion,          \* releases are numbered in the order the modpack has them
  Configured,          \* the mods that may come with configuration files
  None,                \* no entry, no link
  Own,                 \* a regular file in the run directory, written by the game
  MaxLaunches, MaxEdits, MaxSignals

ASSUME LaunchAssumption ==
  /\ Slug \in [Mods -> Slugs]
  /\ MaxVersion \in Nat \ {0} /\ None \notin Nat
  /\ Configured \subseteq Mods
  /\ {MaxLaunches, MaxEdits, MaxSignals} \subseteq Nat

Versions == 1 .. MaxVersion

\* One configuration file stands for all; it can come from five places.
\* A server directory also links to the loader's libraries and shim JARs.
ConfigFile == "config"
LoaderFiles == {"libraries", "shim"}
Paths == Slugs \cup {ConfigFile} \cup LoaderFiles

Jar(m, v) == [kind |-> "jar", mod |-> m, version |-> v]
Common(m) == [kind |-> "common", mod |-> m]       \* mods/<id>/config
Special(m) == [kind |-> "special", mod |-> m]     \* mods/<id>/<side>/config
Global == [kind |-> "global"]                     \* config/
Resource == [kind |-> "resource"]                 \* resources/<side>/config
LoaderFile(p) == [kind |-> "loader", path |-> p]

Jars == {Jar(m, v) : m \in Mods, v \in Versions}
ConfigSources ==
  {Common(m) : m \in Configured} \cup {Special(m) : m \in Configured} \cup {Global, Resource}
LoaderSources == {LoaderFile(p) : p \in LoaderFiles}
Sources == Jars \cup ConfigSources \cup LoaderSources

\* A slug names a file of mods/, the other paths are elsewhere.
ASSUME LaunchPaths ==
  /\ Slugs \cap ({ConfigFile} \cup LoaderFiles) = {}
  /\ None \notin Sources \cup {Own} /\ Own \notin Sources

PathOf(src) == CASE src.kind = "jar" -> Slug[src.mod]
                 [] src.kind = "loader" -> src.path
                 [] OTHER -> ConfigFile

VARIABLES
  side,        \* whose run directory this is
  installer,   \* a server whose loader has a unix_args.txt (Forge, NeoForge)
  entries,     \* the modpack: the version of each tracked mod
  configs,     \* the configuration files in the workspace
  jars,        \* the JARs in the cache
  rundir,      \* what lies in the run directory
  serverJar,   \* server/server.jar: "absent", "torn", "whole"
  userArgs,    \* server/user_jvm_args.txt, the same
  tree,        \* the virtual tree, as far as it is still to be realized
  pc, childPid, interrupted, handler, deadline,   \* the launcher process
  child, hit,  \* the Java process, and the signals the launcher sent it
  launches, edits, signals,                       \* the bounds
  seen         \* history: what was found of modpack and run directory for the tree

workspace == <<entries, configs, jars>>
serverFiles == <<serverJar, userArgs>>
files == <<rundir, serverFiles, tree, seen>>
process == <<childPid, interrupted, handler, deadline>>
java == <<child, hit>>
vars == <<side, installer, workspace, files, pc, process, java, launches, edits, signals>>

Nothing == [entries |-> [m \in Mods |-> None], configs |-> {}, jars |-> {},
            rundir |-> [p \in Paths |-> None]]

Init ==
  /\ side \in {"client", "server"}
  /\ installer \in BOOLEAN /\ (installer => side = "server")
  /\ entries \in [Mods -> {1, None}]
  /\ configs \in SUBSET ConfigSources
  /\ \A m \in Mods : entries[m] = None =>
       {Common(m), Special(m)} \cap configs = {}
  /\ jars = {}
  /\ rundir = [p \in Paths |-> None]
  /\ serverJar = "absent" /\ userArgs = "absent"
  /\ tree = {}
  /\ pc = "idle"
  /\ childPid = 0 /\ interrupted = FALSE /\ handler = "idle" /\ deadline = FALSE
  /\ child = "none" /\ hit = {}
  /\ launches = 0 /\ edits = 0 /\ signals = 0
  /\ seen = Nothing

\* The launcher process is gone; the atomics go with it, the child does not.
Leave ==
  /\ pc' = "idle"
  /\ childPid' = 0 /\ interrupted' = FALSE /\ handler' = "idle" /\ deadline' = FALSE
  /\ tree' = {}
  /\ seen' = Nothing

----------------------------------------------------------------------------
(* The run directory.                                                      *)

\* A launch starts with the downloads of the mods that are missing; the model
\* follows one child at a time.
DownloadMods ==
  /\ pc = "idle" /\ child # "alive" /\ launches < MaxLaunches
  /\ launches' = launches + 1
  /\ child' = "none" /\ hit' = {}
  /\ \/ /\ jars' = jars \cup {Jar(m, entries[m]) : m \in {n \in Mods : entries[n] # None}}
        /\ pc' = "prepare"
     \/ UNCHANGED <<jars, pc>>                    \* into_result: a download failed
  /\ UNCHANGED <<side, installer, entries, configs, files, process, edits, signals>>

\* prepare_launch: Java, Minecraft, libraries, loader.
PrepareLaunch ==
  /\ pc = "prepare"
  /\ \/ pc' = "build" /\ UNCHANGED <<files, process>>
     \/ Leave /\ UNCHANGED <<rundir, serverFiles>>
  /\ UNCHANGED <<side, installer, workspace, java, launches, edits, signals>>

\* The configuration files that are found: populate_config_vfs takes a listing
\* of the mods that fails for an empty one.
Found == {configs, configs \cap {Global, Resource}}

\* Those that it leaves at the configuration's path: it adds the mods' files in
\* the order they are listed (any order: read_dir), each mod's own side after
\* its common one, and config/ last; a later file replaces an earlier one.
PopulateConfig(found) ==
  LET own(m) == IF Special(m) \in found THEN Special(m) ELSE Common(m)
  IN IF Global \in found THEN {{Global}}
     ELSE LET some == {{own(m)} : m \in {n \in Mods :
                         entries[n] # None /\ {Common(n), Special(n)} \cap found # {}}}
          IN IF some = {} THEN {{}} ELSE some

\* build_mod_vfs: a mod is linked if its JAR is in the cache, under its slug; of
\* two mods with one slug the one listed last stays.  What resources/<side>
\* holds is added under ".", a node of its own.
Cached == {Jar(m, entries[m]) : m \in Mods} \cap jars
Named(p) == {j \in Cached : PathOf(j) = p}
OneEach ==
  {s \in SUBSET Cached : \A p \in Slugs : Cardinality(s \cap Named(p)) = IF Named(p) = {} THEN 0 ELSE 1}
BuildTree(found) ==
  {s \cup c \cup (found \cap {Resource}) : s \in OneEach, c \in PopulateConfig(found)}

BuildVfs ==
  /\ pc = "build"
  /\ \E found \in Found :
       /\ tree' \in BuildTree(found)
       /\ seen' = [entries |-> entries, configs |-> found, jars |-> jars, rundir |-> rundir]
  /\ pc' = "realize"
  /\ UNCHANGED <<side, installer, workspace, rundir, serverFiles, process, java, launches, edits, signals>>

\* Mistake: the resources are realized after the configuration.
RankResourcesLast(src) ==
  CASE src.kind = "resource" -> 3 [] src.kind = "jar" -> 2 [] OTHER -> 1

\* The children of a directory are realized by name: ".", config, ..., mods.
Rank(src) == CASE src.kind = "resource" -> 0 [] src.kind = "jar" -> 2 [] OTHER -> 1

\* Path::exists follows links: a link whose source is gone does not exist.
Exists(p) == \/ rundir[p] = Own
             \/ rundir[p] # None /\ rundir[p] \in jars \cup configs \cup LoaderSources

\* An existing path is left alone.  create_symlink refuses a name that is
\* taken, which a dangling link is; the launch then ends.
RealizeEntry ==
  /\ pc = "realize"
  /\ \E src \in tree :
       /\ \A t \in tree : Rank(src) <= Rank(t)
       /\ \/ /\ Exists(PathOf(src))
             /\ tree' = tree \ {src}
             /\ UNCHANGED <<rundir, serverFiles, seen, pc, process>>
          \/ /\ rundir[PathOf(src)] = None
             /\ rundir' = [rundir EXCEPT ![PathOf(src)] = src]
             /\ tree' = tree \ {src}
             /\ UNCHANGED <<serverFiles, seen, pc, process>>
          \/ /\ ~Exists(PathOf(src)) /\ rundir[PathOf(src)] # None
             /\ Leave /\ UNCHANGED <<rundir, serverFiles>>
  /\ UNCHANGED <<side, installer, workspace, java, launches, edits, signals>>

VfsRealized ==
  /\ pc = "realize" /\ tree = {}
  /\ pc' = IF side = "client" THEN "token" ELSE IF installer THEN "merge" ELSE "copy"
  /\ UNCHANGED <<side, installer, workspace, files, process, java, launches, edits, signals>>

\* The client gets a token, or plays offline; without one the launch ends.
GetToken ==
  /\ pc = "token"
  /\ \/ pc' = "ready" /\ UNCHANGED <<files, process>>
     \/ Leave /\ UNCHANGED <<rundir, serverFiles>>
  /\ UNCHANGED <<side, installer, workspace, java, launches, edits, signals>>

\* merge_libraries, then link_shim_jars: links to the loader's files, where there
\* are none yet.
LinkLoaderFile(here, path, next) ==
  /\ pc = here
  /\ rundir' = IF Exists(path) THEN rundir ELSE [rundir EXCEPT ![path] = LoaderFile(path)]
  /\ pc' = next
  /\ UNCHANGED <<side, installer, workspace, serverFiles, tree, seen, process, java,
                 launches, edits, signals>>

MergeLibraries == LinkLoaderFile("merge", "libraries", IF installer THEN "shim" ELSE "ready")
LinkShimJars == LinkLoaderFile("shim", "shim", "args")

\* user_jvm_args.txt is written once, in place; whatever is there is kept.
WriteJvmArgs ==
  /\ pc = "args"
  /\ \/ userArgs = "absent" /\ userArgs' = "torn" /\ pc' = "args2"
     \/ userArgs # "absent" /\ userArgs' = userArgs /\ pc' = "ready"
  /\ UNCHANGED <<side, installer, workspace, rundir, serverJar, tree, seen, process, java,
                 launches, edits, signals>>

JvmArgsWritten ==
  /\ pc = "args2"
  /\ \/ userArgs' = "whole" /\ pc' = "ready" /\ UNCHANGED <<rundir, serverJar, tree, seen, process>>
     \/ Leave /\ UNCHANGED <<rundir, serverFiles>>
  /\ UNCHANGED <<side, installer, workspace, java, launches, edits, signals>>

\* launch_with_classpath: server.jar is removed, then copied, which takes a
\* while and may fail; the libraries are merged unless the loader is Fabric,
\* Quilt or none (skip_merge_libs).
CopyServerJar ==
  /\ pc = "copy"
  /\ \/ serverJar # "torn" /\ serverJar' = "torn" /\ UNCHANGED <<pc, rundir, userArgs, tree, seen, process>>
     \/ serverJar = "torn" /\ serverJar' = "whole" /\ pc' \in {"merge", "ready"}
          /\ UNCHANGED <<rundir, userArgs, tree, seen, process>>
     \/ Leave /\ UNCHANGED <<rundir, serverFiles>>
  /\ UNCHANGED <<side, installer, workspace, java, launches, edits, signals>>

----------------------------------------------------------------------------
(* The Java process.                                                       *)

InstallSignalHandlers ==
  /\ pc = "ready"
  /\ pc' = "spawn"
  /\ seen' = Nothing
  /\ UNCHANGED <<side, installer, workspace, rundir, serverFiles, tree, process, java, launches, edits, signals>>

\* spawn_java_process, first half: nobody looks whether an interrupt came.
Spawn ==
  /\ pc = "spawn"
  /\ \/ pc' = "store" /\ child' = "alive" /\ UNCHANGED <<files, process, hit>>
     \/ Leave /\ UNCHANGED <<rundir, serverFiles, java>>
  /\ UNCHANGED <<side, installer, workspace, launches, edits, signals>>

\* Second half: from here on the handlers know the child.
StorePid ==
  /\ pc = "store"
  /\ childPid' = 1
  /\ pc' = "wait"
  /\ UNCHANGED <<side, installer, workspace, files, interrupted, handler, deadline, java,
                 launches, edits, signals>>

\* wait_for_child: try_wait reaps the child, or fails.
ChildReaped ==
  /\ pc = "wait" /\ child = "exited"
  /\ Leave
  /\ child' = "none"
  /\ UNCHANGED <<side, installer, workspace, rundir, serverFiles, hit, launches, edits, signals>>

TryWaitFails ==
  /\ pc = "wait"
  /\ Leave
  /\ UNCHANGED <<side, installer, workspace, rundir, serverFiles, java, launches, edits, signals>>

\* Otherwise it sees an interrupt, once, and sets a deadline of ten seconds,
SetDeadline ==
  /\ pc = "wait" /\ child = "alive"
  /\ interrupted /\ ~deadline
  /\ deadline' = TRUE
  /\ UNCHANGED <<side, installer, workspace, files, pc, childPid, interrupted, handler, java,
                 launches, edits, signals>>

\* after which it kills the child and waits for it.
ForceKill ==
  /\ pc = "wait" /\ child = "alive"
  /\ deadline
  /\ Leave
  /\ child' = "none"
  /\ hit' = hit \cup {"KILL"}
  /\ UNCHANGED <<side, installer, workspace, rundir, serverFiles, launches, edits, signals>>

----------------------------------------------------------------------------
(* Signals.  Before the handlers are installed a signal simply ends the    *)
(* launcher.                                                               *)

Handled == {"spawn", "store", "wait"}

SignalEndsLauncher ==
  /\ pc \notin Handled \cup {"idle"}
  /\ signals < MaxSignals
  /\ signals' = signals + 1
  /\ Leave
  /\ UNCHANGED <<side, installer, workspace, rundir, serverFiles, java, launches, edits>>

\* SIGINT wakes the handler's thread.
SigInt ==
  /\ pc \in Handled /\ handler = "idle"
  /\ signals < MaxSignals
  /\ signals' = signals + 1
  /\ handler' = "woken"
  /\ UNCHANGED <<side, installer, workspace, files, pc, childPid, interrupted, deadline, java,
                 launches, edits>>

\* Mistake: an interrupt counts only if there is a child to forward it to.
SetInterruptedWithChild ==
  /\ handler = "woken"
  /\ interrupted' = (childPid > 0)
  /\ handler' = "marked"
  /\ UNCHANGED <<side, installer, workspace, files, pc, childPid, deadline, java,
                 launches, edits, signals>>

SetInterrupted ==
  /\ handler = "woken"
  /\ interrupted' = TRUE
  /\ handler' = "marked"
  /\ UNCHANGED <<side, installer, workspace, files, pc, childPid, deadline, java,
                 launches, edits, signals>>

ForwardSigInt ==
  /\ handler = "marked"
  /\ hit' = IF childPid > 0 THEN hit \cup {"INT"} ELSE hit
  /\ handler' = "idle"
  /\ UNCHANGED <<side, installer, workspace, files, pc, childPid, interrupted, deadline, child,
                 launches, edits, signals>>

\* SIGTERM: the handler forwards it and leaves at once with _exit(143).
SigTerm ==
  /\ pc \in Handled
  /\ signals < MaxSignals
  /\ signals' = signals + 1
  /\ hit' = IF childPid > 0 THEN hit \cup {"TERM"} ELSE hit
  /\ Leave
  /\ UNCHANGED <<side, installer, workspace, rundir, serverFiles, child, launches, edits>>

----------------------------------------------------------------------------
(* The game, other commands, and the user.                                 *)

ChildExits ==
  /\ child = "alive"
  /\ child' = IF pc = "idle" THEN "none" ELSE "exited"
  /\ UNCHANGED <<side, installer, workspace, files, pc, process, hit, launches, edits, signals>>

\* The game saves its configuration as a file of its own.
GameWrites ==
  /\ child = "alive"
  /\ rundir' = [rundir EXCEPT ![ConfigFile] = Own]
  /\ UNCHANGED <<side, installer, workspace, serverFiles, tree, seen, pc, process, java,
                 launches, edits, signals>>

\* add, update or remove in another terminal; an entry goes with its directory.
EditEntry ==
  /\ edits < MaxEdits /\ edits' = edits + 1
  /\ \E m \in Mods, v \in Versions \cup {None} :
       /\ entries' = [entries EXCEPT ![m] = v]
       /\ configs' = IF v = None THEN configs \ {Common(m), Special(m)} ELSE configs
  /\ UNCHANGED <<side, installer, jars, files, pc, process, java, launches, signals>>

\* cache clean in another terminal.
EvictJar ==
  /\ edits < MaxEdits /\ edits' = edits + 1
  /\ \E j \in jars : jars' = jars \ {j}
  /\ UNCHANGED <<side, installer, entries, configs, files, pc, process, java, launches, signals>>

Launcher ==
  \/ DownloadMods \/ PrepareLaunch \/ BuildVfs \/ RealizeEntry \/ VfsRealized
  \/ GetToken \/ CopyServerJar \/ InstallSignalHandlers
  \/ MergeLibraries \/ LinkShimJars \/ WriteJvmArgs \/ JvmArgsWritten
  \/ Spawn \/ StorePid \/ ChildReaped \/ SetDeadline \/ ForceKill

Handler == SetInterrupted \/ ForwardSigInt

Next ==
  \/ Launcher \/ Handler \/ TryWaitFails
  \/ SignalEndsLauncher \/ SigInt \/ SigTerm
  \/ ChildExits \/ GameWrites \/ EditEntry \/ EvictJar

\* The launcher and the handler's thread run.  The child need not ever end.
Fairness ==
  /\ WF_vars(StorePid) /\ WF_vars(Spawn)
  /\ WF_vars(ChildReaped) /\ WF_vars(SetDeadline) /\ WF_vars(ForceKill)
  /\ WF_vars(Handler)

Spec == Init /\ [][Next]_vars /\ Fairness
----------------------------------------------------------------------------
(* Properties.                                                             *)

TypeOK ==
  /\ side \in {"client", "server"} /\ installer \in BOOLEAN
  /\ entries \in [Mods -> Versions \cup {None}]
  /\ configs \subseteq ConfigSources
  /\ jars \subseteq Jars
  /\ rundir \in [Paths -> Sources \cup {None, Own}]
  /\ {serverJar, userArgs} \subseteq {"absent", "torn", "whole"}
  /\ tree \subseteq Sources
  /\ pc \in {"idle", "prepare", "build", "realize", "token", "copy",
             "merge", "shim", "args", "args2", "ready"} \cup Handled
  /\ childPid \in {0, 1}
  /\ interrupted \in BOOLEAN
  /\ handler \in {"idle", "woken", "marked"}
  /\ deadline \in BOOLEAN
  /\ child \in {"none", "alive", "exited"}
  /\ hit \subseteq {"INT", "TERM", "KILL"}
  /\ launches \in 0 .. MaxLaunches /\ edits \in 0 .. MaxEdits /\ signals \in 0 .. MaxSignals
  /\ seen.entries \in [Mods -> Versions \cup {None}]
  /\ seen.configs \subseteq ConfigSources
  /\ seen.jars \subseteq Jars
  /\ seen.rundir \in [Paths -> Sources \cup {None, Own}]

\* What a fresh run directory gets at p, said without the tree: the JARs with
\* that file name, and for the configuration the first of resources/, config/,
\* the side's own and the common file of a mod that has one.
Wanted(p) ==
  IF p # ConfigFile
  THEN {Jar(m, seen.entries[m]) : m \in {n \in Mods : Slug[n] = p}} \cap seen.jars
  ELSE IF Resource \in seen.configs THEN {Resource}
  ELSE IF Global \in seen.configs THEN {Global}
  ELSE {s \in seen.configs :
          s.kind = "special" \/ (s.kind = "common" /\ Special(s.mod) \notin seen.configs)}

\* realize_vfs, "existing files are left untouched": once a launch has realized
\* its tree, what was in the run directory is still there, and every other
\* path links to what was found for it when the tree was built, in the code's
\* order of precedence, whatever changed or was evicted meanwhile.
RunDirExact ==
  pc \in {"token", "merge", "copy"} =>
    \A p \in Slugs \cup {ConfigFile} :
      IF seen.rundir[p] # None THEN rundir[p] = seen.rundir[p]
      ELSE IF Wanted(p) = {} THEN rundir[p] = None ELSE rundir[p] \in Wanted(p)

\* A server that is launched by class path never starts from a server.jar whose
\* copy was cut off, by this launch or by an earlier one that a signal ended.
ServerJarWhole ==
  pc \in {"ready"} \cup Handled /\ side = "server" /\ ~installer => serverJar = "whole"

\* docs/specs/launch.md, signal handling: SIGTERM is forwarded to the child, and
\* "None of the signal-handler code is reached without the corresponding atomic
\* having been set after a successful spawn": a signal that ends the launcher while
\* the child lives has reached the child, whenever it came.
SigTermForwarded ==
  [][pc' = "idle" /\ pc \in Handled /\ child' = "alive" =>
       "TERM" \in hit' \/ TryWaitFails]_vars

\* wait_for_child: from the moment a Ctrl-C wakes the handler, also before the
\* child is spawned or its PID stored, the launcher ends, whatever the child does.
InterruptEnds == handler = "woken" ~> pc = "idle"

\* docs/specs/storage.md, "Config Storage": the side's own file has the highest
\* priority, the common one the next, and config/ is the fallback.
ConfigPriority ==
  pc \in {"token", "merge", "copy"} /\ seen.rundir[ConfigFile] = None =>
    \A s \in seen.configs : s.kind = "special" => rundir[ConfigFile] # Global
=============================================================================
