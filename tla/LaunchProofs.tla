--------------------------- MODULE LaunchProofs -----------------------------
(***************************************************************************)
(* Safety of the launcher (module Launch) and of the launch preparation    *)
(* (module Prepare), for any sets of mods, sources, slugs, files and       *)
(* launches, and kills anywhere.                                           *)
(*                                                                         *)
(* For the launcher the invariant follows the run directory while it is    *)
(* realized: what was there is kept, and a path that was free gets what    *)
(* the modpack has for it once the tree is empty; and it ties the child to *)
(* what the launcher that waits for it knows.                              *)
(*                                                                         *)
(* For the preparation the invariant says which files on disk can be bad   *)
(* or torn, which file a launch is at, and that every file of the kinds a  *)
(* launch has behind it was checked, written or is still ahead; the JDK's  *)
(* part says that a directory in its place was unpacked whole from an      *)
(* archive that was checked, or was there before.                          *)
(***************************************************************************)
EXTENDS Launch, Prepare, FiniteSetTheorems, TLAPS

-----------------------------------------------------------------------------
(***************************************************************************)
(* The run directory, the child and the launcher                           *)
(***************************************************************************)

Slots == Slugs \cup {ConfigFile}
LaunchSteps == {"idle", "prepare", "build", "realize", "token", "copy",
                "merge", "shim", "args", "args2", "ready"} \cup Handled

\* A configuration file of a mod goes with its entry.
ConfigTracked ==
  \A s \in configs : s.kind \in {"special", "common"} => entries[s.mod] # None

\* The child lives from its start on; who waits for it knows it.
JavaInv ==
  /\ child = "alive" => pc \in {"idle", "store", "wait"}
  /\ pc = "wait" => childPid = 1

\* While the tree is realized: what was there is kept, and a path that is still free is
\* linked next to what the modpack has for it.
DirInv ==
  pc \in {"realize", "token", "merge", "copy"} =>
    /\ tree \subseteq Jars \cup ConfigSources
    /\ pc # "realize" => tree = {}
    /\ \A p \in Slots :
         /\ seen.rundir[p] # None => rundir[p] = seen.rundir[p]
         /\ seen.rundir[p] = None => rundir[p] = None \/ rundir[p] \in Wanted(p)
         /\ rundir[p] = None =>
              /\ Wanted(p) # {} => \E src \in tree : PathOf(src) = p
              /\ \A src \in tree : PathOf(src) = p =>
                   src \in Wanted(p) \/ \E t \in tree : PathOf(t) = p /\ Rank(t) < Rank(src)

LaunchInv == TypeOK /\ ConfigTracked /\ JavaInv /\ DirInv

-----------------------------------------------------------------------------
(* Types *)

Tree == Sources \cup {None, Own}

LEMMA LaunchTypes ==
  /\ MaxVersion \in Nat \ {0} /\ None \notin Nat /\ Configured \subseteq Mods
  /\ MaxLaunches \in Nat /\ MaxEdits \in Nat /\ MaxSignals \in Nat
  /\ Slug \in [Mods -> Slugs]
BY LaunchAssumption

\* The end of the launcher.
LEMMA LeaveType ==
  ASSUME TypeOK, Leave
  PROVE  /\ pc' = "idle" /\ tree' \subseteq Sources /\ childPid' \in {0, 1}
         /\ interrupted' \in BOOLEAN /\ handler' \in {"idle", "woken", "marked"}
         /\ deadline' \in BOOLEAN
         /\ seen'.entries \in [Mods -> Versions \cup {None}]
         /\ seen'.configs \subseteq ConfigSources
         /\ seen'.jars \subseteq Jars
         /\ seen'.rundir \in [Paths -> Sources \cup {None, Own}]
BY DEF Leave, Nothing, TypeOK

LEMMA JavaPart ==
  ASSUME TypeOK,
         \/ Spawn \/ StorePid \/ ChildReaped \/ TryWaitFails \/ SetDeadline \/ ForceKill
         \/ SignalEndsLauncher \/ SigInt \/ SigTerm \/ SetInterrupted \/ ForwardSigInt \/ ChildExits
         \/ InstallSignalHandlers \/ PrepareLaunch \/ GetToken
  PROVE  TypeOK'
<1> USE LaunchTypes DEF workspace, serverFiles, files, process, java
<1>1. ASSUME Leave, UNCHANGED <<side, installer, workspace, rundir, serverFiles, launches, edits>>,
             child' \in {"none", "alive", "exited"}, hit' \subseteq {"INT", "TERM", "KILL"},
             signals' \in 0 .. MaxSignals
      PROVE  TypeOK'
  BY <1>1, LeaveType DEF TypeOK
<1>2. signals < MaxSignals /\ signals' = signals + 1 => signals' \in 0 .. MaxSignals
  BY DEF TypeOK
<1>3. CASE Spawn \/ TryWaitFails \/ PrepareLaunch \/ GetToken \/ ChildReaped \/ ForceKill
  <2>1. CASE Leave
    BY <1>1, <1>3, <2>1 DEF Spawn, TryWaitFails, PrepareLaunch, GetToken, ChildReaped, ForceKill, TypeOK
  <2>2. CASE ~Leave
    <3>1. CASE Spawn
      BY <2>2, <3>1 DEF Spawn, TypeOK, Handled
    <3>2. CASE PrepareLaunch
      BY <2>2, <3>2 DEF PrepareLaunch, TypeOK
    <3>3. CASE GetToken
      BY <2>2, <3>3 DEF GetToken, TypeOK
    <3>4. QED
      BY <1>3, <2>2, <3>1, <3>2, <3>3 DEF TryWaitFails, ChildReaped, ForceKill
  <2>3. QED BY <2>1, <2>2
<1>4. CASE SignalEndsLauncher \/ SigTerm
  BY <1>1, <1>2, <1>4 DEF SignalEndsLauncher, SigTerm, TypeOK
<1>5. CASE StorePid \/ SetDeadline
  BY <1>5 DEF StorePid, SetDeadline, TypeOK, Handled
<1>6. CASE SigInt
  BY <1>2, <1>6 DEF SigInt, TypeOK, Handled
<1>7. CASE SetInterrupted \/ ForwardSigInt \/ ChildExits
  <2>1. CASE SetInterrupted
    BY <2>1 DEF SetInterrupted, TypeOK
  <2>2. CASE ForwardSigInt
    BY <2>2 DEF ForwardSigInt, TypeOK
  <2>3. CASE ChildExits
    BY <2>3 DEF ChildExits, TypeOK
  <2>4. QED BY <1>7, <2>1, <2>2, <2>3
<1>8. CASE InstallSignalHandlers
  BY <1>8 DEF InstallSignalHandlers, TypeOK, Handled, Nothing
<1>9. QED BY <1>3, <1>4, <1>5, <1>6, <1>7, <1>8

\* populate_config_vfs leaves configuration files.
LEMMA ChosenSources ==
  ASSUME NEW found, found \subseteq ConfigSources, NEW c \in PopulateConfig(found)
  PROVE  c \subseteq ConfigSources
<1>1. CASE c = {Global}
  BY <1>1 DEF ConfigSources
<1>2. CASE c = {}
  BY <1>2
<1>3. ASSUME NEW m \in Mods, {Common(m), Special(m)} \cap found # {},
             c = {IF Special(m) \in found THEN Special(m) ELSE Common(m)}
      PROVE  c \subseteq ConfigSources
  BY <1>3
<1>4. QED BY <1>1, <1>2, <1>3 DEF PopulateConfig

LEMMA FilePart ==
  ASSUME TypeOK,
         \/ DownloadMods \/ BuildVfs \/ RealizeEntry \/ VfsRealized \/ CopyServerJar
         \/ MergeLibraries \/ LinkShimJars \/ WriteJvmArgs \/ JvmArgsWritten
         \/ GameWrites \/ EditEntry \/ EvictJar
  PROVE  TypeOK'
<1> USE LaunchTypes DEF workspace, serverFiles, files, process, java
<1>1. CASE DownloadMods
  <2>1. {Jar(m, entries[m]) : m \in {n \in Mods : entries[n] # None}} \subseteq Jars
    BY DEF Jars, TypeOK
  <2>2. launches' \in 0 .. MaxLaunches
    BY <1>1 DEF DownloadMods, TypeOK
  <2>3. pc' \in LaunchSteps /\ jars' \subseteq Jars
    BY <1>1, <2>1 DEF DownloadMods, TypeOK, LaunchSteps
  <2>4. QED BY <1>1, <2>2, <2>3 DEF DownloadMods, TypeOK, LaunchSteps
<1>2. CASE BuildVfs
  <2>1. PICK found \in Found : /\ tree' \in BuildTree(found)
                               /\ seen' = [entries |-> entries, configs |-> found, jars |-> jars,
                                           rundir |-> rundir]
    BY <1>2 DEF BuildVfs
  <2>2. found \subseteq ConfigSources
    BY DEF Found, TypeOK
  <2>3. \A c \in PopulateConfig(found) : c \subseteq ConfigSources
    BY <2>2, ChosenSources
  <2>4. tree' \subseteq Sources
    <3>1. PICK s \in SUBSET Cached, c \in PopulateConfig(found) :
            tree' = s \cup c \cup (found \cap {Resource})
      BY <2>1 DEF BuildTree, OneEach
    <3>2. s \subseteq Jars
      BY DEF Cached, TypeOK
    <3>3. c \subseteq ConfigSources /\ found \cap {Resource} \subseteq ConfigSources
      BY <2>2, <2>3
    <3>4. QED BY <3>1, <3>2, <3>3 DEF Sources
  <2>5. QED BY <1>2, <2>1, <2>2, <2>4 DEF BuildVfs, TypeOK
<1>3. CASE RealizeEntry
  <2>1. CASE Leave
    BY <1>3, <2>1, LeaveType DEF RealizeEntry, TypeOK
  <2>2. CASE ~Leave
    <3>1. /\ tree' \subseteq Sources
          /\ rundir' \in [Paths -> Sources \cup {None, Own}]
          /\ UNCHANGED <<serverFiles, seen, pc, process>>
      BY <1>3, <2>2 DEF RealizeEntry, TypeOK
    <3>2. QED BY <1>3, <3>1 DEF RealizeEntry, TypeOK
  <2>3. QED BY <2>1, <2>2
<1>4. CASE VfsRealized \/ WriteJvmArgs
  <2>1. CASE VfsRealized
    BY <2>1 DEF VfsRealized, TypeOK
  <2>2. CASE WriteJvmArgs
    BY <2>2 DEF WriteJvmArgs, TypeOK
  <2>3. QED BY <1>4, <2>1, <2>2
<1>5. CASE CopyServerJar \/ JvmArgsWritten
  <2>1. CASE Leave
    BY <1>5, <2>1, LeaveType DEF CopyServerJar, JvmArgsWritten, TypeOK
  <2>2. CASE ~Leave
    <3>1. CASE CopyServerJar
      BY <2>2, <3>1 DEF CopyServerJar, TypeOK
    <3>2. CASE JvmArgsWritten
      BY <2>2, <3>2 DEF JvmArgsWritten, TypeOK
    <3>3. QED BY <1>5, <3>1, <3>2
  <2>3. QED BY <2>1, <2>2
<1>6. CASE MergeLibraries \/ LinkShimJars
  <2>1. \A path \in LoaderFiles : LoaderFile(path) \in Sources
    BY DEF Sources, LoaderSources
  <2>2. PICK path \in LoaderFiles, next \in {"shim", "ready", "args"}, here \in {"merge", "shim"} :
          LinkLoaderFile(here, path, next)
    BY <1>6 DEF MergeLibraries, LinkShimJars, LoaderFiles
  <2>3. rundir' \in [Paths -> Sources \cup {None, Own}] /\ pc' \in {"shim", "ready", "args"}
    BY <2>1, <2>2 DEF LinkLoaderFile, TypeOK
  <2>4. QED BY <2>2, <2>3 DEF LinkLoaderFile, TypeOK
<1>7. CASE GameWrites
  <2>1. rundir \in [Paths -> Sources \cup {None, Own}]
    BY DEF TypeOK
  <2>2. rundir' \in [Paths -> Sources \cup {None, Own}]
    BY <1>7, <2>1 DEF GameWrites
  <2>3. QED BY <1>7, <2>2 DEF GameWrites, TypeOK
<1>8. CASE EditEntry
  <2>1. edits' \in 0 .. MaxEdits
    BY <1>8 DEF EditEntry, TypeOK
  <2>2. entries' \in [Mods -> Versions \cup {None}] /\ configs' \subseteq ConfigSources
    BY <1>8 DEF EditEntry, TypeOK
  <2>3. QED BY <1>8, <2>1, <2>2 DEF EditEntry, TypeOK
<1>9. CASE EvictJar
  <2>1. edits' \in 0 .. MaxEdits /\ jars' \subseteq Jars
    BY <1>9 DEF EvictJar, TypeOK
  <2>2. QED BY <1>9, <2>1 DEF EvictJar, TypeOK
<1>10. QED BY <1>1, <1>2, <1>3, <1>4, <1>5, <1>6, <1>7, <1>8, <1>9

LEMMA LaunchTypeStep == TypeOK /\ [Next]_vars => TypeOK'
<1>1. TypeOK /\ UNCHANGED vars => TypeOK'
  BY DEF vars, workspace, serverFiles, files, process, java, TypeOK
<1>2. QED BY <1>1, JavaPart, FilePart DEF Next, Launcher, Handler

-----------------------------------------------------------------------------
(* The child, and the modpack's files *)

LEMMA ConfigStep ==
  ASSUME TypeOK, ConfigTracked, [Next]_vars
  PROVE  ConfigTracked'
<1> USE DEF workspace, serverFiles, files, process, java
<1>1. CASE UNCHANGED <<entries, configs>>
  BY <1>1 DEF ConfigTracked
<1>2. CASE EditEntry
  <2>1. PICK m \in Mods, v \in Versions \cup {None} :
          /\ entries' = [entries EXCEPT ![m] = v]
          /\ configs' = IF v = None THEN configs \ {Common(m), Special(m)} ELSE configs
    BY <1>2 DEF EditEntry
  <2>2. \A s \in configs' : s.kind \in {"special", "common"} => s \in configs /\ s.mod \in Mods
                              /\ (v = None => s.mod # m)
    <3>1. ASSUME NEW s \in configs', s.kind \in {"special", "common"}
          PROVE  s \in configs /\ s.mod \in Mods /\ (v = None => s.mod # m)
      <4>1. s \in configs /\ s \in ConfigSources
        BY <2>1 DEF TypeOK
      <4>2. PICK n \in Mods : s = Common(n) \/ s = Special(n)
        BY <3>1, <4>1, LaunchTypes DEF ConfigSources, Global, Resource
      <4>3. s.mod = n
        BY <4>2 DEF Common, Special
      <4>4. QED BY <2>1, <4>1, <4>2, <4>3
    <3>2. QED BY <3>1
  <2>3. QED BY <2>1, <2>2 DEF ConfigTracked, TypeOK
<1>3. CASE ~EditEntry
  BY <1>1, <1>3 DEF Next, Launcher, Handler, DownloadMods, PrepareLaunch, BuildVfs, RealizeEntry,
     VfsRealized, GetToken, CopyServerJar, InstallSignalHandlers, MergeLibraries, LinkShimJars,
     LinkLoaderFile, WriteJvmArgs, JvmArgsWritten, Spawn, StorePid, ChildReaped, SetDeadline,
     ForceKill, SetInterrupted, ForwardSigInt, TryWaitFails, SignalEndsLauncher, SigInt, SigTerm,
     ChildExits, GameWrites, EvictJar, vars
<1>4. QED BY <1>2, <1>3

LEMMA JavaStep ==
  ASSUME TypeOK, JavaInv, [Next]_vars
  PROVE  JavaInv'
<1> USE DEF workspace, serverFiles, files, process, java
<1>1. CASE UNCHANGED vars
  BY <1>1 DEF vars, JavaInv
<1>2. CASE Leave /\ (child' = child \/ child' = "none")
  BY <1>2 DEF Leave, JavaInv
\* The steps before the child is spawned.
<1>3. ASSUME pc \notin {"store", "wait"}, pc # "idle" \/ child # "alive", pc' # "wait",
             UNCHANGED child \/ child' = "none"
      PROVE  JavaInv'
  BY <1>3 DEF JavaInv
<1>4. CASE \/ DownloadMods \/ PrepareLaunch \/ BuildVfs \/ RealizeEntry \/ VfsRealized
           \/ GetToken \/ CopyServerJar \/ InstallSignalHandlers
           \/ MergeLibraries \/ LinkShimJars \/ WriteJvmArgs \/ JvmArgsWritten
  <2>1. CASE DownloadMods \/ PrepareLaunch \/ BuildVfs \/ VfsRealized
    BY <1>3, <2>1 DEF DownloadMods, PrepareLaunch, BuildVfs, VfsRealized, Leave
  <2>2. CASE RealizeEntry \/ GetToken \/ CopyServerJar \/ InstallSignalHandlers
    BY <1>3, <2>2 DEF RealizeEntry, GetToken, CopyServerJar, InstallSignalHandlers, Leave
  <2>3. CASE MergeLibraries \/ LinkShimJars \/ WriteJvmArgs \/ JvmArgsWritten
    BY <1>3, <2>3 DEF MergeLibraries, LinkShimJars, LinkLoaderFile, WriteJvmArgs, JvmArgsWritten, Leave
  <2>4. QED BY <1>4, <2>1, <2>2, <2>3
<1>5. CASE Spawn \/ StorePid
  BY <1>5 DEF Spawn, StorePid, Leave, JavaInv
<1>6. CASE ChildReaped \/ ForceKill \/ TryWaitFails \/ SignalEndsLauncher \/ SigTerm
  BY <1>2, <1>6 DEF ChildReaped, ForceKill, TryWaitFails, SignalEndsLauncher, SigTerm
<1>7. CASE SetDeadline \/ SigInt \/ SetInterrupted \/ ForwardSigInt \/ GameWrites \/ EditEntry \/ EvictJar
  BY <1>7 DEF SetDeadline, SigInt, SetInterrupted, ForwardSigInt, GameWrites, EditEntry, EvictJar, JavaInv
<1>8. CASE ChildExits
  BY <1>8 DEF ChildExits, JavaInv
<1>9. QED BY <1>1, <1>4, <1>5, <1>6, <1>7, <1>8 DEF Next, Launcher, Handler

\* Who ends the launcher while the child lives.
LEMMA WhoLeaves ==
  ASSUME TypeOK, JavaInv, Next, pc # "idle", pc' = "idle", child' = "alive"
  PROVE  "TERM" \in hit' \/ pc = "store" \/ TryWaitFails
<1> USE DEF workspace, serverFiles, files, process, java
<1>1. pc \in {"store", "wait"} \/ child # "alive"
  BY DEF JavaInv
<1>2. CASE DownloadMods \/ PrepareLaunch \/ BuildVfs \/ VfsRealized \/ RealizeEntry \/ GetToken
           \/ CopyServerJar \/ InstallSignalHandlers
  BY <1>1, <1>2 DEF DownloadMods, PrepareLaunch, BuildVfs, VfsRealized, RealizeEntry, GetToken,
     CopyServerJar, InstallSignalHandlers
<1>3. CASE MergeLibraries \/ LinkShimJars \/ WriteJvmArgs \/ JvmArgsWritten \/ Spawn \/ StorePid
  BY <1>1, <1>3 DEF MergeLibraries, LinkShimJars, LinkLoaderFile, WriteJvmArgs, JvmArgsWritten,
     Spawn, StorePid
<1>4. CASE ChildReaped \/ ForceKill \/ SetDeadline
  BY <1>4 DEF ChildReaped, ForceKill, SetDeadline
<1>5. CASE SignalEndsLauncher
  BY <1>1, <1>5 DEF SignalEndsLauncher, Handled
<1>6. CASE SigTerm
  <2>1. pc = "spawn" => child # "alive"
    BY <1>1
  <2>2. pc = "wait" => childPid = 1 /\ hit' = hit \cup {"TERM"}
    BY <1>6 DEF SigTerm, JavaInv
  <2>3. QED BY <1>6, <2>1, <2>2 DEF SigTerm, Handled
<1>7. CASE SigInt \/ SetInterrupted \/ ForwardSigInt \/ GameWrites \/ EditEntry \/ EvictJar \/ ChildExits
  BY <1>7 DEF SigInt, SetInterrupted, ForwardSigInt, GameWrites, EditEntry, EvictJar, ChildExits
<1>8. QED
  BY <1>2, <1>3, <1>4, <1>5, <1>6, <1>7 DEF Next, Launcher, Handler

-----------------------------------------------------------------------------
(* The run directory *)

\* What DirInv says of one path.
Faithful(p) ==
  /\ seen.rundir[p] # None => rundir[p] = seen.rundir[p]
  /\ seen.rundir[p] = None => rundir[p] = None \/ rundir[p] \in Wanted(p)
  /\ rundir[p] = None =>
       /\ Wanted(p) # {} => \E src \in tree : PathOf(src) = p
       /\ \A src \in tree : PathOf(src) = p =>
            src \in Wanted(p) \/ \E t \in tree : PathOf(t) = p /\ Rank(t) < Rank(src)

LEMMA SourcePaths ==
  /\ \A m \in Mods : \A v : /\ PathOf(Jar(m, v)) = Slug[m] /\ Rank(Jar(m, v)) = 2
                            /\ Slug[m] \in Slugs
  /\ \A s \in ConfigSources : PathOf(s) = ConfigFile /\ Rank(s) = IF s = Resource THEN 0 ELSE 1
  /\ ConfigFile \notin Slugs
  /\ LoaderFiles \cap Slots = {}
<1>1. \A m \in Mods : \A v : PathOf(Jar(m, v)) = Slug[m] /\ Rank(Jar(m, v)) = 2 /\ Slug[m] \in Slugs
  BY LaunchTypes DEF PathOf, Jar, Rank
<1>2. \A s \in ConfigSources : PathOf(s) = ConfigFile /\ Rank(s) = IF s = Resource THEN 0 ELSE 1
  <2>1. ASSUME NEW s \in ConfigSources
        PROVE  s.kind \in {"common", "special", "global"} \/ s = Resource
    BY DEF ConfigSources, Common, Special, Global
  <2>2. Resource.kind = "resource"
    BY DEF Resource
  <2>3. ASSUME NEW s \in ConfigSources
        PROVE  PathOf(s) = ConfigFile /\ Rank(s) = IF s = Resource THEN 0 ELSE 1
    BY <2>1, <2>2 DEF PathOf, Rank
  <2>4. QED BY <2>3
<1>3. ConfigFile \notin Slugs /\ LoaderFiles \cap Slugs = {}
  BY LaunchPaths
<1>4. ConfigFile \notin LoaderFiles
  BY DEF ConfigFile, LoaderFiles
<1>5. QED BY <1>1, <1>2, <1>3, <1>4 DEF Slots

LEMMA TreePaths ==
  \A src \in Jars \cup ConfigSources : PathOf(src) \in Slots /\ Rank(src) \in {0, 1, 2} /\ src # None
<1>1. \A src \in Jars : PathOf(src) \in Slots /\ Rank(src) \in {0, 1, 2}
  BY SourcePaths DEF Jars, Slots
<1>2. \A src \in ConfigSources : PathOf(src) \in Slots /\ Rank(src) \in {0, 1, 2}
  BY SourcePaths DEF Slots
<1>3. QED BY <1>1, <1>2, LaunchPaths DEF Sources

\* populate_config_vfs: config/ replaces the rest; else one file stays, a mod's own for this
\* side before its common one.
LEMMA ConfigChoice ==
  ASSUME TypeOK, ConfigTracked, NEW found \in Found, NEW c \in PopulateConfig(found)
  PROVE  IF Global \in found THEN c = {Global}
         ELSE \/ c = {} /\ \A s \in found : s.kind \notin {"special", "common"}
              \/ \E x \in found : /\ c = {x}
                                    /\ \/ x.kind = "special"
                                       \/ x.kind = "common" /\ Special(x.mod) \notin found
<1>1. CASE Global \in found
  BY <1>1 DEF PopulateConfig
<1>2. CASE Global \notin found
  <2>1. \A m \in Mods : /\ Common(m).kind = "common" /\ Common(m).mod = m
                        /\ Special(m).kind = "special" /\ Special(m).mod = m
    BY DEF Common, Special
  <2>2. ASSUME NEW m \in Mods, {Common(m), Special(m)} \cap found # {},
               c = {IF Special(m) \in found THEN Special(m) ELSE Common(m)}
        PROVE  \E x \in found : /\ c = {x}
                                  /\ \/ x.kind = "special"
                                     \/ x.kind = "common" /\ Special(x.mod) \notin found
    BY <2>1, <2>2
  <2>3. ASSUME NEW s \in found, s.kind \in {"special", "common"}
        PROVE  \E m \in Mods : entries[m] # None /\ {Common(m), Special(m)} \cap found # {}
    <3>1. s \in configs /\ s \in ConfigSources
      BY <2>3 DEF TypeOK, Found
    <3>2. PICK m \in Mods : s = Common(m) \/ s = Special(m)
      BY <2>3, <3>1, LaunchTypes DEF ConfigSources, Global, Resource
    <3>3. s.mod = m
      BY <2>1, <3>2
    <3>4. QED BY <2>3, <3>1, <3>2, <3>3 DEF ConfigTracked
  <2> DEFINE with == {n \in Mods : entries[n] # None /\ {Common(n), Special(n)} \cap found # {}}
             own(m) == IF Special(m) \in found THEN Special(m) ELSE Common(m)
             some == {{own(m)} : m \in with}
  <2>4. c \in IF some = {} THEN {{}} ELSE some
    BY <1>2 DEF PopulateConfig
  <2>5. CASE with = {}
    <3>1. c = {}
      BY <2>4, <2>5
    <3>2. QED BY <1>2, <2>3, <2>5, <3>1
  <2>6. CASE with # {}
    <3>1. PICK m \in with : c = {own(m)}
      BY <2>4, <2>6
    <3>2. QED BY <1>2, <2>2, <3>1
  <2>7. QED BY <2>5, <2>6
<1>3. QED BY <1>1, <1>2

\* build_mod_vfs: a file name of mods/ gets a node if a mod of that name is in the cache, and
\* it is of such a mod.
LEMMA BuildMods ==
  ASSUME TypeOK, BuildVfs, NEW p \in Slugs
  PROVE  Faithful(p)' /\ tree' \subseteq Jars \cup ConfigSources
<1>0. PICK found \in Found : /\ tree' \in BuildTree(found)
                             /\ seen' = [entries |-> entries, configs |-> found, jars |-> jars,
                                         rundir |-> rundir]
  BY DEF BuildVfs
<1>1. PICK s \in SUBSET Cached, c \in PopulateConfig(found) :
        /\ Cardinality(s \cap Named(p)) = IF Named(p) = {} THEN 0 ELSE 1
        /\ tree' = s \cup c \cup (found \cap {Resource})
  <2>1. PICK s \in OneEach, c \in PopulateConfig(found) : tree' = s \cup c \cup (found \cap {Resource})
    BY <1>0 DEF BuildTree
  <2>2. s \in SUBSET Cached /\ Cardinality(s \cap Named(p)) = IF Named(p) = {} THEN 0 ELSE 1
    BY DEF OneEach
  <2>3. QED BY <2>1, <2>2
<1>2. /\ rundir' = rundir /\ seen'.rundir = rundir /\ seen'.entries = entries
      /\ seen'.configs = found /\ seen'.jars = jars
  BY <1>0 DEF BuildVfs
<1>3. c \subseteq ConfigSources
  BY ChosenSources DEF Found, TypeOK
<1>4. s \subseteq Jars /\ found \cap {Resource} \subseteq ConfigSources
  BY DEF TypeOK, Cached, Found
<1>5. tree' \subseteq Jars \cup ConfigSources
  BY <1>1, <1>3, <1>4
<1>6. Wanted(p)' = Named(p)
  <2>1. p # ConfigFile
    BY SourcePaths
  <2>2. Wanted(p)' = {Jar(m, entries[m]) : m \in {n \in Mods : Slug[n] = p}} \cap jars
    BY <1>2, <2>1 DEF Wanted
  <2>3. \A m \in Mods : PathOf(Jar(m, entries[m])) = Slug[m]
    BY SourcePaths
  <2>4. QED BY <2>2, <2>3 DEF Named, Cached
<1>7. \A src \in tree' : PathOf(src) = p => src \in Named(p)
  <2>1. \A src \in ConfigSources : PathOf(src) # p
    BY SourcePaths
  <2>2. QED BY <1>1, <1>3, <1>4, <2>1 DEF Named
<1>8. Named(p) # {} => \E src \in tree' : PathOf(src) = p
  <2>1. ASSUME Named(p) # {} PROVE s \cap Named(p) # {}
    <3>1. Cardinality(s \cap Named(p)) = 1 /\ Cardinality({}) = 0
      BY <1>1, <2>1, FS_EmptySet
    <3>2. QED BY <3>1
  <2>2. QED BY <1>1, <2>1 DEF Named
<1>9. Faithful(p)'
  BY <1>2, <1>6, <1>7, <1>8 DEF Faithful
<1>10. QED BY <1>5, <1>9

\* populate_config_vfs: what is realized first is the resources' file, then the one that
\* ConfigChoice names.
LEMMA BuildConfig ==
  ASSUME TypeOK, ConfigTracked, BuildVfs
  PROVE  Faithful(ConfigFile)'
<1>0. PICK found \in Found : /\ tree' \in BuildTree(found)
                             /\ seen' = [entries |-> entries, configs |-> found, jars |-> jars,
                                         rundir |-> rundir]
  BY DEF BuildVfs
<1>1. PICK s \in SUBSET Cached, c \in PopulateConfig(found) :
        tree' = s \cup c \cup (found \cap {Resource})
  BY <1>0 DEF BuildTree, OneEach
<1>2. /\ rundir' = rundir /\ seen'.rundir = rundir /\ seen'.entries = entries
      /\ seen'.configs = found /\ seen'.jars = jars
  BY <1>0 DEF BuildVfs
<1>3. Wanted(ConfigFile)' =
        IF Resource \in found THEN {Resource}
        ELSE IF Global \in found THEN {Global}
        ELSE {x \in found : x.kind = "special" \/ (x.kind = "common" /\ Special(x.mod) \notin found)}
  BY <1>2 DEF Wanted
<1>4. \A src \in s : PathOf(src) # ConfigFile
  BY SourcePaths DEF Cached
<1>5. Resource \in ConfigSources /\ Global \in ConfigSources
  BY DEF ConfigSources
<1>6. c \subseteq found /\ \A src \in c : src \in ConfigSources
  <2>1. found \subseteq ConfigSources
    BY DEF TypeOK, Found
  <2>2. c \subseteq found
    BY ConfigChoice
  <2>3. QED BY <2>1, <2>2
<1>7. CASE Resource \in found
  <2>1. Resource \in tree' /\ PathOf(Resource) = ConfigFile /\ Rank(Resource) = 0
    BY <1>1, <1>5, <1>7, SourcePaths
  <2>2. \A src \in tree' : PathOf(src) = ConfigFile => src = Resource \/ Rank(src) = 1
    BY <1>1, <1>4, <1>6, SourcePaths
  <2>3. \A src \in tree' : PathOf(src) = ConfigFile =>
          src \in Wanted(ConfigFile)' \/ \E t \in tree' : PathOf(t) = ConfigFile /\ Rank(t) < Rank(src)
    BY <1>3, <1>7, <2>1, <2>2
  <2>4. QED BY <1>2, <2>1, <2>3 DEF Faithful
<1>8. CASE Resource \notin found
  <2>1. c \subseteq Wanted(ConfigFile)' /\ (Wanted(ConfigFile)' # {} => c # {})
    BY <1>3, <1>8, ConfigChoice
  <2>2. \A src \in tree' : PathOf(src) = ConfigFile => src \in Wanted(ConfigFile)'
    BY <1>1, <1>4, <1>8, <2>1
  <2>3. Wanted(ConfigFile)' # {} => \E src \in tree' : PathOf(src) = ConfigFile
    BY <1>1, <1>6, <2>1, SourcePaths
  <2>4. QED BY <1>2, <2>2, <2>3 DEF Faithful
<1>9. QED BY <1>7, <1>8

\* Realizing one entry: a path that is taken stays, one that is free gets the first entry of
\* its tree, which is what the modpack has for it.
LEMMA RealizeOne ==
  ASSUME TypeOK, NEW src \in tree, tree \subseteq Jars \cup ConfigSources,
         \A t \in tree : Rank(src) <= Rank(t),
         tree' = tree \ {src}, UNCHANGED seen,
         \/ rundir[PathOf(src)] # None /\ UNCHANGED rundir
         \/ rundir[PathOf(src)] = None /\ rundir' = [rundir EXCEPT ![PathOf(src)] = src],
         NEW p \in Slots, Faithful(p)
  PROVE  Faithful(p)'
<1>1. Wanted(p)' = Wanted(p)
  BY DEF Wanted
<1>2. /\ PathOf(src) \in Slots /\ src # None
      /\ \A t \in tree : Rank(t) \in {0, 1, 2}
  BY TreePaths
<1>3. Slots \subseteq Paths
  BY DEF Slots, Paths
<1>4. CASE p # PathOf(src)
  <2>1. rundir'[p] = rundir[p]
    BY <1>2, <1>3, <1>4 DEF TypeOK
  <2>2. QED BY <1>1, <1>4, <2>1 DEF Faithful
<1>5. CASE p = PathOf(src) /\ rundir[p] # None
  <2>1. rundir'[p] = rundir[p]
    BY <1>5
  <2>2. QED BY <1>1, <1>5, <2>1 DEF Faithful
<1>6. CASE p = PathOf(src) /\ rundir[p] = None
  <2>1. rundir'[p] = src
    BY <1>2, <1>3, <1>6 DEF TypeOK
  <2>2. src \in Wanted(p)
    BY <1>2, <1>6 DEF Faithful
  <2>3. seen.rundir[p] = None
    BY <1>6 DEF Faithful
  <2>4. QED BY <1>1, <1>2, <2>1, <2>2, <2>3 DEF Faithful
<1>7. QED BY <1>4, <1>5, <1>6

LEMMA DirStep ==
  ASSUME TypeOK, ConfigTracked, JavaInv, DirInv, [Next]_vars
  PROVE  DirInv'
<1> USE DEF workspace, serverFiles, files, process, java
<1>0. /\ DirInv <=> (pc \in {"realize", "token", "merge", "copy"} =>
           /\ tree \subseteq Jars \cup ConfigSources
           /\ pc # "realize" => tree = {}
           /\ \A p \in Slots : Faithful(p))
      /\ DirInv' <=> (pc' \in {"realize", "token", "merge", "copy"} =>
           /\ tree' \subseteq Jars \cup ConfigSources
           /\ pc' # "realize" => tree' = {}
           /\ \A p \in Slots : Faithful(p)')
  BY DEF DirInv, Faithful
<1>1. ASSUME UNCHANGED <<rundir, tree, seen>>,
             pc' \in {"realize", "token", "merge", "copy"} =>
               /\ pc \in {"realize", "token", "merge", "copy"}
               /\ pc' = "realize" \/ tree = {}
      PROVE  DirInv'
  <2>1. \A p \in Slots : Faithful(p) => Faithful(p)'
    BY <1>1 DEF Faithful, Wanted
  <2>2. QED BY <1>0, <1>1, <2>1
<1>2. CASE pc' \notin {"realize", "token", "merge", "copy"}
  BY <1>0, <1>2
<1>3. CASE BuildVfs
  <2>1. \A p \in Slots : Faithful(p)'
    BY <1>3, BuildMods, BuildConfig DEF Slots
  <2>2. tree' \subseteq Jars \cup ConfigSources
    <3>1. PICK found \in Found : tree' \in BuildTree(found)
      BY <1>3 DEF BuildVfs
    <3>2. PICK s \in SUBSET Cached, c \in PopulateConfig(found) :
            tree' = s \cup c \cup (found \cap {Resource})
      BY <3>1 DEF BuildTree, OneEach
    <3>3. found \subseteq ConfigSources /\ c \subseteq ConfigSources
      BY ChosenSources DEF Found, TypeOK
    <3>4. s \subseteq Jars
      BY DEF Cached, TypeOK
    <3>5. found \cap {Resource} \subseteq ConfigSources
      BY <3>3
    <3>6. QED BY <3>2, <3>3, <3>4, <3>5
  <2>3. pc' = "realize"
    BY <1>3 DEF BuildVfs
  <2>4. QED BY <1>0, <2>1, <2>2, <2>3
<1>4. CASE RealizeEntry /\ pc' # "idle"
  <2>1. pc = "realize" /\ tree \subseteq Jars \cup ConfigSources /\ \A p \in Slots : Faithful(p)
    BY <1>0, <1>4 DEF RealizeEntry
  <2>2. PICK src \in tree :
          /\ \A t \in tree : Rank(src) <= Rank(t)
          /\ tree' = tree \ {src} /\ UNCHANGED <<seen, pc>>
          /\ \/ rundir[PathOf(src)] # None /\ UNCHANGED rundir
             \/ rundir[PathOf(src)] = None /\ rundir' = [rundir EXCEPT ![PathOf(src)] = src]
    <3>1. \A p : Exists(p) => rundir[p] # None
      BY LaunchPaths DEF Exists
    <3>2. QED BY <1>4, <3>1 DEF RealizeEntry, Leave
  <2>3. \A p \in Slots : Faithful(p)'
    BY <2>1, <2>2, RealizeOne
  <2>4. QED BY <1>0, <2>1, <2>2, <2>3
<1>5. CASE MergeLibraries \/ LinkShimJars
  BY <1>2, <1>5 DEF MergeLibraries, LinkShimJars, LinkLoaderFile
<1>6. CASE GameWrites
  <2>1. pc' = pc /\ pc \notin {"realize", "token", "merge", "copy"}
    BY <1>6 DEF GameWrites, JavaInv
  <2>2. QED BY <1>2, <2>1
<1>7. CASE VfsRealized
  BY <1>1, <1>7 DEF VfsRealized
<1>8. CASE CopyServerJar /\ pc' # "idle"
  <2>1. pc = "copy" /\ tree = {}
    BY <1>0, <1>8 DEF CopyServerJar
  <2>2. QED BY <1>1, <1>8, <2>1 DEF CopyServerJar, Leave
<1>9. CASE \/ DownloadMods \/ PrepareLaunch \/ GetToken \/ InstallSignalHandlers
           \/ WriteJvmArgs \/ JvmArgsWritten
  BY <1>2, <1>9, <1>1 DEF DownloadMods, PrepareLaunch, GetToken, InstallSignalHandlers, WriteJvmArgs,
     JvmArgsWritten, Leave
<1>10. CASE \/ Spawn \/ StorePid \/ ChildReaped \/ ForceKill \/ TryWaitFails
            \/ SignalEndsLauncher \/ SigTerm
  BY <1>2, <1>10 DEF Spawn, StorePid, ChildReaped, ForceKill, TryWaitFails, SignalEndsLauncher,
     SigTerm, Leave
<1>11. CASE \/ SetDeadline \/ SigInt \/ SetInterrupted \/ ForwardSigInt \/ ChildExits
            \/ EditEntry \/ EvictJar \/ UNCHANGED vars
  <2>1. UNCHANGED <<rundir, tree, seen, pc>>
    BY <1>11 DEF SetDeadline, SigInt, SetInterrupted, ForwardSigInt, ChildExits, EditEntry, EvictJar, vars
  <2>2. pc \in {"token", "merge", "copy"} => tree = {}
    BY <1>0
  <2>3. QED BY <1>1, <2>1, <2>2
<1>12. QED
  BY <1>2, <1>3, <1>4, <1>5, <1>6, <1>7, <1>8, <1>9, <1>10, <1>11 DEF Next, Launcher, Handler

-----------------------------------------------------------------------------
(* The invariant and what it says *)

LaunchRuns == Init /\ [][Next]_vars

LEMMA LaunchInitially == Init => LaunchInv
<1> SUFFICES ASSUME Init PROVE LaunchInv
  OBVIOUS
<1>1. TypeOK
  <2>1. 1 \in Versions
    BY LaunchTypes DEF Versions
  <2>2. 0 \in 0 .. MaxLaunches /\ 0 \in 0 .. MaxEdits /\ 0 \in 0 .. MaxSignals
    BY LaunchTypes
  <2>3. /\ seen.entries \in [Mods -> Versions \cup {None}] /\ seen.configs = {} /\ seen.jars = {}
        /\ seen.rundir \in [Paths -> Sources \cup {None, Own}]
    BY DEF Init, Nothing
  <2>4. QED BY <2>1, <2>2, <2>3 DEF Init, TypeOK
<1>2. ConfigTracked
  <2>1. ASSUME NEW s \in configs, s.kind \in {"special", "common"} PROVE entries[s.mod] # None
    <3>1. PICK m \in Mods : s = Common(m) \/ s = Special(m)
      BY <2>1, LaunchTypes DEF Init, ConfigSources, Global, Resource
    <3>2. s.mod = m
      BY <3>1 DEF Common, Special
    <3>3. QED BY <3>1, <3>2 DEF Init
  <2>2. QED BY <2>1 DEF ConfigTracked
<1>3. JavaInv /\ DirInv
  BY DEF Init, JavaInv, DirInv
<1>4. QED BY <1>1, <1>2, <1>3 DEF LaunchInv

\* In every state of the launches the variables have their types, the launcher knows the child
\* it waits for and the run directory is as far as the tree is realized.
THEOREM LaunchInvariance == LaunchRuns => []LaunchInv
<1>1. LaunchInv /\ [Next]_vars => LaunchInv'
  BY LaunchTypeStep, ConfigStep, JavaStep, DirStep DEF LaunchInv
<1>2. QED BY LaunchInitially, <1>1, PTL DEF LaunchRuns

\* realize_vfs, "existing files are left untouched": once a launch has realized its tree,
\* what was in the run directory is still there and every other path links to what the
\* modpack had for it, in the order of precedence of the code, for every set of mods and
\* file names and whatever is changed or evicted meanwhile.
THEOREM RunDirIsExact == Spec => []RunDirExact
<1>1. LaunchInv => RunDirExact
  <2> SUFFICES ASSUME LaunchInv, pc \in {"token", "merge", "copy"}, NEW p \in Slots
               PROVE  IF seen.rundir[p] # None THEN rundir[p] = seen.rundir[p]
                      ELSE IF Wanted(p) = {} THEN rundir[p] = None ELSE rundir[p] \in Wanted(p)
    BY DEF RunDirExact, Slots
  <2>1. /\ tree = {}
        /\ seen.rundir[p] # None => rundir[p] = seen.rundir[p]
        /\ seen.rundir[p] = None => rundir[p] = None \/ rundir[p] \in Wanted(p)
        /\ rundir[p] = None => (Wanted(p) # {} => \E src \in tree : PathOf(src) = p)
    BY DEF LaunchInv, DirInv
  <2>2. QED BY <2>1
<1>2. Spec => LaunchRuns
  BY DEF Spec, LaunchRuns
<1>3. QED BY LaunchInvariance, <1>1, <1>2, PTL

\* sigterm_handler: a launcher that goes while the child lives, and has not sent it the signal
\* that ended it, is between the spawn and the store of the child's PID, or try_wait has failed.
\* So the window that the run of SigTermForwarded shows is the only one.
THEOREM OnlyOneWindow ==
  Spec => [][pc # "idle" /\ pc' = "idle" /\ child' = "alive" =>
               "TERM" \in hit' \/ pc = "store" \/ TryWaitFails]_vars
<1>1. LaunchInv /\ [Next]_vars =>
        [pc # "idle" /\ pc' = "idle" /\ child' = "alive" =>
           "TERM" \in hit' \/ pc = "store" \/ TryWaitFails]_vars
  BY WhoLeaves DEF LaunchInv
<1>2. Spec => LaunchRuns /\ [][Next]_vars
  BY DEF Spec, LaunchRuns
<1>3. QED BY LaunchInvariance, <1>1, <1>2, PTL

-----------------------------------------------------------------------------
(***************************************************************************)
(* The launch preparation and the JDK                                      *)
(***************************************************************************)

USE PrepareAssumption

States == {"idle", "java", "info", "file", "write", "stat", "stale", "fetch",
           "commit", "ready", "failed"} \cup JdkSteps
FileSteps == {"file", "write", "stat", "stale", "fetch", "commit"}

Passed(p, s, f) == \E content \in Acceptable(f) : <<s, f, content>> \in used[p]

\* Nothing but what was damaged before is bad among the files that have a hash, and only a
\* file that is written in place may be torn.
DiskInv ==
  \A f \in Files : /\ disk[f] = "torn" => Is(f, "inplace")
                   /\ disk[f] = "bad" => IF Is(f, "hashed") THEN f \in damaged ELSE ~Is(f, "inplace")

\* The file a process is at: it was not there, or is not bad any more, when it is fetched.
CurInv(p) ==
  /\ at[p] \in FileSteps \ {"file"} => cur[p] \in left[p]
  /\ at[p] = "write" => Is(cur[p], "inplace")
  /\ at[p] \in {"stat", "stale", "fetch", "commit"} => ~Is(cur[p], "inplace")
  /\ at[p] \in {"fetch", "commit"} /\ Is(cur[p], "hashed") => disk[cur[p]] # "bad"
  /\ at[p] = "commit" => got[p] = "whole" \/ (got[p] = "bad" /\ ~Is(cur[p], "hashed"))

\* No file of a step is forgotten.
CoverInv(p) ==
  /\ at[p] \in FileSteps =>
       \A s \in StepsFor[run[p]] : \A f \in FilesOf(s) :
         s \in todo[p] \/ (s = step[p] /\ f \in left[p]) \/ failures[p] \/ Passed(p, s, f)
  /\ at[p] = "ready" => \A s \in StepsFor[run[p]] : \A f \in FilesOf(s) : Passed(p, s, f)
  /\ at[p] \notin FileSteps => todo[p] = {}

\* The processors come before the second look at the libraries, and what is there after
\* them stays.
LookInv(p) ==
  /\ at[p] \notin FileSteps \cup {"ready"} => used[p] = {} /\ step[p] = "" /\ left[p] = {}
  /\ left[p] \subseteq FilesOf(step[p])
  /\ step[p] # "" => step[p] \in StepsFor[run[p]] \ todo[p]
  /\ step[p] = "processors" \/ "processors" \in todo[p] => "again" \in todo[p]
  /\ \A u \in used[p] : u[1] \in StepsFor[run[p]] \ todo[p] /\ u[2] \in FilesOf(u[1])
  /\ \A f \in Files, c \in Contents \ {"absent"} : <<"processors", f, c>> \in used[p] =>
       disk[f] # "absent" /\ <<"again", f, "absent">> \notin used[p]

\* Of the processes that install a JDK one is alone: nobody else has one, and what it has
\* unpacked is complete.
JdkInv ==
  ~overlap =>
    /\ \A p, q \in Procs : Installing(p) /\ (Installing(q) \/ HasJdk(q)) => p = q
    /\ jdk # "partial"
    /\ \A p \in Procs :
         /\ at[p] \in {"clean", "detect"} => jdk = "whole"
         /\ HasJdk(p) => jdk # "absent"
         /\ at[p] = "unpacking" => intact[p]
         /\ at[p] \in {"move", "clear", "movein"} => extract = "whole"

PrepareInv ==
  /\ PrepareTypeOK
  /\ DiskInv
  /\ \A p \in Procs : CurInv(p) /\ CoverInv(p) /\ LookInv(p)
  /\ JdkInv

-----------------------------------------------------------------------------
(* What a step leaves alone *)

\* A step of p: what the other processes are at stays.
OnlyOf(p) ==
  \A q \in Procs \ {p} :
    /\ at'[q] = at[q] /\ run'[q] = run[q] /\ todo'[q] = todo[q] /\ left'[q] = left[q]
    /\ step'[q] = step[q]
    /\ cur'[q] = cur[q] /\ got'[q] = got[q] /\ failures'[q] = failures[q] /\ used'[q] = used[q]

LEMMA EndOf ==
  ASSUME PrepareTypeOK, NEW p \in Procs, NEW how \in {"idle", "failed"}, End(p, how), UNCHANGED run
  PROVE  /\ OnlyOf(p) /\ at'[p] = how /\ todo'[p] = {} /\ step'[p] = "" /\ used'[p] = {} /\ left'[p] = {}
         /\ at' \in [Procs -> States] /\ todo' \in [Procs -> SUBSET Steps] /\ step' \in [Procs -> Steps \cup {""}]
         /\ left' \in [Procs -> SUBSET Files] /\ cur' \in [Procs -> Files \cup {""}]
         /\ got' \in [Procs -> {"", "whole", "bad"}] /\ failures' \in [Procs -> BOOLEAN]
         /\ used' \in [Procs -> SUBSET Uses]
<1>1. at' \in [Procs -> States] /\ at'[p] = how /\ \A q \in Procs \ {p} : at'[q] = at[q]
  BY DEF PrepareTypeOK, End, Go, States
<1>2. QED BY <1>1 DEF PrepareTypeOK, End, OnlyOf

LEMMA JdkOf ==
  ASSUME PrepareTypeOK, NEW p \in Procs, JdkStep(p)
  PROVE  /\ UNCHANGED <<damaged, run, fetchVars, bounds>>
         /\ OnlyOf(p)
         /\ at[p] \in JdkSteps \cup {"java"}
         /\ at'[p] \in JdkSteps \cup {"info", "failed"}
         /\ at' \in [Procs -> States] /\ intact' \in [Procs -> BOOLEAN]
         /\ jdk' \in {"absent", "partial", "remains", "whole"} /\ extract' \in {"absent", "partial", "whole"}
         /\ archive' \in {"absent", "whole"} /\ overlap' \in BOOLEAN
<1>1. UNCHANGED <<damaged, run, fetchVars, bounds>>
  BY DEF JdkStep, ResolveJava, JdkAsset, FetchJdk, StoreJdk, Unpack, Unpacked, MoveJdk, ClearJdk, MoveJdkIn,
         CleanJdkTmp, DetectJava, Elsewhere
<1>2. \E s \in JdkSteps \cup {"info", "failed"} : Go(p, s)
  BY DEF JdkStep, ResolveJava, JdkAsset, FetchJdk, StoreJdk, Unpack, Unpacked, MoveJdk, ClearJdk, MoveJdkIn,
         CleanJdkTmp, DetectJava, JdkSteps
<1>3. /\ at' \in [Procs -> States] /\ at'[p] \in JdkSteps \cup {"info", "failed"}
      /\ \A q \in Procs \ {p} : at'[q] = at[q]
  <2>1. at \in [Procs -> States] /\ JdkSteps \cup {"info", "failed"} \subseteq States
    BY DEF PrepareTypeOK, States
  <2>2. PICK s \in JdkSteps \cup {"info", "failed"} : at' = [at EXCEPT ![p] = s]
    BY <1>2 DEF Go
  <2> QED
    BY <2>1, <2>2
<1>4. at[p] \in JdkSteps \cup {"java"}
  BY DEF JdkStep, ResolveJava, JdkAsset, FetchJdk, StoreJdk, Unpack, Unpacked, MoveJdk, ClearJdk, MoveJdkIn,
         CleanJdkTmp, DetectJava, JdkSteps
<1>5. /\ jdk' \in {"absent", "partial", "remains", "whole"} /\ extract' \in {"absent", "partial", "whole"}
      /\ archive' \in {"absent", "whole"} /\ overlap' \in BOOLEAN
  BY DEF JdkStep, ResolveJava, JdkAsset, FetchJdk, StoreJdk, Unpack, Unpacked, MoveJdk, ClearJdk, MoveJdkIn,
         CleanJdkTmp, DetectJava, PrepareTypeOK, JdkDir, JdkFiles, jdkVars
<1>6. intact' \in [Procs -> BOOLEAN]
  <2>1. CASE Unpack(p) \/ MoveJdkIn(p) \/ CleanJdkTmp(p)
    BY <2>1 DEF Unpack, MoveJdkIn, CleanJdkTmp, Others, PrepareTypeOK
  <2>2. CASE FetchJdk(p)
    BY <2>2 DEF FetchJdk, PrepareTypeOK
  <2>3. CASE \/ ResolveJava(p) \/ JdkAsset(p) \/ StoreJdk(p) \/ Unpacked(p)
             \/ MoveJdk(p) \/ ClearJdk(p) \/ DetectJava(p)
    BY <2>3 DEF ResolveJava, JdkAsset, StoreJdk, Unpacked, MoveJdk, ClearJdk, DetectJava, JdkDir, jdkVars,
                PrepareTypeOK
  <2>4. QED BY <2>1, <2>2, <2>3 DEF JdkStep
<1>7. QED BY <1>1, <1>3, <1>4, <1>5, <1>6 DEF OnlyOf, fetchVars

\* What a process passes or fails, it has done with.
LEMMA FailOf ==
  ASSUME PrepareTypeOK, NEW p \in Procs, FailFile(p), UNCHANGED run, cur[p] \in left[p]
  PROVE  /\ OnlyOf(p) /\ at'[p] \in {"file", "failed"}
         /\ at'[p] = "file" => /\ todo'[p] = todo[p] /\ used'[p] = used[p] /\ failures'[p]
                               /\ step'[p] = step[p] /\ left'[p] \subseteq left[p]
         /\ at'[p] # "file" => todo'[p] = {} /\ step'[p] = "" /\ used'[p] = {} /\ left'[p] = {}
         /\ todo' \in [Procs -> SUBSET Steps] /\ step' \in [Procs -> Steps \cup {""}] /\ todo'[p] \subseteq todo[p]
         /\ at' \in [Procs -> States]
         /\ left' \in [Procs -> SUBSET Files] /\ cur' \in [Procs -> Files \cup {""}]
         /\ got' \in [Procs -> {"", "whole", "bad"}] /\ failures' \in [Procs -> BOOLEAN]
         /\ used' \in [Procs -> SUBSET Uses]
<1>1. CASE End(p, "failed")
  BY <1>1, EndOf
<1>2. CASE /\ Go(p, "file")
           /\ failures' = [failures EXCEPT ![p] = TRUE]
           /\ left' = [left EXCEPT ![p] = @ \ {cur[p]}]
           /\ cur' = [cur EXCEPT ![p] = ""]
           /\ UNCHANGED <<todo, step, got, used>>
  <2>1. at' \in [Procs -> States] /\ at'[p] = "file" /\ \A q \in Procs \ {p} : at'[q] = at[q]
    BY <1>2 DEF PrepareTypeOK, Go, States
  <2>2. QED BY <1>2, <2>1 DEF PrepareTypeOK, OnlyOf
<1>3. QED BY <1>1, <1>2 DEF FailFile

LEMMA PassOf ==
  ASSUME PrepareTypeOK, NEW p \in Procs, NEW f \in Files, NEW c \in Contents,
         Pass(p, f, c), UNCHANGED run
  PROVE  /\ OnlyOf(p) /\ at'[p] \in {"file", "failed"}
         /\ at'[p] = "file" => /\ todo'[p] = todo[p] /\ failures'[p] = failures[p]
                               /\ used'[p] = used[p] \cup {<<step[p], f, c>>} /\ left'[p] = left[p] \ {f}
                               /\ step'[p] = step[p]
         /\ at'[p] # "file" => todo'[p] = {} /\ step'[p] = "" /\ used'[p] = {} /\ left'[p] = {}
         /\ todo' \in [Procs -> SUBSET Steps] /\ step' \in [Procs -> Steps \cup {""}] /\ todo'[p] \subseteq todo[p]
         /\ at' \in [Procs -> States]
         /\ left' \in [Procs -> SUBSET Files] /\ cur' \in [Procs -> Files \cup {""}]
         /\ got' \in [Procs -> {"", "whole", "bad"}] /\ failures' \in [Procs -> BOOLEAN]
         /\ used' \in [Procs -> SUBSET Uses]
<1>1. CASE End(p, "failed")
  BY <1>1, EndOf
<1>2. CASE /\ Go(p, "file")
           /\ used' = [used EXCEPT ![p] = @ \cup {<<step[p], f, c>>}]
           /\ left' = [left EXCEPT ![p] = @ \ {f}]
           /\ cur' = [cur EXCEPT ![p] = ""]
           /\ got' = [got EXCEPT ![p] = ""]
           /\ UNCHANGED <<todo, step, failures>>
  <2>1. at' \in [Procs -> States] /\ at'[p] = "file" /\ \A q \in Procs \ {p} : at'[q] = at[q]
    BY <1>2 DEF PrepareTypeOK, Go, States
  <2>2. /\ used' \in [Procs -> SUBSET Uses]
        /\ used'[p] = used[p] \cup {<<step[p], f, c>>} /\ \A q \in Procs \ {p} : used'[q] = used[q]
    <3>1. <<step[p], f, c>> \in Uses
      BY DEF PrepareTypeOK, Uses
    <3>2. used' = [used EXCEPT ![p] = used[p] \cup {<<step[p], f, c>>}] /\ used \in [Procs -> SUBSET Uses]
      BY <1>2 DEF PrepareTypeOK
    <3>3. QED BY <3>1, <3>2
  <2>3. /\ left' \in [Procs -> SUBSET Files] /\ cur' \in [Procs -> Files \cup {""}]
        /\ got' \in [Procs -> {"", "whole", "bad"}] /\ left'[p] = left[p] \ {f}
        /\ \A q \in Procs \ {p} : left'[q] = left[q] /\ cur'[q] = cur[q] /\ got'[q] = got[q]
    BY <1>2 DEF PrepareTypeOK
  <2>4. todo' \in [Procs -> SUBSET Steps] /\ UNCHANGED step /\ step' \in [Procs -> Steps \cup {""}] /\ failures' \in [Procs -> BOOLEAN]
    BY <1>2 DEF PrepareTypeOK
  <2>5. QED BY <1>2, <2>1, <2>2, <2>3, <2>4 DEF OnlyOf
<1>3. QED BY <1>1, <1>2 DEF Pass

LEMMA StepsForRun ==
  ASSUME NEW r \in [loader : Loaders, side : Sides]
  PROVE  StepsFor[r] = {s \in StepsOf[r.loader] :
                          FilesOf(s) # {} /\ (s \in {"index", "asset"} => r.side = "client")}
         /\ StepsFor[r] \subseteq Steps /\ StepsOf[r.loader] \subseteq Steps
<1>1. StepsFor[r] = {s \in StepsOf[r.loader] :
                       FilesOf(s) # {} /\ (s \in {"index", "asset"} => r.side = "client")}
  BY DEF StepsFor
<1>2. GameSteps \subseteq Steps /\ FabricSteps \subseteq Steps /\ InstallerSteps \subseteq Steps
      /\ ProcessorSteps \subseteq Steps
  BY DEF GameSteps, FabricSteps, InstallerSteps, ProcessorSteps, Steps, Place
<1>3. StepsOf[r.loader] \subseteq Steps
  BY <1>2 DEF StepsOf, Loaders
<1>4. QED BY <1>1, <1>3

\* The next step begins.
LEMMA TakeOf ==
  ASSUME PrepareTypeOK, NEW p \in Procs, NEW s \in NextOf(p), Take(p, s)
  PROVE  /\ s \in todo[p] /\ s \in Steps
         /\ step'[p] = s /\ left'[p] = FilesOf(s) /\ todo'[p] = todo[p] \ {s}
         /\ left' \in [Procs -> SUBSET Files] /\ todo' \in [Procs -> SUBSET Steps]
         /\ step' \in [Procs -> Steps \cup {""}]
         /\ \A q \in Procs \ {p} : left'[q] = left[q] /\ todo'[q] = todo[q] /\ step'[q] = step[q]
<1>1. s \in todo[p] /\ todo[p] \subseteq Steps
  BY DEF NextOf, PrepareTypeOK
<1>2. FilesOf(s) \in SUBSET Files
  BY DEF FilesOf
<1>3. /\ step'[p] = s /\ step' \in [Procs -> Steps \cup {""}]
      /\ \A q \in Procs \ {p} : step'[q] = step[q]
  BY <1>1 DEF Take, PrepareTypeOK
<1>4. /\ left'[p] = FilesOf(s) /\ left' \in [Procs -> SUBSET Files]
      /\ \A q \in Procs \ {p} : left'[q] = left[q]
  BY <1>2 DEF Take, PrepareTypeOK
<1>5. /\ todo'[p] = todo[p] \ {s} /\ todo' \in [Procs -> SUBSET Steps]
      /\ \A q \in Procs \ {p} : todo'[q] = todo[q]
  BY DEF Take, PrepareTypeOK
<1>6. QED BY <1>1, <1>3, <1>4, <1>5

\* A step of p that keeps what p has: the types of the rest.
FileTypes ==
  /\ at' \in [Procs -> States]
  /\ disk' \in [Files -> Contents]
  /\ todo' \in [Procs -> SUBSET Steps] /\ step' \in [Procs -> Steps \cup {""}]
  /\ left' \in [Procs -> SUBSET Files] /\ cur' \in [Procs -> Files \cup {""}]
  /\ got' \in [Procs -> {"", "whole", "bad"}] /\ failures' \in [Procs -> BOOLEAN]
  /\ used' \in [Procs -> SUBSET Uses]

LEMMA FileTypeStep ==
  ASSUME PrepareTypeOK, NEW p \in Procs, OnlyOf(p), FileTypes, UNCHANGED Other,
         todo'[p] \subseteq StepsFor[run[p]]
  PROVE  PrepareTypeOK'
<1>1. UNCHANGED <<damaged, run, jdk, archive, extract, intact, overlap, starts, kills>>
  BY DEF Other, jdkVars, bounds
<1>2. \A q \in Procs : todo'[q] \subseteq StepsFor[run'[q]]
  BY <1>1 DEF OnlyOf, PrepareTypeOK
<1>3. QED BY <1>1, <1>2 DEF FileTypes, PrepareTypeOK, States

\* What FileTypeStep asks for, step by step.
LEMMA FileOf ==
  ASSUME PrepareTypeOK, NEW p \in Procs, FileStep(p), CurInv(p), CoverInv(p)
  PROVE  OnlyOf(p) /\ FileTypes /\ UNCHANGED Other /\ todo'[p] \subseteq StepsFor[run[p]]
<1>0. UNCHANGED Other
  BY DEF FileStep, GetVersionInfo, NextStep, TakeExisting, PassOver, BeginFile, WriteInPlace,
         StatDest, RemoveStale, Fetch, Commit
<1>1. UNCHANGED run /\ todo[p] \subseteq StepsFor[run[p]]
  BY <1>0 DEF Other, PrepareTypeOK
<1>2. disk' \in [Files -> Contents]
  <2>1. CASE \/ GetVersionInfo(p) \/ NextStep(p) \/ TakeExisting(p) \/ PassOver(p) \/ StatDest(p)
             \/ Fetch(p)
    BY <2>1 DEF GetVersionInfo, NextStep, TakeExisting, PassOver, StatDest, Fetch, PrepareTypeOK
  <2>2. CASE BeginFile(p)
    BY <2>2 DEF BeginFile, PrepareTypeOK, Contents
  <2>3. CASE WriteInPlace(p) \/ RemoveStale(p)
    <3>1. \E c \in Contents : disk' = disk \/ disk' = [disk EXCEPT ![cur[p]] = c]
      BY <2>3 DEF WriteInPlace, RemoveStale, Contents
    <3>2. QED BY <3>1 DEF PrepareTypeOK
  <2>4. CASE Commit(p)
    <3>1. got[p] \in Contents /\ cur[p] \in Files
      BY <2>4 DEF Commit, CurInv, FileSteps, PrepareTypeOK, Contents
    <3>2. \E c \in Contents : disk' = [disk EXCEPT ![cur[p]] = c]
      BY <2>4, <3>1 DEF Commit, PrepareTypeOK
    <3>3. QED BY <3>2 DEF PrepareTypeOK
  <2>5. QED BY <2>1, <2>2, <2>3, <2>4 DEF FileStep
\* What a step of the process itself may change.
<1>3. ASSUME OnlyOf(p), todo'[p] \subseteq todo[p], FileTypes
      PROVE  OnlyOf(p) /\ FileTypes /\ todo'[p] \subseteq StepsFor[run[p]]
  BY <1>1, <1>3
<1>4. ASSUME NEW f \in Files, NEW c \in Contents, Pass(p, f, c)
      PROVE  OnlyOf(p) /\ FileTypes /\ todo'[p] \subseteq StepsFor[run[p]]
  BY <1>1, <1>2, <1>3, <1>4, PassOf DEF FileTypes
<1>5. ASSUME FailFile(p), at[p] \in FileSteps \ {"file"}
      PROVE  OnlyOf(p) /\ FileTypes /\ todo'[p] \subseteq StepsFor[run[p]]
  <2>1. cur[p] \in left[p]
    BY <1>5 DEF CurInv
  <2>2. QED BY <1>1, <1>2, <1>3, <1>5, <2>1, FailOf DEF FileTypes
<1>6. ASSUME NEW s \in States, Go(p, s), UNCHANGED progress
      PROVE  OnlyOf(p) /\ FileTypes /\ todo'[p] \subseteq StepsFor[run[p]]
  <2>1. at' \in [Procs -> States] /\ \A q \in Procs \ {p} : at'[q] = at[q]
    BY <1>6 DEF Go, PrepareTypeOK, States
  <2>2. QED BY <1>1, <1>2, <1>6, <2>1 DEF progress, FileTypes, OnlyOf, PrepareTypeOK
<1>7. CASE GetVersionInfo(p)
  <2>1. CASE Go(p, "failed") /\ UNCHANGED todo
    BY <1>6, <1>7, <2>1 DEF GetVersionInfo, progress, States
  <2>2. CASE Go(p, "file") /\ todo' = [todo EXCEPT ![p] = StepsFor[run[p]]]
    <3>1. at' \in [Procs -> States] /\ \A q \in Procs \ {p} : at'[q] = at[q]
      BY <2>2 DEF Go, PrepareTypeOK, States
    <3>2. StepsFor[run[p]] \in SUBSET Steps
      BY StepsForRun DEF PrepareTypeOK
    <3>3. /\ todo' \in [Procs -> SUBSET Steps] /\ todo'[p] = StepsFor[run[p]]
          /\ \A q \in Procs \ {p} : todo'[q] = todo[q]
      BY <2>2, <3>2 DEF PrepareTypeOK
    <3>4. UNCHANGED <<disk, step, left, cur, got, failures, used>>
      BY <1>7 DEF GetVersionInfo
    <3>5. OnlyOf(p)
      BY <1>1, <3>1, <3>3, <3>4 DEF OnlyOf
    <3>6. FileTypes
      BY <1>2, <3>1, <3>3, <3>4 DEF FileTypes, PrepareTypeOK
    <3>7. QED BY <1>0, <3>3, <3>5, <3>6
  <2>3. QED BY <1>7, <2>1, <2>2 DEF GetVersionInfo
<1>8. CASE NextStep(p)
  <2>1. CASE End(p, "failed")
    BY <1>0, <1>1, <1>2, <2>1, EndOf DEF FileTypes
  <2>2. CASE Go(p, "ready") /\ UNCHANGED progress
    BY <1>0, <1>6, <2>2 DEF States
  <2>3. ASSUME NEW s \in NextOf(p), Take(p, s)
        PROVE  OnlyOf(p) /\ FileTypes /\ todo'[p] \subseteq StepsFor[run[p]]
    <3>1. UNCHANGED <<at, cur, got, failures, used>>
      BY <2>3 DEF Take
    <3>2. /\ left' \in [Procs -> SUBSET Files] /\ todo' \in [Procs -> SUBSET Steps]
          /\ step' \in [Procs -> Steps \cup {""}] /\ todo'[p] \subseteq todo[p]
          /\ \A q \in Procs \ {p} : left'[q] = left[q] /\ todo'[q] = todo[q] /\ step'[q] = step[q]
      BY <2>3, TakeOf
    <3>3. QED BY <1>1, <1>2, <3>1, <3>2 DEF FileTypes, OnlyOf, PrepareTypeOK, States
  <2>4. QED BY <1>8, <2>1, <2>2, <2>3 DEF NextStep
<1>9. CASE TakeExisting(p) \/ PassOver(p)
  BY <1>4, <1>9 DEF TakeExisting, PassOver, PrepareTypeOK
<1>10. CASE BeginFile(p)
  <2>1. PICK f \in left[p] : cur' = [cur EXCEPT ![p] = f] /\ \E s \in States : Go(p, s)
    BY <1>10 DEF BeginFile, States
  <2>2. /\ at' \in [Procs -> States] /\ cur' \in [Procs -> Files \cup {""}]
        /\ \A q \in Procs \ {p} : at'[q] = at[q] /\ cur'[q] = cur[q]
    <3>1. PICK s \in States : at' = [at EXCEPT ![p] = s]
      BY <2>1 DEF Go
    <3>2. at \in [Procs -> States] /\ cur \in [Procs -> Files \cup {""}] /\ f \in Files
      BY <2>1 DEF PrepareTypeOK, States
    <3>3. QED BY <2>1, <3>1, <3>2
  <2>3. QED BY <1>1, <1>2, <1>10, <2>2 DEF BeginFile, FileTypes, OnlyOf, PrepareTypeOK
<1>11. CASE WriteInPlace(p)
  <2>1. at[p] = "write" /\ cur[p] \in Files
    BY <1>11 DEF WriteInPlace, CurInv, FileSteps, PrepareTypeOK
  <2>2. CASE \E c \in Contents : Pass(p, cur[p], c)
    BY <1>0, <1>4, <2>1, <2>2
  <2>3. CASE FailFile(p)
    BY <1>0, <1>5, <2>1, <2>3 DEF FileSteps
  <2>4. QED BY <1>11, <2>2, <2>3 DEF WriteInPlace, Contents
<1>12. CASE StatDest(p)
  <2>1. at[p] = "stat" /\ cur[p] \in Files
    BY <1>12 DEF StatDest, CurInv, FileSteps, PrepareTypeOK
  <2>2. CASE \E s \in {"fetch", "stale"} : Go(p, s) /\ UNCHANGED progress
    BY <1>0, <1>6, <2>2 DEF States
  <2>3. CASE Pass(p, cur[p], disk[cur[p]])
    BY <1>0, <1>4, <2>1, <2>3 DEF PrepareTypeOK
  <2>4. QED BY <1>12, <2>2, <2>3 DEF StatDest
<1>13. CASE RemoveStale(p)
  <2>1. CASE Go(p, "fetch") /\ UNCHANGED progress
    BY <1>0, <1>6, <2>1 DEF States
  <2>2. CASE FailFile(p)
    BY <1>5, <1>13, <2>2 DEF RemoveStale, FileSteps
  <2>3. QED BY <1>13, <2>1, <2>2 DEF RemoveStale
<1>14. CASE Fetch(p)
  <2>1. CASE FailFile(p)
    BY <1>5, <1>14, <2>1 DEF Fetch, FileSteps
  <2>2. ASSUME NEW c \in {"whole", "bad"}, got' = [got EXCEPT ![p] = c], Go(p, "commit"),
               UNCHANGED <<todo, step, left, cur, failures, used>>
        PROVE  OnlyOf(p) /\ FileTypes /\ todo'[p] \subseteq StepsFor[run[p]]
    <3>1. /\ at' \in [Procs -> States] /\ got' \in [Procs -> {"", "whole", "bad"}]
          /\ \A q \in Procs \ {p} : at'[q] = at[q] /\ got'[q] = got[q]
      BY <2>2 DEF Go, PrepareTypeOK, States
    <3>2. QED BY <1>1, <1>2, <2>2, <3>1 DEF FileTypes, OnlyOf, PrepareTypeOK
  <2>3. QED BY <1>14, <2>1, <2>2 DEF Fetch
<1>15. CASE Commit(p)
  <2>1. cur[p] \in Files /\ got[p] \in Contents
    BY <1>15 DEF Commit, CurInv, FileSteps, PrepareTypeOK, Contents
  <2>2. QED BY <1>4, <1>15, <2>1 DEF Commit, PrepareTypeOK
<1>16. QED
  BY <1>0, <1>7, <1>8, <1>9, <1>10, <1>11, <1>12, <1>13, <1>14, <1>15 DEF FileStep

LEMMA PrepareTypeStep ==
  ASSUME PrepareTypeOK, [PrepareNext]_prepareVars, \A p \in Procs : CurInv(p) /\ CoverInv(p)
  PROVE  PrepareTypeOK'
<1>1. CASE UNCHANGED prepareVars
  BY <1>1 DEF prepareVars, fetchVars, jdkVars, bounds, PrepareTypeOK
<1>2. ASSUME NEW p \in Procs, Start(p) PROVE PrepareTypeOK'
  <2>1. UNCHANGED <<damaged, fetchVars, jdkVars, kills>> /\ starts' \in 0 .. MaxStarts
    <3>1. starts \in 0 .. MaxStarts /\ starts < MaxStarts /\ starts' = starts + 1 /\ MaxStarts \in Nat
      BY <1>2 DEF Start, PrepareTypeOK
    <3>2. starts' \in 0 .. MaxStarts
      BY <3>1
    <3>3. QED BY <1>2, <3>2 DEF Start
  <2>2. at' \in [Procs -> States] /\ run' \in [Procs -> [loader : Loaders, side : Sides]]
    <3>1. at' = [at EXCEPT ![p] = "java"] /\ "java" \in States
      BY <1>2 DEF Start, Go, States
    <3>2. PICK r \in [loader : Loaders, side : Sides] : run' = [run EXCEPT ![p] = r]
      BY <1>2 DEF Start
    <3>3. at \in [Procs -> States] /\ run \in [Procs -> [loader : Loaders, side : Sides]]
      BY DEF PrepareTypeOK, States
    <3>4. QED BY <3>1, <3>2, <3>3
  <2>3. \A q \in Procs : todo'[q] \subseteq StepsFor[run'[q]]
    <3>1. todo[p] = {}
      BY <1>2 DEF Start, CoverInv, FileSteps
    <3>2. \A q \in Procs \ {p} : run'[q] = run[q]
      BY <1>2 DEF Start, PrepareTypeOK
    <3>3. QED BY <2>1, <3>1, <3>2 DEF PrepareTypeOK, fetchVars
  <2>4. QED BY <2>1, <2>2, <2>3 DEF PrepareTypeOK, States, fetchVars, jdkVars
<1>3. ASSUME NEW p \in Procs, JdkStep(p) PROVE PrepareTypeOK'
  <2>1. UNCHANGED <<damaged, run, fetchVars, bounds>>
    BY <1>3, JdkOf
  <2>2. /\ at' \in [Procs -> States] /\ intact' \in [Procs -> BOOLEAN]
        /\ jdk' \in {"absent", "partial", "remains", "whole"} /\ extract' \in {"absent", "partial", "whole"}
        /\ archive' \in {"absent", "whole"} /\ overlap' \in BOOLEAN
    BY <1>3, JdkOf
  <2>3. QED BY <2>1, <2>2 DEF PrepareTypeOK, States, fetchVars, bounds
<1>4. ASSUME NEW p \in Procs, FileStep(p) PROVE PrepareTypeOK'
  BY <1>4, FileOf, FileTypeStep
<1>5. ASSUME NEW p \in Procs, Kill(p) PROVE PrepareTypeOK'
  <2>1. UNCHANGED <<damaged, run, disk, jdkVars, starts>> /\ kills' \in 0 .. MaxKills
    <3>1. kills \in 0 .. MaxKills /\ kills < MaxKills /\ kills' = kills + 1 /\ MaxKills \in Nat
      BY <1>5 DEF Kill, PrepareTypeOK
    <3>2. kills' \in 0 .. MaxKills
      BY <3>1
    <3>3. QED BY <1>5, <3>2 DEF Kill
  <2>2. /\ OnlyOf(p) /\ todo'[p] = {} /\ at' \in [Procs -> States]
        /\ todo' \in [Procs -> SUBSET Steps] /\ step' \in [Procs -> Steps \cup {""}]
        /\ left' \in [Procs -> SUBSET Files] /\ cur' \in [Procs -> Files \cup {""}]
        /\ got' \in [Procs -> {"", "whole", "bad"}] /\ failures' \in [Procs -> BOOLEAN]
        /\ used' \in [Procs -> SUBSET Uses]
    BY <1>5, <2>1, EndOf DEF Kill
  <2>3. \A q \in Procs : todo'[q] \subseteq StepsFor[run'[q]]
    BY <2>1, <2>2 DEF OnlyOf, PrepareTypeOK
  <2>4. QED BY <2>1, <2>2, <2>3 DEF PrepareTypeOK, States, jdkVars
<1>6. QED BY <1>1, <1>2, <1>3, <1>4, <1>5 DEF PrepareNext, Onward

-----------------------------------------------------------------------------
(* The files *)

\* A step damages no file that has a hash, and removes none that is written in place.
Harmless ==
  \A f \in Files : /\ disk'[f] = "bad" => disk[f] = "bad" \/ ~Is(f, "hashed")
                   /\ Is(f, "inplace") /\ disk[f] # "absent" => disk'[f] # "absent"

LEMMA Optional ==
  ASSUME NEW f \in Files
  PROVE  /\ Is(f, "optional") => ~Is(f, "hashed") /\ Is(f, "inplace")
         /\ f \in FilesOf("processors") => Is(f, "inplace") /\ f \in FilesOf("again")
         /\ f \notin FilesOf("")
<1>1. Class[f] \in Classes
  BY PrepareAssumption
<1>a. Classes = {"game", "index", "asset", "library", "native", "natives", "loaderlib", "installer",
                "profilelib", "versionlib", "output", "args"}
  BY DEF Classes, How
<1>b. How["output"] = {"inplace", "optional"} /\ How["args"] = {"inplace", "looks", "optional"}
  BY DEF How, ProcessorOutput, LaunchArgs
<1>c. ASSUME NEW c \in Classes \ {"output", "args"} PROVE "optional" \notin How[c]
  <2>1. CASE c \in {"game", "index", "asset"}
    BY <2>1 DEF How, GameJar, IndexFile, Asset
  <2>2. CASE c \in {"library", "native"}
    BY <2>2 DEF How, McLibrary
  <2>3. CASE c \in {"loaderlib", "installer"}
    BY <2>3 DEF How, LoaderLibrary, Installer
  <2>4. CASE c \in {"profilelib", "versionlib"}
    BY <2>4 DEF How, ProfileLibrary, VersionLibrary
  <2>5. CASE c = "natives"
    BY <2>5 DEF How, NativesDir
  <2>6. QED BY <1>a, <2>1, <2>2, <2>3, <2>4, <2>5
<1>2. Is(f, "optional") => ~Is(f, "hashed") /\ Is(f, "inplace")
  <2>1. Is(f, "optional") => Class[f] \in {"output", "args"}
    BY <1>1, <1>c DEF Is
  <2>2. CASE Class[f] = "output"
    BY <1>b, <2>2 DEF Is
  <2>3. CASE Class[f] = "args"
    BY <1>b, <2>3 DEF Is
  <2>4. QED BY <2>1, <2>2, <2>3
<1>3. f \in FilesOf("processors") => Is(f, "inplace") /\ f \in FilesOf("again")
  <2>1. ClassesAt("processors") = {"output"} /\ ClassesAt("again") = {"versionlib", "output"}
    BY DEF ClassesAt
  <2>2. QED BY <1>b, <2>1 DEF FilesOf, Is
<1>4. f \notin FilesOf("")
  <2>1. ClassesAt("") = {""}
    BY DEF ClassesAt
  <2>2. QED BY <1>1, <1>a, <2>1 DEF FilesOf
<1>5. QED BY <1>2, <1>3, <1>4

\* A process is not disturbed by a step of another that does no harm.
LEMMA OthersSafe ==
  ASSUME PrepareTypeOK, NEW p \in Procs, OnlyOf(p), damaged' = damaged, Harmless,
         NEW q \in Procs \ {p}, CurInv(q), CoverInv(q), LookInv(q)
  PROVE  CurInv(q)' /\ CoverInv(q)' /\ LookInv(q)'
<1>1. \A f : Acceptable(f)' = Acceptable(f)
  BY DEF Acceptable
<1>2. at[q] \in FileSteps \ {"file"} => cur[q] \in Files
  BY DEF CurInv, PrepareTypeOK
<1>3. CurInv(q)'
  BY <1>2 DEF CurInv, OnlyOf, FileSteps, Harmless
<1>4. CoverInv(q)'
  BY <1>1 DEF CoverInv, OnlyOf, Passed
<1>5. ASSUME NEW f \in Files, NEW c \in Contents \ {"absent"}, <<"processors", f, c>> \in used[q]
      PROVE  disk'[f] # "absent"
  <2>1. f \in FilesOf("processors") /\ disk[f] # "absent"
    BY <1>5 DEF LookInv
  <2>2. QED BY <2>1, Optional DEF Harmless
<1>6. LookInv(q)'
  BY <1>5 DEF LookInv, OnlyOf
<1>7. QED BY <1>3, <1>4, <1>6

\* A step of the files that leaves the disk, or changes one file of it as it may be.
LEMMA DiskStep ==
  ASSUME PrepareTypeOK, DiskInv, damaged' = damaged, NEW f \in Files, NEW c \in Contents,
         disk' = disk \/ disk' = [disk EXCEPT ![f] = c],
         c = "torn" => Is(f, "inplace"),
         c = "bad" => disk[f] = "bad" \/ (~Is(f, "hashed") /\ ~Is(f, "inplace")),
         c = "absent" => ~Is(f, "inplace")
  PROVE  DiskInv' /\ Harmless
<1>1. \A g \in Files : disk'[g] = disk[g] \/ (g = f /\ disk'[g] = c)
  BY DEF PrepareTypeOK
<1>2. QED BY <1>1 DEF DiskInv, Harmless

LEMMA DiskStays ==
  ASSUME DiskInv, damaged' = damaged, disk' = disk
  PROVE  DiskInv' /\ Harmless
BY DEF DiskInv, Harmless

\* What may be passed: a file as the disk has it.
LEMMA FoundAcceptable ==
  ASSUME PrepareTypeOK, DiskInv, NEW f \in Files, disk[f] = "absent" => Is(f, "optional"),
         disk[f] = "bad" /\ Is(f, "hashed") => Is(f, "looks")
  PROVE  disk[f] \in Acceptable(f)
<1>1. disk[f] \in {"absent", "whole", "bad", "torn"}
  BY DEF PrepareTypeOK, Contents
<1>2. CASE disk[f] = "whole"
  BY <1>2 DEF Acceptable
<1>3. CASE disk[f] = "torn"
  BY <1>3 DEF Acceptable, DiskInv
<1>4. CASE disk[f] = "bad"
  BY <1>4 DEF Acceptable, DiskInv
<1>5. CASE disk[f] = "absent"
  BY <1>5 DEF Acceptable
<1>6. QED BY <1>1, <1>2, <1>3, <1>4, <1>5

\* What p passes is not forgotten.
LEMMA PassKeeps ==
  ASSUME PrepareTypeOK, NEW p \in Procs, NEW f \in left[p], NEW c \in Contents, c \in Acceptable(f),
         Pass(p, f, c), UNCHANGED <<run, damaged>>, CoverInv(p), LookInv(p), at[p] \in FileSteps,
         c = disk'[f], Harmless
  PROVE  CurInv(p)' /\ CoverInv(p)' /\ LookInv(p)'
<1>0. f \in Files
  BY DEF PrepareTypeOK
<1>1. \A g : Acceptable(g)' = Acceptable(g)
  BY DEF Acceptable
<1>2. CASE at'[p] = "file"
  <2>1. /\ todo'[p] = todo[p] /\ failures'[p] = failures[p] /\ run'[p] = run[p] /\ step'[p] = step[p]
        /\ used'[p] = used[p] \cup {<<step[p], f, c>>} /\ left'[p] = left[p] \ {f}
    BY <1>0, <1>2, PassOf
  <2>2. \A s : \A g \in Files : Passed(p, s, g) => Passed(p, s, g)'
    BY <1>1, <2>1 DEF Passed
  <2>3. Passed(p, step[p], f)'
    BY <1>1, <2>1 DEF Passed
  <2>4. \A s : FilesOf(s) \subseteq Files
    BY DEF FilesOf
  <2>5. CoverInv(p)'
    BY <1>2, <2>1, <2>2, <2>3, <2>4 DEF CoverInv, FileSteps
  <2>6. /\ f \in FilesOf(step[p]) /\ step[p] # "" /\ step[p] \in StepsFor[run[p]] \ todo[p]
    BY <1>0, Optional DEF LookInv
  <2>7. ASSUME NEW u \in used'[p]
        PROVE  u[1] \in StepsFor[run'[p]] \ todo'[p] /\ u[2] \in FilesOf(u[1])
    <3>1. CASE u \in used[p]
      BY <2>1, <3>1 DEF LookInv
    <3>2. CASE u = <<step[p], f, c>>
      <4>1. u[1] = step[p] /\ u[2] = f
        BY <3>2
      <4>2. QED BY <2>1, <2>6, <4>1
    <3>3. QED BY <2>1, <2>7, <3>1, <3>2
  <2>8. ASSUME NEW g \in Files, NEW d \in Contents \ {"absent"}, <<"processors", g, d>> \in used'[p]
        PROVE  disk'[g] # "absent" /\ <<"again", g, "absent">> \notin used'[p]
    <3>1. CASE <<"processors", g, d>> \in used[p]
      <4>1. disk[g] # "absent" /\ <<"again", g, "absent">> \notin used[p] /\ g \in FilesOf("processors")
        BY <2>8, <3>1 DEF LookInv
      <4>2. disk'[g] # "absent"
        BY <4>1, Optional DEF Harmless
      <4>3. QED BY <2>1, <4>1, <4>2
    <3>2. CASE <<"processors", g, d>> = <<step[p], f, c>>
      <4>1. step[p] = "processors" /\ g = f /\ d = c
        BY <3>2
      <4>2. "again" \in todo[p]
        BY <4>1 DEF LookInv
      <4>3. <<"again", g, "absent">> \notin used[p]
        BY <4>2 DEF LookInv
      <4>4. QED BY <2>1, <2>8, <4>1, <4>3
    <3>3. QED BY <2>1, <2>8, <3>1, <3>2
  <2>9. LookInv(p)'
    BY <1>2, <2>1, <2>7, <2>8 DEF LookInv, FileSteps
  <2>10. QED BY <1>2, <2>5, <2>9 DEF CurInv, FileSteps
<1>3. CASE at'[p] # "file"
  <2>1. at'[p] = "failed" /\ todo'[p] = {} /\ step'[p] = "" /\ used'[p] = {} /\ left'[p] = {}
    BY <1>0, <1>3, PassOf
  <2>2. QED BY <2>1 DEF CurInv, CoverInv, LookInv, FileSteps
<1>4. QED BY <1>2, <1>3

LEMMA FailKeeps ==
  ASSUME PrepareTypeOK, NEW p \in Procs, FailFile(p), UNCHANGED <<run, damaged, disk>>,
         cur[p] \in left[p], LookInv(p), at[p] \in FileSteps
  PROVE  CurInv(p)' /\ CoverInv(p)' /\ LookInv(p)'
<1>1. CASE at'[p] = "file"
  <2>1. /\ todo'[p] = todo[p] /\ used'[p] = used[p] /\ failures'[p] /\ step'[p] = step[p]
        /\ left'[p] \subseteq left[p]
    BY <1>1, FailOf
  <2>2. CurInv(p)' /\ CoverInv(p)'
    BY <1>1, <2>1 DEF CurInv, CoverInv, FileSteps
  <2>3. LookInv(p)'
    BY <1>1, <2>1 DEF LookInv, FileSteps
  <2>4. QED BY <2>2, <2>3
<1>2. CASE at'[p] # "file"
  <2>1. at'[p] = "failed" /\ todo'[p] = {} /\ step'[p] = "" /\ used'[p] = {} /\ left'[p] = {}
    BY <1>2, FailOf
  <2>2. QED BY <2>1 DEF CurInv, CoverInv, LookInv, FileSteps
<1>3. QED BY <1>1, <1>2

\* A step that goes on with the file.
LEMMA GoKeeps ==
  ASSUME PrepareTypeOK, NEW p \in Procs, NEW s \in FileSteps, Go(p, s), Harmless,
         UNCHANGED <<run, damaged, todo, step, left, failures, used>>, CoverInv(p), LookInv(p),
         at[p] \in FileSteps
  PROVE  CoverInv(p)' /\ LookInv(p)' /\ at'[p] = s
<1>1. at'[p] = s /\ \A g : Acceptable(g)' = Acceptable(g)
  BY DEF Acceptable, Go, PrepareTypeOK
<1>2. CoverInv(p)'
  BY <1>1 DEF CoverInv, Passed, FileSteps
<1>3. ASSUME NEW f \in Files, NEW c \in Contents \ {"absent"}, <<"processors", f, c>> \in used[p]
      PROVE  disk'[f] # "absent"
  <2>1. f \in FilesOf("processors") /\ disk[f] # "absent"
    BY <1>3 DEF LookInv
  <2>2. QED BY <2>1, Optional DEF Harmless
<1>4. LookInv(p)'
  BY <1>1, <1>3 DEF LookInv, FileSteps
<1>5. QED BY <1>1, <1>2, <1>4

\* The steps of a launch begin, and go on.
LEMMA BeginKeeps ==
  ASSUME PrepareTypeOK, NEW p \in Procs, at[p] = "info", at'[p] = "file", LookInv(p),
         todo'[p] = StepsFor[run[p]], UNCHANGED <<run, step, left, used, disk>>
  PROVE  CurInv(p)' /\ CoverInv(p)' /\ LookInv(p)'
<1>1. used[p] = {} /\ step[p] = "" /\ left[p] = {}
  BY DEF LookInv, FileSteps
<1>2. ASSUME "processors" \in StepsFor[run[p]] PROVE "again" \in StepsFor[run[p]]
  <2>1. run[p] \in [loader : Loaders, side : Sides]
    BY DEF PrepareTypeOK
  <2>2. "processors" \in StepsOf[run[p].loader] /\ FilesOf("processors") # {}
    BY <1>2, <2>1, StepsForRun
  <2>3. "again" \in StepsOf[run[p].loader]
    BY <2>1, <2>2 DEF StepsOf, Loaders, GameSteps, FabricSteps, InstallerSteps, ProcessorSteps
  <2>4. FilesOf("again") # {}
    BY <2>2, Optional DEF FilesOf
  <2>5. QED BY <2>1, <2>3, <2>4, StepsForRun
<1>3. LookInv(p)'
  BY <1>1, <1>2 DEF LookInv, FileSteps
<1>4. QED BY <1>3 DEF CurInv, CoverInv, FileSteps

LEMMA TakeKeeps ==
  ASSUME PrepareTypeOK, NEW p \in Procs, NEW s \in NextOf(p), Take(p, s), UNCHANGED <<run, damaged, disk>>,
         at[p] = "file", left[p] = {}, ~failures[p], CoverInv(p), LookInv(p)
  PROVE  CurInv(p)' /\ CoverInv(p)' /\ LookInv(p)'
<1>1. /\ s \in todo[p] /\ step'[p] = s /\ left'[p] = FilesOf(s) /\ todo'[p] = todo[p] \ {s}
      /\ todo[p] \subseteq StepsFor[run[p]]
  BY TakeOf DEF PrepareTypeOK
<1>2. UNCHANGED <<at, cur, got, failures, used>>
  BY DEF Take
<1>3. \A f : Acceptable(f)' = Acceptable(f)
  BY DEF Acceptable
<1>4. CoverInv(p)'
  BY <1>1, <1>2, <1>3 DEF CoverInv, FileSteps, Passed
<1>5. "processors" \in todo[p] => s # "again"
  BY DEF NextOf, Place
<1>6. LookInv(p)'
  BY <1>1, <1>2, <1>5 DEF LookInv, FileSteps
<1>7. QED BY <1>2, <1>4, <1>6 DEF CurInv, FileSteps

LEMMA FileSafe ==
  ASSUME PrepareTypeOK, DiskInv, NEW p \in Procs, CurInv(p), CoverInv(p), LookInv(p), FileStep(p)
  PROVE  DiskInv' /\ CurInv(p)' /\ CoverInv(p)' /\ LookInv(p)' /\ Harmless
<1>0. UNCHANGED <<run, damaged>>
  BY FileOf DEF Other
<1>1. at[p] \in FileSteps \ {"file"} => cur[p] \in left[p] /\ cur[p] \in Files
  BY DEF CurInv, PrepareTypeOK
<1>3. CASE GetVersionInfo(p)
  <2>1. disk' = disk /\ at[p] = "info" /\ UNCHANGED <<step, left, used>>
    BY <1>3 DEF GetVersionInfo
  <2>2. CASE Go(p, "failed") /\ UNCHANGED todo
    <3>1. at'[p] = "failed"
      BY <1>3, <2>2 DEF Go, PrepareTypeOK
    <3>2. CurInv(p)' /\ CoverInv(p)' /\ LookInv(p)'
      BY <1>0, <2>1, <2>2, <3>1 DEF CurInv, CoverInv, LookInv, FileSteps
    <3>3. QED BY <1>0, <2>1, <3>2, DiskStays
  <2>3. CASE Go(p, "file") /\ todo' = [todo EXCEPT ![p] = StepsFor[run[p]]]
    <3>1. at'[p] = "file" /\ todo'[p] = StepsFor[run[p]]
      BY <2>3 DEF Go, PrepareTypeOK
    <3>2. CurInv(p)' /\ CoverInv(p)' /\ LookInv(p)'
      BY <1>0, <2>1, <3>1, BeginKeeps
    <3>3. QED BY <1>0, <2>1, <3>2, DiskStays
  <2>4. QED BY <1>3, <2>2, <2>3 DEF GetVersionInfo
<1>4. CASE NextStep(p)
  <2>1. disk' = disk /\ at[p] = "file" /\ left[p] = {}
    BY <1>4 DEF NextStep
  <2>2. CASE failures[p] /\ End(p, "failed")
    <3>1. at'[p] = "failed" /\ todo'[p] = {} /\ step'[p] = "" /\ used'[p] = {} /\ left'[p] = {}
      BY <1>0, <2>2, EndOf
    <3>2. CurInv(p)' /\ CoverInv(p)' /\ LookInv(p)'
      BY <3>1 DEF CurInv, CoverInv, LookInv, FileSteps
    <3>3. QED BY <1>0, <2>1, <3>2, DiskStays
  <2>3. CASE ~failures[p] /\ \E s \in NextOf(p) : Take(p, s)
    <3>1. CurInv(p)' /\ CoverInv(p)' /\ LookInv(p)'
      BY <1>0, <2>1, <2>3, TakeKeeps
    <3>2. QED BY <1>0, <2>1, <3>1, DiskStays
  <2>4. CASE ~failures[p] /\ todo[p] = {} /\ Go(p, "ready") /\ UNCHANGED progress
    <3>1. at'[p] = "ready"
      BY <2>4 DEF Go, PrepareTypeOK
    <3>2. \A g : Acceptable(g)' = Acceptable(g)
      BY <1>0 DEF Acceptable
    <3>3. CurInv(p)' /\ CoverInv(p)'
      BY <1>0, <2>1, <2>4, <3>1, <3>2 DEF CurInv, CoverInv, FileSteps, Passed, progress
    <3>4. LookInv(p)'
      BY <1>0, <2>1, <2>4, <3>1 DEF LookInv, FileSteps, progress
    <3>5. QED BY <1>0, <2>1, <3>3, <3>4, DiskStays
  <2>5. QED BY <1>4, <2>2, <2>3, <2>4 DEF NextStep
<1>5. CASE TakeExisting(p) \/ PassOver(p)
  <2>1. PICK f \in left[p] : /\ (disk[f] # "absent" /\ Is(f, "looks")) \/ Is(f, "optional")
                             /\ Pass(p, f, disk[f])
    BY <1>5 DEF TakeExisting, PassOver
  <2>2. f \in Files /\ disk[f] \in Contents /\ disk' = disk /\ at[p] \in FileSteps
    BY <1>5 DEF PrepareTypeOK, TakeExisting, PassOver, FileSteps
  <2>3. disk[f] \in Acceptable(f)
    BY <2>1, <2>2, FoundAcceptable, Optional
  <2>4. DiskInv' /\ Harmless
    BY <1>0, <2>2, DiskStays
  <2>5. CurInv(p)' /\ CoverInv(p)' /\ LookInv(p)'
    BY <1>0, <2>1, <2>2, <2>3, <2>4, PassKeeps
  <2>6. QED BY <2>4, <2>5
<1>6. CASE BeginFile(p)
  <2>1. PICK f \in left[p] :
          /\ disk[f] = "absent" \/ ~Is(f, "looks")
          /\ cur' = [cur EXCEPT ![p] = f]
          /\ IF Is(f, "inplace")
             THEN Go(p, "write") /\ disk' = [disk EXCEPT ![f] = "torn"]
             ELSE Go(p, "stat") /\ UNCHANGED disk
    BY <1>6 DEF BeginFile
  <2>2. f \in Files /\ cur'[p] = f /\ at[p] \in FileSteps
        /\ UNCHANGED <<todo, step, left, failures, used>>
    BY <1>6, <2>1 DEF BeginFile, PrepareTypeOK, FileSteps
  <2>3. DiskInv' /\ Harmless
    <3>1. "torn" \in Contents
      BY DEF Contents
    <3>2. CASE Is(f, "inplace")
      BY <1>0, <2>1, <2>2, <3>1, <3>2, DiskStep
    <3>3. CASE ~Is(f, "inplace")
      BY <1>0, <2>1, <3>3, DiskStays
    <3>4. QED BY <3>2, <3>3
  <2>4. CoverInv(p)' /\ LookInv(p)' /\ at'[p] = IF Is(f, "inplace") THEN "write" ELSE "stat"
    BY <1>0, <2>1, <2>2, <2>3, GoKeeps DEF FileSteps
  <2>5. CurInv(p)'
    BY <2>1, <2>2, <2>4 DEF CurInv, FileSteps
  <2>6. QED BY <2>3, <2>4, <2>5
<1>7. CASE WriteInPlace(p)
  <2>1. /\ at[p] = "write" /\ at[p] \in FileSteps /\ cur[p] \in left[p] /\ cur[p] \in Files
        /\ Is(cur[p], "inplace")
    BY <1>1, <1>7 DEF WriteInPlace, FileSteps, CurInv
  <2>2. ASSUME NEW c \in {"torn", "whole"}, Pass(p, cur[p], c), disk' = [disk EXCEPT ![cur[p]] = c]
        PROVE  DiskInv' /\ CurInv(p)' /\ CoverInv(p)' /\ LookInv(p)' /\ Harmless
    <3>1. c \in Contents /\ c \in Acceptable(cur[p])
      BY <2>1 DEF Contents, Acceptable
    <3>2. DiskInv' /\ Harmless
      BY <1>0, <2>1, <2>2, <3>1, DiskStep
    <3>3. c = disk'[cur[p]]
      BY <2>1, <2>2 DEF PrepareTypeOK
    <3>4. CurInv(p)' /\ CoverInv(p)' /\ LookInv(p)'
      BY <1>0, <2>1, <2>2, <3>1, <3>2, <3>3, PassKeeps
    <3>5. QED BY <3>2, <3>4
  <2>3. CASE FailFile(p) /\ disk' = disk
    BY <1>0, <2>1, <2>3, FailKeeps, DiskStays
  <2>4. QED BY <1>7, <2>2, <2>3 DEF WriteInPlace
<1>8. CASE StatDest(p)
  <2>1. /\ at[p] = "stat" /\ at[p] \in FileSteps /\ cur[p] \in left[p] /\ cur[p] \in Files
        /\ ~Is(cur[p], "inplace") /\ disk' = disk /\ DiskInv' /\ Harmless
    BY <1>0, <1>1, <1>8, DiskStays DEF StatDest, FileSteps, CurInv
  <2>2. CASE Pass(p, cur[p], disk[cur[p]]) /\ disk[cur[p]] # "absent"
             /\ (~Is(cur[p], "hashed") \/ disk[cur[p]] = "whole")
    <3>1. disk[cur[p]] \in Contents /\ disk[cur[p]] \in Acceptable(cur[p])
      BY <2>1, <2>2, FoundAcceptable DEF PrepareTypeOK
    <3>2. CurInv(p)' /\ CoverInv(p)' /\ LookInv(p)'
      BY <1>0, <2>1, <2>2, <3>1, PassKeeps
    <3>3. QED BY <2>1, <3>2
  <2>3. ASSUME NEW s \in {"fetch", "stale"}, Go(p, s), UNCHANGED progress,
               s = "fetch" => disk[cur[p]] = "absent"
        PROVE  CurInv(p)' /\ CoverInv(p)' /\ LookInv(p)'
    <3>1. CoverInv(p)' /\ LookInv(p)' /\ at'[p] = s
      BY <1>0, <2>1, <2>3, GoKeeps DEF FileSteps, progress
    <3>2. CurInv(p)'
      BY <2>1, <2>3, <3>1 DEF CurInv, FileSteps, progress
    <3>3. QED BY <3>1, <3>2
  <2>4. QED BY <1>8, <2>1, <2>2, <2>3 DEF StatDest
<1>9. CASE RemoveStale(p)
  <2>1. /\ at[p] = "stale" /\ at[p] \in FileSteps /\ cur[p] \in left[p] /\ cur[p] \in Files
        /\ ~Is(cur[p], "inplace")
    BY <1>1, <1>9 DEF RemoveStale, FileSteps, CurInv
  <2>2. CASE FailFile(p) /\ disk' = disk
    BY <1>0, <2>1, <2>2, FailKeeps, DiskStays
  <2>3. CASE disk' = [disk EXCEPT ![cur[p]] = "absent"] /\ Go(p, "fetch") /\ UNCHANGED progress
    <3>1. "absent" \in Contents /\ disk'[cur[p]] = "absent"
      BY <2>1, <2>3 DEF PrepareTypeOK, Contents
    <3>2. DiskInv' /\ Harmless
      BY <1>0, <2>1, <2>3, <3>1, DiskStep
    <3>3. CoverInv(p)' /\ LookInv(p)' /\ at'[p] = "fetch"
      BY <1>0, <2>1, <2>3, <3>2, GoKeeps DEF FileSteps, progress
    <3>4. CurInv(p)'
      BY <2>1, <2>3, <3>1, <3>3 DEF CurInv, FileSteps, progress
    <3>5. QED BY <3>2, <3>3, <3>4
  <2>4. QED BY <1>9, <2>2, <2>3 DEF RemoveStale
<1>10. CASE Fetch(p)
  <2>1. /\ at[p] = "fetch" /\ at[p] \in FileSteps /\ cur[p] \in left[p] /\ cur[p] \in Files
        /\ ~Is(cur[p], "inplace") /\ disk' = disk /\ DiskInv' /\ Harmless
    BY <1>0, <1>1, <1>10, DiskStays DEF Fetch, FileSteps, CurInv
  <2>2. CASE FailFile(p)
    BY <1>0, <2>1, <2>2, FailKeeps
  <2>3. ASSUME NEW c \in {"whole", "bad"}, c = "whole" \/ ~Is(cur[p], "hashed"),
               got' = [got EXCEPT ![p] = c], Go(p, "commit"),
               UNCHANGED <<todo, step, left, cur, failures, used>>
        PROVE  CurInv(p)' /\ CoverInv(p)' /\ LookInv(p)'
    <3>1. CoverInv(p)' /\ LookInv(p)' /\ at'[p] = "commit"
      BY <1>0, <2>1, <2>3, GoKeeps DEF FileSteps
    <3>2. got'[p] = c
      BY <2>3 DEF PrepareTypeOK
    <3>3. CurInv(p)'
      BY <2>1, <2>3, <3>1, <3>2 DEF CurInv, FileSteps
    <3>4. QED BY <3>1, <3>3
  <2>4. QED BY <1>10, <2>1, <2>2, <2>3 DEF Fetch
<1>11. CASE Commit(p)
  <2> DEFINE c == IF disk[cur[p]] = "absent" THEN got[p] ELSE disk[cur[p]]
  <2>1. /\ at[p] = "commit" /\ at[p] \in FileSteps /\ cur[p] \in left[p] /\ cur[p] \in Files
        /\ ~Is(cur[p], "inplace") /\ (Is(cur[p], "hashed") => disk[cur[p]] # "bad")
        /\ got[p] = "whole" \/ (got[p] = "bad" /\ ~Is(cur[p], "hashed"))
        /\ Pass(p, cur[p], c) /\ disk' = [disk EXCEPT ![cur[p]] = c]
    BY <1>1, <1>11 DEF Commit, FileSteps, CurInv
  <2>2. c \in Contents
    BY <2>1 DEF Contents, PrepareTypeOK
  <2>3. c \in Acceptable(cur[p])
    <3>1. CASE disk[cur[p]] = "absent"
      BY <2>1, <3>1 DEF Acceptable
    <3>2. CASE disk[cur[p]] # "absent"
      BY <2>1, <3>2, FoundAcceptable
    <3>3. QED BY <3>1, <3>2
  <2>4. /\ c = "torn" => Is(cur[p], "inplace")
        /\ c = "bad" => disk[cur[p]] = "bad" \/ (~Is(cur[p], "hashed") /\ ~Is(cur[p], "inplace"))
    BY <2>1 DEF DiskInv
  <2>5. c = disk'[cur[p]]
    BY <2>1, <2>2 DEF PrepareTypeOK
  <2> HIDE DEF c
  <2>6. DiskInv' /\ Harmless
    BY <1>0, <2>1, <2>2, <2>4, DiskStep
  <2>7. CurInv(p)' /\ CoverInv(p)' /\ LookInv(p)'
    BY <1>0, <2>1, <2>2, <2>3, <2>5, <2>6, PassKeeps
  <2>8. QED BY <2>6, <2>7
<1>12. QED BY <1>3, <1>4, <1>5, <1>6, <1>7, <1>8, <1>9, <1>10, <1>11 DEF FileStep

-----------------------------------------------------------------------------
(* The JDK *)

\* A step that has nothing to do with a JDK.
LEMMA JdkKept ==
  ASSUME PrepareTypeOK, JdkInv, UNCHANGED jdkVars, NEW p \in Procs,
         \A q \in Procs \ {p} : at'[q] = at[q],
         at'[p] \notin JdkSteps,
         HasJdk(p)' => HasJdk(p)
  PROVE  JdkInv'
<1>1. \A q \in Procs : Installing(q)' => Installing(q) /\ at'[q] = at[q]
  BY DEF Installing
<1>2. \A q \in Procs : HasJdk(q)' => HasJdk(q)
  BY DEF HasJdk
<1>3. {"clean", "detect", "unpacking", "move", "clear", "movein"} \subseteq JdkSteps
  BY DEF JdkSteps
<1> HIDE DEF JdkSteps
<1>4. \A q \in Procs : at'[q] \in {"clean", "detect", "unpacking", "move", "clear", "movein"} => at'[q] = at[q]
  BY <1>1, <1>3 DEF Installing
<1>5. QED BY <1>1, <1>2, <1>4 DEF JdkInv, jdkVars

\* One that installs is alone.
LEMMA JdkSafe ==
  ASSUME PrepareTypeOK, JdkInv, NEW p \in Procs, JdkStep(p)
  PROVE  JdkInv'
<1> SUFFICES ASSUME ~overlap'
             PROVE  JdkInv'
  BY DEF JdkInv
<1>1. ~overlap
  BY DEF JdkStep, ResolveJava, JdkAsset, FetchJdk, StoreJdk, Unpack, Unpacked, MoveJdk, ClearJdk,
         MoveJdkIn, CleanJdkTmp, DetectJava, jdkVars, PrepareTypeOK
<1>2. /\ \A q, r \in Procs : Installing(q) /\ (Installing(r) \/ HasJdk(r)) => q = r
      /\ jdk # "partial"
      /\ \A q \in Procs :
           /\ at[q] \in {"clean", "detect"} => jdk = "whole"
           /\ HasJdk(q) => jdk # "absent"
           /\ at[q] = "unpacking" => intact[q]
           /\ at[q] \in {"move", "clear", "movein"} => extract = "whole"
  BY <1>1 DEF JdkInv
<1>3. \A q \in Procs \ {p} : at'[q] = at[q]
  BY JdkOf DEF OnlyOf
<1>4. CASE ResolveJava(p)
  <2>1. at[p] = "java" /\ UNCHANGED <<jdk, extract, intact>>
    BY <1>4 DEF ResolveJava, JdkDir, JdkFiles
  <2>2. CASE /\ jdk # "absent"
             /\ Go(p, "info")
             /\ overlap' = (overlap \/ \E q \in Procs \ {p} : Installing(q))
    <3>1. at'[p] = "info" /\ \A q \in Procs \ {p} : ~Installing(q)
      BY <2>2 DEF Go, PrepareTypeOK
    <3>2. \A q \in Procs : ~Installing(q)'
      BY <1>3, <3>1 DEF Installing, JdkSteps
    <3>3. QED BY <1>2, <2>1, <2>2, <3>2 DEF JdkInv, Installing, JdkSteps
  <2>3. CASE /\ Go(p, "asset")
             /\ overlap' = (overlap \/ \E q \in Procs \ {p} : Installing(q) \/ HasJdk(q))
    <3>1. at'[p] = "asset" /\ \A q \in Procs \ {p} : ~Installing(q) /\ ~HasJdk(q)
      BY <2>3 DEF Go, PrepareTypeOK
    <3>2. \A q \in Procs \ {p} : ~Installing(q)' /\ ~HasJdk(q)'
      BY <1>3, <3>1 DEF Installing, HasJdk
    <3>3. ~HasJdk(p)'
      BY <3>1 DEF HasJdk
    <3>4. QED BY <1>2, <2>1, <3>1, <3>2, <3>3 DEF JdkInv, Installing, JdkSteps
  <2>4. QED BY <1>4, <2>2, <2>3 DEF ResolveJava
\* In every other step p is the one that installs.
<1>5. ASSUME at[p] \in JdkSteps, jdk' # "partial",
             at'[p] \in {"clean", "detect"} => jdk' = "whole",
             HasJdk(p)' => jdk' # "absent",
             at'[p] = "unpacking" => intact'[p],
             at'[p] \in {"move", "clear", "movein"} => extract' = "whole"
      PROVE  JdkInv'
  <2>1. \A q \in Procs \ {p} : ~Installing(q)' /\ ~HasJdk(q)'
    BY <1>2, <1>3, <1>5 DEF Installing, HasJdk
  <2>2. QED BY <1>5, <2>1 DEF JdkInv, Installing, JdkSteps
<1>7. CASE JdkAsset(p) \/ FetchJdk(p) \/ StoreJdk(p)
  <2>1. /\ at[p] \in {"asset", "fetchjdk", "storejdk"} /\ UNCHANGED jdk
        /\ \E s \in {"fetchjdk", "storejdk", "unpack", "failed"} : Go(p, s)
    BY <1>7 DEF JdkAsset, FetchJdk, StoreJdk, JdkFiles
  <2>2. at'[p] \in {"fetchjdk", "storejdk", "unpack", "failed"}
    BY <2>1 DEF Go, PrepareTypeOK
  <2>3. QED BY <1>2, <1>5, <2>1, <2>2 DEF JdkSteps, HasJdk
<1>8. CASE Unpack(p)
  <2>1. at[p] = "unpack" /\ UNCHANGED jdk /\ \E s \in {"unpacking", "failed"} : Go(p, s)
    BY <1>8 DEF Unpack
  <2>2. at'[p] \in {"unpacking", "failed"}
    BY <2>1 DEF Go, PrepareTypeOK
  <2>3. at'[p] = "unpacking" => intact'[p]
    <3>1. CASE intact' = [Others(p, FALSE) EXCEPT ![p] = TRUE]
      BY <3>1 DEF Others
    <3>2. CASE Go(p, "failed")
      BY <3>2 DEF Go, PrepareTypeOK
    <3>3. QED BY <1>8, <3>1, <3>2 DEF Unpack
  <2>4. QED BY <1>2, <1>5, <2>1, <2>2, <2>3 DEF JdkSteps, HasJdk
<1>9. CASE Unpacked(p)
  <2>1. at[p] = "unpacking" /\ UNCHANGED jdk /\ intact[p]
    BY <1>2, <1>9 DEF Unpacked
  <2>2. \A q \in Procs \ {p} : at[q] # "unpacking"
    BY <1>2, <2>1 DEF Installing, JdkSteps
  <2>3. (extract' = "whole" /\ Go(p, "move")) \/ Go(p, "failed")
    BY <1>9, <2>1, <2>2 DEF Unpacked
  <2>4. (extract' = "whole" /\ at'[p] = "move") \/ at'[p] = "failed"
    BY <2>3 DEF Go, PrepareTypeOK
  <2>5. QED BY <1>2, <1>5, <2>1, <2>4 DEF JdkSteps, HasJdk
<1>10. CASE MoveJdk(p)
  <2>1. at[p] = "move" /\ extract = "whole" /\ UNCHANGED extract /\ jdk' \in {jdk, "remains"}
    BY <1>2, <1>10 DEF MoveJdk
  <2>2. at'[p] \in {"movein", "clear"}
    BY <1>10, <2>1 DEF MoveJdk, Go, PrepareTypeOK
  <2>3. QED BY <1>2, <1>5, <2>1, <2>2 DEF JdkSteps, HasJdk
<1>11. CASE ClearJdk(p)
  <2>1. /\ at[p] = "clear" /\ extract = "whole" /\ UNCHANGED extract
        /\ jdk' \in {jdk, "absent", "remains"}
    BY <1>2, <1>11 DEF ClearJdk
  <2>2. at'[p] \in {"movein", "failed"}
    BY <1>11 DEF ClearJdk, Go, PrepareTypeOK
  <2>3. QED BY <1>2, <1>5, <2>1, <2>2 DEF JdkSteps, HasJdk
<1>12. CASE MoveJdkIn(p)
  <2>1. at[p] = "movein" /\ extract = "whole"
    BY <1>2, <1>12 DEF MoveJdkIn
  <2>2. (at'[p] = "clean" /\ jdk' = "whole") \/ (at'[p] = "failed" /\ UNCHANGED jdk)
    BY <1>12, <2>1 DEF MoveJdkIn, Go, PrepareTypeOK
  <2>3. QED BY <1>2, <1>5, <2>1, <2>2 DEF JdkSteps, HasJdk
<1>13. CASE CleanJdkTmp(p) \/ DetectJava(p)
  <2>1. at[p] \in {"clean", "detect"} /\ UNCHANGED jdk
    BY <1>13 DEF CleanJdkTmp, DetectJava, jdkVars
  <2>2. at'[p] \in {"detect", "info", "failed"}
    BY <1>13 DEF CleanJdkTmp, DetectJava, Go, PrepareTypeOK
  <2>3. QED BY <1>2, <1>5, <2>1, <2>2 DEF JdkSteps, HasJdk
<1>14. QED
  BY <1>4, <1>7, <1>8, <1>9, <1>10, <1>11, <1>12, <1>13 DEF JdkStep

\* Only one that installs changes what is where the JDK is looked for.
LEMMA JdkChange ==
  ASSUME PrepareTypeOK, [PrepareNext]_prepareVars, jdk' # jdk
  PROVE  \E q \in Procs : at[q] \in {"move", "clear", "movein"}
<1>1. PICK q \in Procs : Start(q) \/ JdkStep(q) \/ FileStep(q) \/ Kill(q)
  BY DEF PrepareNext, Onward, prepareVars, jdkVars
<1>2. CASE Start(q) \/ Kill(q)
  BY <1>2 DEF Start, Kill, jdkVars
<1>3. CASE FileStep(q)
  BY <1>3 DEF FileStep, GetVersionInfo, NextStep, TakeExisting, PassOver, BeginFile, WriteInPlace,
         StatDest, RemoveStale, Fetch, Commit, Other, jdkVars
<1>4. CASE JdkStep(q)
  BY <1>4 DEF JdkStep, ResolveJava, JdkAsset, FetchJdk, StoreJdk, Unpack, Unpacked, MoveJdk, ClearJdk,
         MoveJdkIn, CleanJdkTmp, DetectJava, JdkDir, JdkFiles, jdkVars
<1>5. QED BY <1>1, <1>2, <1>3, <1>4

-----------------------------------------------------------------------------
(* The invariant and what it says *)

PrepareRuns == PrepareInit /\ [][PrepareNext]_prepareVars

LEMMA PrepareInitially == PrepareInit => PrepareInv
<1> SUFFICES ASSUME PrepareInit PROVE PrepareInv
  OBVIOUS
<1>1. PrepareTypeOK
  <2>1. NoRun \in [loader : Loaders, side : Sides]
    BY DEF NoRun, Loaders, StepsOf, Sides
  <2>2. 0 \in 0 .. MaxStarts /\ 0 \in 0 .. MaxKills
    OBVIOUS
  <2>3. QED BY <2>1, <2>2 DEF PrepareInit, PrepareTypeOK, Contents
<1>2. DiskInv
  BY DEF PrepareInit, DiskInv
<1>3. \A p \in Procs : CurInv(p) /\ CoverInv(p) /\ LookInv(p)
  BY DEF PrepareInit, CurInv, CoverInv, LookInv, FileSteps
<1>4. JdkInv
  BY DEF PrepareInit, JdkInv, Installing, HasJdk, JdkSteps
<1>5. QED BY <1>1, <1>2, <1>3, <1>4 DEF PrepareInv

LEMMA PrepareSafe == PrepareInv /\ [PrepareNext]_prepareVars => PrepareInv'
<1> SUFFICES ASSUME PrepareInv, [PrepareNext]_prepareVars PROVE PrepareInv'
  OBVIOUS
<1>0. /\ PrepareTypeOK /\ DiskInv /\ JdkInv
      /\ \A p \in Procs : CurInv(p) /\ CoverInv(p) /\ LookInv(p)
  BY DEF PrepareInv
<1>1. PrepareTypeOK'
  BY <1>0, PrepareTypeStep
\* A step of p that keeps p's part of the invariant keeps the others'.
<1>2. ASSUME NEW p \in Procs, OnlyOf(p), damaged' = damaged, DiskInv', CurInv(p)', CoverInv(p)',
             LookInv(p)', Harmless, JdkInv'
      PROVE  PrepareInv'
  <2>1. \A q \in Procs \ {p} : CurInv(q)' /\ CoverInv(q)' /\ LookInv(q)'
    BY <1>0, <1>2, OthersSafe
  <2>2. QED BY <1>1, <1>2, <2>1 DEF PrepareInv
<1>3. CASE UNCHANGED prepareVars
  <2>1. \A f : Acceptable(f)' = Acceptable(f)
    BY <1>3 DEF prepareVars, Acceptable
  <2>2. ASSUME NEW p \in Procs PROVE CurInv(p)' /\ CoverInv(p)' /\ LookInv(p)'
    <3>1. UNCHANGED <<at, run, disk, todo, step, left, cur, got, failures, used>>
      BY <1>3 DEF prepareVars, fetchVars
    <3>2. CurInv(p)'
      BY <1>0, <3>1 DEF CurInv
    <3>3. CoverInv(p)'
      BY <1>0, <2>1, <3>1 DEF CoverInv, Passed
    <3>4. LookInv(p)'
      BY <1>0, <3>1 DEF LookInv
    <3>5. QED BY <3>2, <3>3, <3>4
  <2>3. DiskInv' /\ JdkInv'
    BY <1>0, <1>3 DEF prepareVars, fetchVars, jdkVars, DiskInv, JdkInv, Installing, HasJdk
  <2>4. QED BY <1>1, <2>2, <2>3 DEF PrepareInv
<1>4. ASSUME NEW p \in Procs, JdkStep(p) PROVE PrepareInv'
  <2>1. /\ OnlyOf(p) /\ UNCHANGED <<damaged, run, fetchVars>>
        /\ at[p] \notin FileSteps \cup {"ready"} /\ at'[p] \notin FileSteps \cup {"ready"}
    BY <1>0, <1>4, JdkOf DEF JdkSteps, FileSteps
  <2>2. CurInv(p)' /\ CoverInv(p)' /\ LookInv(p)'
    BY <1>0, <2>1 DEF CurInv, CoverInv, LookInv, FileSteps, fetchVars
  <2>3. DiskInv' /\ Harmless
    BY <1>0, <2>1, DiskStays DEF fetchVars
  <2>4. JdkInv'
    BY <1>0, <1>4, JdkSafe
  <2>5. QED BY <1>2, <2>1, <2>2, <2>3, <2>4
<1>5. ASSUME NEW p \in Procs, FileStep(p) PROVE PrepareInv'
  <2>1. OnlyOf(p) /\ UNCHANGED <<damaged, jdkVars>>
    BY <1>0, <1>5, FileOf DEF Other
  <2>2. DiskInv' /\ CurInv(p)' /\ CoverInv(p)' /\ LookInv(p)' /\ Harmless
    BY <1>0, <1>5, FileSafe
  <2>3. at[p] \in {"info"} \cup FileSteps
    BY <1>5 DEF FileStep, GetVersionInfo, NextStep, TakeExisting, PassOver, BeginFile, WriteInPlace,
                StatDest, RemoveStale, Fetch, Commit, FileSteps
  <2>4. at'[p] \notin JdkSteps
    <3>1. CASE \E s \in FileSteps \cup {"failed", "ready"} : Go(p, s)
      BY <1>0, <3>1 DEF Go, PrepareTypeOK, FileSteps, JdkSteps
    <3>2. CASE at' = at
      BY <2>3, <3>2 DEF FileSteps, JdkSteps
    <3>3. QED
      BY <1>5, <3>1, <3>2 DEF FileStep, GetVersionInfo, NextStep, Take, TakeExisting, PassOver, BeginFile,
         WriteInPlace, StatDest, RemoveStale, Fetch, Commit, Pass, FailFile, End, FileSteps
  <2>5. HasJdk(p)
    BY <2>3 DEF HasJdk, FileSteps
  <2>6. JdkInv'
    BY <1>0, <2>1, <2>4, <2>5, JdkKept DEF OnlyOf
  <2>7. QED BY <1>2, <2>1, <2>2, <2>6
<1>6. ASSUME NEW p \in Procs, Start(p) PROVE PrepareInv'
  <2>1. /\ at[p] \in {"idle", "failed"} /\ at'[p] = "java"
        /\ UNCHANGED <<damaged, fetchVars, jdkVars>>
        /\ \A q \in Procs \ {p} : at'[q] = at[q] /\ run'[q] = run[q]
    BY <1>0, <1>6 DEF Start, Go, PrepareTypeOK
  <2>2. OnlyOf(p)
    BY <2>1 DEF OnlyOf, fetchVars
  <2>3. CurInv(p)' /\ CoverInv(p)'
    BY <1>0, <2>1 DEF CurInv, CoverInv, FileSteps, fetchVars
  <2>4. LookInv(p)'
    BY <1>0, <2>1 DEF LookInv, CoverInv, FileSteps, fetchVars
  <2>5. DiskInv' /\ Harmless
    BY <1>0, <2>1, DiskStays DEF fetchVars
  <2>6. JdkInv'
    BY <1>0, <2>1, JdkKept DEF JdkSteps, HasJdk
  <2>7. QED BY <1>2, <2>1, <2>2, <2>3, <2>4, <2>5, <2>6
<1>7. ASSUME NEW p \in Procs, Kill(p) PROVE PrepareInv'
  <2>1. UNCHANGED <<damaged, run, disk, jdkVars>>
    BY <1>7 DEF Kill
  <2>2. /\ OnlyOf(p) /\ at'[p] = "idle" /\ todo'[p] = {} /\ step'[p] = "" /\ used'[p] = {}
        /\ left'[p] = {}
    BY <1>0, <1>7, <2>1, EndOf DEF Kill
  <2>3. CurInv(p)' /\ CoverInv(p)' /\ LookInv(p)'
    BY <2>2 DEF CurInv, CoverInv, LookInv, FileSteps
  <2>4. DiskInv' /\ Harmless
    BY <1>0, <2>1, DiskStays
  <2>5. JdkInv'
    BY <1>0, <2>1, <2>2, JdkKept DEF JdkSteps, HasJdk, OnlyOf
  <2>6. QED BY <1>2, <2>1, <2>2, <2>3, <2>4, <2>5
<1>8. QED BY <1>3, <1>4, <1>5, <1>6, <1>7 DEF PrepareNext, Onward

\* In every state of the preparation the variables have their types, no file is damaged or
\* torn that may not be, no file is forgotten, the second look at the libraries comes after
\* the processors, and an installer of a JDK that is alone is safe.
THEOREM PrepareInvariance == PrepareRuns => []PrepareInv
BY PrepareInitially, PrepareSafe, PTL DEF PrepareRuns

\* streaming.rs, "Common guarantees": a launch that gets through its preparation has passed
\* every file it needs, each verified and complete as far as it can be, and has on its class
\* path what its processors have written, whatever any number of other processes fetch,
\* replace or leave behind.
THEOREM LaunchIsSound == PrepareSpec => []LaunchSound
<1>1. ASSUME PrepareInv, NEW p \in Procs, at[p] = "ready",
             NEW f \in FilesOf("processors"), NEW c \in Contents \ {"absent"},
             <<"processors", f, c>> \in used[p]
      PROVE  \E found \in Contents \ {"absent"} : <<"again", f, found>> \in used[p]
  <2>0. LookInv(p) /\ CoverInv(p) /\ PrepareTypeOK /\ f \in Files
    BY <1>1 DEF PrepareInv, FilesOf
  <2>1. "processors" \in StepsFor[run[p]]
    BY <1>1, <2>0 DEF LookInv
  <2>2. "again" \in StepsFor[run[p]] /\ f \in FilesOf("again")
    <3>1. run[p] \in [loader : Loaders, side : Sides]
      BY <2>0 DEF PrepareTypeOK
    <3>2. "again" \in StepsOf[run[p].loader]
      BY <2>1, <3>1, StepsForRun DEF StepsOf, Loaders, GameSteps, FabricSteps, InstallerSteps, ProcessorSteps
    <3>3. f \in FilesOf("again")
      BY <1>1, <2>0, Optional
    <3>4. QED BY <3>1, <3>2, <3>3, StepsForRun
  <2>3. PICK found \in Acceptable(f) : <<"again", f, found>> \in used[p]
    BY <1>1, <2>0, <2>2 DEF CoverInv, Passed
  <2>4. found # "absent"
    BY <1>1, <2>0, <2>3 DEF LookInv
  <2>5. found \in Contents
    BY <2>3 DEF Acceptable, Contents
  <2>6. QED BY <2>3, <2>4, <2>5
<1>2. PrepareInv => LaunchSound
  BY <1>1 DEF PrepareInv, CoverInv, Passed, LaunchSound
<1>3. PrepareSpec => PrepareRuns
  BY DEF PrepareSpec, PrepareRuns
<1>4. QED BY PrepareInvariance, <1>2, <1>3, PTL

\* install_jdk: as long as no process installs a JDK while another does or has got one, no
\* failure and no kill leaves one that was never complete, a launch that installs one has it
\* whole, and the one that a launch has got stays as it is.
THEOREM JdkIsSound == PrepareSpec => JdkSound
<1> DEFINE Sound ==
      ~overlap' => /\ jdk' # "partial"
                   /\ \A p \in Procs : HasJdk(p)' =>
                        /\ jdk' # "absent"
                        /\ at[p] = "detect" => jdk' = "whole"
                        /\ HasJdk(p) => jdk' = jdk
<1>1. ASSUME PrepareInv, PrepareInv', [PrepareNext]_prepareVars, ~overlap'
      PROVE  Sound
  <2>1. PrepareTypeOK /\ JdkInv /\ JdkInv'
    BY <1>1 DEF PrepareInv
  <2>2. ~overlap
    <3>1. CASE PrepareNext
      BY <1>1, <2>1, <3>1 DEF PrepareNext, Onward, Start, Kill, JdkStep, FileStep, ResolveJava, JdkAsset, FetchJdk,
         StoreJdk, Unpack, Unpacked, MoveJdk, ClearJdk, MoveJdkIn, CleanJdkTmp, DetectJava, jdkVars,
         GetVersionInfo, NextStep, TakeExisting, PassOver, BeginFile, WriteInPlace, StatDest,
         RemoveStale, Fetch, Commit, Other, PrepareTypeOK
    <3>2. QED BY <1>1, <3>1 DEF prepareVars, jdkVars
  <2>3. ASSUME NEW p \in Procs, HasJdk(p) \/ at[p] = "detect" PROVE jdk' = jdk
    <3>1. ASSUME jdk' # jdk PROVE FALSE
      <4>1. PICK q \in Procs : at[q] \in {"move", "clear", "movein"}
        BY <1>1, <2>1, <3>1, JdkChange
      <4>2. Installing(q) /\ (Installing(p) \/ HasJdk(p)) /\ q # p
        BY <2>3, <4>1 DEF Installing, JdkSteps, HasJdk
      <4>3. QED BY <2>1, <2>2, <4>2 DEF JdkInv
    <3>2. QED BY <3>1
  <2>4. QED BY <1>1, <2>1, <2>2, <2>3 DEF JdkInv
<1>2. PrepareInv /\ PrepareInv' /\ [PrepareNext]_prepareVars => [Sound]_prepareVars
  BY <1>1
<1>3. PrepareSpec => PrepareRuns
  BY DEF PrepareSpec, PrepareRuns
<1>4. QED BY PrepareInvariance, <1>2, <1>3, PTL DEF PrepareRuns, JdkSound
=============================================================================
