--------------------------- MODULE ModpackProofs ----------------------------
(***************************************************************************)
(* Safety of a modpack's files: the store under the commands that change   *)
(* it (module Modpack), the archives made of it (module Export) and the    *)
(* organizer of what the game added (module Organize), for any sets of     *)
(* projects, names, items and files, any number of commands, and kills and *)
(* power losses anywhere.                                                  *)
(*                                                                         *)
(* For the store the invariant says, for each command, what its plan       *)
(* knows: a dependency that was accepted is an entry, under way or failed; *)
(* a removal goes through what was agreed to, and once it has cleaned up   *)
(* nothing refers to what is gone; a mod that is imported was not among    *)
(* those there before. For an archive it says that what was there all      *)
(* along is collected or still on the list, that what is collected, listed *)
(* or named in an index was there at some moment, and that a directory no  *)
(* other export left was empty when it was begun. For the organizer it     *)
(* says where each version of a file is between the copy and the removal,  *)
(* and what the lists in memory and on disk agree on.                      *)
(***************************************************************************)
EXTENDS Modpack, Export, Organize, FiniteSetTheorems, TLAPS

-----------------------------------------------------------------------------
(***************************************************************************)
(* The store and its commands                                              *)
(***************************************************************************)

USE ModpackAssumption

UpdateOf == [key : Names, version : Releases]

AddCmd == [name : {"add"}, asked : Names, project : Projects \cup {NoProject},
           key : Names, force : BOOLEAN, batch : SUBSET Api, later : SUBSET Api,
           accepted : SUBSET Api, edges : SUBSET Names]
UpdateCmd == [name : {"update"}, found : SUBSET UpdateOf]
RemoveCmd == [name : {"remove"}, target : Names, sid : Names, key : Names,
              doomed : SUBSET Names, missed : SUBSET Names]
ImportCmd == [name : {"import"}, imported : SUBSET Names, before : SUBSET Names]

Fetching == {"fetch", "existing", "resolve", "closure"}
Installing == {"prompt", "install", "edges"}
Updating == {"check", "apply"}
Removing == {"remove", "cleanup", "removed"}
Importing == {"mrpack", "ympk", "importdeps"}

StoresOK ==
  /\ disk \in [Names -> Entry \cup {Absent}]
  /\ torn \in SUBSET Names
  /\ unsynced \in SUBSET Names
  /\ \A n \in torn : disk[n] = Absent

WorldOK ==
  /\ manifest \in {"absent", "valid", "invalid"}
  /\ release \in [Projects -> Releases]
  /\ task \in [Projects -> {"none", "todo", "resolve", "done", "failed"}]
  /\ budget \in 0 .. MaxCommands

\* Where the command stands says which command it is.
PcOK ==
  /\ pc \in {"idle"} \cup Fetching \cup Installing \cup Updating \cup Removing \cup Importing
  /\ pc = "idle" => cmd = NoCmd
  /\ pc \in Fetching \cup Installing => cmd \in AddCmd
  /\ pc \in Updating => cmd \in UpdateCmd
  /\ pc \in Removing => cmd \in RemoveCmd
  /\ pc \in Importing => cmd \in ImportCmd

\* Before the prompts nothing is accepted; the version is resolved of a known project.
FetchInv ==
  /\ pc \in Fetching => cmd.accepted = {}
  /\ pc \in {"existing", "resolve"} => cmd.project \in Projects

Wanted == cmd.accepted \cup cmd.batch \cup cmd.later

\* What is to be installed is recorded as an edge and goes by source ids of its own, and
\* what was accepted exists unless its task is under way or failed.
InstallInv ==
  pc \in Installing =>
    /\ \A p \in Wanted : SidOf[p] \in cmd.edges
    /\ \A p, q \in Wanted : SidOf[p] = SidOf[q] => p = q
    /\ \A p \in Projects :
         pc = "install" /\ task[p] \in {"todo", "resolve"} => p \in cmd.accepted
    /\ \A p \in cmd.accepted :
         \/ Exists(SidOf[p])
         \/ pc = "install" /\ task[p] \in {"todo", "resolve", "failed"}

\* An update only goes through entries that load.
UpdateInv ==
  /\ pc = "check" => queue \subseteq Listed
  /\ pc \in Updating => \A u \in cmd.found : u.key \in Listed

\* What is left to remove was agreed to and is not what is being removed.
RemoveInv ==
  pc \in Removing =>
    /\ cmd.key \in cmd.doomed
    /\ cmd.key \notin queue
    /\ queue \subseteq cmd.doomed

\* What was there before an import still is, and is not among what it brought.
ImportInv ==
  pc \in Importing =>
    /\ pc \in {"mrpack", "ympk"} => queue \subseteq Files
    /\ pc = "importdeps" => queue \subseteq cmd.imported
    /\ \A n \in cmd.imported : Readable(n) /\ n \notin cmd.before
    /\ \A n \in cmd.before : Exists(n)

IInv ==
  /\ TypeOK /\ PcOK /\ FetchInv /\ InstallInv /\ UpdateInv /\ RemoveInv /\ ImportInv
  /\ CleanRemoval
-----------------------------------------------------------------------------
(* Entries *)

LEMMA Stores == TypeOK <=> StoresOK /\ WorldOK
BY DEF TypeOK, StoresOK, WorldOK

\* An entry is not the absence of one.
LEMMA EntryPresent == \A e \in Entry : e # Absent
BY DEF Entry, Absent

\* What the provider says of a project is an entry.
LEMMA ModInfoEntry ==
  ASSUME release \in [Projects -> Releases], NEW p \in Projects
  PROVE  FromModInfo(p) \in Entry
BY DEF FromModInfo, Entry, Releases

\* An entry remains one under another version or other edges.
LEMMA EntryChanged ==
  ASSUME NEW e \in Entry, NEW v \in 0 .. MaxRelease, NEW s \in SUBSET Edge
  PROVE  /\ [e EXCEPT !.version = v] \in Entry
         /\ [e EXCEPT !.edges = s] \in Entry
         /\ [e EXCEPT !.version = v, !.edges = s] \in Entry
         /\ [e EXCEPT !.edges = s].edges = s
BY DEF Entry

\* So does one with edges added.
LEMMA EdgesToNames ==
  ASSUME NEW s \in SUBSET Names
  PROVE  EdgesTo(s) \in SUBSET Edge
BY DEF EdgesTo, Edge

LEMMA EdgesAdded ==
  ASSUME NEW e \in Entry, NEW s \in SUBSET Names
  PROVE  WithEdges(e, EdgesTo(s)) \in Entry
<1>1. e.edges \cup {d \in EdgesTo(s) : \A old \in e.edges : old.id # d.id} \in SUBSET Edge
  BY EdgesToNames DEF Entry
<1>2. QED BY <1>1 DEF WithEdges, Entry

\* Saving an entry keeps the stores well formed and every other name as it was.
LEMMA SaveStores ==
  ASSUME StoresOK, NEW n \in Names, NEW e \in Entry, Save(n, e)
  PROVE  /\ StoresOK'
         /\ Readable(n)'
         /\ disk'[n] = e
         /\ \A m \in Names \ {n} : disk'[m] = disk[m]
         /\ \A m \in Names : Readable(m) => Readable(m)'
         /\ \A m \in Names : Exists(m) => Exists(m)'
<1>1. e # Absent
  BY EntryPresent
<1>2. QED BY <1>1 DEF StoresOK, Save, Readable, Exists

\* Removing an entry keeps the stores well formed and every other name as it was.
LEMMA RemoveStores ==
  ASSUME StoresOK, NEW n \in Names, RemoveDir(n)
  PROVE  /\ StoresOK'
         /\ disk'[n] = Absent
         /\ \A m \in Names \ {n} : disk'[m] = disk[m]
         /\ \A m \in Names \ {n} : Exists(m) => Exists(m)'
BY DEF StoresOK, RemoveDir, Exists, Readable

\* What loads is an entry.
LEMMA ReadableEntry ==
  ASSUME StoresOK, NEW n \in Names, Readable(n)
  PROVE  disk[n] \in Entry
BY DEF StoresOK, Readable

\* What an archive's file resolves to: a name and a project.
LEMMA MrpackAnswers ==
  ASSUME NEW f \in Files, NEW r \in ResolveMrpackMod(f)
  PROVE  r.key \in Names /\ r.project \in Projects /\ r.unresolved \in BOOLEAN
<1>0. f.project \in Projects /\ f.stem \in Names
  OBVIOUS
<1>1. CASE r \in ResolveByHash(f)
  <2>1. PICK n \in {SidOf[f.project], Slugify[RawOf[f.project]]} :
          r = [key |-> n, project |-> f.project, unresolved |-> FALSE]
    BY <1>1 DEF ResolveByHash
  <2>2. QED BY <1>0, <2>1
<1>2. CASE r \in ResolveBySearch(f)
  <2>1. PICK p \in {q \in Api : f.stem \in {SidOf[q], TitleOf[q]}} :
          r = [key |-> SidOf[p], project |-> p, unresolved |-> FALSE]
    BY <1>2 DEF ResolveBySearch
  <2>2. QED BY <1>0, <2>1
<1>3. CASE r = [key |-> f.stem, project |-> f.project, unresolved |-> TRUE]
  BY <1>0, <1>3
<1>4. QED BY <1>1, <1>2, <1>3 DEF ResolveMrpackMod

\* What an update may record are edges.
LEMMA UpdatedDepsEdges ==
  ASSUME TypeOK, NEW n \in Names, Readable(n), NEW s \in UpdatedDeps(n)
  PROVE  s \in SUBSET Edge
<1>1. disk[n] \in Entry
  BY Stores, ReadableEntry
<1>2. /\ disk[n].edges \in SUBSET Edge
      /\ disk[n].project \in Projects
  BY <1>1 DEF Entry
<1>3. Lists(disk[n].project) \in SUBSET Dep
  BY <1>2 DEF Lists, TypeOK
<1>4. {RawOf[d.to] : d \in Lists(disk[n].project)} \in SUBSET Names
  BY <1>3 DEF Dep
<1> DEFINE raws == {RawOf[d.to] : d \in Lists(disk[n].project)} \ {n}
<1>5. {[id |-> Slugify[r], sid |-> r] : r \in raws} \in SUBSET Edge
  BY <1>4 DEF Edge
<1>6. QED BY <1>2, <1>5 DEF UpdatedDeps

\* A closure stays at the provider of its root, so that in it a source id is of one
\* project.
LEMMA ClosureSids ==
  ASSUME TypeOK, NEW r \in Projects, NEW S \in ResolverAnswers(r)
  PROVE  \A p, q \in S \cap Api : SidOf[p] = SidOf[q] => p = q
<1>1. PICK provider \in [Projects -> Projects] :
        /\ \A p \in Projects : \A v \in Releases : \A d \in DepsOf[p][v] :
             provider[d.to] = provider[p]
        /\ \A p \in Api : \A q \in Api :
             provider[p] = provider[q] /\ SidOf[p] = SidOf[q] => p = q
  BY SourceIdsAssumption
<1>2. \A q \in S : provider[q] = provider[r]
  <2> SUFFICES ASSUME NEW q \in S, provider[q] # provider[r] PROVE FALSE
    OBVIOUS
  <2> DEFINE T == {x \in S : provider[x] = provider[r]}
  <2>1. S \in SUBSET Projects /\ r \in S /\ Reaches(S, r, q, Kinds)
    BY DEF ResolverAnswers
  <2>2. T \in SUBSET S /\ r \in T /\ q \notin T
    BY <2>1
  <2>3. PICK x \in T : \E d \in Lists(x) : d.to \in S \ T /\ d.kind \in Kinds
    BY <2>1, <2>2 DEF Reaches
  <2>4. PICK d \in Lists(x) : d.to \in S \ T
    BY <2>3
  <2>5. x \in Projects /\ release[x] \in Releases /\ provider[x] = provider[r]
    BY <2>1, <2>3 DEF TypeOK
  <2>6. provider[d.to] = provider[x]
    BY <1>1, <2>4, <2>5 DEF Lists
  <2>7. QED BY <2>4, <2>5, <2>6
<1>3. QED BY <1>1, <1>2

-----------------------------------------------------------------------------
(* The steps *)

Places == {"idle"} \cup Fetching \cup Installing \cup Updating \cup Removing \cup Importing

\* A command that ends leaves nothing of itself behind.
LEMMA IdleStep ==
  ASSUME Idle, StoresOK',
         manifest' \in {"absent", "valid", "invalid"},
         release' \in [Projects -> Releases],
         budget' \in 0 .. MaxCommands
  PROVE  IInv'
<1>1. TypeOK'
  BY DEF Idle, TypeOK, StoresOK
<1>2. pc' = "idle" /\ cmd' = NoCmd
  BY DEF Idle
<1>3. PcOK' /\ FetchInv' /\ InstallInv' /\ UpdateInv' /\ RemoveInv' /\ ImportInv'
  BY <1>2 DEF PcOK, FetchInv, InstallInv, UpdateInv, RemoveInv, ImportInv, Fetching,
     Installing, Updating, Removing, Importing
<1>4. CleanRemoval'
  BY <1>2 DEF CleanRemoval, NoCmd
<1>5. QED BY <1>1, <1>3, <1>4 DEF IInv

\* A step that leaves the command alone and loses no entry keeps the invariant.
LEMMA QuietStep ==
  ASSUME IInv, UNCHANGED <<disk, torn, pc, cmd, task, queue, budget>>,
         unsynced' \in SUBSET Names,
         manifest' \in {"absent", "valid", "invalid"},
         release' \in [Projects -> Releases]
  PROVE  IInv'
<1>1. TypeOK'
  BY DEF IInv, TypeOK
<1>2. PcOK' /\ FetchInv' /\ UpdateInv' /\ RemoveInv'
  BY DEF IInv, PcOK, FetchInv, UpdateInv, RemoveInv, Listed, Readable
<1>3. InstallInv' /\ ImportInv'
  BY DEF IInv, InstallInv, ImportInv, Wanted, Exists, Readable
<1>4. CleanRemoval'
  BY DEF IInv, CleanRemoval, Listed, Readable
<1>5. QED BY <1>1, <1>2, <1>3, <1>4 DEF IInv

\* A step of an add before the prompts: it stays before them with nothing accepted.
LEMMA FetchStep ==
  ASSUME TypeOK', pc' \in Fetching, cmd' \in AddCmd, cmd'.accepted = {},
         pc' \in {"existing", "resolve"} => cmd'.project \in Projects
  PROVE  IInv'
<1>1. PcOK' /\ FetchInv'
  BY DEF PcOK, FetchInv, Fetching, Installing, Updating, Removing, Importing
<1>2. InstallInv' /\ UpdateInv' /\ RemoveInv' /\ ImportInv'
  BY DEF InstallInv, UpdateInv, RemoveInv, ImportInv, Fetching, Installing, Updating,
     Removing, Importing
<1>3. CleanRemoval'
  BY DEF CleanRemoval, AddCmd
<1>4. QED BY <1>1, <1>2, <1>3 DEF IInv

LEMMA AddSteps ==
  ASSUME IInv, AddNext
  PROVE  IInv'
<1> USE DEF stores
<1>0. TypeOK /\ StoresOK /\ WorldOK
  BY Stores DEF IInv
<1>1. ASSUME NEW n \in Names, NEW force \in BOOLEAN, Add(n, force) PROVE IInv'
  <2>1. TypeOK'
    BY <1>0, <1>1 DEF TypeOK, Add, Begin
  <2>2. /\ pc' = "fetch" /\ cmd'.accepted = {}
        /\ cmd' \in AddCmd
    BY <1>1 DEF Add, AddCmd
  <2>3. QED BY <2>1, <2>2, FetchStep DEF Fetching
<1>2. CASE FetchModInfo
  <2>0. pc = "fetch" /\ cmd \in AddCmd /\ cmd.accepted = {}
    BY <1>2 DEF FetchModInfo, IInv, PcOK, FetchInv, Fetching
  <2>1. ASSUME NEW p \in Projects, NEW k \in Names, Goto("existing"), UNCHANGED <<stores>>,
               cmd' = [cmd EXCEPT !.project = p, !.key = k]
        PROVE  IInv'
    <3>1. TypeOK'
      BY <1>0, <2>1 DEF TypeOK, Goto
    <3>2. cmd' \in AddCmd /\ cmd'.accepted = {} /\ cmd'.project \in Projects
      BY <2>0, <2>1 DEF AddCmd
    <3>3. pc' \in Fetching
      BY <2>1 DEF Goto, Fetching
    <3>4. QED BY <3>1, <3>2, <3>3, FetchStep
  <2>2. ASSUME NEW p \in Answers(cmd.asked),
               cmd' = [cmd EXCEPT !.project = p,
                                  !.key = IF p \in Api THEN cmd.asked ELSE SlugOf[p]],
               Goto("existing")
        PROVE  IInv'
    <3>1. p \in Projects /\ (IF p \in Api THEN cmd.asked ELSE SlugOf[p]) \in Names
      BY <2>0 DEF Answers, AddCmd
    <3>2. QED BY <1>2, <2>1, <2>2, <3>1 DEF FetchModInfo
  <2>3. ASSUME NEW p \in Api, Goto("existing"),
               cmd' = [cmd EXCEPT !.project = p, !.key = SidOf[p]]
        PROVE  IInv'
    BY <1>2, <2>1, <2>3 DEF FetchModInfo
  <2>4. CASE Idle
    BY <1>0, <1>2, <2>4, IdleStep DEF FetchModInfo, WorldOK, StoresOK
  <2>5. QED BY <1>2, <2>2, <2>3, <2>4 DEF FetchModInfo
<1>3. CASE NotInstalledYet \/ KeepOtherSource
  <2>0. /\ pc = "existing" /\ cmd \in AddCmd /\ cmd.accepted = {} /\ cmd.project \in Projects
        /\ UNCHANGED <<stores, cmd>> /\ (Goto("resolve") \/ Goto("closure"))
    BY <1>3 DEF NotInstalledYet, KeepOtherSource, IInv, PcOK, FetchInv, Fetching
  <2>1. TypeOK'
    BY <1>0, <2>0 DEF TypeOK, Goto
  <2>2. pc' \in Fetching
    BY <2>0 DEF Goto, Fetching
  <2>3. QED BY <2>0, <2>1, <2>2, FetchStep
<1>4. CASE Overwrite
  <2>0. pc = "existing" /\ cmd \in AddCmd /\ cmd.accepted = {} /\ cmd.project \in Projects
    BY <1>4 DEF Overwrite, IInv, PcOK, FetchInv, Fetching
  <2>1. cmd.key \in Names
    BY <2>0 DEF AddCmd
  <2>2. StoresOK'
    BY <1>0, <1>4, <2>1, RemoveStores DEF Overwrite
  <2>3. TypeOK' /\ UNCHANGED cmd /\ pc' = "resolve"
    BY <1>0, <1>4, <2>2 DEF Overwrite, Goto, TypeOK, StoresOK
  <2>4. QED BY <2>0, <2>3, FetchStep DEF Fetching
<1>5. CASE CheckForUpdate
  <2>0. /\ pc = "existing" /\ cmd \in AddCmd /\ cmd.accepted = {} /\ cmd.project \in Projects
        /\ UNCHANGED <<manifest, release, cmd>> /\ Goto("closure")
    BY <1>5 DEF CheckForUpdate, IInv, PcOK, FetchInv, Fetching
  <2>1. cmd.key \in Names
    BY <2>0 DEF AddCmd
  <2>2. StoresOK'
    <3>1. CASE UNCHANGED <<disk, torn, unsynced>>
      BY <1>0, <3>1 DEF StoresOK
    <3>2. CASE /\ Readable(cmd.key)
               /\ Save(cmd.key, [disk[cmd.key] EXCEPT
                                   !.version = release[disk[cmd.key].project]])
      <4>1. disk[cmd.key] \in Entry
        BY <1>0, <2>1, <3>2, ReadableEntry
      <4>2. release[disk[cmd.key].project] \in 0 .. MaxRelease
        BY <1>0, <4>1 DEF WorldOK, Entry, Releases
      <4>3. [disk[cmd.key] EXCEPT !.version = release[disk[cmd.key].project]] \in Entry
        BY <4>1, <4>2, EntryChanged
      <4>4. QED BY <1>0, <2>1, <3>2, <4>3, SaveStores
    <3>3. QED BY <1>5, <3>1, <3>2 DEF CheckForUpdate
  <2>3. TypeOK' /\ pc' = "closure"
    BY <1>0, <2>0, <2>2 DEF Goto, TypeOK, StoresOK
  <2>4. QED BY <2>0, <2>3, FetchStep DEF Fetching
<1>6. CASE ResolveVersion
  <2>0. pc = "resolve" /\ cmd \in AddCmd /\ cmd.accepted = {} /\ cmd.project \in Projects
    BY <1>6 DEF ResolveVersion, IInv, PcOK, FetchInv, Fetching
  <2>1. cmd.key \in Names
    BY <2>0 DEF AddCmd
  <2>2. CASE Save(cmd.key, FromModInfo(cmd.project)) /\ Goto("closure") /\ UNCHANGED cmd
    <3>1. StoresOK'
      BY <1>0, <2>0, <2>1, <2>2, ModInfoEntry, SaveStores DEF WorldOK
    <3>2. TypeOK' /\ pc' = "closure"
      BY <1>0, <1>6, <2>2, <3>1 DEF Goto, TypeOK, StoresOK, ResolveVersion
    <3>3. QED BY <2>0, <2>2, <3>2, FetchStep DEF Fetching
  <2>3. CASE Idle /\ UNCHANGED <<disk, torn, unsynced>>
    BY <1>0, <1>6, <2>3, IdleStep DEF ResolveVersion, WorldOK, StoresOK
  <2>4. QED BY <1>6, <2>2, <2>3 DEF ResolveVersion
<1>7. CASE ResolveDependencies
  <2>0. pc = "closure" /\ cmd \in AddCmd /\ cmd.accepted = {}
    BY <1>7 DEF ResolveDependencies, IInv, PcOK, FetchInv, Fetching
  <2>1. CASE Idle
    BY <1>0, <1>7, <2>1, IdleStep DEF ResolveDependencies, WorldOK, StoresOK
  <2> DEFINE found(S) == Categorized(S, {cmd.asked})
             missing(S) == {q \in found(S) : ~InstalledMod(q) /\ q \in Api}
             needed(p, S) == {q \in missing(S) : Reaches(S, p, q, {"required"})}
             prompts(p, S) ==
               /\ cmd' = [cmd EXCEPT !.batch = needed(p, S),
                                     !.later = missing(S) \ needed(p, S),
                                     !.edges = {SidOf[q] : q \in found(S)}]
               /\ Goto("prompt")
  <2>2. ASSUME NEW p \in Answers(cmd.asked) \cap Api, NEW S \in ResolverAnswers(p),
               prompts(p, S)
        PROVE  IInv'
    <3>1. /\ missing(S) \in SUBSET (S \cap Api) /\ needed(p, S) \in SUBSET missing(S)
          /\ missing(S) \in SUBSET found(S)
          /\ S \in SUBSET Projects
      BY <2>2 DEF Categorized, ResolverAnswers
    <3>1a. /\ found(S) \in SUBSET Projects
           /\ needed(p, S) \in SUBSET Api /\ missing(S) \ needed(p, S) \in SUBSET Api
           /\ {SidOf[q] : q \in found(S)} \in SUBSET Names
      BY <2>2, <3>1 DEF Categorized
    <3>2. /\ cmd' \in AddCmd /\ cmd'.accepted = {}
          /\ cmd'.batch = needed(p, S) /\ cmd'.later = missing(S) \ needed(p, S)
          /\ cmd'.edges = {SidOf[q] : q \in found(S)}
      BY <2>0, <2>2, <3>1a DEF AddCmd
    <3>3. Wanted' = missing(S)
      BY <3>1, <3>2 DEF Wanted
    <3>4. TypeOK' /\ pc' = "prompt"
      BY <1>0, <1>7, <2>2 DEF ResolveDependencies, TypeOK, Goto
    <3>5. InstallInv'
      <4>1. \A x \in missing(S) : SidOf[x] \in {SidOf[q] : q \in found(S)}
        BY <3>1
      <4>2. \A x, y \in missing(S) : SidOf[x] = SidOf[y] => x = y
        <5>1. p \in Projects
          BY DEF Answers
        <5>2. QED BY <1>0, <3>1, <5>1, ClosureSids
      <4>3. QED BY <3>2, <3>3, <3>4, <4>1, <4>2 DEF InstallInv
    <3>6. PcOK' /\ FetchInv'
      BY <3>2, <3>4 DEF PcOK, FetchInv, Fetching, Installing, Updating, Removing, Importing
    <3>7. UpdateInv' /\ RemoveInv' /\ ImportInv'
      BY <3>4 DEF UpdateInv, RemoveInv, ImportInv, Updating, Removing, Importing
    <3>8. CleanRemoval'
      BY <3>2 DEF CleanRemoval, AddCmd
    <3>9. QED BY <3>4, <3>5, <3>6, <3>7, <3>8 DEF IInv
  <2>3. \/ Idle
        \/ \E p \in Answers(cmd.asked) \cap Api : \E S \in ResolverAnswers(p) : prompts(p, S)
    BY <1>7 DEF ResolveDependencies
  <2> HIDE DEF prompts
  <2>4. QED BY <2>1, <2>2, <2>3
<1>8. QED BY <1>1, <1>2, <1>3, <1>4, <1>5, <1>6, <1>7 DEF AddNext

\* A step of an add at or after the prompts.
LEMMA InstallStep ==
  ASSUME TypeOK', pc' \in Installing, cmd' \in AddCmd, InstallInv'
  PROVE  IInv'
<1>1. PcOK' /\ FetchInv'
  BY DEF PcOK, FetchInv, Fetching, Installing, Updating, Removing, Importing
<1>2. UpdateInv' /\ RemoveInv' /\ ImportInv'
  BY DEF UpdateInv, RemoveInv, ImportInv, Installing, Updating, Removing, Importing
<1>3. CleanRemoval'
  BY DEF CleanRemoval, AddCmd
<1>4. QED BY <1>1, <1>2, <1>3 DEF IInv

LEMMA InstallSteps ==
  ASSUME IInv, InstallNext
  PROVE  IInv'
<1> USE DEF stores
<1>0. TypeOK /\ StoresOK /\ WorldOK
  BY Stores DEF IInv
<1>1. CASE PromptDeps
  <2>0. pc = "prompt" /\ cmd \in AddCmd /\ InstallInv
    BY <1>1 DEF PromptDeps, IInv, PcOK, Installing
  <2>1. PICK accepted \in SUBSET cmd.batch :
          /\ task' = [p \in Projects |-> IF p \in accepted THEN "todo" ELSE "none"]
          /\ cmd' = [cmd EXCEPT !.accepted = @ \cup accepted]
    BY <1>1 DEF PromptDeps
  <2>2. /\ cmd' \in AddCmd /\ cmd'.accepted = cmd.accepted \cup accepted
        /\ cmd'.batch = cmd.batch /\ cmd'.later = cmd.later /\ cmd'.edges = cmd.edges
    BY <2>0, <2>1 DEF AddCmd
  <2>3. TypeOK' /\ pc' = "install"
    BY <1>0, <1>1, <2>1 DEF PromptDeps, TypeOK
  <2>4. Wanted' = Wanted
    BY <2>2 DEF Wanted
  <2>5. accepted \in SUBSET Projects
    BY <2>0 DEF AddCmd
  <2>6. \A p \in cmd.accepted : Exists(SidOf[p])'
    BY <2>0, <1>1 DEF InstallInv, Installing, PromptDeps, Exists, Readable
  <2>7. \A p \in accepted : task'[p] = "todo"
    BY <2>1, <2>5
  <2>8. \A p \in Projects : task'[p] \in {"todo", "resolve"} => p \in accepted
    BY <2>1
  <2>9. InstallInv'
    BY <2>0, <2>2, <2>3, <2>4, <2>6, <2>7, <2>8 DEF InstallInv, Installing
  <2>10. QED BY <2>2, <2>3, <2>9, InstallStep DEF Installing
<1>2. ASSUME NEW p \in Projects, InstallStart(p) \/ InstallFinish(p) \/ InstallFails(p)
      PROVE  IInv'
  <2>0. /\ pc = "install" /\ cmd \in AddCmd /\ InstallInv
        /\ UNCHANGED <<manifest, release, pc, cmd, queue, budget>>
        /\ task[p] \in {"todo", "resolve"}
        /\ SidOf[p] \in Names
    BY <1>2 DEF InstallStart, InstallFinish, InstallFails, TaskStep, IInv, PcOK, Installing
  <2>1. p \in cmd.accepted
    BY <2>0 DEF InstallInv, Installing
  <2>2. \A q \in cmd.accepted : SidOf[q] = SidOf[p] => q = p
    BY <2>0, <2>1 DEF InstallInv, Wanted, Installing
  <2>3. \A q \in cmd.accepted : q \in Projects
    BY <2>0 DEF AddCmd
  <2>4. Wanted' = Wanted
    BY <2>0 DEF Wanted
  <2>5. PICK to \in {"resolve", "done", "failed"} : task' = [task EXCEPT ![p] = to]
    BY <1>2 DEF InstallStart, InstallFinish, InstallFails, TaskStep
  <2>6. SUFFICES ASSUME StoresOK',
                        \A n \in Names \ {SidOf[p]} : Exists(n) => Exists(n)',
                        to = "done" => Exists(SidOf[p])'
                 PROVE  IInv'
    <3>1. CASE InstallStart(p) /\ RemoveDir(SidOf[p]) /\ to = "resolve"
      BY <1>0, <2>0, <2>6, <3>1, RemoveStores
    <3>2. CASE to \in {"resolve", "failed"} /\ UNCHANGED <<disk, torn, unsynced>>
      BY <1>0, <2>6, <3>2 DEF StoresOK, Exists, Readable
    <3>3. CASE /\ to = "done" /\ Exists(SidOf[p]) /\ UNCHANGED <<disk, torn, unsynced>>
      BY <1>0, <2>6, <3>3 DEF StoresOK, Exists, Readable
    <3>4. CASE InstallFinish(p)
      BY <1>0, <2>0, <2>6, <3>4, ModInfoEntry, SaveStores
         DEF InstallFinish, WorldOK, Exists
    <3>5. CASE InstallStart(p)
      <4>1. \A x \in {"resolve", "done"} : TaskStep(p, "todo", x) => to = x
        BY <1>0, <2>5 DEF TaskStep, WorldOK
      <4>2. QED BY <3>1, <3>2, <3>3, <3>5, <4>1 DEF InstallStart
    <3>6. CASE InstallFails(p)
      <4>1. \A x \in {"todo", "resolve"} : TaskStep(p, x, "failed") => to = "failed"
        BY <1>0, <2>5 DEF TaskStep, WorldOK
      <4>2. QED BY <3>2, <3>6, <4>1 DEF InstallFails
    <3>7. QED BY <1>2, <3>4, <3>5, <3>6
  <2>7. TypeOK'
    BY <1>0, <2>0, <2>5, <2>6 DEF TypeOK, StoresOK
  <2>8. /\ task'[p] = to
        /\ \A q \in Projects \ {p} : task'[q] = task[q]
    BY <1>0, <2>5 DEF WorldOK
  <2>9. \A q \in Projects : task'[q] \in {"todo", "resolve"} => q \in cmd.accepted
    BY <2>0, <2>1, <2>8 DEF InstallInv, Installing
  <2>10. \A q \in cmd.accepted :
           Exists(SidOf[q])' \/ task'[q] \in {"todo", "resolve", "failed"}
    <3>1. ASSUME NEW q \in cmd.accepted \ {p}
          PROVE  Exists(SidOf[q])' \/ task'[q] \in {"todo", "resolve", "failed"}
      <4>1. Exists(SidOf[q]) \/ task[q] \in {"todo", "resolve", "failed"}
        BY <2>0 DEF InstallInv, Installing
      <4>2. q \in Projects \ {p} /\ SidOf[q] \in Names \ {SidOf[p]}
        BY <2>2, <2>3
      <4>3. QED BY <2>6, <2>8, <4>1, <4>2
    <3>2. QED BY <2>6, <2>8, <3>1
  <2>11. InstallInv'
    BY <2>0, <2>4, <2>9, <2>10 DEF InstallInv, Installing
  <2>12. QED BY <2>0, <2>7, <2>11, InstallStep DEF Installing
<1>3. CASE InstallDepsEnd
  <2>0. pc = "install" /\ cmd \in AddCmd /\ InstallInv
    BY <1>3 DEF InstallDepsEnd, IInv, PcOK, Installing
  <2>1. CASE \E p \in Projects : task[p] = "failed"
    BY <1>0, <1>3, <2>1, IdleStep DEF InstallDepsEnd, WorldOK, StoresOK
  <2>2. CASE ~ \E p \in Projects : task[p] = "failed"
    <3>1. /\ pc' \in {"edges", "prompt"} /\ UNCHANGED <<disk, torn, task>>
          /\ cmd' = [cmd EXCEPT !.batch = cmd.later, !.later = {}]
          /\ \A p \in Projects : task[p] \in {"none", "done"}
      BY <1>3, <2>2 DEF InstallDepsEnd
    <3>2. /\ cmd' \in AddCmd /\ cmd'.accepted = cmd.accepted
          /\ cmd'.batch = cmd.later /\ cmd'.later = {} /\ cmd'.edges = cmd.edges
      BY <2>0, <3>1 DEF AddCmd
    <3>3. TypeOK'
      BY <1>0, <1>3, <2>2 DEF InstallDepsEnd, TypeOK
    <3>4. Wanted' \subseteq Wanted
      BY <3>2 DEF Wanted
    <3>5. \A p \in cmd.accepted : p \in Projects /\ Exists(SidOf[p])
      BY <2>0, <3>1 DEF InstallInv, Installing, AddCmd
    <3>6. \A p \in cmd.accepted : Exists(SidOf[p])'
      BY <3>1, <3>5 DEF Exists, Readable
    <3>7. InstallInv'
      BY <2>0, <3>1, <3>2, <3>4, <3>6 DEF InstallInv, Wanted, Installing
    <3>8. QED BY <3>1, <3>2, <3>3, <3>7, InstallStep DEF Installing
  <2>3. QED BY <2>1, <2>2
<1>4. CASE RecordDepEdges
  <2>0. cmd \in AddCmd
    BY <1>4 DEF RecordDepEdges, IInv, PcOK, Installing
  <2>1. cmd.key \in Names /\ cmd.edges \in SUBSET Names
    BY <2>0 DEF AddCmd
  <2>2. StoresOK'
    <3>1. CASE UNCHANGED <<disk, torn, unsynced>>
      BY <1>0, <3>1 DEF StoresOK
    <3>2. CASE /\ Readable(cmd.key)
               /\ Save(cmd.key, WithEdges(disk[cmd.key], EdgesTo(cmd.edges)))
      <4>1. disk[cmd.key] \in Entry
        BY <1>0, <2>1, <3>2, ReadableEntry
      <4>2. WithEdges(disk[cmd.key], EdgesTo(cmd.edges)) \in Entry
        BY <2>1, <4>1, EdgesAdded
      <4>3. QED BY <1>0, <2>1, <3>2, <4>2, SaveStores
    <3>3. QED BY <1>4, <3>1, <3>2 DEF RecordDepEdges
  <2>3. QED BY <1>0, <1>4, <2>2, IdleStep DEF RecordDepEdges, WorldOK
<1>5. QED BY <1>1, <1>2, <1>3, <1>4 DEF InstallNext

\* A step of an update.
LEMMA UpdateStep ==
  ASSUME TypeOK', pc' \in Updating, cmd' \in UpdateCmd, UpdateInv'
  PROVE  IInv'
<1>1. PcOK' /\ FetchInv'
  BY DEF PcOK, FetchInv, Fetching, Installing, Updating, Removing, Importing
<1>2. InstallInv' /\ RemoveInv' /\ ImportInv'
  BY DEF InstallInv, RemoveInv, ImportInv, Installing, Updating, Removing, Importing
<1>3. CleanRemoval'
  BY DEF CleanRemoval, UpdateCmd
<1>4. QED BY <1>1, <1>2, <1>3 DEF IInv

LEMMA UpdateSteps ==
  ASSUME IInv, UpdateNext
  PROVE  IInv'
<1> USE DEF stores
<1>0. TypeOK /\ StoresOK /\ WorldOK
  BY Stores DEF IInv
<1>1. CASE Update
  <2>1. TypeOK'
    BY <1>0, <1>1 DEF TypeOK, Update, Begin
  <2>2. pc' = "check" /\ cmd' \in UpdateCmd /\ cmd'.found = {}
    BY <1>1 DEF Update, UpdateCmd
  <2>3. queue' \subseteq Listed'
    BY <1>1 DEF Update, Listed, Readable
  <2>4. UpdateInv'
    BY <2>2, <2>3 DEF UpdateInv
  <2>5. QED BY <2>1, <2>2, <2>4, UpdateStep DEF Updating
<1>2. ASSUME NEW n \in Names, CheckOne(n) PROVE IInv'
  <2>0. /\ pc = "check" /\ cmd \in UpdateCmd /\ UpdateInv
        /\ n \in queue /\ queue \subseteq Listed
        /\ Listed' = Listed
        /\ queue' = queue \ {n} /\ UNCHANGED <<stores, pc, task, budget>>
    BY <1>2 DEF CheckOne, IInv, PcOK, UpdateInv, Updating, Listed, Readable
  <2>1. TypeOK'
    BY <1>0, <2>0 DEF TypeOK
  <2>2. cmd' \in UpdateCmd /\ \A u \in cmd'.found : u.key \in Listed
    <3>1. CASE UNCHANGED cmd
      BY <2>0, <3>1 DEF UpdateInv, Updating
    <3>2. CASE cmd' = [cmd EXCEPT !.found = @ \cup
                         {[key |-> n, version |-> release[disk[n].project]]}]
      <4>1. disk[n] \in Entry
        BY <1>0, <2>0, ReadableEntry DEF Listed
      <4>2. release[disk[n].project] \in Releases
        BY <1>0, <4>1 DEF Entry, WorldOK
      <4>3. [key |-> n, version |-> release[disk[n].project]] \in UpdateOf
        BY <4>2 DEF UpdateOf
      <4>4. QED BY <2>0, <3>2, <4>3 DEF UpdateCmd, UpdateInv, Updating
    <3>3. QED BY <1>2, <3>1, <3>2 DEF CheckOne
  <2>3. UpdateInv'
    BY <2>0, <2>2 DEF UpdateInv
  <2>4. QED BY <2>0, <2>1, <2>2, <2>3, UpdateStep DEF Updating
<1>3. CASE CheckEnds
  <2>0. /\ pc = "check" /\ cmd \in UpdateCmd /\ UpdateInv /\ pc' = "apply"
        /\ UNCHANGED <<stores, cmd, task, budget>> /\ Listed' = Listed
    BY <1>3 DEF CheckEnds, Goto, IInv, PcOK, Updating, Listed, Readable
  <2>1. TypeOK'
    BY <1>0, <2>0 DEF TypeOK
  <2>2. UpdateInv'
    BY <2>0 DEF UpdateInv, Updating
  <2>3. QED BY <2>0, <2>1, <2>2, UpdateStep DEF Updating
<1>4. ASSUME NEW u \in UpdateOf, ApplyUpdate(u) PROVE IInv'
  <2>0. /\ pc = "apply" /\ cmd \in UpdateCmd /\ UpdateInv /\ u \in cmd.found
        /\ cmd' = [cmd EXCEPT !.found = @ \ {u}]
        /\ UNCHANGED <<manifest, release, pc, task, queue, budget>>
    BY <1>4 DEF ApplyUpdate, IInv, PcOK, Updating
  <2>1. /\ u.key \in Names /\ Readable(u.key) /\ u.version \in 0 .. MaxRelease
        /\ cmd' \in UpdateCmd /\ cmd'.found = cmd.found \ {u}
    BY <2>0 DEF UpdateCmd, UpdateInv, Updating, UpdateOf, Releases, Listed
  <2>2. StoresOK' /\ \A m \in Names : Readable(m) => Readable(m)'
    <3>1. CASE UNCHANGED <<disk, torn, unsynced>>
      BY <1>0, <3>1 DEF StoresOK, Readable
    <3>2. ASSUME NEW s \in UpdatedDeps(u.key),
                 Save(u.key, [disk[u.key] EXCEPT !.version = u.version, !.edges = s])
          PROVE  StoresOK' /\ \A m \in Names : Readable(m) => Readable(m)'
      <4>1. disk[u.key] \in Entry
        BY <1>0, <2>1, ReadableEntry
      <4>2. s \in SUBSET Edge
        BY <1>0, <2>1, UpdatedDepsEdges
      <4>3. [disk[u.key] EXCEPT !.version = u.version, !.edges = s] \in Entry
        BY <2>1, <4>1, <4>2, EntryChanged
      <4>4. QED BY <1>0, <2>1, <3>2, <4>3, SaveStores
    <3>3. QED BY <1>4, <3>1, <3>2 DEF ApplyUpdate
  <2>3. TypeOK'
    BY <1>0, <2>0, <2>2 DEF TypeOK, StoresOK
  <2>4. UpdateInv'
    BY <2>0, <2>1, <2>2 DEF UpdateInv, Updating, Listed
  <2>5. QED BY <2>0, <2>1, <2>3, <2>4, UpdateStep DEF Updating
<1>5. CASE UpdateEnds
  BY <1>0, <1>5, IdleStep DEF UpdateEnds, WorldOK, StoresOK
<1>6. QED BY <1>1, <1>2, <1>3, <1>4, <1>5 DEF UpdateNext, UpdateOf

\* A step of a removal.
LEMMA RemoveStep ==
  ASSUME TypeOK', pc' \in Removing, cmd' \in RemoveCmd, RemoveInv', CleanRemoval'
  PROVE  IInv'
<1>1. PcOK' /\ FetchInv'
  BY DEF PcOK, FetchInv, Fetching, Installing, Updating, Removing, Importing
<1>2. InstallInv' /\ UpdateInv' /\ ImportInv'
  BY DEF InstallInv, UpdateInv, ImportInv, Installing, Updating, Removing, Importing
<1>3. QED BY <1>1, <1>2 DEF IInv

LEMMA RemoveSteps ==
  ASSUME IInv, RemoveNext
  PROVE  IInv'
<1> USE DEF stores
<1>0. TypeOK /\ StoresOK /\ WorldOK /\ RemoveInv /\ CleanRemoval
  BY Stores DEF IInv
<1>1. ASSUME NEW n \in Names, Remove(n) PROVE IInv'
  <2>1. PICK others \in SUBSET ReverseDeps(n) :
          /\ queue' = others
          /\ cmd' = [name |-> "remove", target |-> n, sid |-> disk[n].sid,
                     key |-> n, doomed |-> others \cup {n}, missed |-> {}]
    BY <1>1 DEF Remove
  <2>2. others \in SUBSET Names /\ n \notin others
    BY DEF ReverseDeps, Listed
  <2>3. disk[n] \in Entry
    BY <1>0, <1>1, ReadableEntry DEF Remove
  <2>4. /\ pc' = "remove" /\ cmd' \in RemoveCmd
        /\ cmd'.key = n /\ cmd'.doomed = others \cup {n}
    BY <1>1, <2>1, <2>2, <2>3 DEF Remove, RemoveCmd, Entry
  <2>5. TypeOK'
    BY <1>0, <1>1 DEF TypeOK, Remove, Begin
  <2>6. RemoveInv'
    BY <2>1, <2>2, <2>4 DEF RemoveInv
  <2>7. CleanRemoval'
    <3>1. (cmd'.doomed \ queue') \ {cmd'.key} = {}
      BY <2>1, <2>4
    <3>2. QED BY <2>4, <3>1 DEF CleanRemoval
  <2>8. QED BY <2>4, <2>5, <2>6, <2>7, RemoveStep DEF Removing
<1>2. CASE RemoveOne
  <2>0. pc = "remove" /\ cmd \in RemoveCmd
    BY <1>2 DEF RemoveOne, IInv, PcOK, Removing
  <2>1. CASE Idle /\ UNCHANGED <<disk, torn, unsynced>>
    BY <1>0, <1>2, <2>1, IdleStep DEF RemoveOne, WorldOK, StoresOK
  <2>2. CASE RemoveDir(cmd.key) /\ Goto("cleanup") /\ UNCHANGED cmd
    <3>1. cmd.key \in Names
      BY <2>0 DEF RemoveCmd
    <3>2. /\ StoresOK' /\ disk'[cmd.key] = Absent
          /\ \A m \in Names \ {cmd.key} : disk'[m] = disk[m]
      BY <1>0, <2>2, <3>1, RemoveStores
    <3>3. TypeOK' /\ pc' = "cleanup" /\ queue' = queue
      BY <1>0, <1>2, <2>2, <3>2 DEF RemoveOne, Goto, TypeOK, StoresOK
    <3>4. RemoveInv'
      BY <1>0, <2>0, <2>2, <3>3 DEF RemoveInv, Removing
    <3>5. CleanRemoval'
      BY <1>0, <2>0, <2>2, <3>2, <3>3 DEF CleanRemoval, Listed, Readable
    <3>6. QED BY <2>0, <2>2, <3>3, <3>4, <3>5, RemoveStep DEF Removing
  <2>3. QED BY <1>2, <2>1, <2>2 DEF RemoveOne
<1>3. CASE CleanupStaleDeps
  <2>0. pc = "cleanup" /\ cmd \in RemoveCmd
    BY <1>3 DEF CleanupStaleDeps, IInv, PcOK, Removing
  <2> DEFINE others(m) == {e \in disk[m].edges : ~Refers(e, cmd.key, cmd.sid)}
             affected == {m \in Listed : \E e \in disk[m].edges : Refers(e, cmd.key, cmd.sid)}
  <2>1a. PICK missed \in SUBSET affected : \E done \in SUBSET (affected \ missed) :
          /\ disk' = [m \in Names |-> IF m \in done
                                      THEN [disk[m] EXCEPT !.edges = others(m)] ELSE disk[m]]
          /\ unsynced' = unsynced \cup done
          /\ torn' = torn
          /\ \/ Idle
             \/ /\ done = affected \ missed
                /\ Goto("removed")
                /\ cmd' = [cmd EXCEPT !.missed = @ \cup missed]
    BY <1>3 DEF CleanupStaleDeps
  <2>1. PICK done \in SUBSET (affected \ missed) :
          /\ disk' = [m \in Names |-> IF m \in done
                                      THEN [disk[m] EXCEPT !.edges = others(m)] ELSE disk[m]]
          /\ unsynced' = unsynced \cup done
          /\ torn' = torn
          /\ \/ Idle
             \/ /\ done = affected \ missed
                /\ Goto("removed")
                /\ cmd' = [cmd EXCEPT !.missed = @ \cup missed]
    BY <2>1a
  <2>2. \A m \in done : /\ disk[m] \in Entry
                        /\ [disk[m] EXCEPT !.edges = others(m)] \in Entry
                        /\ [disk[m] EXCEPT !.edges = others(m)].edges = others(m)
    <3>1. \A m \in done : disk[m] \in Entry
      BY <1>0, ReadableEntry DEF Listed
    <3>2. \A m \in done : others(m) \in SUBSET Edge
      BY <3>1 DEF Entry
    <3> HIDE DEF others
    <3>3. QED BY <3>1, <3>2 DEF Entry
  <2>3. StoresOK'
    <3>1. \A m \in torn : m \notin done
      <4>1. \A m \in torn : disk[m] = Absent
        BY <1>0 DEF StoresOK
      <4>2. Absent \notin Entry
        BY EntryPresent
      <4>3. QED BY <2>2, <4>1, <4>2
    <3>2. disk' \in [Names -> Entry \cup {Absent}]
      BY <1>0, <2>1, <2>2 DEF StoresOK
    <3>3. done \in SUBSET Names
      BY DEF Listed
    <3>4. QED BY <1>0, <2>1, <3>1, <3>2, <3>3 DEF StoresOK
  <2>4. CASE Idle
    BY <1>0, <1>3, <2>3, <2>4, IdleStep DEF CleanupStaleDeps, WorldOK
  <2>5. CASE /\ done = affected \ missed
             /\ Goto("removed")
             /\ cmd' = [cmd EXCEPT !.missed = @ \cup missed]
    <3>1. TypeOK' /\ pc' = "removed" /\ queue' = queue
      BY <1>0, <1>3, <2>3, <2>5 DEF CleanupStaleDeps, Goto, TypeOK, StoresOK
    <3>2. /\ cmd' \in RemoveCmd /\ cmd.name = "remove" /\ cmd'.name = "remove"
          /\ cmd'.key = cmd.key /\ cmd'.sid = cmd.sid /\ cmd'.doomed = cmd.doomed
          /\ cmd'.missed = cmd.missed \cup missed
      BY <2>0, <2>5 DEF RemoveCmd, Listed
    <3>3. RemoveInv'
      BY <1>0, <2>0, <3>1, <3>2 DEF RemoveInv, Removing
    <3>4. CleanRemoval'
      <4> DEFINE before == (cmd.doomed \ queue) \ {cmd.key}
                 after == cmd.doomed \ queue
      <4>1. after = before \cup {cmd.key}
        BY <1>0, <2>0 DEF RemoveInv, Removing
      <4>2. ASSUME NEW m \in Names, Readable(m)', m \notin cmd'.missed,
                   NEW e \in disk'[m].edges, NEW n \in after
            PROVE  ~Refers(e, n, cmd.sid)
        <5>1. m \in Listed /\ m \notin cmd.missed /\ m \notin missed
          BY <2>1, <2>2, <3>2, <4>2, EntryPresent DEF Readable, Listed
        <5>2. e \in disk[m].edges /\ ~Refers(e, cmd.key, cmd.sid)
          <6>1. CASE m \in done
            BY <2>1, <2>2, <6>1
          <6>2. CASE m \notin done
            BY <2>1, <2>5, <5>1, <6>2
          <6>3. QED BY <6>1, <6>2
        <5>3. CASE n \in before
          BY <1>0, <2>0, <3>2, <5>1, <5>2, <5>3 DEF CleanRemoval
        <5>4. CASE n = cmd.key
          BY <5>2, <5>4
        <5>5. QED BY <4>1, <5>3, <5>4
      <4>3. QED BY <3>1, <3>2, <4>2 DEF CleanRemoval, Listed, Refers
    <3>5. QED BY <3>1, <3>2, <3>3, <3>4, RemoveStep DEF Removing
  <2>6. QED BY <2>1, <2>4, <2>5
<1>4. CASE RemoveNextOne
  <2>0. pc = "removed" /\ cmd \in RemoveCmd /\ UNCHANGED <<stores, budget>>
    BY <1>4 DEF RemoveNextOne, IInv, PcOK, Removing
  <2>1. CASE queue = {}
    BY <1>0, <1>4, <2>0, <2>1, IdleStep DEF RemoveNextOne, WorldOK, StoresOK
  <2>2. CASE queue # {}
    <3>1. PICK m \in queue : /\ cmd' = [cmd EXCEPT !.key = m]
                             /\ queue' = queue \ {m}
                             /\ pc' = "remove"
                             /\ task' = task
      BY <1>4, <2>2 DEF RemoveNextOne
    <3>2. m \in cmd.doomed /\ m \in Names /\ queue \subseteq cmd.doomed
      BY <1>0, <2>0 DEF RemoveInv, Removing, RemoveCmd
    <3>3. /\ cmd' \in RemoveCmd /\ cmd'.key = m /\ cmd'.doomed = cmd.doomed
          /\ cmd'.sid = cmd.sid /\ cmd.name = "remove"
      BY <2>0, <3>1, <3>2 DEF RemoveCmd
    <3>4. TypeOK'
      BY <1>0, <2>0, <3>1 DEF TypeOK
    <3>5. RemoveInv'
      BY <3>1, <3>2, <3>3 DEF RemoveInv
    <3>6. CleanRemoval'
      <4>1. (cmd'.doomed \ queue') \ {cmd'.key} = cmd.doomed \ queue
        BY <3>1, <3>2, <3>3
      <4>2. QED BY <1>0, <2>0, <3>1, <3>3, <4>1 DEF CleanRemoval, Listed, Readable
    <3>7. QED BY <3>1, <3>3, <3>4, <3>5, <3>6, RemoveStep DEF Removing
  <2>3. QED BY <2>1, <2>2
<1>5. QED BY <1>1, <1>2, <1>3, <1>4 DEF RemoveNext

\* A step of an import.
LEMMA ImportStep ==
  ASSUME TypeOK', pc' \in Importing, cmd' \in ImportCmd, ImportInv'
  PROVE  IInv'
<1>1. PcOK' /\ FetchInv'
  BY DEF PcOK, FetchInv, Fetching, Installing, Updating, Removing, Importing
<1>2. InstallInv' /\ UpdateInv' /\ RemoveInv'
  BY DEF InstallInv, UpdateInv, RemoveInv, Installing, Updating, Removing, Importing
<1>3. CleanRemoval'
  BY DEF CleanRemoval, ImportCmd
<1>4. QED BY <1>1, <1>2, <1>3 DEF IInv

LEMMA ImportSteps ==
  ASSUME IInv, ImportNext
  PROVE  IInv'
<1> USE DEF stores
<1>0. TypeOK /\ StoresOK /\ WorldOK /\ ImportInv
  BY Stores DEF IInv
<1>1. CASE ImportMrpack \/ ImportYmpk
  <2>1. TypeOK'
    BY <1>0, <1>1 DEF TypeOK, ImportMrpack, ImportYmpk, Import, Begin
  <2>2. /\ pc' \in {"mrpack", "ympk"} /\ cmd' \in ImportCmd
        /\ cmd'.imported = {} /\ cmd'.before = {n \in Names : Exists(n)}
        /\ queue' = Files /\ UNCHANGED <<disk, torn>>
    BY <1>1 DEF ImportMrpack, ImportYmpk, Import, ImportCmd
  <2>3. ImportInv'
    BY <2>2 DEF ImportInv, Exists, Readable
  <2>4. QED BY <2>1, <2>2, <2>3, ImportStep DEF Importing
<1>2. ASSUME NEW f \in Files, ImportMrpackFile(f) PROVE IInv'
  <2>0. /\ pc = "mrpack" /\ cmd \in ImportCmd /\ queue' = queue \ {f}
        /\ UNCHANGED <<manifest, release, pc, task, budget>>
    BY <1>2 DEF ImportMrpackFile, IInv, PcOK, Importing
  <2>1. PICK r \in ResolveMrpackMod(f) :
          IF Exists(r.key) THEN UNCHANGED <<disk, torn, unsynced, cmd>>
          ELSE \E sid \in IF r.unresolved THEN DetermineSource(f) ELSE {r.key} :
               /\ Save(r.key, [project |-> r.project, sid |-> sid, edges |-> {},
                               version |-> IF r.unresolved THEN 0 ELSE 1,
                               unresolved |-> r.unresolved])
               /\ cmd' = IF r.unresolved \/ r.project \in Packs THEN cmd
                         ELSE [cmd EXCEPT !.imported = @ \cup {r.key}]
    BY <1>2 DEF ImportMrpackFile
  <2>2. f.project \in Projects /\ f.stem \in Names
    OBVIOUS
  <2>3. r.key \in Names /\ r.project \in Projects /\ r.unresolved \in BOOLEAN
    BY MrpackAnswers
  <2>4. CASE Exists(r.key)
    <3>1. UNCHANGED <<disk, torn, unsynced, cmd>>
      BY <2>1, <2>4
    <3>2. TypeOK' /\ ImportInv'
      BY <1>0, <2>0, <3>1 DEF TypeOK, ImportInv, Importing, Exists, Readable
    <3>3. QED BY <2>0, <3>1, <3>2, ImportStep DEF Importing
  <2>5. CASE ~Exists(r.key)
    <3>1. PICK sid \in IF r.unresolved THEN DetermineSource(f) ELSE {r.key} :
            /\ Save(r.key, [project |-> r.project, sid |-> sid, edges |-> {},
                            version |-> IF r.unresolved THEN 0 ELSE 1,
                            unresolved |-> r.unresolved])
            /\ cmd' = IF r.unresolved \/ r.project \in Packs THEN cmd
                      ELSE [cmd EXCEPT !.imported = @ \cup {r.key}]
      BY <2>1, <2>5
    <3>2. sid \in Names
      BY <2>2, <2>3 DEF DetermineSource
    <3>3. [project |-> r.project, sid |-> sid, edges |-> {},
           version |-> IF r.unresolved THEN 0 ELSE 1,
           unresolved |-> r.unresolved] \in Entry
      BY <2>3, <3>2 DEF Entry
    <3>4. /\ StoresOK' /\ Readable(r.key)'
          /\ \A m \in Names : Readable(m) => Readable(m)'
          /\ \A m \in Names : Exists(m) => Exists(m)'
      BY <1>0, <2>3, <3>1, <3>3, SaveStores
    <3>5. TypeOK'
      BY <1>0, <2>0, <3>4 DEF TypeOK, StoresOK
    <3>6. /\ cmd' \in ImportCmd /\ cmd'.before = cmd.before
          /\ cmd'.imported \subseteq cmd.imported \cup {r.key}
      BY <2>0, <2>3, <3>1 DEF ImportCmd
    <3>7. ImportInv'
      <4>1. r.key \notin cmd.before
        BY <1>0, <2>0, <2>5 DEF ImportInv, Importing
      <4>2. cmd.imported \in SUBSET Names /\ cmd.before \in SUBSET Names
        BY <2>0 DEF ImportCmd
      <4>3. \A n \in cmd'.imported : Readable(n)' /\ n \notin cmd'.before
        BY <1>0, <2>0, <3>4, <3>6, <4>1, <4>2 DEF ImportInv, Importing
      <4>4. \A n \in cmd'.before : Exists(n)'
        BY <1>0, <2>0, <3>4, <3>6, <4>2 DEF ImportInv, Importing
      <4>5. queue' \subseteq Files /\ pc' = "mrpack"
        BY <1>0, <2>0 DEF ImportInv, Importing
      <4>6. QED BY <4>3, <4>4, <4>5 DEF ImportInv
    <3>8. QED BY <2>0, <3>5, <3>6, <3>7, ImportStep DEF Importing
  <2>6. QED BY <2>4, <2>5
<1>3. ASSUME NEW f \in Files, ImportYmpkEntry(f) PROVE IInv'
  <2>0. /\ pc = "ympk" /\ cmd \in ImportCmd /\ queue' = queue \ {f}
        /\ UNCHANGED <<manifest, release, pc, cmd, task, budget>>
    BY <1>3 DEF ImportYmpkEntry, IInv, PcOK, Importing
  <2>1. /\ StoresOK'
        /\ \A m \in Names : Readable(m) => Readable(m)'
        /\ \A m \in Names : Exists(m) => Exists(m)'
    <3>1. CASE UNCHANGED <<disk, torn, unsynced>>
      BY <1>0, <3>1 DEF StoresOK, Readable, Exists
    <3>2. CASE Save(SlugOf[f.project], [FromModInfo(f.project) EXCEPT !.version = 1,
                      !.edges = EdgesTo({SidOf[d.to] : d \in DepsOf[f.project][1]})])
      <4>1. f.project \in Projects /\ SlugOf[f.project] \in Names
        OBVIOUS
      <4>2. FromModInfo(f.project) \in Entry
        BY <1>0, <4>1, ModInfoEntry DEF WorldOK
      <4>3. DepsOf[f.project][1] \in SUBSET Dep
        BY <4>1 DEF Releases
      <4>4. {SidOf[d.to] : d \in DepsOf[f.project][1]} \in SUBSET Names
        BY <4>3 DEF Dep
      <4>4a. EdgesTo({SidOf[d.to] : d \in DepsOf[f.project][1]}) \in SUBSET Edge
        BY <4>4, EdgesToNames
      <4>5. [FromModInfo(f.project) EXCEPT !.version = 1,
               !.edges = EdgesTo({SidOf[d.to] : d \in DepsOf[f.project][1]})] \in Entry
        <5>1. 1 \in 0 .. MaxRelease
          OBVIOUS
        <5>2. QED BY <4>2, <4>4a, <5>1, EntryChanged
      <4>6. QED BY <1>0, <3>2, <4>1, <4>5, SaveStores
    <3>3. QED BY <1>3, <3>1, <3>2 DEF ImportYmpkEntry
  <2>2. TypeOK'
    BY <1>0, <2>0, <2>1 DEF TypeOK, StoresOK
  <2>3. cmd.imported \in SUBSET Names /\ cmd.before \in SUBSET Names
    BY <2>0 DEF ImportCmd
  <2>4. ImportInv'
    BY <1>0, <2>0, <2>1, <2>3 DEF ImportInv, Importing
  <2>5. QED BY <2>0, <2>2, <2>4, ImportStep DEF Importing
<1>4. CASE SaveManifest
  <2>0. /\ pc \in {"mrpack", "ympk"} /\ cmd \in ImportCmd
        /\ manifest' \in {"absent", "valid", "invalid"}
        /\ UNCHANGED <<disk, torn, unsynced, release, budget>>
    BY <1>4 DEF SaveManifest, IInv, PcOK, Importing, FilledIn
  <2>1. CASE Idle
    BY <1>0, <2>0, <2>1, IdleStep DEF WorldOK, StoresOK
  <2>2. CASE pc' = "importdeps" /\ queue' = cmd.imported /\ UNCHANGED <<cmd, task>>
    <3>1. TypeOK'
      BY <1>0, <2>0, <2>2 DEF TypeOK
    <3>2. ImportInv'
      BY <1>0, <2>0, <2>2 DEF ImportInv, Importing, Readable, Exists
    <3>3. QED BY <2>0, <2>2, <3>1, <3>2, ImportStep DEF Importing
  <2>3. QED BY <1>4, <2>1, <2>2 DEF SaveManifest
<1>5. ASSUME NEW n \in Names, ResolveImportDeps(n) PROVE IInv'
  <2>0. /\ pc = "importdeps" /\ cmd \in ImportCmd /\ n \in queue /\ queue' = queue \ {n}
        /\ UNCHANGED <<manifest, release, pc, cmd, task, budget>>
    BY <1>5 DEF ResolveImportDeps, IInv, PcOK, Importing
  <2>1. /\ StoresOK'
        /\ \A m \in Names : Readable(m) => Readable(m)'
        /\ \A m \in Names : Exists(m) => Exists(m)'
    <3>1. CASE UNCHANGED <<disk, torn, unsynced>>
      BY <1>0, <3>1 DEF StoresOK, Readable, Exists
    <3>2. ASSUME NEW found \in SUBSET Projects,
                 Save(n, WithEdges(disk[n], EdgesTo({SidOf[q] : q \in found})))
          PROVE  /\ StoresOK'
                 /\ \A m \in Names : Readable(m) => Readable(m)'
                 /\ \A m \in Names : Exists(m) => Exists(m)'
      <4>1. Readable(n)
        BY <1>0, <2>0 DEF ImportInv, Importing
      <4>2. disk[n] \in Entry
        BY <1>0, <4>1, ReadableEntry
      <4>3. {SidOf[q] : q \in found} \in SUBSET Names
        OBVIOUS
      <4>4. WithEdges(disk[n], EdgesTo({SidOf[q] : q \in found})) \in Entry
        BY <4>2, <4>3, EdgesAdded
      <4>5. QED BY <1>0, <3>2, <4>4, SaveStores
    <3>3. \/ UNCHANGED <<disk, torn, unsynced>>
          \/ \E found \in SUBSET Projects :
               Save(n, WithEdges(disk[n], EdgesTo({SidOf[q] : q \in found})))
      <4>1. \A roots : \A p \in Projects : \A S \in ResolverAnswers(p) :
              Categorized(S, roots) \in SUBSET Projects
        BY DEF ResolverAnswers, Categorized
      <4>2. \A p \in Answers(disk[n].sid) : p \in Projects
        BY DEF Answers
      <4>3. QED BY <1>5, <4>1, <4>2 DEF ResolveImportDeps
    <3>4. QED BY <3>1, <3>2, <3>3
  <2>2. TypeOK'
    BY <1>0, <2>0, <2>1 DEF TypeOK, StoresOK
  <2>3. cmd.imported \in SUBSET Names /\ cmd.before \in SUBSET Names
    BY <2>0 DEF ImportCmd
  <2>4. ImportInv'
    BY <1>0, <2>0, <2>1, <2>3 DEF ImportInv, Importing
  <2>5. QED BY <2>0, <2>2, <2>4, ImportStep DEF Importing
<1>6. CASE ImportEnds
  BY <1>0, <1>6, IdleStep DEF ImportEnds, WorldOK, StoresOK
<1>7. QED BY <1>1, <1>2, <1>3, <1>4, <1>5, <1>6 DEF ImportNext

LEMMA WorldSteps ==
  ASSUME IInv, WorldNext
  PROVE  IInv'
<1> USE DEF stores
<1>0. TypeOK /\ StoresOK /\ WorldOK
  BY Stores DEF IInv
<1>1. ASSUME NEW p \in Projects, Publish(p) PROVE IInv'
  <2>1. release' \in [Projects -> Releases]
    BY <1>0, <1>1 DEF WorldOK, Publish, Releases
  <2>2. QED BY <1>0, <1>1, <2>1, QuietStep DEF Publish, WorldOK, StoresOK
<1>2. CASE EditManifest
  BY <1>0, <1>2, QuietStep DEF EditManifest, WorldOK, StoresOK
<1>3. CASE Kill
  BY <1>0, <1>3, IdleStep DEF Kill, WorldOK, StoresOK
<1>4. CASE PowerLoss
  <2>1. PICK lost \in SUBSET {n \in unsynced : Readable(n)} :
          /\ disk' = [n \in Names |-> IF n \in lost THEN Absent ELSE disk[n]]
          /\ torn' = torn \cup lost
    BY <1>4 DEF PowerLoss
  <2>2. StoresOK'
    BY <1>0, <1>4, <2>1 DEF StoresOK, PowerLoss
  <2>3. QED BY <1>0, <1>4, <2>2, IdleStep DEF PowerLoss, WorldOK
<1>5. CASE Sync
  BY <1>0, <1>5, QuietStep DEF Sync, WorldOK, StoresOK
<1>6. QED BY <1>1, <1>2, <1>3, <1>4, <1>5 DEF WorldNext

LEMMA Initially == Init => IInv
<1> SUFFICES ASSUME Init PROVE IInv
  OBVIOUS
<1>1. TypeOK
  BY DEF Init, TypeOK, Releases
<1>2. pc = "idle" /\ cmd = NoCmd
  BY DEF Init
<1>3. PcOK /\ FetchInv /\ InstallInv /\ UpdateInv /\ RemoveInv /\ ImportInv
  BY <1>2 DEF PcOK, FetchInv, InstallInv, UpdateInv, RemoveInv, ImportInv, Fetching,
     Installing, Updating, Removing, Importing
<1>4. CleanRemoval
  BY <1>2 DEF CleanRemoval, NoCmd
<1>5. QED BY <1>1, <1>3, <1>4 DEF IInv

LEMMA StepKeeps == IInv /\ [Next]_vars => IInv'
<1> SUFFICES ASSUME IInv, [Next]_vars PROVE IInv'
  OBVIOUS
<1>1. CASE Next
  BY <1>1, AddSteps, InstallSteps, UpdateSteps, RemoveSteps, ImportSteps, WorldSteps DEF Next
<1>2. CASE UNCHANGED vars
  BY <1>2, QuietStep DEF vars, IInv, TypeOK
<1>3. QED BY <1>1, <1>2

THEOREM Invariance == Spec => []IInv
BY Initially, StepKeeps, PTL DEF Spec

\* Every variable of the modpack keeps its type: an entry that loads is an entry of a
\* project, and one that does not parse is not taken for one.
THEOREM ModpackTypeCorrect == Spec => []TypeOK
<1>1. IInv => TypeOK
  BY DEF IInv
<1>2. QED BY <1>1, Invariance, PTL

\* When add goes on to record the dependencies, all that the user accepted exist: the
\* tasks of install_deps end before it returns, and one that failed ends the command.
THEOREM EdgesComeAfterInstall == Spec => []EdgesAfterInstall
<1>1. IInv => EdgesAfterInstall
  BY DEF IInv, InstallInv, Installing, EdgesAfterInstall
<1>2. QED BY <1>1, Invariance, PTL

\* After a clean-up no entry it could read refers to what was removed, through any chain
\* of removals and however few of the entries a failing clean-up saved; what one clean-up
\* of the command missed is all that may keep a dangling edge.
THEOREM RemovalIsClean == Spec => []CleanRemoval
<1>1. IInv => CleanRemoval
  BY DEF IInv
<1>2. QED BY <1>1, Invariance, PTL

-----------------------------------------------------------------------------
(* What a step may do to an entry *)

\* The step form of LossOnlyByConsent.
LossAgreed ==
  \A n \in Names : (Readable(n) /\ ~Readable(n)') =>
    \/ cmd.name = "remove" /\ n \in cmd.doomed
    \/ cmd.name = "add" /\ n = cmd.key /\ (cmd.force \/ disk[n].sid # cmd.asked)
    \/ cmd.name = "add" /\ cmd.force /\ n \in cmd.edges
    \/ cmd' = NoCmd /\ n \in unsynced

\* The step form of ImportKeepsExisting.
BeforeKept ==
  cmd.name = "import" =>
    \A n \in cmd.before : disk'[n] = disk[n] \/ (n \in unsynced /\ cmd' = NoCmd)

\* A step of an import saves at most one entry, under a name that is not taken or that
\* the import itself brought.
LEMMA ImportSaves ==
  ASSUME IInv, ImportNext
  PROVE  /\ \A n \in Names : Readable(n) => Readable(n)'
         /\ pc \in Importing => \A n \in cmd.before : disk'[n] = disk[n]
<1> USE DEF stores
<1>0. TypeOK /\ StoresOK /\ WorldOK /\ ImportInv /\ PcOK
  BY Stores DEF IInv
<1> DEFINE Kept == /\ \A n \in Names : Readable(n) => Readable(n)'
                   /\ pc \in Importing => \A n \in cmd.before : disk'[n] = disk[n]
<1>1. ASSUME disk' = disk PROVE Kept
  BY <1>1 DEF Readable
<1>2. ASSUME NEW n \in Names, NEW e \in Entry, Save(n, e), pc \in Importing,
             n \notin cmd.before
      PROVE  Kept
  <2>1. cmd.before \in SUBSET Names
    BY <1>0, <1>2 DEF PcOK, ImportCmd
  <2>2. QED BY <1>0, <1>2, <2>1, SaveStores
<1>3. ASSUME NEW f \in Files, ImportMrpackFile(f) PROVE Kept
  <2>0. pc \in Importing /\ cmd \in ImportCmd
    BY <1>0, <1>3 DEF ImportMrpackFile, PcOK, Importing
  <2>1. f.project \in Projects /\ f.stem \in Names
    OBVIOUS
  <2>2. \A r \in ResolveMrpackMod(f) :
          r.key \in Names /\ r.project \in Projects /\ r.unresolved \in BOOLEAN
    BY MrpackAnswers
  <2>3. \/ UNCHANGED disk
        \/ \E r \in ResolveMrpackMod(f) :
             /\ ~Exists(r.key)
             /\ \E sid \in IF r.unresolved THEN DetermineSource(f) ELSE {r.key} :
                  Save(r.key, [project |-> r.project, sid |-> sid, edges |-> {},
                               version |-> IF r.unresolved THEN 0 ELSE 1,
                               unresolved |-> r.unresolved])
    BY <1>3 DEF ImportMrpackFile
  <2>4. ASSUME NEW r \in ResolveMrpackMod(f), ~Exists(r.key),
               NEW sid \in IF r.unresolved THEN DetermineSource(f) ELSE {r.key},
               Save(r.key, [project |-> r.project, sid |-> sid, edges |-> {},
                            version |-> IF r.unresolved THEN 0 ELSE 1,
                            unresolved |-> r.unresolved])
        PROVE  Kept
    <3>1. r.key \in Names /\ r.project \in Projects /\ r.unresolved \in BOOLEAN
      BY <2>2
    <3>2. sid \in Names
      BY <2>1, <3>1 DEF DetermineSource
    <3>3. [project |-> r.project, sid |-> sid, edges |-> {},
           version |-> IF r.unresolved THEN 0 ELSE 1,
           unresolved |-> r.unresolved] \in Entry
      BY <3>1, <3>2 DEF Entry
    <3>4. r.key \notin cmd.before
      BY <1>0, <2>0, <2>4 DEF ImportInv
    <3>5. QED BY <1>2, <2>0, <2>4, <3>1, <3>3, <3>4
  <2>5. QED BY <1>1, <2>3, <2>4
<1>4. ASSUME NEW f \in Files, ImportYmpkEntry(f) PROVE Kept
  <2>0. pc \in Importing /\ cmd \in ImportCmd
    BY <1>0, <1>4 DEF ImportYmpkEntry, PcOK, Importing
  <2>1. f.project \in Projects /\ SlugOf[f.project] \in Names
    OBVIOUS
  <2>2. CASE /\ ~Exists(SlugOf[f.project])
             /\ Save(SlugOf[f.project], [FromModInfo(f.project) EXCEPT !.version = 1,
                      !.edges = EdgesTo({SidOf[d.to] : d \in DepsOf[f.project][1]})])
    <3>1. FromModInfo(f.project) \in Entry
      BY <1>0, <2>1, ModInfoEntry DEF WorldOK
    <3>2. DepsOf[f.project][1] \in SUBSET Dep
      BY <2>1 DEF Releases
    <3>3. {SidOf[d.to] : d \in DepsOf[f.project][1]} \in SUBSET Names /\ 1 \in 0 .. MaxRelease
      BY <3>2 DEF Dep
    <3>3a. EdgesTo({SidOf[d.to] : d \in DepsOf[f.project][1]}) \in SUBSET Edge
      BY <3>3, EdgesToNames
    <3>4. [FromModInfo(f.project) EXCEPT !.version = 1,
             !.edges = EdgesTo({SidOf[d.to] : d \in DepsOf[f.project][1]})] \in Entry
      BY <3>1, <3>3, <3>3a, EntryChanged
    <3>5. SlugOf[f.project] \notin cmd.before
      BY <1>0, <2>0, <2>2 DEF ImportInv
    <3>6. QED BY <1>2, <2>0, <2>1, <2>2, <3>4, <3>5
  <2>3. QED BY <1>1, <1>4, <2>2 DEF ImportYmpkEntry
<1>5. ASSUME NEW n \in Names, ResolveImportDeps(n) PROVE Kept
  <2>0. pc = "importdeps" /\ cmd \in ImportCmd /\ n \in queue
    BY <1>0, <1>5 DEF ResolveImportDeps, PcOK, Importing
  <2>1. Readable(n) /\ n \notin cmd.before /\ pc \in Importing
    BY <1>0, <2>0 DEF ImportInv, Importing
  <2>2. disk[n] \in Entry
    BY <1>0, <2>1, ReadableEntry
  <2>3. ASSUME NEW found \in SUBSET Projects,
               Save(n, WithEdges(disk[n], EdgesTo({SidOf[q] : q \in found})))
        PROVE  Kept
    <3>1. {SidOf[q] : q \in found} \in SUBSET Names
      OBVIOUS
    <3>2. WithEdges(disk[n], EdgesTo({SidOf[q] : q \in found})) \in Entry
      BY <2>2, <3>1, EdgesAdded
    <3>3. QED BY <1>2, <2>1, <2>3, <3>2
  <2>4. \/ UNCHANGED disk
        \/ \E found \in SUBSET Projects :
             Save(n, WithEdges(disk[n], EdgesTo({SidOf[q] : q \in found})))
    <3>1. \A roots : \A p \in Projects : \A S \in ResolverAnswers(p) :
            Categorized(S, roots) \in SUBSET Projects
      BY DEF ResolverAnswers, Categorized
    <3>2. \A p \in Answers(disk[n].sid) : p \in Projects
      BY DEF Answers
    <3>3. QED BY <1>5, <3>1, <3>2 DEF ResolveImportDeps
  <2>5. QED BY <1>1, <2>3, <2>4
<1>6. CASE ImportMrpack \/ ImportYmpk \/ SaveManifest \/ ImportEnds
  BY <1>1, <1>6 DEF ImportMrpack, ImportYmpk, Import, SaveManifest, ImportEnds
<1>7. QED BY <1>3, <1>4, <1>5, <1>6 DEF ImportNext

LEMMA LossStep ==
  ASSUME IInv, Next
  PROVE  LossAgreed
<1> USE DEF stores
<1>0. TypeOK /\ StoresOK /\ WorldOK
  BY Stores DEF IInv
<1>1. ASSUME disk' = disk PROVE LossAgreed
  BY <1>1 DEF LossAgreed, Readable
<1>2. ASSUME NEW n \in Names, NEW e \in Entry, Save(n, e) PROVE LossAgreed
  BY <1>0, <1>2, SaveStores DEF LossAgreed
<1>3. CASE AddNext
  <2>1. CASE Overwrite
    <3>1. cmd \in AddCmd /\ cmd.name = "add" /\ cmd.key \in Names
      BY <2>1 DEF Overwrite, IInv, PcOK, Fetching, AddCmd
    <3>2. \A m \in Names \ {cmd.key} : disk'[m] = disk[m]
      BY <1>0, <2>1, <3>1, RemoveStores DEF Overwrite
    <3>3. cmd.force \/ disk[cmd.key].sid # cmd.asked
      BY <2>1 DEF Overwrite
    <3>4. QED BY <3>1, <3>2, <3>3 DEF LossAgreed, Readable
  <2>2. CASE CheckForUpdate
    <3>1. cmd \in AddCmd /\ cmd.key \in Names
      BY <2>2 DEF CheckForUpdate, IInv, PcOK, Fetching, AddCmd
    <3>2. CASE /\ Readable(cmd.key)
               /\ Save(cmd.key, [disk[cmd.key] EXCEPT
                                   !.version = release[disk[cmd.key].project]])
      <4>1. disk[cmd.key] \in Entry
        BY <1>0, <3>1, <3>2, ReadableEntry
      <4>2. release[disk[cmd.key].project] \in 0 .. MaxRelease
        BY <1>0, <4>1 DEF WorldOK, Entry, Releases
      <4>3. [disk[cmd.key] EXCEPT !.version = release[disk[cmd.key].project]] \in Entry
        BY <4>1, <4>2, EntryChanged
      <4>4. QED BY <1>2, <3>1, <3>2, <4>3
    <3>3. QED BY <1>1, <2>2, <3>2 DEF CheckForUpdate
  <2>3. CASE ResolveVersion
    <3>1. cmd \in AddCmd /\ cmd.key \in Names /\ cmd.project \in Projects
      BY <2>3 DEF ResolveVersion, IInv, PcOK, FetchInv, Fetching, AddCmd
    <3>2. QED BY <1>0, <1>1, <1>2, <2>3, <3>1, ModInfoEntry DEF ResolveVersion, WorldOK
  <2>4. CASE \/ \E n \in Names, force \in BOOLEAN : Add(n, force)
             \/ FetchModInfo \/ NotInstalledYet \/ KeepOtherSource \/ ResolveDependencies
    BY <1>1, <2>4 DEF Add, FetchModInfo, NotInstalledYet, KeepOtherSource, ResolveDependencies
  <2>5. QED BY <1>3, <2>1, <2>2, <2>3, <2>4 DEF AddNext
<1>4. CASE InstallNext
  <2>1. ASSUME NEW p \in Projects, InstallStart(p) PROVE LossAgreed
    <3>1. /\ pc = "install" /\ cmd \in AddCmd /\ cmd.name = "add" /\ SidOf[p] \in Names
          /\ SidOf[p] \in cmd.edges
      <4>1. pc = "install" /\ cmd \in AddCmd /\ cmd.name = "add" /\ task[p] = "todo"
        BY <2>1 DEF InstallStart, TaskStep, IInv, PcOK, Installing, AddCmd
      <4>2. p \in Wanted
        BY <4>1 DEF IInv, InstallInv, Installing, Wanted
      <4>3. QED BY <4>1, <4>2 DEF IInv, InstallInv, Installing
    <3>2. CASE cmd.force /\ RemoveDir(SidOf[p])
      BY <1>0, <3>1, <3>2, RemoveStores DEF LossAgreed, Readable
    <3>3. QED BY <1>1, <2>1, <3>2 DEF InstallStart
  <2>2. ASSUME NEW p \in Projects, InstallFinish(p) PROVE LossAgreed
    BY <1>0, <1>2, <2>2, ModInfoEntry DEF InstallFinish, WorldOK
  <2>3. CASE RecordDepEdges
    <3>1. cmd \in AddCmd /\ cmd.key \in Names /\ cmd.edges \in SUBSET Names
      BY <2>3 DEF RecordDepEdges, IInv, PcOK, Installing, AddCmd
    <3>2. CASE /\ Readable(cmd.key)
               /\ Save(cmd.key, WithEdges(disk[cmd.key], EdgesTo(cmd.edges)))
      <4>1. disk[cmd.key] \in Entry
        BY <1>0, <3>1, <3>2, ReadableEntry
      <4>2. WithEdges(disk[cmd.key], EdgesTo(cmd.edges)) \in Entry
        BY <3>1, <4>1, EdgesAdded
      <4>3. QED BY <1>2, <3>1, <3>2, <4>2
    <3>3. QED BY <1>1, <2>3, <3>2 DEF RecordDepEdges
  <2>4. CASE \/ PromptDeps \/ InstallDepsEnd
             \/ \E p \in Projects : InstallFails(p)
    BY <1>1, <2>4 DEF PromptDeps, InstallDepsEnd, InstallFails
  <2>5. QED BY <1>4, <2>1, <2>2, <2>3, <2>4 DEF InstallNext
<1>5. CASE UpdateNext
  <2>1. ASSUME NEW u \in UpdateOf, ApplyUpdate(u) PROVE LossAgreed
    <3>1. u.key \in Names /\ Readable(u.key) /\ u.version \in 0 .. MaxRelease
      <4>1. pc = "apply" /\ u \in cmd.found
        BY <2>1 DEF ApplyUpdate
      <4>2. Readable(u.key)
        BY <4>1 DEF IInv, UpdateInv, Updating, Listed
      <4>3. QED BY <4>2 DEF UpdateOf, Releases
    <3>2. ASSUME NEW s \in UpdatedDeps(u.key),
                 Save(u.key, [disk[u.key] EXCEPT !.version = u.version, !.edges = s])
          PROVE  LossAgreed
      <4>1. disk[u.key] \in Entry
        BY <1>0, <3>1, ReadableEntry
      <4>2. s \in SUBSET Edge
        BY <1>0, <3>1, UpdatedDepsEdges
      <4>3. [disk[u.key] EXCEPT !.version = u.version, !.edges = s] \in Entry
        BY <3>1, <4>1, <4>2, EntryChanged
      <4>4. QED BY <1>2, <3>1, <3>2, <4>3
    <3>3. QED BY <1>1, <2>1, <3>2 DEF ApplyUpdate
  <2>2. CASE Update \/ CheckEnds \/ UpdateEnds \/ \E n \in Names : CheckOne(n)
    BY <1>1, <2>2 DEF Update, CheckEnds, UpdateEnds, CheckOne
  <2>3. QED BY <1>5, <2>1, <2>2 DEF UpdateNext, UpdateOf
<1>6. CASE RemoveNext
  <2>1. CASE RemoveOne
    <3>1. /\ cmd \in RemoveCmd /\ cmd.name = "remove" /\ cmd.key \in Names
          /\ cmd.key \in cmd.doomed
      BY <2>1 DEF RemoveOne, IInv, PcOK, RemoveInv, Removing, RemoveCmd
    <3>2. CASE RemoveDir(cmd.key)
      BY <1>0, <3>1, <3>2, RemoveStores DEF LossAgreed, Readable
    <3>3. QED BY <1>1, <2>1, <3>2 DEF RemoveOne
  <2>2. CASE CleanupStaleDeps
    <3> DEFINE others(m) == {e \in disk[m].edges : ~Refers(e, cmd.key, cmd.sid)}
    <3>1. PICK done \in SUBSET Listed :
            disk' = [m \in Names |-> IF m \in done
                                     THEN [disk[m] EXCEPT !.edges = others(m)] ELSE disk[m]]
      BY <2>2 DEF CleanupStaleDeps
    <3>2. \A m \in done : [disk[m] EXCEPT !.edges = others(m)] # Absent
      <4>1. \A m \in done : disk[m] \in Entry
        BY <1>0, ReadableEntry DEF Listed
      <4>2. \A m \in done : [disk[m] EXCEPT !.edges = others(m)] \in Entry
        BY <4>1 DEF Entry
      <4>3. QED BY <4>2, EntryPresent
    <3>3. QED BY <3>1, <3>2 DEF LossAgreed, Readable
  <2>3. CASE RemoveNextOne \/ \E n \in Names : Remove(n)
    BY <1>1, <2>3 DEF RemoveNextOne, Remove
  <2>4. QED BY <1>6, <2>1, <2>2, <2>3 DEF RemoveNext
<1>7. CASE ImportNext
  BY <1>0, <1>7, ImportSaves DEF LossAgreed
<1>8. CASE WorldNext
  <2>1. CASE PowerLoss
    BY <1>0, <2>1 DEF PowerLoss, Idle, LossAgreed, Readable, StoresOK
  <2>2. CASE \/ \E p \in Projects : Publish(p)
             \/ EditManifest \/ Kill \/ Sync
    BY <1>1, <2>2 DEF Publish, EditManifest, Kill, Sync
  <2>3. QED BY <1>8, <2>1, <2>2 DEF WorldNext
<1>9. QED BY <1>3, <1>4, <1>5, <1>6, <1>7, <1>8 DEF Next

LEMMA BeforeStep ==
  ASSUME IInv, Next
  PROVE  BeforeKept
<1> USE DEF stores
<1>0. TypeOK /\ StoresOK /\ WorldOK /\ PcOK
  BY Stores DEF IInv
<1>1. SUFFICES ASSUME cmd.name = "import"
               PROVE  \A n \in cmd.before : disk'[n] = disk[n] \/ (n \in unsynced /\ cmd' = NoCmd)
  BY DEF BeforeKept
<1>2. pc \in Importing
  BY <1>0, <1>1 DEF PcOK, Importing, NoCmd, AddCmd, UpdateCmd, RemoveCmd
<1>3. CASE ImportNext
  BY <1>2, <1>3, ImportSaves
<1>4. CASE WorldNext
  <2>1. CASE PowerLoss
    <3>1. cmd.before \in SUBSET Names
      BY <1>0, <1>2 DEF PcOK, ImportCmd
    <3>2. QED BY <1>0, <2>1, <3>1 DEF PowerLoss, Idle, StoresOK
  <2>2. CASE \/ \E p \in Projects : Publish(p)
             \/ EditManifest \/ Kill \/ Sync
    BY <2>2 DEF Publish, EditManifest, Kill, Sync
  <2>3. QED BY <1>4, <2>1, <2>2 DEF WorldNext
<1>5. CASE AddNext
  BY <1>2, <1>5 DEF AddNext, Add, Begin, FetchModInfo, NotInstalledYet, Overwrite,
     KeepOtherSource, CheckForUpdate, ResolveVersion, ResolveDependencies, Importing
<1>6. CASE InstallNext
  BY <1>2, <1>6 DEF InstallNext, PromptDeps, InstallDepsEnd, RecordDepEdges, InstallStart,
     InstallFinish, InstallFails, TaskStep, Importing
<1>7. CASE UpdateNext
  BY <1>2, <1>7 DEF UpdateNext, Update, Begin, CheckOne, CheckEnds, ApplyUpdate, UpdateEnds,
     Importing
<1>8. CASE RemoveNext
  BY <1>2, <1>8 DEF RemoveNext, Remove, Begin, RemoveOne, CleanupStaleDeps, RemoveNextOne,
     Importing
<1>9. QED BY <1>3, <1>4, <1>5, <1>6, <1>7, <1>8 DEF Next

\* No step of any command, failure or kill costs an entry that loads unless the user agreed
\* to it; a power loss costs only what was not yet synced.
THEOREM LossIsAgreed == Spec => LossOnlyByConsent
<1>1. IInv /\ [Next]_vars => [LossAgreed]_vars
  BY LossStep
<1>2. QED
  <2>1. [][LossAgreed]_vars <=> LossOnlyByConsent
    BY DEF LossAgreed, LossOnlyByConsent
  <2>2. QED BY <1>1, <2>1, Invariance, PTL DEF Spec

\* No step of an import changes an entry that was there before it began, whatever name a
\* file of the archive resolves to; a power loss costs only what was not yet synced.
THEOREM ImportKeeps == Spec => ImportKeepsExisting
<1>1. IInv /\ [Next]_vars => [BeforeKept]_vars
  BY BeforeStep
<1>2. QED
  <2>1. [][BeforeKept]_vars <=> ImportKeepsExisting
    BY DEF BeforeKept, ImportKeepsExisting
  <2>2. QED BY <1>1, <2>1, Invariance, PTL DEF Spec

HIDE ModpackAssumption

-----------------------------------------------------------------------------
(***************************************************************************)
(* Archives                                                                *)
(***************************************************************************)

USE ExportAssumption DEF Formats

\* Every variable keeps its type.
ExportTypeOK ==
  /\ entries \subseteq Items /\ jars \subseteq Items /\ configs \subseteq Configs
  /\ versions \in BOOLEAN
  /\ doing \in [Exporters -> {"idle", "create", "collect", "list", "jars", "configs", "clean", "done"}]
  /\ format \in [Exporters -> {"ympk", "mrpack"}]
  /\ todo \in [Exporters -> SUBSET Things]
  /\ index \in [Exporters -> SUBSET Items]
  /\ temp \in [Exporters -> SUBSET (Things \cup {None})]
  /\ archive \in [Exporters -> SUBSET (Things \cup {None})]
  /\ kept \in [Exporters -> SUBSET Things]
  /\ ever \in [Exporters -> SUBSET Things]
  /\ stale \in [Exporters -> BOOLEAN]

THEOREM ExportTypeCorrect == ExportSpec => []ExportTypeOK
<1> USE DEF Things, NoIndex, Here, project, exporting, Unseen, To
<1>1. ExportInit => ExportTypeOK
  BY DEF ExportInit, ExportTypeOK
<1>2. ExportTypeOK /\ [ExportNext]_exportVars => ExportTypeOK'
  <2> SUFFICES ASSUME ExportTypeOK, [ExportNext]_exportVars PROVE ExportTypeOK'
    OBVIOUS
  <2>1. ASSUME NEW p \in Exporters, NEW f \in {"mrpack", "ympk"}, StartExport(p, f) PROVE ExportTypeOK'
    BY <2>1 DEF StartExport, ExportTypeOK
  <2>2. ASSUME NEW p \in Exporters, CollectIndex(p) PROVE ExportTypeOK'
    <3>1. stale' \in [Exporters -> BOOLEAN]
      BY <2>2 DEF CollectIndex, ExportTypeOK
    <3>2. /\ doing' \in [Exporters -> {"idle", "create", "collect", "list", "jars", "configs", "clean", "done"}]
          /\ index' \in [Exporters -> SUBSET Items]
          /\ temp' \in [Exporters -> SUBSET (Things \cup {None})]
      BY <2>2 DEF CollectIndex, ExportTypeOK
    <3>3. UNCHANGED <<project, format, todo, archive, kept, ever>>
      BY <2>2 DEF CollectIndex
    <3> QED BY <3>1, <3>2, <3>3 DEF ExportTypeOK
  <2>3. ASSUME NEW p \in Exporters,
               CreateYmpk(p) \/ ListItems(p) \/ ListConfigs(p) \/ FinishYmpk(p)
        PROVE  ExportTypeOK'
    BY <2>3 DEF CreateYmpk, ListItems, ListConfigs, FinishYmpk, ExportTypeOK
  <2>4. ASSUME NEW p \in Exporters, NEW i \in Items, AddJar(p, i) PROVE ExportTypeOK'
    <3>1. /\ temp' \in [Exporters -> SUBSET (Things \cup {None})]
          /\ archive' \in [Exporters -> SUBSET (Things \cup {None})]
      BY <2>4 DEF AddJar, Collects, ExportTypeOK
    <3>2. index' \in [Exporters -> SUBSET Items] /\ todo' \in [Exporters -> SUBSET Things]
      BY <2>4 DEF AddJar, Describes, ExportTypeOK
    <3> QED BY <2>4, <3>1, <3>2 DEF AddJar, ExportTypeOK
  <2>5. ASSUME NEW p \in Exporters, NEW c \in Configs, AddConfig(p, c) PROVE ExportTypeOK'
    BY <2>5 DEF AddConfig, Collects, ExportTypeOK
  <2>6. ASSUME NEW p \in Exporters,
               ConfigGone(p) \/ ExportFails(p) \/ \E i \in Items : JarClashes(p, i)
        PROVE  ExportTypeOK'
    <3>1. CASE ConfigGone(p) \/ ExportFails(p)
      BY <3>1 DEF ConfigGone, ExportFails, ExportTypeOK
    <3>2. ASSUME NEW i \in Items, JarClashes(p, i) PROVE ExportTypeOK'
      BY <3>2 DEF JarClashes, Describes, ExportTypeOK
    <3> QED BY <2>6, <3>1, <3>2
  <2>7. ASSUME NEW p \in Exporters, CreateArchive(p) \/ CleanTemp(p) \/ Leave(p) PROVE ExportTypeOK'
    <3>1. stale' \in [Exporters -> BOOLEAN]
      <4>1. stale' = stale \/ stale' = [stale EXCEPT ![p] = stale[p] /\ format[p] = "ympk"]
        BY <2>7 DEF CreateArchive, CleanTemp, Leave
      <4>2. (stale[p] /\ format[p] = "ympk") \in BOOLEAN
        OBVIOUS
      <4> QED BY <4>1, <4>2, Zenon DEF ExportTypeOK
    <3>2. /\ doing' \in [Exporters -> {"idle", "create", "collect", "list", "jars", "configs", "clean", "done"}]
          /\ temp' \in [Exporters -> SUBSET (Things \cup {None})]
          /\ archive' \in [Exporters -> SUBSET (Things \cup {None})]
      BY <2>7 DEF CreateArchive, CleanTemp, Leave, ExportTypeOK
    <3>3. UNCHANGED <<project, format, todo, index, kept, ever>>
      BY <2>7 DEF CreateArchive, CleanTemp, Leave
    <3> QED BY <3>1, <3>2, <3>3 DEF ExportTypeOK
  <2>8. ASSUME NEW i \in Items, AddEntry(i) \/ RemoveEntry(i) \/ EvictJar(i) PROVE ExportTypeOK'
    BY <2>8 DEF AddEntry, RemoveEntry, EvictJar, Edit, ExportTypeOK
  <2>9. ASSUME NEW c \in Configs, EditConfig(c) PROVE ExportTypeOK'
    BY <2>9 DEF EditConfig, Edit, ExportTypeOK
  <2>10. CASE ForgetVersions
    BY <2>10 DEF ForgetVersions, Edit, ExportTypeOK
  <2>11. CASE UNCHANGED exportVars
    BY <2>11 DEF exportVars, ExportTypeOK
  <2> QED
    BY <2>1, <2>2, <2>3, <2>4, <2>5, <2>6, <2>7, <2>8, <2>9, <2>10, <2>11 DEF ExportNext
<1> QED BY <1>1, <1>2, PTL DEF ExportSpec
-----------------------------------------------------------------------------
\* Where an export puts what it finds.
Gathered(p) == IF format[p] = "ympk" THEN archive[p] ELSE temp[p]

\* What is collected in s has x, or what another thing that was there has put at its path.
Held(p, x, s) == \E y \in s \cap ever[p] : Path(format[p], y) = Path(format[p], x)

\* What was there all along is there now, its path is taken, or it is still on the list;
\* a ympk has the thing itself.
NothingMissed(p) ==
  /\ kept[p] \subseteq Here
  /\ doing[p] = "jars" => \A x \in kept[p] \cap Items : x \in todo[p] \/ Held(p, x, Gathered(p))
  /\ doing[p] = "configs" => \A x \in kept[p] : x \in todo[p] \/ Held(p, x, Gathered(p))
  /\ doing[p] \in {"clean", "done"} => \A x \in kept[p] : Held(p, x, archive[p])
  /\ format[p] = "ympk" =>
       /\ doing[p] = "jars" => kept[p] \cap Items \subseteq archive[p] \cup todo[p]
       /\ doing[p] = "configs" => kept[p] \subseteq archive[p] \cup todo[p]
       /\ doing[p] \in {"clean", "done"} => kept[p] \subseteq archive[p]

\* Every item that was there all along is named, or still on the list of a ympk.
NothingUnnamed(p) ==
  /\ format[p] = "mrpack" /\ doing[p] \in {"list", "jars", "configs", "clean", "done"} =>
       kept[p] \cap Items \subseteq index[p]
  /\ format[p] = "ympk" /\ doing[p] = "jars" => kept[p] \cap Items \subseteq index[p] \cup todo[p]
  /\ format[p] = "ympk" /\ doing[p] \in {"configs", "clean", "done"} =>
       kept[p] \cap Items \subseteq index[p]

\* What is gathered, listed or named in an index was there at some time.
NothingForeign(p) ==
  /\ doing[p] # "idle" => entries \cup configs \cup index[p] \subseteq ever[p]
  /\ doing[p] \in {"jars", "configs"} => todo[p] \subseteq ever[p]
  /\ doing[p] \in {"list", "jars", "configs"} =>
       (format[p] = "mrpack" /\ stale[p]) \/ Gathered(p) \subseteq ever[p]
  /\ doing[p] \in {"clean", "done"} =>
       (format[p] = "mrpack" /\ stale[p]) \/ archive[p] \subseteq ever[p]

\* A directory that is there before an mrpack is begun was left by another export.
TempIsFresh(p) ==
  /\ doing[p] = "create" => format[p] = "ympk"
  /\ doing[p] \in {"collect", "clean"} => format[p] = "mrpack"
  /\ doing[p] \in {"idle", "create", "collect"} \/ format[p] = "ympk" =>
       stale[p] \/ temp[p] = {None}
  /\ doing[p] = "done" /\ format[p] = "mrpack" => temp[p] = {None}
  /\ doing[p] = "clean" => archive[p] = temp[p]

ExportInv ==
  \A p \in Exporters : NothingMissed(p) /\ NothingUnnamed(p) /\ NothingForeign(p) /\ TempIsFresh(p)

\* The step of one export leaves the others as they are.
LEMMA OthersKeep ==
  ASSUME ExportTypeOK, ExportInv, NEW p \in Exporters, NEW q \in Exporters,
         UNCHANGED <<entries, configs>>, jars \subseteq jars',
         doing'[q] = doing[q], format'[q] = format[q], todo'[q] = todo[q], index'[q] = index[q],
         temp'[q] = temp[q], archive'[q] = archive[q], stale'[q] = stale[q],
         kept'[q] = kept[q], ever'[q] = ever[q]
  PROVE  NothingMissed(q)' /\ NothingUnnamed(q)' /\ NothingForeign(q)' /\ TempIsFresh(q)'
<1>1. NothingMissed(q)'
  BY DEF ExportInv, NothingMissed, Gathered, Held, Here
<1>2. NothingUnnamed(q)'
  BY DEF ExportInv, NothingUnnamed
<1>3. NothingForeign(q)'
  BY DEF ExportInv, NothingForeign, Gathered
<1>4. TempIsFresh(q)'
  BY DEF ExportInv, TempIsFresh
<1> QED BY <1>1, <1>2, <1>3, <1>4

\* A change of the project takes from kept what is gone, and adds to ever what is new.
LEMMA EditKeeps ==
  ASSUME ExportTypeOK, ExportInv, Edit
  PROVE  ExportInv'
<1> SUFFICES ASSUME NEW p \in Exporters
             PROVE  NothingMissed(p)' /\ NothingUnnamed(p)' /\ NothingForeign(p)' /\ TempIsFresh(p)'
  BY DEF ExportInv
<1>1. /\ kept'[p] \subseteq Here' /\ kept'[p] \subseteq kept[p]
      /\ ever[p] \subseteq ever'[p] /\ entries' \cup configs' \subseteq ever'[p]
      /\ UNCHANGED <<doing, format, todo, index, temp, archive, stale>>
  BY DEF Edit, exporting
<1>2. \A x, s : Held(p, x, s) => \E y \in s \cap ever'[p] : Path(format[p], y) = Path(format[p], x)
  BY <1>1 DEF Held
<1>3. NothingMissed(p)'
  BY <1>1, <1>2 DEF ExportInv, NothingMissed, Gathered, Held
<1>4. NothingUnnamed(p)'
  BY <1>1 DEF ExportInv, NothingUnnamed
<1>5. NothingForeign(p)'
  BY <1>1 DEF ExportInv, NothingForeign, Gathered
<1>6. TempIsFresh(p)'
  BY <1>1 DEF ExportInv, TempIsFresh
<1> QED BY <1>3, <1>4, <1>5, <1>6

\* What one export collects is there afterwards, and what was collected before keeps its
\* path; a ympk keeps it itself.
LEMMA CollectsHolds ==
  ASSUME ExportTypeOK, NEW p \in Exporters, NEW x \in ever[p], Collects(p, x),
         format' = format, ever' = ever
  PROVE  /\ Held(p, x, Gathered(p))'
         /\ \A z : Held(p, z, Gathered(p)) => Held(p, z, Gathered(p))'
         /\ Gathered(p)' \subseteq Gathered(p) \cup {x}
         /\ format[p] = "ympk" => archive'[p] = archive[p] \cup {x}
<1>1. CASE format[p] = "ympk"
  BY <1>1 DEF Collects, Held, Gathered, ExportTypeOK
<1>2. CASE format[p] # "ympk"
  <2>1. /\ format[p] = "mrpack" /\ Gathered(p) = temp[p] /\ Gathered(p)' = temp'[p]
        /\ temp'[p] = {y \in temp[p] : Path("mrpack", y) # Path("mrpack", x)} \cup {x}
    BY <1>2 DEF Collects, Gathered, ExportTypeOK
  <2>2. ASSUME NEW z, Held(p, z, Gathered(p)) PROVE Held(p, z, Gathered(p))'
    BY <2>1, <2>2 DEF Held
  <2>3. Held(p, x, Gathered(p))'
    BY <2>1 DEF Held
  <2> QED BY <1>2, <2>1, <2>2, <2>3
<1> QED BY <1>1, <1>2

LEMMA ExportInvHolds == ExportSpec => []ExportInv
<1> USE DEF Things, NoIndex, project, exporting, Unseen, To
<1>1. ExportInit => ExportInv
  BY DEF ExportInit, ExportInv, NothingMissed, NothingUnnamed, NothingForeign, TempIsFresh
<1>2. ExportTypeOK /\ ExportTypeOK' /\ ExportInv /\ [ExportNext]_exportVars => ExportInv'
  <2> SUFFICES ASSUME ExportTypeOK, ExportTypeOK', ExportInv, [ExportNext]_exportVars PROVE ExportInv'
    OBVIOUS
  <2>1. ASSUME NEW p \in Exporters, NEW f \in {"mrpack", "ympk"}, StartExport(p, f) PROVE ExportInv'
    <3>1. \A q \in Exporters \ {p} : NothingMissed(q)' /\ NothingUnnamed(q)' /\ NothingForeign(q)' /\ TempIsFresh(q)'
      BY <2>1, OthersKeep DEF StartExport, ExportTypeOK
    <3>2. NothingMissed(p)'
      BY <2>1 DEF StartExport, ExportInv, NothingMissed, NothingForeign, TempIsFresh, Gathered, Held, Here, ExportTypeOK
    <3>5. NothingUnnamed(p)'
      BY <2>1 DEF StartExport, ExportInv, NothingUnnamed, NothingMissed, NothingForeign, TempIsFresh, Here, ExportTypeOK
    <3>3. NothingForeign(p)'
      BY <2>1 DEF StartExport, ExportInv, NothingForeign, TempIsFresh, Gathered, ExportTypeOK
    <3>4. TempIsFresh(p)'
      BY <2>1 DEF StartExport, ExportInv, TempIsFresh, ExportTypeOK
    <3> QED BY <3>1, <3>2, <3>3, <3>4, <3>5 DEF ExportInv
  <2>2. ASSUME NEW p \in Exporters, CollectIndex(p) PROVE ExportInv'
    <3>1. \A q \in Exporters \ {p} : NothingMissed(q)' /\ NothingUnnamed(q)' /\ NothingForeign(q)' /\ TempIsFresh(q)'
      BY <2>2, OthersKeep DEF CollectIndex, ExportTypeOK
    <3>2. NothingMissed(p)'
      BY <2>2 DEF CollectIndex, ExportInv, NothingMissed, NothingForeign, TempIsFresh, Gathered, Held, Here, ExportTypeOK
    <3>5. NothingUnnamed(p)'
      BY <2>2 DEF CollectIndex, ExportInv, NothingUnnamed, NothingMissed, NothingForeign, TempIsFresh, Here, ExportTypeOK
    <3>3. NothingForeign(p)'
      BY <2>2 DEF CollectIndex, ExportInv, NothingForeign, TempIsFresh, Gathered, ExportTypeOK
    <3>4. TempIsFresh(p)'
      BY <2>2 DEF CollectIndex, ExportInv, TempIsFresh, ExportTypeOK
    <3> QED BY <3>1, <3>2, <3>3, <3>4, <3>5 DEF ExportInv
  <2>3. ASSUME NEW p \in Exporters, CreateYmpk(p) PROVE ExportInv'
    <3>1. \A q \in Exporters \ {p} : NothingMissed(q)' /\ NothingUnnamed(q)' /\ NothingForeign(q)' /\ TempIsFresh(q)'
      BY <2>3, OthersKeep DEF CreateYmpk, ExportTypeOK
    <3>2. NothingMissed(p)'
      BY <2>3 DEF CreateYmpk, ExportInv, NothingMissed, NothingForeign, TempIsFresh, Gathered, Held, Here, ExportTypeOK
    <3>5. NothingUnnamed(p)'
      BY <2>3 DEF CreateYmpk, ExportInv, NothingUnnamed, NothingMissed, NothingForeign, TempIsFresh, Here, ExportTypeOK
    <3>3. NothingForeign(p)'
      BY <2>3 DEF CreateYmpk, ExportInv, NothingForeign, TempIsFresh, Gathered, ExportTypeOK
    <3>4. TempIsFresh(p)'
      BY <2>3 DEF CreateYmpk, ExportInv, TempIsFresh, ExportTypeOK
    <3> QED BY <3>1, <3>2, <3>3, <3>4, <3>5 DEF ExportInv
  <2>4. ASSUME NEW p \in Exporters, ListItems(p) PROVE ExportInv'
    <3>1. \A q \in Exporters \ {p} : NothingMissed(q)' /\ NothingUnnamed(q)' /\ NothingForeign(q)' /\ TempIsFresh(q)'
      BY <2>4, OthersKeep DEF ListItems, ExportTypeOK
    <3>2. NothingMissed(p)'
      BY <2>4 DEF ListItems, ExportInv, NothingMissed, NothingForeign, TempIsFresh, Gathered, Held, Here, ExportTypeOK
    <3>5. NothingUnnamed(p)'
      BY <2>4 DEF ListItems, ExportInv, NothingUnnamed, NothingMissed, NothingForeign, TempIsFresh, Here, ExportTypeOK
    <3>3. NothingForeign(p)'
      BY <2>4 DEF ListItems, ExportInv, NothingForeign, TempIsFresh, Gathered, ExportTypeOK
    <3>4. TempIsFresh(p)'
      BY <2>4 DEF ListItems, ExportInv, TempIsFresh, ExportTypeOK
    <3> QED BY <3>1, <3>2, <3>3, <3>4, <3>5 DEF ExportInv
  <2>5. ASSUME NEW p \in Exporters, NEW i \in Items, AddJar(p, i) PROVE ExportInv'
    <3>1. \A q \in Exporters \ {p} : NothingMissed(q)' /\ NothingUnnamed(q)' /\ NothingForeign(q)' /\ TempIsFresh(q)'
      BY <2>5, OthersKeep DEF AddJar, Collects, Describes, ExportTypeOK
    <3>6. /\ doing[p] = "jars" /\ i \in todo[p] /\ todo'[p] = todo[p] \ {i} /\ i \in ever[p]
          /\ UNCHANGED <<entries, jars, configs, doing, format, kept, ever, stale>>
      BY <2>5 DEF AddJar, ExportInv, NothingForeign, ExportTypeOK
    <3>7. /\ \A z : Held(p, z, Gathered(p)) => Held(p, z, Gathered(p))'
          /\ Gathered(p)' \subseteq Gathered(p) \cup {i}
          /\ format[p] = "ympk" => archive[p] \subseteq archive'[p]
          /\ i \in kept[p] => Held(p, i, Gathered(p))' /\ (format[p] = "ympk" => i \in archive'[p])
      <4>1. CASE i \in jars
        BY <2>5, <3>6, <4>1, CollectsHolds DEF AddJar
      <4>2. CASE i \notin jars
        <5>1. UNCHANGED <<temp, archive>> /\ i \notin kept[p]
          BY <2>5, <4>2 DEF AddJar, ExportInv, NothingMissed, Here, ExportTypeOK
        <5> QED BY <3>6, <5>1 DEF Gathered, Held
      <4> QED BY <4>1, <4>2
    <3>8. /\ index[p] \subseteq index'[p] /\ index'[p] \subseteq index[p] \cup {i}
          /\ i \in kept[p] /\ format[p] = "ympk" => i \in index'[p]
      BY <2>5 DEF AddJar, Describes, ExportInv, NothingMissed, Here, ExportTypeOK
    <3>2. NothingMissed(p)'
      BY <3>6, <3>7 DEF ExportInv, NothingMissed, Here
    <3>5. NothingUnnamed(p)'
      BY <3>6, <3>8 DEF ExportInv, NothingUnnamed
    <3>3. NothingForeign(p)'
      BY <3>6, <3>7, <3>8 DEF ExportInv, NothingForeign
    <3>4. TempIsFresh(p)'
      BY <2>5, <3>6 DEF AddJar, Collects, ExportInv, TempIsFresh, ExportTypeOK
    <3> QED BY <3>1, <3>2, <3>3, <3>4, <3>5 DEF ExportInv
  <2>6. ASSUME NEW p \in Exporters, ListConfigs(p) PROVE ExportInv'
    <3>1. \A q \in Exporters \ {p} : NothingMissed(q)' /\ NothingUnnamed(q)' /\ NothingForeign(q)' /\ TempIsFresh(q)'
      BY <2>6, OthersKeep DEF ListConfigs, ExportTypeOK
    <3>2. NothingMissed(p)'
      BY <2>6 DEF ListConfigs, ExportInv, NothingMissed, NothingForeign, TempIsFresh, Gathered, Held, Here, ExportTypeOK
    <3>5. NothingUnnamed(p)'
      BY <2>6 DEF ListConfigs, ExportInv, NothingUnnamed, NothingMissed, NothingForeign, TempIsFresh, Here, ExportTypeOK
    <3>3. NothingForeign(p)'
      BY <2>6 DEF ListConfigs, ExportInv, NothingForeign, TempIsFresh, Gathered, ExportTypeOK
    <3>4. TempIsFresh(p)'
      BY <2>6 DEF ListConfigs, ExportInv, TempIsFresh, ExportTypeOK
    <3> QED BY <3>1, <3>2, <3>3, <3>4, <3>5 DEF ExportInv
  <2>7. ASSUME NEW p \in Exporters, NEW c \in Configs, AddConfig(p, c) PROVE ExportInv'
    <3>1. \A q \in Exporters \ {p} : NothingMissed(q)' /\ NothingUnnamed(q)' /\ NothingForeign(q)' /\ TempIsFresh(q)'
      BY <2>7, OthersKeep DEF AddConfig, Collects, ExportTypeOK
    <3>6. /\ doing[p] = "configs" /\ c \in todo[p] /\ todo'[p] = todo[p] \ {c} /\ c \in ever[p]
          /\ UNCHANGED <<entries, jars, configs, doing, format, kept, ever, stale>>
      BY <2>7 DEF AddConfig, ExportInv, NothingForeign, ExportTypeOK
    <3>7. /\ \A z : Held(p, z, Gathered(p)) => Held(p, z, Gathered(p))'
          /\ Gathered(p)' \subseteq Gathered(p) \cup {c}
          /\ Held(p, c, Gathered(p))'
          /\ format[p] = "ympk" => archive'[p] = archive[p] \cup {c}
      BY <2>7, <3>6, CollectsHolds DEF AddConfig
    <3>8. index' = index
      BY <2>7 DEF AddConfig
    <3>2. NothingMissed(p)'
      BY <3>6, <3>7 DEF ExportInv, NothingMissed, Here
    <3>5. NothingUnnamed(p)'
      BY <3>6, <3>8 DEF ExportInv, NothingUnnamed
    <3>3. NothingForeign(p)'
      BY <3>6, <3>7, <3>8 DEF ExportInv, NothingForeign
    <3>4. TempIsFresh(p)'
      BY <2>7, <3>6 DEF AddConfig, Collects, ExportInv, TempIsFresh, ExportTypeOK
    <3> QED BY <3>1, <3>2, <3>3, <3>4, <3>5 DEF ExportInv
  <2>8. ASSUME NEW p \in Exporters, ConfigGone(p) PROVE ExportInv'
    <3>1. \A q \in Exporters \ {p} : NothingMissed(q)' /\ NothingUnnamed(q)' /\ NothingForeign(q)' /\ TempIsFresh(q)'
      BY <2>8, OthersKeep DEF ConfigGone, ExportTypeOK
    <3>2. NothingMissed(p)'
      BY <2>8 DEF ConfigGone, ExportInv, NothingMissed, NothingForeign, TempIsFresh, Gathered, Held, Here, ExportTypeOK
    <3>5. NothingUnnamed(p)'
      BY <2>8 DEF ConfigGone, ExportInv, NothingUnnamed, NothingMissed, NothingForeign, TempIsFresh, Here, ExportTypeOK
    <3>3. NothingForeign(p)'
      BY <2>8 DEF ConfigGone, ExportInv, NothingForeign, TempIsFresh, Gathered, ExportTypeOK
    <3>4. TempIsFresh(p)'
      <4>1. stale'[p] = (stale[p] \/ format[p] = "mrpack")
        BY <2>8 DEF ConfigGone, ExportTypeOK
      <4>2. doing'[p] = "idle" /\ format' = format /\ temp' = temp
        BY <2>8 DEF ConfigGone, ExportTypeOK
      <4>3. format[p] = "ympk" => stale[p] \/ temp[p] = {None}
        BY DEF ExportInv, TempIsFresh
      <4>4. format[p] \in {"ympk", "mrpack"}
        BY DEF ExportTypeOK
      <4>5. stale'[p] \/ temp[p] = {None}
        BY <4>1, <4>3, <4>4
      <4> QED BY <4>2, <4>5 DEF TempIsFresh
    <3> QED BY <3>1, <3>2, <3>3, <3>4, <3>5 DEF ExportInv
  <2>9. ASSUME NEW p \in Exporters, FinishYmpk(p) PROVE ExportInv'
    <3>1. \A q \in Exporters \ {p} : NothingMissed(q)' /\ NothingUnnamed(q)' /\ NothingForeign(q)' /\ TempIsFresh(q)'
      BY <2>9, OthersKeep DEF FinishYmpk, ExportTypeOK
    <3>2. NothingMissed(p)'
      BY <2>9 DEF FinishYmpk, ExportInv, NothingMissed, NothingForeign, TempIsFresh, Gathered, Held, Here, ExportTypeOK
    <3>5. NothingUnnamed(p)'
      BY <2>9 DEF FinishYmpk, ExportInv, NothingUnnamed, NothingMissed, NothingForeign, TempIsFresh, Here, ExportTypeOK
    <3>3. NothingForeign(p)'
      BY <2>9 DEF FinishYmpk, ExportInv, NothingForeign, TempIsFresh, Gathered, ExportTypeOK
    <3>4. TempIsFresh(p)'
      BY <2>9 DEF FinishYmpk, ExportInv, TempIsFresh, ExportTypeOK
    <3> QED BY <3>1, <3>2, <3>3, <3>4, <3>5 DEF ExportInv
  <2>10. ASSUME NEW p \in Exporters, CreateArchive(p) PROVE ExportInv'
    <3>1. \A q \in Exporters \ {p} : NothingMissed(q)' /\ NothingUnnamed(q)' /\ NothingForeign(q)' /\ TempIsFresh(q)'
      BY <2>10, OthersKeep DEF CreateArchive, ExportTypeOK
    <3>2. NothingMissed(p)'
      BY <2>10 DEF CreateArchive, ExportInv, NothingMissed, NothingForeign, TempIsFresh, Gathered, Held, Here, ExportTypeOK
    <3>5. NothingUnnamed(p)'
      BY <2>10 DEF CreateArchive, ExportInv, NothingUnnamed, NothingMissed, NothingForeign, TempIsFresh, Here, ExportTypeOK
    <3>3. NothingForeign(p)'
      BY <2>10 DEF CreateArchive, ExportInv, NothingForeign, TempIsFresh, Gathered, ExportTypeOK
    <3>4. TempIsFresh(p)'
      BY <2>10 DEF CreateArchive, ExportInv, TempIsFresh, ExportTypeOK
    <3> QED BY <3>1, <3>2, <3>3, <3>4, <3>5 DEF ExportInv
  <2>11. ASSUME NEW p \in Exporters, CleanTemp(p) PROVE ExportInv'
    <3>1. \A q \in Exporters \ {p} : NothingMissed(q)' /\ NothingUnnamed(q)' /\ NothingForeign(q)' /\ TempIsFresh(q)'
      BY <2>11, OthersKeep DEF CleanTemp, ExportTypeOK
    <3>2. NothingMissed(p)'
      BY <2>11 DEF CleanTemp, ExportInv, NothingMissed, NothingForeign, TempIsFresh, Gathered, Held, Here, ExportTypeOK
    <3>5. NothingUnnamed(p)'
      BY <2>11 DEF CleanTemp, ExportInv, NothingUnnamed, NothingMissed, NothingForeign, TempIsFresh, Here, ExportTypeOK
    <3>3. NothingForeign(p)'
      BY <2>11 DEF CleanTemp, ExportInv, NothingForeign, TempIsFresh, Gathered, ExportTypeOK
    <3>4. TempIsFresh(p)'
      BY <2>11 DEF CleanTemp, ExportInv, TempIsFresh, ExportTypeOK
    <3> QED BY <3>1, <3>2, <3>3, <3>4, <3>5 DEF ExportInv
  <2>12. ASSUME NEW p \in Exporters, Leave(p) PROVE ExportInv'
    <3>1. \A q \in Exporters \ {p} : NothingMissed(q)' /\ NothingUnnamed(q)' /\ NothingForeign(q)' /\ TempIsFresh(q)'
      BY <2>12, OthersKeep DEF Leave, ExportTypeOK
    <3>2. NothingMissed(p)'
      BY <2>12 DEF Leave, ExportInv, NothingMissed, NothingForeign, TempIsFresh, Gathered, Held, Here, ExportTypeOK
    <3>5. NothingUnnamed(p)'
      BY <2>12 DEF Leave, ExportInv, NothingUnnamed, NothingMissed, NothingForeign, TempIsFresh, Here, ExportTypeOK
    <3>3. NothingForeign(p)'
      BY <2>12 DEF Leave, ExportInv, NothingForeign, TempIsFresh, Gathered, ExportTypeOK
    <3>4. TempIsFresh(p)'
      BY <2>12 DEF Leave, ExportInv, TempIsFresh, ExportTypeOK
    <3> QED BY <3>1, <3>2, <3>3, <3>4, <3>5 DEF ExportInv
  <2>13. ASSUME NEW p \in Exporters, ExportFails(p) PROVE ExportInv'
    <3>1. \A q \in Exporters \ {p} : NothingMissed(q)' /\ NothingUnnamed(q)' /\ NothingForeign(q)' /\ TempIsFresh(q)'
      BY <2>13, OthersKeep DEF ExportFails, ExportTypeOK
    <3>2. NothingMissed(p)'
      BY <2>13 DEF ExportFails, ExportInv, NothingMissed, NothingForeign, TempIsFresh, Gathered, Held, Here, ExportTypeOK
    <3>5. NothingUnnamed(p)'
      BY <2>13 DEF ExportFails, ExportInv, NothingUnnamed, NothingMissed, NothingForeign, TempIsFresh, Here, ExportTypeOK
    <3>3. NothingForeign(p)'
      BY <2>13 DEF ExportFails, ExportInv, NothingForeign, TempIsFresh, Gathered, ExportTypeOK
    <3>4. TempIsFresh(p)'
      <4>1. stale'[p] = (stale[p] \/ temp[p] # {None})
        BY <2>13 DEF ExportFails, ExportTypeOK
      <4>2. doing'[p] = "idle" /\ temp' = temp
        BY <2>13 DEF ExportFails, ExportTypeOK
      <4>3. stale'[p] \/ temp'[p] = {None}
        BY <4>1, <4>2
      <4> QED BY <4>2, <4>3 DEF TempIsFresh
    <3> QED BY <3>1, <3>2, <3>3, <3>4, <3>5 DEF ExportInv
  <2>14. ASSUME NEW i \in Items, AddEntry(i) \/ RemoveEntry(i) \/ EvictJar(i) PROVE ExportInv'
    BY <2>14, EditKeeps DEF AddEntry, RemoveEntry, EvictJar
  <2>15. ASSUME NEW c \in Configs, EditConfig(c) PROVE ExportInv'
    BY <2>15, EditKeeps DEF EditConfig
  <2>16. CASE ForgetVersions
    BY <2>16, EditKeeps DEF ForgetVersions
  <2>17. ASSUME NEW p \in Exporters, NEW i \in Items, JarClashes(p, i) PROVE ExportInv'
    <3>1. \A q \in Exporters \ {p} : NothingMissed(q)' /\ NothingUnnamed(q)' /\ NothingForeign(q)' /\ TempIsFresh(q)'
      BY <2>17, OthersKeep DEF JarClashes, Describes, ExportTypeOK
    <3>2. /\ format[p] = "ympk" /\ doing'[p] = "idle"
          /\ UNCHANGED <<entries, jars, configs, format, temp, stale, kept>>
      BY <2>17 DEF JarClashes, Clashes, ExportTypeOK
    <3>3. NothingMissed(p)' /\ NothingUnnamed(p)'
      BY <3>2 DEF ExportInv, NothingMissed, NothingUnnamed, Here
    <3>4. NothingForeign(p)' /\ TempIsFresh(p)'
      BY <3>2 DEF ExportInv, NothingForeign, TempIsFresh
    <3> QED BY <3>1, <3>3, <3>4 DEF ExportInv
  <2>18. CASE UNCHANGED exportVars
    BY <2>18 DEF exportVars, ExportInv, NothingMissed, NothingUnnamed, NothingForeign, TempIsFresh, Gathered, Held, Here
  <2> QED
    BY <2>1, <2>2, <2>3, <2>4, <2>5, <2>6, <2>7, <2>8,
       <2>9, <2>10, <2>11, <2>12, <2>13, <2>14, <2>15, <2>16, <2>17, <2>18 DEF ExportNext
<1> QED BY <1>1, <1>2, ExportTypeCorrect, PTL DEF ExportSpec

\* A finished archive has, at the path of whatever was there all along with its JAR, that
\* thing or, in an mrpack, another of the same path that was there, and nothing that was
\* never there, unless an mrpack was collected in a directory left by an export that
\* failed; the index or the entry.ron files name every such item.
THEOREM ArchiveIsExact == ExportSpec => []ArchiveExact
<1>1. ExportTypeOK /\ ExportInv => ArchiveExact
  BY DEF ExportTypeOK, ExportInv, NothingMissed, NothingUnnamed, NothingForeign, Held, ArchiveExact
<1> QED BY <1>1, ExportTypeCorrect, ExportInvHolds, PTL

HIDE ExportAssumption DEF Formats

-----------------------------------------------------------------------------
(***************************************************************************)
(* The organizer                                                           *)
(***************************************************************************)

USE OrganizeAssumption

OrganizeSpec == OrganizeInit /\ [][OrganizeNext]_organizeVars

Steps == {"idle", "mod", "dest", "remove", "merge", "save"}
OnFile == {"mod", "dest", "remove"}

\* Every variable of the organizers keeps its type, and one on the screen has a file.
OrganizeTypeOK ==
  /\ inRun \in [Sides -> [Rels -> Int]]
  /\ placed \in [Dests -> [Rels -> Int]]
  /\ ignored \in [Sides -> SUBSET Rels] \cup {Torn}
  /\ at \in [Users -> Steps]
  /\ side \in [Users -> Sides]
  /\ loaded \in [Users -> [Sides -> SUBSET Rels]]
  /\ list \in [Users -> Seq(Rels)]
  /\ idx \in [Users -> Nat \ {0}]
  /\ newly \in [Users -> SUBSET Rels]
  /\ latest \in Nat
  /\ clobbered \in SUBSET Int
  /\ chosen \in [Sides -> SUBSET Rels]
  /\ calm \in BOOLEAN
  /\ runs \in Nat /\ kills \in Nat
  /\ \A u \in Users : at[u] = "idle" => idx[u] = 1
  /\ \A u \in Users : at[u] \in OnFile => idx[u] <= Len(list[u])

\* While none ran beside another, the one that runs has read all that was ever chosen, and
\* only its save has the file torn.
CalmInv ==
  calm =>
    /\ \A u, v \in Users : at[u] # "idle" /\ at[v] # "idle" => u = v
    /\ \A u \in Users : at[u] # "idle" => \A s \in Sides : chosen[s] \subseteq loaded[u][s]
    /\ IgnoresKept

OrganizeInv == OrganizeTypeOK /\ CalmInv /\ NoVersionLost

\* The orphans are listed in a sequence as long as they are many.
LEMMA ListedOrphans ==
  ASSUME NEW S \in SUBSET Rels
  PROVE  /\ Seqs!SetToSeq(S) \in Seq(Rels)
         /\ S # {} => Len(Seqs!SetToSeq(S)) >= 1
<1>1. IsFiniteSet(S)
  BY FS_Subset
<1>2. Cardinality(S) \in Nat /\ ExistsBijection(1..Cardinality(S), S)
  BY <1>1, FS_CardinalityType
<1>3. \E f \in [1..Cardinality(S) -> S] : Seqs!IsInjective(f)
  BY <1>2 DEF ExistsBijection, Bijection, Injection, Surjection, IsInjective, Seqs!IsInjective
<1>4. Seqs!SetToSeq(S) \in [1..Cardinality(S) -> S]
  <2>1. Seqs!Cardinality(S) = Cardinality(S)
    BY DEF Seqs!Cardinality, Cardinality
  <2>2. QED BY <1>3, <2>1 DEF Seqs!SetToSeq
<1>5. Seqs!SetToSeq(S) \in Seq(S) /\ Len(Seqs!SetToSeq(S)) = Cardinality(S)
  BY <1>2, <1>4
<1>6. S # {} => Cardinality(S) # 0
  BY <1>1, FS_EmptySet
<1>7. QED BY <1>2, <1>5, <1>6

LEMMA OrganizeInitially == OrganizeInit => OrganizeInv
<1> SUFFICES ASSUME OrganizeInit PROVE OrganizeInv
  OBVIOUS
<1>1. latest \in Nat /\ FirstVersions = 1 .. latest
  <2>1. FirstVersions \in SUBSET Nat /\ FirstVersions = 1 .. Cardinality(FirstVersions)
    BY OrganizeNumbering DEF FirstVersions, Sides
  <2>2. latest = Cardinality(FirstVersions)
    BY DEF OrganizeInit
  <2>3. Cardinality(FirstVersions) \in Nat
    <3>1. ASSUME NEW s \in Sides PROVE IsFiniteSet({FirstFiles[s][r] : r \in Rels})
      <4>1. FirstFiles[s] \in Surjection(Rels, {FirstFiles[s][r] : r \in Rels})
        BY DEF Surjection, Sides
      <4>2. QED BY <4>1, FS_Surjection
    <3>2. IsFiniteSet({FirstFiles["client"][r] : r \in Rels})
          /\ IsFiniteSet({FirstFiles["server"][r] : r \in Rels})
      BY <3>1 DEF Sides
    <3>3. IsFiniteSet({FirstFiles["client"][r] : r \in Rels}
                        \cup {FirstFiles["server"][r] : r \in Rels})
      BY <3>2, FS_Union
    <3>4. FirstVersions \in SUBSET ({FirstFiles["client"][r] : r \in Rels}
                        \cup {FirstFiles["server"][r] : r \in Rels})
      BY DEF FirstVersions, Sides
    <3>5. IsFiniteSet(FirstVersions)
      BY <3>3, <3>4, FS_Subset
    <3>6. QED BY <3>5, FS_CardinalityType
  <2>4. QED BY <2>1, <2>2, <2>3
<1>2. OrganizeTypeOK
  BY <1>1 DEF OrganizeInit, OrganizeTypeOK, NoIgnores, Sides, Dests, Common, Fallback,
     NoFile, Steps, OnFile
<1>3. CalmInv
  BY DEF OrganizeInit, CalmInv, IgnoresKept, NoIgnores, Torn, Sides
<1>4. NoVersionLost
  <2>1. \A v \in 1 .. latest : \E s \in Sides, r \in Rels : FirstFiles[s][r] = v
    BY <1>1 DEF FirstVersions
  <2>2. QED BY <2>1 DEF OrganizeInit, NoVersionLost
<1>5. QED BY <1>2, <1>3, <1>4 DEF OrganizeInv

\* One place of a table of tables.
LEMMA TableUpdate ==
  ASSUME NEW A, NEW B, NEW V, NEW f \in [A -> [B -> V]], NEW a \in A, NEW b \in B, NEW v \in V
  PROVE  /\ [f EXCEPT ![a][b] = v] \in [A -> [B -> V]]
         /\ \A x \in A, y \in B :
              [f EXCEPT ![a][b] = v][x][y] = IF x = a /\ y = b THEN v ELSE f[x][y]
OBVIOUS

\* A file on the screen is a file name.
LEMMA CurrentName ==
  ASSUME OrganizeTypeOK, NEW u \in Users, at[u] \in OnFile
  PROVE  Current(u) \in Rels /\ side[u] \in Sides /\ Source(u) \in Int
<1>1. list[u] \in Seq(Rels) /\ idx[u] \in 1 .. Len(list[u])
  BY DEF OrganizeTypeOK
<1>2. Current(u) \in Rels
  BY <1>1 DEF Current
<1>3. QED BY <1>2 DEF OrganizeTypeOK, Source

\* Going on to the next file, or off the screen.
LEMMA AdvanceType ==
  ASSUME OrganizeTypeOK, NEW u \in Users, at[u] \in OnFile, Advance(u), ListRests
  PROVE  /\ at' \in [Users -> Steps]
         /\ idx' \in [Users -> Nat \ {0}]
         /\ UNCHANGED <<side, loaded, list>>
         /\ \A v \in Users : at'[v] = "idle" => idx'[v] = 1
         /\ \A v \in Users : at'[v] \in OnFile => idx'[v] <= Len(list'[v])
         /\ at'[u] \in {"mod", "merge"}
         /\ \A v \in Users \ {u} : at'[v] = at[v]
<1>1. list[u] \in Seq(Rels) /\ Len(list[u]) \in Nat /\ idx[u] \in Nat \ {0}
  BY DEF OrganizeTypeOK
<1>2. at' = [at EXCEPT ![u] = IF idx[u] < Len(list[u]) THEN "mod" ELSE "merge"]
  BY DEF Advance, Go
<1>3. /\ at' \in [Users -> Steps] /\ at'[u] \in {"mod", "merge"}
      /\ \A v \in Users \ {u} : at'[v] = at[v]
      /\ at'[u] = "mod" => idx[u] < Len(list[u])
  BY <1>2 DEF OrganizeTypeOK, Steps
<1>4. /\ idx' \in [Users -> Nat \ {0}] /\ idx'[u] = idx[u] + 1
      /\ \A v \in Users \ {u} : idx'[v] = idx[v]
      /\ UNCHANGED <<side, loaded, list>>
  BY <1>1 DEF OrganizeTypeOK, Advance, ListRests
<1>5. \A v \in Users : at'[v] = "idle" => idx'[v] = 1
  BY <1>3, <1>4 DEF OrganizeTypeOK
<1>6. \A v \in Users : at'[v] \in OnFile => idx'[v] <= Len(list'[v])
  <2>1. \A v \in Users \ {u} : at'[v] \in OnFile => idx'[v] <= Len(list'[v])
    BY <1>3, <1>4 DEF OrganizeTypeOK
  <2>2. at'[u] \in OnFile => idx[u] + 1 <= Len(list[u])
    BY <1>1, <1>3 DEF OnFile
  <2>3. QED BY <1>4, <2>1, <2>2
<1>7. QED BY <1>3, <1>4, <1>5, <1>6

\* The command has ended.
LEMMA EndsType ==
  ASSUME OrganizeTypeOK, NEW u \in Users, Ends(u)
  PROVE  /\ at' \in [Users -> Steps] /\ side' \in [Users -> Sides]
         /\ loaded' \in [Users -> [Sides -> SUBSET Rels]]
         /\ list' \in [Users -> Seq(Rels)]
         /\ idx' \in [Users -> Nat \ {0}]
         /\ newly' \in [Users -> SUBSET Rels]
         /\ \A v \in Users : at'[v] = "idle" => idx'[v] = 1
         /\ \A v \in Users : at'[v] \in OnFile => idx'[v] <= Len(list'[v])
         /\ at'[u] = "idle"
         /\ \A v \in Users \ {u} : at'[v] = at[v] /\ loaded'[v] = loaded[v]
<1>1. NoIgnores \in [Sides -> SUBSET Rels] /\ <<>> \in Seq(Rels)
  BY DEF NoIgnores
<1>2. QED BY <1>1 DEF OrganizeTypeOK, Ends, Go, Steps, OnFile, Sides

LEMMA MergedType ==
  ASSUME OrganizeTypeOK, NEW u \in Users
  PROVE  /\ Merged(u) \in [Sides -> SUBSET Rels]
         /\ \A s \in Sides : loaded[u][s] \subseteq Merged(u)[s]
<1>1. loaded[u] \in [Sides -> SUBSET Rels] /\ newly[u] \in SUBSET Rels /\ side[u] \in Sides
  BY DEF OrganizeTypeOK
<1>2. QED BY <1>1 DEF Merged

\* The lists are no torn file.
LEMMA ListsNotTorn == \A f \in [Sides -> SUBSET Rels] : f # Torn
<1> SUFFICES ASSUME NEW f \in [Sides -> SUBSET Rels], f = Torn PROVE FALSE
  OBVIOUS
<1>1. "client" \in DOMAIN f /\ DOMAIN Torn = {"torn"}
  BY DEF Sides, Torn
<1>2. QED BY <1>1

LEMMA OrganizeTypeStep == OrganizeTypeOK /\ [OrganizeNext]_organizeVars => OrganizeTypeOK'
<1> SUFFICES ASSUME OrganizeTypeOK, [OrganizeNext]_organizeVars PROVE OrganizeTypeOK'
  OBVIOUS
<1> USE DEF ignores, session, NotPlaced, trees, lastly, BoundsRest
<1>1. ASSUME NEW s \in Sides, NEW r \in Rels, GameSaves(s, r) PROVE OrganizeTypeOK'
  <2>1. inRun' \in [Sides -> [Rels -> Int]] /\ clobbered' \in SUBSET Int /\ latest' \in Nat
    <3>1. latest + 1 \in Int /\ latest + 1 \in Nat /\ inRun \in [Sides -> [Rels -> Int]]
      BY DEF OrganizeTypeOK
    <3>2. inRun' = [inRun EXCEPT ![s][r] = latest + 1] /\ latest' = latest + 1
      BY <1>1 DEF GameSaves
    <3>3. inRun' \in [Sides -> [Rels -> Int]]
      BY <3>1, <3>2, TableUpdate
    <3>4. inRun[s][r] \in Int
      BY <3>1
    <3>5. QED BY <1>1, <3>1, <3>2, <3>3, <3>4 DEF GameSaves, OrganizeTypeOK
  <2>2. QED BY <1>1, <2>1 DEF GameSaves, OrganizeTypeOK
<1>2. ASSUME NEW u \in Users, NEW s \in Sides, StartOrganize(u, s) PROVE OrganizeTypeOK'
  <2>1. calm' \in BOOLEAN /\ runs' \in Nat
    BY <1>2 DEF StartOrganize, OrganizeTypeOK
  <2>2. CASE Orphans(s) = {}
    BY <1>2, <2>1, <2>2 DEF StartOrganize, OrganizeTypeOK
  <2>3. CASE Orphans(s) # {}
    <3>1. /\ Seqs!SetToSeq(Orphans(s)) \in Seq(Rels)
          /\ Len(Seqs!SetToSeq(Orphans(s))) >= 1
      BY <2>3, ListedOrphans DEF Orphans
    <3>2. IgnoreLists \in [Sides -> SUBSET Rels]
      BY DEF IgnoreLists, OrganizeTypeOK, NoIgnores
    <3>3. at[u] = "idle" /\ idx[u] = 1
      BY <1>2 DEF StartOrganize, OrganizeTypeOK
    <3>4. /\ at' = [at EXCEPT ![u] = "mod"]
          /\ list' = [list EXCEPT ![u] = Seqs!SetToSeq(Orphans(s))]
          /\ side' = [side EXCEPT ![u] = s]
          /\ loaded' = [loaded EXCEPT ![u] = IgnoreLists]
          /\ UNCHANGED <<inRun, placed, ignored, chosen, latest, clobbered, idx, newly, kills>>
      BY <1>2, <2>3 DEF StartOrganize, Go
    <3>5. /\ at' \in [Users -> Steps] /\ list' \in [Users -> Seq(Rels)]
          /\ side' \in [Users -> Sides] /\ loaded' \in [Users -> [Sides -> SUBSET Rels]]
      BY <3>1, <3>2, <3>4 DEF OrganizeTypeOK, Steps
    <3>6. \A v \in Users : at'[v] = "idle" => idx'[v] = 1
      BY <3>4 DEF OrganizeTypeOK
    <3>7. \A v \in Users : at'[v] \in OnFile => idx'[v] <= Len(list'[v])
      BY <3>1, <3>3, <3>4 DEF OrganizeTypeOK
    <3>8. QED BY <2>1, <3>4, <3>5, <3>6, <3>7 DEF OrganizeTypeOK
  <2>4. QED BY <2>2, <2>3
<1>3. ASSUME NEW u \in Users, SelectMod(u) \/ CancelDest(u) \/ Quit(u) \/ SaveOpens(u)
      PROVE  OrganizeTypeOK'
  <2>1. /\ at' \in [Users -> Steps]
        /\ at'[u] \notin {"idle"}
        /\ at'[u] \in OnFile => at[u] \in OnFile
        /\ \A v \in Users \ {u} : at'[v] = at[v]
        /\ UNCHANGED <<side, loaded, list, idx, newly>>
    BY <1>3 DEF SelectMod, CancelDest, Quit, SaveOpens, Go, OrganizeTypeOK, Steps, OnFile,
       ListRests
  <2>2. ignored' \in [Sides -> SUBSET Rels] \cup {Torn}
    BY <1>3 DEF SelectMod, CancelDest, Quit, SaveOpens, OrganizeTypeOK
  <2>3. UNCHANGED <<inRun, placed, latest, clobbered, chosen, calm, runs, kills>>
    BY <1>3 DEF SelectMod, CancelDest, Quit, SaveOpens
  <2>4. QED BY <2>1, <2>2, <2>3 DEF OrganizeTypeOK
<1>4. ASSUME NEW u \in Users, SkipConfig(u) \/ Ignore(u) PROVE OrganizeTypeOK'
  <2>1. at[u] \in OnFile /\ Advance(u) /\ ListRests
    BY <1>4 DEF SkipConfig, Ignore, OnFile
  <2>2. newly' \in [Users -> SUBSET Rels]
    <3>1. Current(u) \in Rels
      BY <2>1, CurrentName
    <3>2. newly' = newly \/ newly' = [newly EXCEPT ![u] = @ \cup {Current(u)}]
      BY <1>4 DEF SkipConfig, Ignore
    <3>3. newly \in [Users -> SUBSET Rels] /\ newly[u] \cup {Current(u)} \in SUBSET Rels
      BY <3>1 DEF OrganizeTypeOK
    <3>4. QED BY <3>2, <3>3
  <2>3. UNCHANGED <<inRun, placed, latest, clobbered, ignored, chosen, calm, runs, kills>>
    BY <1>4 DEF SkipConfig, Ignore
  <2>4. QED BY <2>1, <2>2, <2>3, AdvanceType DEF OrganizeTypeOK
<1>5. ASSUME NEW u \in Users, AssignCopy(u) PROVE OrganizeTypeOK'
  <2>1. at[u] = "dest" /\ Current(u) \in Rels /\ Source(u) \in Int
    BY <1>5, CurrentName DEF AssignCopy, OnFile
  <2>2. PICK d \in Destinations(u) :
          /\ placed' = [placed EXCEPT ![d][Current(u)] = Source(u)]
          /\ clobbered' = clobbered \cup ({placed[d][Current(u)]} \ {NoFile, Source(u)})
    BY <1>5 DEF AssignCopy
  <2>3. d \in Dests
    BY DEF Destinations, Dests, OrganizeTypeOK
  <2>4. placed' \in [Dests -> [Rels -> Int]] /\ clobbered' \in SUBSET Int
    <3>1. placed \in [Dests -> [Rels -> Int]] /\ placed[d][Current(u)] \in Int
      BY <2>1, <2>3 DEF OrganizeTypeOK
    <3>2. placed' \in [Dests -> [Rels -> Int]]
      BY <2>1, <2>2, <2>3, <3>1, TableUpdate
    <3>3. QED BY <2>2, <3>1, <3>2 DEF OrganizeTypeOK
  <2>5. /\ at' = [at EXCEPT ![u] = "remove"]
        /\ UNCHANGED <<inRun, latest, ignored, chosen, calm, side, loaded, list, idx, newly,
                       runs, kills>>
    BY <1>5 DEF AssignCopy, Go, ListRests
  <2>6. QED BY <2>1, <2>4, <2>5 DEF OrganizeTypeOK, Steps, OnFile
<1>6. ASSUME NEW u \in Users, AssignRemove(u) PROVE OrganizeTypeOK'
  <2>1. /\ at[u] \in OnFile /\ Current(u) \in Rels /\ Source(u) \in Int
        /\ Advance(u) /\ ListRests
    BY <1>6, CurrentName DEF AssignRemove, OnFile
  <2>2. inRun' \in [Sides -> [Rels -> Int]] /\ clobbered' \in SUBSET Int
    <3>1. inRun \in [Sides -> [Rels -> Int]] /\ side[u] \in Sides /\ NoFile \in Int
      BY DEF OrganizeTypeOK, NoFile
    <3>2. inRun' = [inRun EXCEPT ![side[u]][Current(u)] = NoFile]
      BY <1>6 DEF AssignRemove
    <3>3. inRun' \in [Sides -> [Rels -> Int]]
      BY <2>1, <3>1, <3>2, TableUpdate
    <3>4. clobbered' \subseteq clobbered \cup {Source(u)}
      BY <1>6 DEF AssignRemove
    <3>5. QED BY <2>1, <3>3, <3>4 DEF OrganizeTypeOK
  <2>3. UNCHANGED <<placed, latest, ignored, chosen, calm, newly, runs, kills>>
    BY <1>6 DEF AssignRemove
  <2>4. QED BY <2>1, <2>2, <2>3, AdvanceType DEF OrganizeTypeOK
<1>7. ASSUME NEW u \in Users, AssignFails(u) PROVE OrganizeTypeOK'
  <2>1. at[u] \in OnFile /\ Current(u) \in Rels /\ Advance(u) /\ ListRests
    BY <1>7, CurrentName DEF AssignFails, OnFile
  <2>2. placed' \in [Dests -> [Rels -> Int]] /\ clobbered' \in SUBSET Int
    <3>1. ASSUME NEW d \in Destinations(u),
                 placed' = [placed EXCEPT ![d][Current(u)] = Part],
                 clobbered' = clobbered \cup ({placed[d][Current(u)]} \ {NoFile, Part})
          PROVE  placed' \in [Dests -> [Rels -> Int]] /\ clobbered' \in SUBSET Int
      <4>1. d \in Dests
        BY DEF Destinations, Dests, OrganizeTypeOK
      <4>2. placed \in [Dests -> [Rels -> Int]] /\ placed[d][Current(u)] \in Int /\ Part \in Int
        BY <2>1, <4>1 DEF OrganizeTypeOK, Part
      <4>3. placed' \in [Dests -> [Rels -> Int]]
        BY <2>1, <3>1, <4>1, <4>2, TableUpdate
      <4>4. QED BY <3>1, <4>2, <4>3 DEF OrganizeTypeOK
    <3>2. QED BY <1>7, <3>1 DEF AssignFails, OrganizeTypeOK
  <2>3. UNCHANGED <<inRun, latest, ignored, chosen, calm, newly, runs, kills>>
    BY <1>7 DEF AssignFails
  <2>4. QED BY <2>1, <2>2, <2>3, AdvanceType DEF OrganizeTypeOK
<1>8. ASSUME NEW u \in Users, SaveIgnored(u) PROVE OrganizeTypeOK'
  <2>1. ignored' \in [Sides -> SUBSET Rels] /\ chosen' \in [Sides -> SUBSET Rels]
    BY <1>8, MergedType DEF SaveIgnored, Written, OrganizeTypeOK
  <2>2. Ends(u) /\ UNCHANGED <<inRun, placed, latest, clobbered, calm, runs, kills>>
    BY <1>8 DEF SaveIgnored
  <2>3. QED BY <2>1, <2>2, EndsType DEF OrganizeTypeOK
<1>9. ASSUME NEW u \in Users, SaveFails(u) \/ KillOrganizer(u) PROVE OrganizeTypeOK'
  <2>1. Ends(u) /\ UNCHANGED <<inRun, placed, latest, clobbered, ignored, chosen, runs>>
    BY <1>9 DEF SaveFails, KillOrganizer
  <2>2. calm' \in BOOLEAN /\ kills' \in Nat
    <3>1. calm' \in BOOLEAN
      BY <1>9 DEF SaveFails, KillOrganizer
    <3>2. kills' = kills \/ kills' = kills + 1
      BY <1>9 DEF SaveFails, KillOrganizer
    <3>3. QED BY <3>1, <3>2 DEF OrganizeTypeOK
  <2>3. QED BY <2>1, <2>2, EndsType DEF OrganizeTypeOK
<1>10. CASE UNCHANGED organizeVars
  BY <1>10 DEF organizeVars, OrganizeTypeOK
<1>11. QED
  BY <1>1, <1>2, <1>3, <1>4, <1>5, <1>6, <1>7, <1>8, <1>9, <1>10 DEF OrganizeNext

\* No step takes the last copy of a version, but into clobbered.
LEMMA VersionStep ==
  ASSUME OrganizeTypeOK, NoVersionLost, [OrganizeNext]_organizeVars
  PROVE  NoVersionLost'
<1> USE DEF ignores, session, NotPlaced, trees, lastly, BoundsRest
<1>1. CASE UNCHANGED <<inRun, placed, latest, clobbered>>
  BY <1>1 DEF NoVersionLost
<1>2. ASSUME NEW s \in Sides, NEW r \in Rels, GameSaves(s, r) PROVE NoVersionLost'
  <2>1. /\ inRun \in [Sides -> [Rels -> Int]] /\ latest \in Nat /\ latest + 1 \in Int
        /\ latest' = latest + 1 /\ placed' = placed
        /\ inRun' = [inRun EXCEPT ![s][r] = latest + 1]
        /\ clobbered' = clobbered \cup ({inRun[s][r]} \ {NoFile})
    BY <1>2 DEF OrganizeTypeOK, GameSaves
  <2>2. \A x \in Sides, y \in Rels :
          inRun'[x][y] = IF x = s /\ y = r THEN latest + 1 ELSE inRun[x][y]
    <3>1. \A x \in Sides, y \in Rels :
            [inRun EXCEPT ![s][r] = latest + 1][x][y]
              = IF x = s /\ y = r THEN latest + 1 ELSE inRun[x][y]
      BY <2>1
    <3>2. QED BY <2>1, <3>1
  <2>3. ASSUME NEW v \in 1 .. latest'
        PROVE  \/ v \in clobbered'
               \/ \E x \in Sides, y \in Rels : inRun'[x][y] = v
               \/ \E d \in Dests, y \in Rels : placed'[d][y] = v
    <3>1. CASE v = latest + 1
      BY <2>2, <3>1
    <3>2. CASE v \in 1 .. latest
      <4>1. CASE v \in clobbered \/ \E d \in Dests, y \in Rels : placed[d][y] = v
        BY <2>1, <4>1
      <4>2. ASSUME NEW x \in Sides, NEW y \in Rels, inRun[x][y] = v
            PROVE  v \in clobbered' \/ inRun'[x][y] = v
        BY <2>1, <2>2, <3>2, <4>2 DEF NoFile
      <4>3. QED BY <3>2, <4>1, <4>2 DEF NoVersionLost
    <3>3. QED BY <2>1, <3>1, <3>2
  <2>4. QED BY <2>3 DEF NoVersionLost
<1>3. ASSUME NEW u \in Users, NEW d \in Dests, NEW w \in Int, Current(u) \in Rels,
             placed' = [placed EXCEPT ![d][Current(u)] = w],
             clobbered' = clobbered \cup ({placed[d][Current(u)]} \ {NoFile, w}),
             UNCHANGED <<inRun, latest>>
      PROVE  NoVersionLost'
  <2>1. placed \in [Dests -> [Rels -> Int]] /\ latest \in Nat
    BY DEF OrganizeTypeOK
  <2>2. \A x \in Dests, y \in Rels :
          placed'[x][y] = IF x = d /\ y = Current(u) THEN w ELSE placed[x][y]
    <3>1. \A x \in Dests, y \in Rels :
            [placed EXCEPT ![d][Current(u)] = w][x][y]
              = IF x = d /\ y = Current(u) THEN w ELSE placed[x][y]
      BY <1>3, <2>1
    <3>2. QED BY <1>3, <3>1
  <2>3. ASSUME NEW v \in 1 .. latest
        PROVE  \/ v \in clobbered'
               \/ \E x \in Sides, y \in Rels : inRun[x][y] = v
               \/ \E x \in Dests, y \in Rels : placed'[x][y] = v
    <3>1. CASE v \in clobbered \/ \E x \in Sides, y \in Rels : inRun[x][y] = v
      BY <1>3, <3>1
    <3>2. ASSUME NEW x \in Dests, NEW y \in Rels, placed[x][y] = v
          PROVE  v \in clobbered' \/ \E a \in Dests, b \in Rels : placed'[a][b] = v
      <4>1. CASE x = d /\ y = Current(u) /\ v # w
        BY <1>3, <2>1, <3>2, <4>1 DEF NoFile
      <4>2. CASE ~(x = d /\ y = Current(u) /\ v # w)
        BY <2>2, <3>2, <4>2
      <4>3. QED BY <4>1, <4>2
    <3>3. QED BY <3>1, <3>2 DEF NoVersionLost
  <2>4. QED BY <1>3, <2>3 DEF NoVersionLost
<1>4. ASSUME NEW u \in Users, AssignCopy(u) PROVE NoVersionLost'
  <2>1. Current(u) \in Rels /\ Source(u) \in Int
    BY <1>4, CurrentName DEF AssignCopy, OnFile
  <2>2. \A d \in Destinations(u) : d \in Dests
    BY DEF Destinations, Dests, OrganizeTypeOK
  <2>3. QED BY <1>3, <1>4, <2>1, <2>2 DEF AssignCopy
<1>5. ASSUME NEW u \in Users, AssignRemove(u) PROVE NoVersionLost'
  <2>1. /\ Current(u) \in Rels /\ Source(u) \in Int /\ side[u] \in Sides
        /\ inRun \in [Sides -> [Rels -> Int]] /\ NoFile \in Int
    BY <1>5, CurrentName DEF AssignRemove, OnFile, OrganizeTypeOK, NoFile
  <2>2. /\ UNCHANGED <<placed, latest>>
        /\ inRun' = [inRun EXCEPT ![side[u]][Current(u)] = NoFile]
        /\ clobbered' = clobbered \cup ({Source(u)} \ {placed[d][Current(u)] : d \in Dests})
    BY <1>5 DEF AssignRemove
  <2>3. \A x \in Sides, y \in Rels :
          inRun'[x][y] = IF x = side[u] /\ y = Current(u) THEN NoFile ELSE inRun[x][y]
    <3>1. \A x \in Sides, y \in Rels :
            [inRun EXCEPT ![side[u]][Current(u)] = NoFile][x][y] =
              IF x = side[u] /\ y = Current(u) THEN NoFile ELSE inRun[x][y]
      BY <2>1
    <3>2. QED BY <2>2, <3>1
  <2>4. ASSUME NEW v \in 1 .. latest
        PROVE  \/ v \in clobbered'
               \/ \E x \in Sides, y \in Rels : inRun'[x][y] = v
               \/ \E d \in Dests, y \in Rels : placed'[d][y] = v
    <3>1. CASE v \in clobbered \/ \E d \in Dests, y \in Rels : placed[d][y] = v
      BY <2>2, <3>1
    <3>2. ASSUME NEW x \in Sides, NEW y \in Rels, inRun[x][y] = v
          PROVE  \/ v \in clobbered' \/ inRun'[x][y] = v
                 \/ \E d \in Dests, z \in Rels : placed'[d][z] = v
      <4>1. CASE x = side[u] /\ y = Current(u)
        <5>1. Source(u) = v
          BY <3>2, <4>1 DEF Source
        <5>2. QED BY <2>1, <2>2, <5>1
      <4>2. CASE ~(x = side[u] /\ y = Current(u))
        BY <2>3, <3>2, <4>2
      <4>3. QED BY <4>1, <4>2
    <3>3. QED BY <3>1, <3>2 DEF NoVersionLost
  <2>5. QED BY <2>2, <2>4 DEF NoVersionLost
<1>6. ASSUME NEW u \in Users, AssignFails(u) PROVE NoVersionLost'
  <2>1. Current(u) \in Rels /\ Part \in Int
    BY <1>6, CurrentName DEF AssignFails, OnFile, Part
  <2>2. \A d \in Destinations(u) : d \in Dests
    BY DEF Destinations, Dests, OrganizeTypeOK
  <2>3. QED BY <1>1, <1>3, <1>6, <2>1, <2>2 DEF AssignFails
<1>7. CASE UNCHANGED organizeVars
  BY <1>1, <1>7 DEF organizeVars
<1>8. ASSUME NEW u \in Users,
             \/ \E s \in Sides : StartOrganize(u, s)
             \/ SelectMod(u) \/ CancelDest(u) \/ SkipConfig(u) \/ Quit(u) \/ Ignore(u)
             \/ SaveOpens(u) \/ SaveIgnored(u) \/ SaveFails(u) \/ KillOrganizer(u)
      PROVE  NoVersionLost'
  BY <1>1, <1>8 DEF StartOrganize, SelectMod, CancelDest, SkipConfig, Quit, Ignore, SaveOpens,
     SaveIgnored, SaveFails, KillOrganizer
<1>9. QED BY <1>2, <1>4, <1>5, <1>6, <1>7, <1>8 DEF OrganizeNext

\* While none runs beside another the lists only grow.
LEMMA CalmStep ==
  ASSUME OrganizeTypeOK, CalmInv, [OrganizeNext]_organizeVars
  PROVE  CalmInv'
<1> USE DEF ignores, session, NotPlaced, trees, lastly, BoundsRest
<1>1. CASE UNCHANGED <<ignored, chosen, calm, at, loaded>>
  BY <1>1 DEF CalmInv, IgnoresKept
<1>2. ASSUME NEW u \in Users, NEW s \in Sides, StartOrganize(u, s) PROVE CalmInv'
  <2>1. SUFFICES ASSUME calm' PROVE CalmInv'
    BY DEF CalmInv
  <2>2. /\ calm /\ at[u] = "idle" /\ \A v \in Users \ {u} : at[v] = "idle"
        /\ UNCHANGED <<ignored, chosen>>
    BY <1>2, <2>1 DEF StartOrganize
  <2>3. ignored # Torn /\ \A x \in Sides : chosen[x] \subseteq ignored[x]
    BY <2>2 DEF CalmInv, IgnoresKept
  <2>4. CASE Orphans(s) = {}
    BY <1>2, <2>2, <2>4 DEF StartOrganize, CalmInv, IgnoresKept
  <2>5. CASE Orphans(s) # {}
    <3>1. /\ at' = [at EXCEPT ![u] = "mod"]
          /\ loaded' = [loaded EXCEPT ![u] = ignored]
      BY <1>2, <2>3, <2>5 DEF StartOrganize, Go, IgnoreLists
    <3>2. loaded'[u] = ignored /\ \A v \in Users \ {u} : at'[v] = "idle"
      BY <2>2, <3>1 DEF OrganizeTypeOK
    <3>3. QED BY <2>2, <2>3, <3>2 DEF CalmInv, IgnoresKept
  <2>6. QED BY <2>4, <2>5
<1>3. ASSUME NEW u \in Users,
             at[u] \in OnFile, at'[u] # "idle", \A v \in Users \ {u} : at'[v] = at[v],
             UNCHANGED <<ignored, chosen, calm, loaded>>
      PROVE  CalmInv'
  <2>1. at[u] \notin {"idle", "save"}
    BY <1>3 DEF OnFile
  <2>2. \A v \in Users : at[v] = "idle" <=> at'[v] = "idle"
    BY <1>3, <2>1
  <2>3. \A v \in Users : at[v] = "save" => at'[v] = "save"
    BY <1>3, <2>1
  <2>4. QED BY <1>3, <2>2, <2>3 DEF CalmInv, IgnoresKept
<1>4. ASSUME NEW u \in Users, SelectMod(u) \/ CancelDest(u) \/ Quit(u) PROVE CalmInv'
  BY <1>3, <1>4 DEF SelectMod, CancelDest, Quit, Go, OnFile, ListRests, OrganizeTypeOK
<1>5. ASSUME NEW u \in Users,
             SkipConfig(u) \/ Ignore(u) \/ AssignRemove(u) \/ AssignFails(u)
      PROVE  CalmInv'
  <2>1. /\ at[u] \in OnFile /\ Advance(u) /\ ListRests /\ UNCHANGED <<ignored, chosen, calm>>
    BY <1>5 DEF SkipConfig, Ignore, AssignRemove, AssignFails, OnFile
  <2>2. /\ UNCHANGED loaded /\ at'[u] \in {"mod", "merge"}
        /\ \A v \in Users \ {u} : at'[v] = at[v]
    BY <2>1, AdvanceType
  <2>3. QED BY <1>3, <2>1, <2>2
<1>6. ASSUME NEW u \in Users, AssignCopy(u) PROVE CalmInv'
  BY <1>3, <1>6 DEF AssignCopy, Go, OnFile, ListRests, OrganizeTypeOK
<1>7. ASSUME NEW u \in Users, SaveOpens(u) PROVE CalmInv'
  <2>1. /\ at[u] = "merge" /\ at' = [at EXCEPT ![u] = "save"] /\ ignored' = Torn
        /\ UNCHANGED <<chosen, calm, loaded>>
    BY <1>7 DEF SaveOpens, Go
  <2>2. at'[u] = "save" /\ \A v \in Users : at[v] = "idle" <=> at'[v] = "idle"
    BY <2>1 DEF OrganizeTypeOK
  <2>3. QED BY <2>1, <2>2 DEF CalmInv, IgnoresKept
<1>8. ASSUME NEW u \in Users, SaveIgnored(u) PROVE CalmInv'
  <2>1. SUFFICES ASSUME calm PROVE CalmInv'
    BY <1>8 DEF SaveIgnored, CalmInv
  <2>2. /\ at[u] = "save" /\ Ends(u) /\ ignored' = Merged(u)
        /\ chosen' = [s \in Sides |-> chosen[s] \cup Merged(u)[s]] /\ calm' = calm
    BY <1>8 DEF SaveIgnored, Written
  <2>3. \A s \in Sides : chosen[s] \subseteq Merged(u)[s]
    BY <2>1, <2>2, MergedType DEF CalmInv
  <2>4. \A v \in Users : at'[v] = "idle"
    <3>1. \A v \in Users \ {u} : at[v] = "idle"
      BY <2>1, <2>2 DEF CalmInv
    <3>2. QED BY <2>2, <3>1, EndsType
  <2>5. ignored' # Torn
    BY <2>2, MergedType, ListsNotTorn
  <2>6. \A s \in Sides : chosen'[s] \subseteq ignored'[s]
    BY <2>2, <2>3
  <2>7. QED BY <2>4, <2>5, <2>6 DEF CalmInv, IgnoresKept
<1>9. ASSUME NEW u \in Users, SaveFails(u) \/ KillOrganizer(u) PROVE CalmInv'
  <2>1. SUFFICES ASSUME calm' PROVE CalmInv'
    BY DEF CalmInv
  <2>2. calm /\ at[u] \notin {"idle", "save"} /\ Ends(u) /\ UNCHANGED <<ignored, chosen>>
    BY <1>9, <2>1 DEF SaveFails, KillOrganizer
  <2>3. \A v \in Users \ {u} : at[v] = "idle"
    BY <2>2 DEF CalmInv
  <2>4. \A v \in Users : at'[v] = "idle"
    BY <2>2, <2>3, EndsType
  <2>5. ignored # Torn /\ \A s \in Sides : chosen[s] \subseteq ignored[s]
    BY <2>2, <2>3 DEF CalmInv, IgnoresKept
  <2>6. QED BY <2>2, <2>4, <2>5 DEF CalmInv, IgnoresKept
<1>10. ASSUME NEW s \in Sides, NEW r \in Rels, GameSaves(s, r) PROVE CalmInv'
  BY <1>1, <1>10 DEF GameSaves
<1>11. CASE UNCHANGED organizeVars
  BY <1>1, <1>11 DEF organizeVars
<1>12. QED
  BY <1>2, <1>4, <1>5, <1>6, <1>7, <1>8, <1>9, <1>10, <1>11 DEF OrganizeNext

THEOREM OrganizeInvariance == OrganizeSpec => []OrganizeInv
<1>1. OrganizeInv /\ [OrganizeNext]_organizeVars => OrganizeInv'
  BY OrganizeTypeStep, CalmStep, VersionStep DEF OrganizeInv
<1>2. QED BY OrganizeInitially, <1>1, PTL DEF OrganizeSpec

\* Every version of a configuration is somewhere, however many organizers run, fail or are
\* killed beside a game that writes, but for what was written over.
THEOREM VersionsSurvive == OrganizeSpec => []NoVersionLost
<1>1. OrganizeInv => NoVersionLost
  BY DEF OrganizeInv
<1>2. QED BY <1>1, OrganizeInvariance, PTL

\* While organizers run one at a time and none ends in its save, the ignore lists of both
\* sides keep every name, and only a running save has the file unreadable.
THEOREM IgnoresSurvive == OrganizeSpec => []IgnoresKept
<1>1. OrganizeInv => IgnoresKept
  BY DEF OrganizeInv, CalmInv, IgnoresKept
<1>2. QED BY <1>1, OrganizeInvariance, PTL
=============================================================================
