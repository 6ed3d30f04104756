------------------------------ MODULE Organize ------------------------------
(***************************************************************************)
(* `organize` (commands/organize/): the user goes through the files the    *)
(* game has left in a run directory and moves each to a mod's common or    *)
(* side-specific configuration or to config/, ignores it, or skips it.     *)
(* The game and a second organizer may run at the same time.               *)
(*                                                                         *)
(* A file is its name below the run directory and the number of its        *)
(* version; all are assigned to one mod, whichever the filter finds.       *)
(***************************************************************************)
EXTENDS Integers, Sequences, FiniteSets

Seqs == INSTANCE SequencesExt

CONSTANTS
  Users,      \* the organizers that may run
  Rels,       \* file names
  FirstFiles, \* FirstFiles[s][r]: the version of r first in the run directory of s
  MaxVersion, \* bound on what the game writes
  MaxRuns, MaxKills

ASSUME OrganizeAssumption ==
  /\ IsFiniteSet(Users) /\ IsFiniteSet(Rels)
  /\ FirstFiles \in [{"client", "server"} -> [Rels -> Nat]]
  /\ {MaxVersion, MaxRuns, MaxKills} \subseteq Nat

Sides == {"client", "server"}
NoFile == 0

\* The versions are numbered from 1 as they are written.
FirstVersions == {FirstFiles[s][r] : s \in Sides, r \in Rels} \ {NoFile}
ASSUME OrganizeNumbering == FirstVersions = 1 .. Cardinality(FirstVersions)
Part == -1  \* what a copy that fails leaves

VARIABLES
  inRun,     \* inRun[s][r]: the version of r in the run directory of side s
  placed,    \* placed[d][r]: the version of r in the destination d
  ignored,   \* ignored_configs.ron: the names of each side, or Torn
  at,        \* what each organizer is doing
  side,      \* its --client or --server
  loaded,    \* the ignore lists it has read
  list,      \* its orphan configs, sorted
  idx,       \* current_idx
  newly,     \* ignored_new
  latest,    \* history: the version written last
  clobbered, \* history: versions written over, or removed with an older one's copy
  chosen,    \* history: what has been in the lists that were saved
  calm,      \* history: no organizer ran beside another, or ended in its save
  runs, kills

\* The destinations of dest_options; "client" and "server" are the mod's own.
Common == "common"
Fallback == "config"
Dests == {Common, Fallback} \cup Sides
Torn == [torn |-> TRUE]
NoIgnores == [s \in Sides |-> {}]

trees == <<inRun, placed>>
session == <<side, loaded, list, idx, newly>>
lastly == <<latest, clobbered>>
ignores == <<ignored, chosen, calm>>
organizeVars == <<trees, ignores, at, session, lastly, runs, kills>>

OrganizeInit ==
  /\ inRun = FirstFiles
  /\ latest = Cardinality(FirstVersions)
  /\ placed = [d \in Dests |-> [r \in Rels |-> NoFile]]
  /\ ignored = NoIgnores
  /\ at = [u \in Users |-> "idle"]
  /\ side = [u \in Users |-> "client"]
  /\ loaded = [u \in Users |-> NoIgnores]
  /\ list = [u \in Users |-> <<>>]
  /\ idx = [u \in Users |-> 1]
  /\ newly = [u \in Users |-> {}]
  /\ clobbered = {}
  /\ chosen = NoIgnores /\ calm = TRUE
  /\ runs = 0 /\ kills = 0

Go(u, step) == at' = [at EXCEPT ![u] = step]
Current(u) == list[u][idx[u]]
ListRests == UNCHANGED <<side, loaded, list>>
NotPlaced == UNCHANGED <<trees, lastly>>

\* The command has ended.
Ends(u) ==
  /\ Go(u, "idle")
  /\ side' = [side EXCEPT ![u] = "client"]
  /\ loaded' = [loaded EXCEPT ![u] = NoIgnores]
  /\ list' = [list EXCEPT ![u] = <<>>]
  /\ idx' = [idx EXCEPT ![u] = 1]
  /\ newly' = [newly EXCEPT ![u] = {}]
BoundsRest == UNCHANGED <<runs, kills>>

\* load_ignored_configs: a file that cannot be parsed counts as none.
IgnoreLists == IF ignored = Torn THEN NoIgnores ELSE ignored

\* find_orphan_configs: regular files that are not ignored.
Orphans(s) == {r \in Rels : inRun[s][r] # NoFile /\ r \notin IgnoreLists[s]}

\* OrganizeCommand::run.  Without an orphan the command ends and saves nothing.
StartOrganize(u, s) ==
  /\ at[u] = "idle" /\ runs < MaxRuns /\ runs' = runs + 1
  /\ calm' = (calm /\ \A v \in Users \ {u} : at[v] = "idle")
  /\ IF Orphans(s) = {} THEN UNCHANGED <<at, session>>
     ELSE /\ Go(u, "mod")
          /\ list' = [list EXCEPT ![u] = Seqs!SetToSeq(Orphans(s))]
          /\ side' = [side EXCEPT ![u] = s]
          /\ loaded' = [loaded EXCEPT ![u] = IgnoreLists]
          /\ UNCHANGED <<idx, newly>>
  /\ UNCHANGED <<ignored, chosen, kills>> /\ NotPlaced

----------------------------------------------------------------------------
(* The screen *)

\* advance: the next file, or the end of the screen.
Advance(u) ==
  /\ idx' = [idx EXCEPT ![u] = @ + 1]
  /\ Go(u, IF idx[u] < Len(list[u]) THEN "mod" ELSE "merge")

\* Enter on a mod the filter shows; the list of destinations opens.
SelectMod(u) ==
  /\ at[u] = "mod" /\ Go(u, "dest")
  /\ UNCHANGED <<ignores, session>> /\ NotPlaced /\ BoundsRest

CancelDest(u) ==
  /\ at[u] = "dest" /\ Go(u, "mod")
  /\ UNCHANGED <<ignores, session>> /\ NotPlaced /\ BoundsRest

SkipConfig(u) ==
  /\ at[u] = "mod" /\ Advance(u)
  /\ UNCHANGED <<ignores, newly>> /\ ListRests /\ NotPlaced /\ BoundsRest

\* q with an empty query: the rest is skipped.
Quit(u) ==
  /\ at[u] = "mod" /\ Go(u, "merge")
  /\ UNCHANGED <<ignores, idx, newly>>
  /\ ListRests /\ NotPlaced /\ BoundsRest

Ignore(u) ==
  /\ at[u] = "dest" /\ Advance(u)
  /\ newly' = [newly EXCEPT ![u] = @ \cup {Current(u)}]
  /\ UNCHANGED ignores /\ ListRests /\ NotPlaced /\ BoundsRest

----------------------------------------------------------------------------
(* assign_config *)

Source(u) == inRun[side[u]][Current(u)]
Destinations(u) == {Common, side[u], Fallback}

\* Mistake: the file is renamed away first and written afterwards.
AssignCopyLater(u) ==
  /\ at[u] = "dest" /\ Source(u) # NoFile
  /\ inRun' = [inRun EXCEPT ![side[u]][Current(u)] = NoFile]
  /\ Go(u, "remove")
  /\ UNCHANGED <<ignores, placed, lastly, idx, newly>>
  /\ ListRests /\ BoundsRest

\* What is there now is copied, over a file of the same name in the destination,
AssignCopy(u) ==
  /\ at[u] = "dest" /\ Source(u) # NoFile
  /\ \E d \in Destinations(u) :
       /\ placed' = [placed EXCEPT ![d][Current(u)] = Source(u)]
       /\ clobbered' = clobbered \cup ({placed[d][Current(u)]} \ {NoFile, Source(u)})
  /\ Go(u, "remove")
  /\ UNCHANGED <<ignores, inRun, latest, idx, newly>>
  /\ ListRests /\ BoundsRest

\* and removed, whatever it has become in between.
AssignRemove(u) ==
  /\ at[u] = "remove" /\ Source(u) # NoFile
  /\ inRun' = [inRun EXCEPT ![side[u]][Current(u)] = NoFile]
  /\ clobbered' = clobbered \cup ({Source(u)} \ {placed[d][Current(u)] : d \in Dests})
  /\ Advance(u)
  /\ UNCHANGED <<ignores, placed, latest, newly>> /\ ListRests /\ BoundsRest

\* A directory, the removal or the copy fails, which may have begun, or the file has
\* gone: the error is shown.
AssignFails(u) ==
  /\ at[u] \in {"dest", "remove"} /\ Advance(u)
  /\ \/ placed' = placed /\ clobbered' = clobbered
     \/ /\ at[u] = "dest" /\ Source(u) # NoFile
        /\ \E d \in Destinations(u) :
             /\ placed' = [placed EXCEPT ![d][Current(u)] = Part]
             /\ clobbered' = clobbered \cup ({placed[d][Current(u)]} \ {NoFile, Part})
  /\ UNCHANGED <<ignores, inRun, latest, newly>> /\ ListRests /\ BoundsRest

----------------------------------------------------------------------------
(* After the screen: the new names join the lists read at the start *)

Merged(u) == [loaded[u] EXCEPT ![side[u]] = @ \cup newly[u]]

\* save_ignored_configs opens the file, which empties it,
SaveOpens(u) ==
  /\ at[u] = "merge" /\ ignored' = Torn /\ Go(u, "save")
  /\ UNCHANGED <<chosen, calm, session>> /\ NotPlaced /\ BoundsRest

Written(lists) ==
  /\ ignored' = lists
  /\ chosen' = [s \in Sides |-> chosen[s] \cup lists[s]]

\* Mistake: the list of the other side is not written.
SaveIgnoredOneSide(u) ==
  /\ at[u] = "save" /\ Ends(u)
  /\ Written([NoIgnores EXCEPT ![side[u]] = Merged(u)[side[u]]])
  /\ UNCHANGED calm /\ NotPlaced /\ BoundsRest

\* and writes it.
SaveIgnored(u) ==
  /\ at[u] = "save" /\ Ends(u)
  /\ Written(Merged(u))
  /\ UNCHANGED calm /\ NotPlaced /\ BoundsRest

\* The file cannot be opened or written: no summary is shown.
SaveFails(u) ==
  /\ at[u] \in {"merge", "save"} /\ Ends(u)
  /\ calm' = (calm /\ at[u] = "merge")
  /\ UNCHANGED <<ignored, chosen>> /\ NotPlaced /\ BoundsRest

----------------------------------------------------------------------------
GameSaves(s, r) ==
  /\ latest < MaxVersion /\ latest' = latest + 1
  /\ inRun' = [inRun EXCEPT ![s][r] = latest']
  /\ clobbered' = clobbered \cup ({inRun[s][r]} \ {NoFile})
  /\ UNCHANGED <<placed, ignores, at, session>> /\ BoundsRest

KillOrganizer(u) ==
  /\ at[u] # "idle" /\ kills < MaxKills /\ kills' = kills + 1
  /\ Ends(u)
  /\ calm' = (calm /\ at[u] # "save")
  /\ UNCHANGED <<ignored, chosen, runs>> /\ NotPlaced

OrganizeNext ==
  \/ \E s \in Sides, r \in Rels : GameSaves(s, r)
  \/ \E u \in Users :
       \/ \E s \in Sides : StartOrganize(u, s)
       \/ SelectMod(u) \/ CancelDest(u) \/ SkipConfig(u) \/ Quit(u) \/ Ignore(u)
       \/ AssignCopy(u) \/ AssignRemove(u) \/ AssignFails(u)
       \/ SaveOpens(u) \/ SaveIgnored(u) \/ SaveFails(u) \/ KillOrganizer(u)

----------------------------------------------------------------------------
\* assign_config: a version the game or the user wrote is in the run directory
\* or in a destination, whatever fails, is killed or runs at the same time, but for
\* one that another was written over, or that was written between the copy of an
\* older one and its removal.
NoVersionLost ==
  \A v \in 1 .. latest :
    \/ v \in clobbered
    \/ \E s \in Sides, r \in Rels : inRun[s][r] = v
    \/ \E d \in Dests, r \in Rels : placed[d][r] = v

\* load_ignored_configs, save_ignored_configs: a name that was in a saved list,
\* of either side, stays there, and the file can be read, unless an organizer
\* ran beside another or ended in its save.
IgnoresKept ==
  calm => /\ ignored = Torn => \E u \in Users : at[u] = "save"
          /\ ignored # Torn => \A s \in Sides : chosen[s] \subseteq ignored[s]
=============================================================================
