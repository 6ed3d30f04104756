------------------------------ MODULE Workspace ------------------------------
(***************************************************************************)
(* The files every command reads before it runs (app.rs): the global       *)
(* config.toml, which `config` edits, and the modpack.toml found from the  *)
(* directory at hand, which `init` creates together with a README.  A      *)
(* command that cannot read one of them ends there, whichever it is.       *)
(*                                                                         *)
(* Both files are saved as `<name>.tmp`, then renamed; two writers of one  *)
(* file share that name, so an open handle follows its inode.  The user    *)
(* edits files by hand; a process may be killed, the power may fail.       *)
(*                                                                         *)
(* Abstracted: what a manifest holds beside the game and the loader's      *)
(* version; all but one path and one number of the settings; the fsync of  *)
(* config.toml and of its directory is one step with the rename            *)
(* (AtomicWrite has them apart); prompts and JSON output.                  *)
(***************************************************************************)
EXTENDS Integers, Sequences, FiniteSets
SeqOps == INSTANCE SequencesExt

CONSTANTS
  Procs,
  Dirs,       \* project directories
  Above,      \* Above[d]: the nearest project directory above d, or NoDir
  NoDir,
  Games,      \* Minecraft versions <<major, minor, patch>> a user asks for
  Published,  \* loader versions, in the order of the metadata
  MaxCommands, MaxHand, MaxStops  \* bounds on commands, edits by hand, kills and power failures

Loaders == {"fabric", "quilt", "forge", "neoforge"}
Config == "config.toml"
Paths == Dirs \cup {Config}
ConfigKeys == {"cache_dir", "cache_max_size_mb"}
Values == {"5", "word"}
Defaults == [k \in ConfigKeys |-> "unset"]

\* Not one of the game's versions: the argument of `init -V ""`.
NoGame == <<>>
\* The loader version an init leaves out or takes from a flag: none it has fetched.
NoVersion == <<>>

WorkspaceAssumption ==
  /\ Above \in [Dirs -> Dirs \cup {NoDir}]
  /\ NoDir \notin Dirs /\ Config \notin Dirs
  /\ Games \subseteq Nat \X Nat \X Nat
  /\ \A i \in DOMAIN Published :
       /\ Published[i].loader \in Loaders
       /\ Published[i].stability \in 0..2
       /\ Published[i].build \in Nat
  /\ {MaxCommands, MaxHand, MaxStops} \subseteq Nat
ASSUME WorkspaceAssumption

Absent == [is |-> "absent"]
Partial == [is |-> "torn"]      \* a part of the text; it may parse, as less than was written
Broken == [is |-> "broken"]  \* text that does not parse
Settings(s) == [is |-> "settings", keys |-> s]
Manifest(g, v) == [is |-> "manifest", game |-> g, version |-> v]
EmptyManifest == [is |-> "empty"]

\* ModpackManifest::validate lets a manifest without any field pass.
Valid(c) == \/ c.is \in {"settings", "empty"}
            \/ c.is = "manifest" /\ c.game # NoGame

VARIABLES
  file,      \* file[f]: config.toml, and the modpack.toml of each directory
  tmp,       \* tmp[f]: the temporary file beside it
  unsynced,  \* directories whose modpack.toml was written since the last sync
  made,      \* directories that exist
  readme,    \* readme[d]: {} for no README, or {the game it names, or NoGame}
  place,      \* place[p]: where process p is
  base,      \* base[p]: the settings p loaded
  job,       \* job[p]: the file p saves, what it puts there, where its handle is
  asked,     \* (history) asked[f]: what commands and edits asked f to hold
  since,     \* (history) since[p]: what others have saved or edited since p started
  blame,     \* (history) blame[f]: why f may be otherwise
  left       \* commands, edits by hand and stops left

workspaceVars ==
  <<file, tmp, unsynced, made, readme, place, base, job, since, asked, blame, left>>
disk == <<file, tmp, unsynced, made, readme>>
history == <<asked, blame>>

NoJob == [path |-> Config, new |-> Absent, change |-> Absent, fd |-> "none"]

WorkspaceInit ==
  /\ file = [f \in Paths |-> Absent]
  /\ tmp = [f \in Paths |-> Absent]
  /\ unsynced = {}
  /\ made = {d \in Dirs : Above[d] = NoDir}
  /\ readme = [d \in Dirs |-> {}]
  /\ place = [p \in Procs |-> "idle"]
  /\ base = [p \in Procs |-> Defaults]
  /\ job = [p \in Procs |-> NoJob]
  /\ asked = file
  /\ since = [p \in Procs |-> {}]
  /\ blame = [f \in Paths |-> {}]
  /\ left = [commands |-> MaxCommands, hand |-> MaxHand, stops |-> MaxStops]

----------------------------------------------------------------------------
\* What every command does first.

Goto(p, to) == place' = [place EXCEPT ![p] = to]
Rest(p) == Goto(p, "idle") /\ base' = [base EXCEPT ![p] = Defaults]
End(p) == /\ Rest(p)
          /\ job' = [job EXCEPT ![p] = NoJob]
          /\ since' = [since EXCEPT ![p] = {}]

\* (history) Everyone at work but those in `by` has missed a change of f.
Missed(f, by) ==
  since' = [p \in Procs |-> IF p \in by \/ place[p] = "idle" THEN {} ELSE since[p] \cup {f}]

\* What GlobalConfig::load may return; nothing when it fails.
Loaded ==
  CASE file[Config].is = "settings" -> {file[Config].keys}
    [] file[Config].is \in {"absent", "torn"} -> {Defaults}
    [] OTHER -> {}

StartCommand(p) ==
  /\ place[p] = "idle"
  /\ left.commands > 0
  /\ left' = [left EXCEPT !.commands = @ - 1]
  /\ \E s \in Loaded : base' = [base EXCEPT ![p] = s]
  /\ Goto(p, "search")
  /\ UNCHANGED <<disk, job, since, history>>

\* Where a manifest is looked for. --config and YAMMM_MODPACK may name any project
\* directory, the latter one that is not there; a walk up from the working directory
\* ends at one with a manifest or where it began, and adds none to these.
Candidates == Dirs

\* App::load of the candidate's manifest, if it has one.
FindModpack(p) ==
  /\ place[p] = "search"
  /\ \E d \in Candidates :
       IF file[d] = Absent \/ file[d] = Partial \/ Valid(file[d])
       THEN Goto(p, "run") /\ UNCHANGED <<base, job, since>>
       ELSE End(p)
  /\ UNCHANGED <<disk, history, left>>

----------------------------------------------------------------------------
\* `config`

Parses(k, v) == k = "cache_max_size_mb" => v # "word"

Save(p, path, new, change) ==
  /\ job' = [job EXCEPT ![p] = [path |-> path, new |-> new, change |-> change, fd |-> "none"]]
  /\ Goto(p, "open")

ConfigSet(p) ==
  /\ place[p] = "run"
  /\ \E k \in ConfigKeys, v \in Values :
       IF Parses(k, v)
       THEN /\ Save(p, Config, Settings([base[p] EXCEPT ![k] = v]), Settings([x \in {k} |-> v]))
            /\ UNCHANGED <<base, since>>
       ELSE End(p)
  /\ UNCHANGED <<disk, history, left>>

\* The confirmation may be declined, and --json refuses the command.
ConfigReset(p) ==
  /\ place[p] = "run"
  /\ \/ Save(p, Config, Settings(Defaults), Settings(Defaults)) /\ UNCHANGED <<base, since>>
     \/ End(p)
  /\ UNCHANGED <<disk, history, left>>

\* What a human may write, in an editor of his own or that of `config edit`.
ByHand(f) == IF f = Config THEN {Broken, Settings(Defaults)}
             ELSE {Broken, EmptyManifest} \cup {Manifest(g, NoVersion) : g \in Games}

EditText(f) ==
  /\ left.hand > 0
  /\ left' = [left EXCEPT !.hand = @ - 1]
  /\ \E c \in ByHand(f) :
       file' = [file EXCEPT ![f] = c] /\ asked' = [asked EXCEPT ![f] = c]
  /\ UNCHANGED <<tmp, unsynced, made, readme, blame>>

ConfigEdit(p) ==
  /\ place[p] = "run"
  /\ EditText(Config)
  /\ Missed(Config, {p})
  /\ Rest(p)
  /\ UNCHANGED job

HandEdit(f) ==
  /\ f = Config \/ f \in made
  /\ EditText(f)
  /\ Missed(f, {})
  /\ UNCHANGED <<place, base, job>>

----------------------------------------------------------------------------
\* `init`

Before(a, b) ==
  \E i \in DOMAIN b : /\ \A j \in 1 .. i - 1 : j \in DOMAIN a /\ a[j] = b[j]
                      /\ i \notin DOMAIN a \/ a[i] < b[i]

\* mc_to_neoforge_version_prefix; the empty game is a prefix of every version.
NeoPrefix(g) == CASE g = NoGame -> <<>>
                  [] g # NoGame /\ g[1] # 1 -> g
                  [] OTHER -> IF g[3] > 0 THEN <<g[2], g[3]>> ELSE <<g[2]>>

\* The versions each client keeps of what it is sent for game g: the metadata of
\* Fabric and Quilt is asked for by game, that of Forge and NeoForge is filtered.
Offered(l, g) ==
  SelectSeq(Published, LAMBDA v :
    v.loader = l /\ IF l = "neoforge" THEN SeqOps!IsPrefix(NeoPrefix(g), v.number) ELSE v.game = g)

Firsts(s) == IF s = <<>> THEN {} ELSE {s[1]}

\* get_latest_loader_version of Fabric and of Quilt, get_latest_version of Forge, and
\* that of NeoForge, which ranks stable over beta over alpha before the numbers.
FabricLatest(s) == Firsts(SelectSeq(s, LAMBDA v : v.stability = 2) \o s)
QuiltLatest(s) == Firsts(SelectSeq(s, LAMBDA v : v.build = 0) \o s)
ForgeLatest(s) == Firsts(SeqOps!Reverse(s))
NeoForgeLatest(s) ==
  {v \in SeqOps!ToSet(s) :
     \A w \in SeqOps!ToSet(s) : ~ Before(<<v.stability>> \o v.number, <<w.stability>> \o w.number)}

\* fetch_loader_version_for; nothing when none is found.
Latest(l, g) ==
  CASE l = "fabric"   -> FabricLatest(Offered(l, g))
    [] l = "quilt"    -> QuiltLatest(Offered(l, g))
    [] l = "forge"    -> ForgeLatest(Offered(l, g))
    [] l = "neoforge" -> NeoForgeLatest(Offered(l, g))

\* What the prompts may answer: the prompt for the game refuses "", the flag does
\* not; a loader's version is fetched when neither a flag names it nor --json
\* or other flags switch the prompts off.
GamesGiven == Games \cup {NoGame}
LoaderVersions(g) ==
  {NoVersion} \cup {v.number : v \in UNION {Latest(l, g) : l \in Loaders}}
InitInfo ==
  UNION {{[game |-> g, version |-> v] : v \in LoaderVersions(g)} : g \in GamesGiven}

\* create_dir_all makes the whole path to output_dir.
Upwards(d) ==
  {e \in Dirs : \A S \in SUBSET Dirs :
     d \in S /\ (\A x \in S : Above[x] \in S \cup {NoDir}) => e \in S}

InitDirs(p) ==
  /\ place[p] = "run"
  /\ \E d \in Dirs, info \in InitInfo :
       /\ job' = [job EXCEPT ![p] = [path |-> d, new |-> Manifest(info.game, info.version),
                                     change |-> Manifest(info.game, info.version),
                                     fd |-> "none"]]
       /\ made' = made \cup Upwards(d)
  /\ Goto(p, "check")
  /\ UNCHANGED <<file, tmp, unsynced, readme, base, since, history, left>>

\* `config get` and `config show`, every command that writes none of these files, and
\* one that is refused: by --json, by a flag that does not parse, by a prompt.
OtherCommand(p) ==
  /\ place[p] = "run"
  /\ End(p)
  /\ UNCHANGED <<disk, history, left>>

\* Mistake: the manifest is written whatever is there.
InitCheckNothing(p) ==
  /\ place[p] = "check"
  /\ Goto(p, "open")
  /\ UNCHANGED <<disk, base, job, since, history, left>>

InitCheck(p) ==
  /\ place[p] = "check"
  /\ LET d == job[p].path IN
       IF file[d] = Absent
       THEN Goto(p, "open") /\ UNCHANGED blame
       ELSE Goto(p, "readme") /\ blame' = [blame EXCEPT ![d] = @ \cup {"skipped"}]
  /\ UNCHANGED <<disk, base, job, since, asked, left>>

\* The manifest is there.  A README is left as it is, and not reached when .gitignore
\* cannot be written; a new one may be cut short before the line that names the game.
InitReadme(p) ==
  /\ place[p] = "readme"
  /\ \/ UNCHANGED readme
     \/ LET d == job[p].path IN
        /\ readme[d] = {}
        /\ \E game \in {NoGame, job[p].new.game} : readme' = [readme EXCEPT ![d] = {game}]
  /\ End(p)
  /\ UNCHANGED <<file, tmp, unsynced, made, history, left>>

----------------------------------------------------------------------------
\* The save of either file.

\* The jobs once the inode of f called `from` goes by the name `to`.
Handles(f, from, to) ==
  [p \in Procs |-> IF job[p].path = f /\ job[p].fd = from
                   THEN [job[p] EXCEPT !.fd = to] ELSE job[p]]

Saving(f) == {p \in Procs : job[p].path = f /\ place[p] \in {"write", "rename"}}

\* Mistake: the file itself is opened, and the rename has nothing to move.
OpenInPlace(p) ==
  /\ place[p] = "open"
  /\ LET f == job[p].path IN
       /\ file' = [file EXCEPT ![f] = Partial]
       /\ tmp' = [tmp EXCEPT ![f] = Partial]
       /\ job' = [job EXCEPT ![p].fd = "tmp"]
  /\ Goto(p, "write")
  /\ UNCHANGED <<unsynced, made, readme, base, since, history, left>>

OpenTmp(p) ==
  /\ place[p] = "open"
  /\ LET f == job[p].path IN
       /\ tmp' = [tmp EXCEPT ![f] = Partial]
       /\ job' = [job EXCEPT ![p].fd = "tmp"]
       /\ blame' = [blame EXCEPT ![f] = IF Saving(f) = {} THEN @ ELSE @ \cup {"shared"}]
  /\ Goto(p, "write")
  /\ UNCHANGED <<file, unsynced, made, readme, base, since, asked, left>>

WriteTmp(p) ==
  /\ place[p] = "write"
  /\ LET f == job[p].path IN
       /\ tmp' = [tmp EXCEPT ![f] = IF job[p].fd = "tmp" THEN job[p].new ELSE @]
       /\ file' = [file EXCEPT ![f] = IF job[p].fd = "file" THEN job[p].new ELSE @]
  /\ Goto(p, "rename")
  /\ UNCHANGED <<unsynced, made, readme, base, job, since, history, left>>

\* Only atomic_write_bytes removes what it could not finish.
WriteFails(p) ==
  /\ place[p] = "write"
  /\ LET f == job[p].path IN
       IF f = Config
       THEN /\ tmp' = [tmp EXCEPT ![f] = Absent]
            /\ job' = [Handles(f, "tmp", "gone") EXCEPT ![p] = NoJob]
       ELSE job' = [job EXCEPT ![p] = NoJob] /\ UNCHANGED tmp
  /\ Rest(p)
  /\ since' = [since EXCEPT ![p] = {}]
  /\ UNCHANGED <<file, unsynced, made, readme, history, left>>

\* (history) What the renamed file should now hold: a setting on top of those
\* already asked for, or a new manifest where there was none.
Wish(p) ==
  LET now == asked[job[p].path] IN
  CASE job[p].path # Config -> IF now = Absent THEN job[p].change ELSE now
    [] job[p].path = Config /\ now.is # "settings" -> job[p].new
    [] OTHER -> Settings([k \in ConfigKeys |-> IF k \in DOMAIN job[p].change.keys
                                         THEN job[p].change.keys[k] ELSE now.keys[k]])

RenameTmp(p) ==
  /\ place[p] = "rename"
  /\ LET f == job[p].path IN
       /\ tmp[f] # Absent
       /\ file' = [file EXCEPT ![f] = tmp[f]]
       /\ tmp' = [tmp EXCEPT ![f] = Absent]
       /\ asked' = [asked EXCEPT ![f] = Wish(p)]
       /\ blame' = [blame EXCEPT ![f] = @ \cup
                    (IF f \in since[p] THEN {"late"} ELSE {}) \cup
                    (IF Valid(job[p].new) THEN {} ELSE {"nogame"})]
       /\ job' = [q \in Procs |->
                    CASE q = p -> IF f = Config THEN NoJob ELSE [job[p] EXCEPT !.fd = "none"]
                      [] q # p /\ job[q].path = f /\ job[q].fd # "none" ->
                           [job[q] EXCEPT !.fd = IF @ = "tmp" THEN "file" ELSE "gone"]
                      [] OTHER -> job[q]]
       /\ Missed(f, {p})
       /\ IF f = Config
          THEN Rest(p) /\ UNCHANGED unsynced
          ELSE Goto(p, "readme") /\ unsynced' = unsynced \cup {f} /\ UNCHANGED base
  /\ UNCHANGED <<made, readme, left>>

\* Another writer of this path has taken the temporary file away.
RenameFails(p) ==
  /\ place[p] = "rename"
  /\ tmp[job[p].path] = Absent
  /\ End(p)
  /\ UNCHANGED <<disk, history, left>>

----------------------------------------------------------------------------
KillCommand(p) ==
  /\ place[p] # "idle"
  /\ left.stops > 0
  /\ left' = [left EXCEPT !.stops = @ - 1]
  /\ End(p)
  /\ UNCHANGED <<disk, history>>

\* modpack.toml is renamed into place without an fsync.
PowerLoss ==
  /\ left.stops > 0
  /\ left' = [left EXCEPT !.stops = @ - 1]
  /\ \E lost \in SUBSET unsynced :
       /\ file' = [f \in Paths |-> IF f \in lost THEN Partial ELSE file[f]]
       /\ blame' = [f \in Paths |-> IF f \in lost THEN blame[f] \cup {"power"} ELSE blame[f]]
  /\ unsynced' = {}
  /\ tmp' = [f \in Paths |-> Absent]
  /\ place' = [p \in Procs |-> "idle"]
  /\ base' = [p \in Procs |-> Defaults]
  /\ job' = [p \in Procs |-> NoJob]
  /\ since' = [p \in Procs |-> {}]
  /\ UNCHANGED <<made, readme, asked>>

WorkspaceNext ==
  \/ \E p \in Procs :
       \/ StartCommand(p) \/ FindModpack(p) \/ OtherCommand(p)
       \/ ConfigSet(p) \/ ConfigReset(p) \/ ConfigEdit(p)
       \/ InitDirs(p) \/ InitCheck(p) \/ InitReadme(p)
       \/ OpenTmp(p) \/ WriteTmp(p) \/ WriteFails(p) \/ RenameTmp(p) \/ RenameFails(p)
       \/ KillCommand(p)
  \/ \E f \in Paths : HandEdit(f)
  \/ PowerLoss

WorkspaceSpec == WorkspaceInit /\ [][WorkspaceNext]_workspaceVars

----------------------------------------------------------------------------
\* No command is refused for a file the program wrote: config.toml and every
\* modpack.toml can be read unless an edit by hand broke it, an init was given the
\* empty game (nogame: `init -V ""`), two commands saved the file at once, or the power failed after
\* an init.  A reader loads both before it runs, `config reset` included.
NeverLockedOut ==
  \A f \in Paths :
    \/ file[f] = Absent \/ Valid(file[f])
    \/ asked[f] = Broken
    \/ {"nogame", "shared", "power"} \cap blame[f] # {}

\* The last word stands: config.toml holds every setting in the order it was made,
\* a modpack.toml what its first init wrote or the user edited, and the README of
\* that init names the same game, unless another save came in between (late or
\* shared), the power failed, or an init found the manifest there and added the
\* README for its own answers.
LastWord ==
  \A f \in Paths : blame[f] \subseteq {"skipped", "nogame"} =>
    /\ file[f] = asked[f]
    /\ f # Config /\ blame[f] = {} /\ left.hand = MaxHand
         => \A game \in readme[f] \ {NoGame} : game = file[f].game

\* The loader version an init has fetched is one for the Minecraft version asked, as
\* get_latest_version of the loader's client promises.
LoaderFits ==
  \A d \in Dirs : file[d].is = "manifest" /\ file[d].game # NoGame =>
    \A i \in DOMAIN Published :
      Published[i].number = file[d].version => Published[i].game = file[d].game
=============================================================================
