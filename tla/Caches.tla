------------------------------- MODULE Caches -------------------------------
(***************************************************************************)
(* The cache directory: the JARs and their LRU manifest (storage/cache.rs) *)
(* with the version directories of the game and the loaders, used by       *)
(* commands that install, launch or export, and cut down by `cache clean`  *)
(* (storage/cache_manager.rs, commands/cache.rs), in several processes.    *)
(*                                                                         *)
(* A process loads the manifest when it starts and writes the whole of it  *)
(* back; how the writer thread does that is module ManifestWriter's.       *)
(* Subtraction is that of a release build: modulo the width of u64.        *)
(* A file here is one whose directory and size can be read: the code       *)
(* counts no other, and removes none but with its directory.               *)
(***************************************************************************)
EXTENDS Integers, FiniteSets

CONSTANTS
  Procs, Jars,
  Games, Loaders,  \* the files under minecraft/ and under loaders/
  DirOf,           \* the version directory, or the loader's, such a file is in
  SizeOf,
  Limit,           \* max_size_bytes
  Width,           \* 2^64, or a small stand-in
  MaxClock, MaxCommands

Files == Jars \cup Games \cup Loaders

\* The size of some files is the number of their bytes.
TotalSize(s) == Cardinality(UNION {{f} \X (1 .. SizeOf[f]) : f \in s})

ASSUME CachesAssumption ==
  /\ IsFiniteSet(Procs) /\ IsFiniteSet(Files)
  /\ Jars \cap Games = {} /\ Jars \cap Loaders = {} /\ Games \cap Loaders = {}
  /\ \A g \in Games, l \in Loaders : DirOf[g] # DirOf[l]
  /\ SizeOf \in [Files -> Nat \ {0}]
  /\ Limit \in Nat /\ Width \in Nat /\ TotalSize(Files) < Width
  /\ {MaxClock, MaxCommands} \subseteq Nat

VARIABLES
  clock,
  files,     \* what is in the cache
  used,      \* history: when each JAR was last used, as long as exact holds
  mtime,     \* when each file of a directory was written
  manifest,  \* cache_manifest.json: the recorded use of each JAR, 0 if none
  job,       \* what each process is doing
  mem,       \* its manifest in memory
  dirty,
  sum,       \* clean: [jars, other, left, gone], see below
  list,      \* the files it has listed and not yet tried to remove
  exact,     \* history: no process ran beside another, was killed, or could
             \* not read the manifest
  quiet,     \* history: no other process ran since this one began to clean
  stuck,     \* history: what this one tried to remove in vain while quiet
  commands

\* sum.jars and sum.other are the sizes status() found, sum.left the
\* `remaining` of the loop that runs, sum.gone what it has removed.
NoSum == [jars |-> 0, other |-> 0, left |-> 0, gone |-> 0]

cacheFiles == <<files, mtime>>
memory == <<mem, dirty>>
history == <<used, exact, quiet, stuck>>
cacheVars == <<clock, cacheFiles, manifest, job, memory, sum, list, history, commands>>

Never == [f \in Jars |-> 0]

CacheInit ==
  /\ clock = 1
  /\ files = {}
  /\ used = Never
  /\ mtime = [f \in Games \cup Loaders |-> 0]
  /\ manifest = Never
  /\ job = [p \in Procs |-> "idle"]
  /\ mem = [p \in Procs |-> Never]
  /\ dirty = [p \in Procs |-> FALSE]
  /\ sum = [p \in Procs |-> NoSum]
  /\ list = [p \in Procs |-> {}]
  /\ exact = TRUE
  /\ quiet = [p \in Procs |-> FALSE]
  /\ stuck = [p \in Procs |-> {}]
  /\ commands = 0

Idle(p) == job[p] \in {"idle", "cleaned"}
Enter(p, step) == job' = [job EXCEPT ![p] = step]

\* What is known of the order of uses if p runs beside another process.
Know(known) ==
  /\ exact' = known
  /\ used' = IF known THEN used ELSE Never

\* The history when p begins, with the order of the uses at hand or not.
Alone(p, ordered) ==
  LET others == Procs \ {p}
      alone == \A q \in others : Idle(q)
  IN /\ Know(exact /\ alone /\ ordered)
     /\ quiet' = [q \in Procs |-> q = p /\ alone]
     /\ stuck' = [q \in Procs |-> {}]

\* A command begins: JarCache::new reads the manifest, or takes an empty one if
\* it cannot be read or parsed.
Load(p) ==
  /\ Idle(p) /\ commands < MaxCommands /\ commands' = commands + 1
  /\ \E found \in {manifest, Never} :
       /\ mem' = [mem EXCEPT ![p] = found]
       /\ Alone(p, found = manifest)
  /\ dirty' = [dirty EXCEPT ![p] = FALSE]
  /\ UNCHANGED <<clock, cacheFiles, manifest>>

----------------------------------------------------------------------------
(* Commands that use the cache *)

StartUse(p) == Load(p) /\ Enter(p, "use") /\ UNCHANGED <<sum, list>>

\* touch_in_memory
Touch(p, f) ==
  /\ mem' = [mem EXCEPT ![p][f] = clock]
  /\ dirty' = [dirty EXCEPT ![p] = TRUE]

\* Mistake: only a download is recorded.
UseJarUntouched(p, f) ==
  /\ job[p] = "use"
  /\ files' = files \cup {f}
  /\ used' = IF exact THEN [used EXCEPT ![f] = clock] ELSE used
  /\ IF f \in files THEN UNCHANGED memory ELSE Touch(p, f)
  /\ UNCHANGED <<clock, mtime, manifest, job, sum, list, exact, quiet, stuck, commands>>

\* get or mark_used if the JAR is there, commit_tmp after a download if not.
UseJar(p, f) ==
  /\ job[p] = "use"
  /\ files' = files \cup {f}
  /\ used' = IF exact THEN [used EXCEPT ![f] = clock] ELSE used
  /\ Touch(p, f)
  /\ UNCHANGED <<clock, mtime, manifest, job, sum, list, exact, quiet, stuck, commands>>

\* A launch fills a directory, file by file; what is there is left as it is.
FillDir(p, f) ==
  /\ job[p] = "use" /\ f \notin files
  /\ files' = files \cup {f}
  /\ mtime' = [mtime EXCEPT ![f] = clock]
  /\ UNCHANGED <<clock, manifest, job, memory, sum, list, history, commands>>

\* The writer thread, some time after a touch and at the latest at the end.
Persist(p) ==
  /\ dirty[p] /\ job[p] # "evict"
  /\ manifest' = mem[p]
  /\ dirty' = [dirty EXCEPT ![p] = FALSE]
  /\ UNCHANGED <<clock, cacheFiles, job, mem, sum, list, history, commands>>

\* A command is over, or a clean has given up.
EndUse(p) ==
  /\ job[p] \in {"use", "failed"} /\ ~dirty[p]
  /\ Enter(p, "idle")
  /\ mem' = [mem EXCEPT ![p] = Never]
  /\ quiet' = [quiet EXCEPT ![p] = FALSE]
  /\ stuck' = [stuck EXCEPT ![p] = {}]
  /\ UNCHANGED <<clock, cacheFiles, manifest, dirty, sum, list, used, exact, commands>>

----------------------------------------------------------------------------
(* cache clean *)

Minus(a, b) == (a - b) % Width
SumIs(p, s) == sum' = [sum EXCEPT ![p] = s]
CleanRests == UNCHANGED <<clock, cacheFiles, manifest, dirty, history, commands>>

StartClean(p) == Load(p) /\ Enter(p, "jars") /\ UNCHANGED <<sum, list>>

\* A directory cannot be read: the command fails.
GiveUp(p) == Enter(p, "failed") /\ SumIs(p, NoSum)

\* The clean is over.
Cleaned(p) ==
  /\ Enter(p, "cleaned")
  /\ SumIs(p, NoSum)
  /\ list' = [list EXCEPT ![p] = {}]
  /\ mem' = [mem EXCEPT ![p] = Never]

\* Return early, or go on with the next part.
Unless(p, enough, next, s) ==
  IF enough THEN Cleaned(p) ELSE Enter(p, next) /\ SumIs(p, s) /\ UNCHANGED <<list, mem>>

\* status: the JARs first, then the directories.
ReadJarSize(p) ==
  /\ job[p] = "jars"
  /\ \/ Enter(p, "dirs") /\ SumIs(p, [NoSum EXCEPT !.jars = TotalSize(files \cap Jars)])
     \/ GiveUp(p)
  /\ UNCHANGED <<list, mem>> /\ CleanRests

ReadDirSize(p) ==
  /\ job[p] = "dirs"
  /\ LET other == TotalSize(files \ Jars)
     IN Unless(p, sum[p].jars + other <= Limit, "size", [sum[p] EXCEPT !.other = other])
  /\ CleanRests

\* What the directories leave of the limit, nothing if they exceed it.
JarBudget(p) == IF Limit > sum[p].other THEN Limit - sum[p].other ELSE 0

\* The whole cache after the JARs' cleanup, for the two directories.
AfterJars(p) == Minus(sum[p].jars + sum[p].other, sum[p].gone)

\* JarCache::cleanup reads the size before it locks the manifest,
ReadSize(p) ==
  /\ job[p] = "size"
  /\ LET size == TotalSize(files \cap Jars) IN
       \/ size > JarBudget(p) /\ Enter(p, "list") /\ SumIs(p, [sum[p] EXCEPT !.left = size])
       \/ ~(size > JarBudget(p)) /\ Enter(p, "flush") /\ UNCHANGED sum
       \/ GiveUp(p)
  /\ UNCHANGED <<list, mem>> /\ CleanRests

\* drops the entries of JARs that are gone, and lists the others.
ListJars(p) ==
  /\ job[p] = "list"
  /\ mem' = [mem EXCEPT ![p] = [f \in Jars |-> IF f \in files THEN @[f] ELSE 0]]
  /\ dirty' = [dirty EXCEPT ![p] = @ \/ mem'[p] # mem[p]]
  /\ \/ Enter(p, "evict") /\ list' = [list EXCEPT ![p] = files \cap Jars] /\ UNCHANGED sum
     \/ GiveUp(p) /\ UNCHANGED list
  /\ UNCHANGED <<clock, cacheFiles, manifest, history, commands>>

\* The listed JARs whose turn it is.
Oldest(p) == {f \in list[p] : \A g \in list[p] : mem[p][f] <= mem[p][g]}

\* What p has tried in vain.
Stuck(p, some) ==
  /\ stuck' = IF quiet[p] THEN [stuck EXCEPT ![p] = @ \cup some] ELSE stuck
  /\ UNCHANGED <<used, exact, quiet>>

\* Mistake: a JAR that could not be removed is counted as removed.
EvictJarCounted(p) ==
  /\ job[p] = "evict" /\ list[p] # {} /\ sum[p].left > JarBudget(p)
  /\ \E f \in Oldest(p) :
       /\ list' = [list EXCEPT ![p] = @ \ {f}]
       /\ SumIs(p, [sum[p] EXCEPT !.left = Minus(@, SizeOf[f]), !.gone = @ + SizeOf[f]])
       /\ files' \in {files, files \ {f}}
       /\ IF f \in files' THEN Stuck(p, {f}) ELSE UNCHANGED history
  /\ UNCHANGED <<clock, mtime, manifest, job, memory, commands>>

\* The oldest JAR is removed, or it is gone or cannot be and is passed over.
EvictJar(p) ==
  /\ job[p] = "evict" /\ list[p] # {} /\ sum[p].left > JarBudget(p)
  /\ \E f \in Oldest(p) :
       /\ list' = [list EXCEPT ![p] = @ \ {f}]
       /\ \/ /\ f \in files /\ files' = files \ {f}
             /\ mem' = [mem EXCEPT ![p][f] = 0]
             /\ dirty' = [dirty EXCEPT ![p] = @ \/ mem[p][f] # 0]
             /\ SumIs(p, [sum[p] EXCEPT !.left = Minus(@, SizeOf[f]), !.gone = @ + SizeOf[f]])
             /\ UNCHANGED history
          \/ Stuck(p, {f}) /\ UNCHANGED <<files, memory, sum>>
  /\ UNCHANGED <<clock, mtime, manifest, job, commands>>

EndEvict(p) ==
  /\ job[p] = "evict" /\ (list[p] = {} \/ sum[p].left <= JarBudget(p))
  /\ Enter(p, "flush")
  /\ list' = [list EXCEPT ![p] = {}]
  /\ UNCHANGED <<sum, mem>> /\ CleanRests

\* It ends with a flush; clean returns if that was enough.
EndCleanup(p) ==
  /\ job[p] = "flush" /\ ~dirty[p]
  /\ Unless(p, AfterJars(p) <= Limit, "games", [NoSum EXCEPT !.left = AfterJars(p)])
  /\ CleanRests

\* clean_version_dirs, for minecraft/ and then for loaders/.
ListDirs(p) ==
  /\ \/ /\ job[p] = "games" /\ Enter(p, "evict games")
        /\ list' = [list EXCEPT ![p] = files \cap Games] /\ UNCHANGED sum
     \/ /\ job[p] = "loaders" /\ Enter(p, "evict loaders")
        /\ list' = [list EXCEPT ![p] = files \cap Loaders] /\ UNCHANGED sum
     \/ job[p] \in {"games", "loaders"} /\ GiveUp(p) /\ UNCHANGED list
  /\ UNCHANGED mem /\ CleanRests

Removing(p) == job[p] \in {"evict games", "evict loaders"}

\* The listed files of f's directory, which is the oldest: each other has a newer file.
Beside(f, some) == {g \in some : DirOf[g] = DirOf[f]}
OldestDirs(p) ==
  {Beside(f, list[p]) : f \in
     {f \in list[p] : \A g \in list[p] : \E h \in Beside(g, list[p]) :
                       \A e \in Beside(f, list[p]) : mtime[e] <= mtime[h]}}

\* remove_dir_all takes the directory that is oldest, with what came into it since
\* it was listed; or it fails, of what there was some may be gone, and nothing is counted.
EvictDir(p) ==
  /\ Removing(p) /\ list[p] # {} /\ sum[p].left > Limit
  /\ \E dir \in OldestDirs(p) :
       LET there == {g \in files : g \notin Jars /\ \E f \in dir : DirOf[g] = DirOf[f]}
       IN /\ list' = [list EXCEPT ![p] = @ \ dir]
          /\ \/ /\ there # {} /\ files' = files \ there
                /\ SumIs(p, [sum[p] EXCEPT !.left = Minus(@, TotalSize(dir))])
                /\ UNCHANGED history
             \/ /\ \E gone \in SUBSET there : files' = files \ gone
                /\ Stuck(p, dir) /\ UNCHANGED sum
  /\ mtime' = [f \in Games \cup Loaders |-> IF f \in files' THEN mtime[f] ELSE 0]
  /\ UNCHANGED <<clock, manifest, job, memory, commands>>

EndDirs(p) ==
  /\ Removing(p) /\ (list[p] = {} \/ sum[p].left <= Limit)
  /\ IF job[p] = "evict games" /\ sum[p].left > Limit
       THEN Enter(p, "loaders") /\ UNCHANGED <<sum, mem>> /\ list' = [list EXCEPT ![p] = {}]
       ELSE Cleaned(p)
  /\ CleanRests

----------------------------------------------------------------------------
\* cache obliterate: all is removed, or some of it before an error.
Obliterate(p) ==
  /\ Idle(p) /\ commands < MaxCommands /\ commands' = commands + 1
  /\ files' \in SUBSET files /\ manifest' \in {manifest, Never}
  /\ mtime' = [f \in Games \cup Loaders |-> IF f \in files' THEN mtime[f] ELSE 0]
  /\ Enter(p, "idle") /\ Alone(p, files' = {} \/ manifest' = manifest)
  /\ UNCHANGED <<clock, memory, sum, list>>

\* With nothing to write a kill is as the end of a command.
Die(p) ==
  /\ (dirty[p] \/ Removing(p))
  /\ Enter(p, "idle")
  /\ mem' = [mem EXCEPT ![p] = Never]
  /\ dirty' = [dirty EXCEPT ![p] = FALSE]
  /\ sum' = [sum EXCEPT ![p] = NoSum]
  /\ list' = [list EXCEPT ![p] = {}]
  /\ Know(FALSE)
  /\ quiet' = [quiet EXCEPT ![p] = FALSE]
  /\ stuck' = [stuck EXCEPT ![p] = {}]
  /\ UNCHANGED <<clock, cacheFiles, manifest, commands>>

Second ==
  /\ clock < MaxClock /\ clock' = clock + 1
  /\ UNCHANGED <<cacheFiles, manifest, job, memory, sum, list, history, commands>>

CacheNext ==
  \/ Second
  \/ \E p \in Procs :
       \/ StartUse(p) \/ (\E f \in Jars : UseJar(p, f)) \/ (\E f \in Games \cup Loaders : FillDir(p, f))
       \/ Persist(p) \/ EndUse(p)
       \/ StartClean(p) \/ ReadJarSize(p) \/ ReadDirSize(p)
       \/ ReadSize(p) \/ ListJars(p) \/ EvictJar(p) \/ EndEvict(p) \/ EndCleanup(p)
       \/ ListDirs(p) \/ EvictDir(p) \/ EndDirs(p)
       \/ Obliterate(p) \/ Die(p)

CacheSpec == CacheInit /\ [][CacheNext]_cacheVars

----------------------------------------------------------------------------
Evicts(p, f) == ~Idle(p) /\ list'[p] # list[p] /\ f \in files \ files'

\* CacheManager::clean, JarCache::cleanup: a clean that no other process
\* disturbs removes a file only while what there is, with what it tried to
\* remove in vain, is over the limit; one of a version directory only when
\* every JAR that is left was tried in vain, and a loader's only when every
\* game's was. If no process ever ran beside another, was killed or failed to
\* read the manifest, the JAR it removes is not one that was used after a JAR
\* it keeps without having tried, whichever commands used them.
EvictionJustified ==
  [][\A p \in Procs, f \in Files : Evicts(p, f) =>
       /\ quiet[p] => /\ TotalSize(files \cup stuck[p]) > Limit
                      /\ f \notin Jars => files \cap Jars \subseteq stuck[p]
                      /\ f \in Loaders => files \cap Games \subseteq stuck[p]
       /\ exact /\ f \in Jars =>
            \A g \in files' \cap Jars : used[f] <= used[g] \/ g \in stuck[p]]_cacheVars

\* CacheManager::clean: a clean that no other process disturbed leaves the
\* cache within the limit, or nothing in it but what it tried to remove and
\* could not.
CleanReachesLimit ==
  \A p \in Procs : job[p] = "cleaned" /\ quiet[p] =>
    TotalSize(files) <= Limit \/ files \subseteq stuck[p]

\* docs/specs/caching.md: a limit of 0 is none.
ZeroIsUnlimited ==
  [][Limit = 0 => \A p \in Procs, f \in Files : ~Evicts(p, f)]_cacheVars
=============================================================================
