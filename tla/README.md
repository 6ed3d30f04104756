# A TLA+ model of yammm

yammm manages Minecraft modpacks from the command line: it resolves mods and
their dependencies against Modrinth and CurseForge, keeps one file per mod in
the modpack directory, downloads JARs into a content-addressed cache, and
launches clients and servers from it.  This directory holds specifications of
the parts of it where order, failure and concurrency decide whether it is right,
the TLC configurations that check them, and TLAPS proofs of the properties that
matter most.  Paths below are relative to `src/src/` of the repository unless
they start with `docs/`.

Contents: [inventory](#inventory), [the models](#the-models), [runs and
bounds](#runs-and-bounds), [fairness](#fairness), [what is
proved](#what-is-proved), [findings](#findings), [plan](#plan), [how to
run](#how-to-run).

## Inventory

yammm is one process per command.  `bin/yammm.rs` builds a multi-threaded tokio
runtime and an `AppContext` (`app.rs`): configuration, an HTTP client with
connect and request timeouts, a registry of providers, and one `JarCache`, of
which everything else holds clones.  Dependencies run downwards: commands call
services, services call providers, providers call API clients; storage, cache
and configuration lie below them.  Concurrency comes from five places: tokio
tasks of one command (downloads, dependency installs, import, the background
tasks of the manager), blocking-pool closures, the manifest's writer thread,
signal handlers of the launcher, and other yammm processes on the same cache or
modpack.  Nothing locks a file between processes.

| Component | State | Operations | Talks to | Hard behaviour | What makes it correct |
|---|---|---|---|---|---|
| Dependency resolver `services/resolver.rs` | two queues, resolved set, result | `resolve` | providers (calls that fail) | cycles, aliases, a mod both required and optional, errors swallowed or fatal by kind | terminates; each mod once; required exactly by required chains |
| LRU manifest and its writer `storage/cache.rs` | map with a dirty bit behind a mutex, channel, writer thread, file | touch, flush, cleanup, clone, drop | every user of the cache; atomic write | optimistic clean bit, debounce, timeouts, drop of the last clone, kill | nothing forgotten; an acknowledged flush is on disk; drop returns |
| JAR files of the cache `storage/cache.rs` | files named by hash | get, put, commit_tmp, cleanup, remove, clear | downloads, launcher, exporter | two writers of one hash, eviction of a JAR in use, sizes read before the lock | a file under a final name hashes to it |
| Atomic file write `utils/fs.rs` | `<path>.tmp`, `path`, directory | `atomic_write_bytes` | manifest, HTTP cache, auth token | power loss, kill, failing calls, shared tmp name | a reader never sees a mixture |
| Mod downloads `services/download.rs`, `api/retry.rs` | semaphore, tasks, tmp files, summary | `download_missing_mods`, `download_jar` | JAR cache, HTTP | retries, panics, kills, two mods with one JAR | only verified JARs; honest summary; permits conserved |
| Interactive manager `commands/manage/` | records in memory, mode, dialogs, flags, background tasks | every key, three kinds of results | modpack store, providers, `AddContext::add` | late answers, dialogs closed over running tasks, stale records | acts on the mod that is shown; memory and disk agree; never deaf |
| Modpack store `storage/entry_store.rs`, `modpack.rs` | one directory per mod, `modpack.toml` | load, save, remove, list | all commands | save without fsync, unreadable entries skipped, other processes | an entry is old or new, never lost silently |
| Adding, updating, removing `commands/{add,update,remove}`, `services/{mod_install,deps_install,dep_graph}` | entries in between | add, force, update, remove, clean-up of references | resolver, providers, store | remove-then-resolve, eight installs in parallel, failure midway | a failed command leaves the modpack as it was or consistent |
| Launcher `commands/launch/mod.rs` | CHILD_PID, INTERRUPTED, the child | spawn, SIGINT, SIGTERM, wait | Java child | signal between spawn and store, deadline, pid reuse | no orphaned server; exit code is the child's |
| Launch preparation `commands/launch/*` | virtual tree, run directory | build, realize | JAR cache, store | stale and dangling links, JARs missing from the cache | the run directory is the modpack |
| HTTP metadata cache `api/http_cache.rs` | one file per URL | lookup, conditional GET, store, evict | API clients | parallel fetches of one URL, 304 for an evicted entry, eviction of tmp files | an answer is the server's |
| Retries and streaming `api/{retry,streaming}.rs` | attempt, tmp file | retry, stream | HTTP | which errors retry, Retry-After, partial files | bounded; never a partial file |
| Authentication `auth/` | token file, refresh token | login, refresh, exchange | Microsoft, Xbox, Minecraft | rotation lost midway, slow_down, expiry | a token that works is never thrown away |
| Cache manager `storage/cache_manager.rs` | JARs, version and loader directories | status, clean, obliterate | JAR cache | budget arithmetic over three areas | ends at or below the limit |
| Import and export `commands/{import,export}` | archives, a temporary directory | import, export | downloads, store, JAR cache | an import cut short and repeated; entries, JARs and `config/` that change under an export; a temporary directory named by a process id that comes again | an import changes nothing that was there; an archive is what was there |
| Loader installers `api/installer/` | libraries, processors' outputs | install | HTTP, Java | files found in place and taken as they are; a step of many failing | what a launch uses has passed the check the code makes of it |
| Organizer `commands/organize/` | ignore lists, files in run directories | assign, ignore, skip | the game that writes | copy, then removal; lists read at the start and written at the end | no version of a configuration is lost |
| Configuration, `init`, manifests `app.rs`, `config/`, `commands/{init,config}.rs`, `storage/modpack.rs` | `config.toml`, `modpack.toml` | load, set, reset, init | every command reads both first | two writers, a kill, a hand edit; a file one command writes and another refuses | no command is locked out; the last setting stands |
| Versions and providers `types/version.rs`, `providers/` | none | `matches`, `get_versions`, `get_latest_version` | API clients | zeros of `^` and `~`, two and three parts, pre-releases, answers in no order | what is chosen satisfies what was asked |
| API clients `api/` | none | requests | HTTP | which of a list of loader releases fits a game | - |
| Output, screens, query commands | global flags | - | - | capture flag global and buffer thread-local | - |

The tables of `PROJECT.json` give the sources of each component and every hazard
at its line.

## The models

Every component has a module of its own.  Where two share no state, one `MC`
module holds both and a variable `part` says which of them a behaviour uses:
`MCResolver` (the walk, then the account), `MCManifestWriter` (the manifest, or
the write of a file), `MCCaches` (JARs, or metadata) and `MCProject` (organizer,
export, workspace, versions).  Where they do share state they are one module:
`Modpack` is add, update, remove and import over the same entries, `Caches` is
the JAR cache and the cache manager, `Launch` the run directory and the child.
`PROJECT.json` maps every definition to the lines it stands for.

### Resolver - `Resolver`, `DependencyClosure`

`Resolver` is `DependencyResolver::resolve`.  `Pop`, `Examine`, `FetchOk`,
`FetchErr`, `ListOk`, `ListErr`, `Enqueue`, `EnqueueDone` and `Finish` follow
its loop; a call to a provider is a step of its own that may fail at any time.
A key is an identifier under which somebody asks for a mod, `Canon` the identity
the provider answers with, so that slugs and raw project ids of one mod are two
keys.  What the providers hold is a variable that is chosen once, out of
`Catalogs`, which makes TLC try every graph.

`DependencyClosure` says what the call promises without any queue: the answer is
the closure of the root, a mod is required exactly when a chain of required
edges leads to it, an optional mod is taken only when nothing required is owed.
`ImplementsClosure` is the refinement, with `taken` read off the result; its
safety part is the theorem `WalkIsClosure`.

### Manifest writer - `ManifestWriter`

Users hold clones of the cache; `Main` holds the first and outlives the tasks.
The map is its version number: memory holds the changes after `from` up to
`version`, the file those after `savedFrom` up to `saved`.  `Reload` is the
start of a command: it reads the file, or, when the file cannot be read or
parsed, begins with an empty manifest, which its first write then puts over the
file.  `Touch` and `SignalDirty` are the two halves of `touch_in_memory`,
between which the writer may already have written the change; `Evict`,
`SendSync`, `SyncTimeout` are `cleanup` and `flush`; `Drop`, `Join` and
`Release` are `JarCache::drop`, in which the strong count is read before the
handle goes.  The writer's actions follow `writer_loop`: `Receive`,
`DebounceEnds`, `Snapshot` (which clears the dirty bit before anything is
written), `WriteOk` or `WriteErr` and `Remark`, `Ack`, `RoundEnds`.  `Kill`,
`Exit` and `Restart` are the process.

### Atomic write - `AtomicWrite`, `AtomicFile`, composed in `MCManifestWriter`

The steps of `atomic_write_bytes` on a file system with inodes, blocks, and a
directory.  Blocks and directory changes that were not synced may or may not
survive `PowerLoss`; `WriteBack` is the kernel syncing on its own.  `AtomicFile`
is the promise: a file that holds one version after another and that a power
loss takes back at most to a version it had since it was last settled.

### Downloads - `Download`

`Partition`, `Spawn`, `Join` are `download_missing_mods`; a task goes through
`Check`, the request, `Create`, the stream, `Hash`, `Commit`, `Rename`; every
step may fail, retryably or not, and `Panic` may end the task at any of them.
`TmpFileGuard` is `Discard` in each of the error steps.  `Kill` ends the process
and starts the command again; the tmp files it leaves carry a dead process's id
and concern nobody.  Two mods may share a hash, so two tasks race for one file.

### Interactive manager - `Manage`

One thread takes keys and results in turns; every mode of the screen and every
key that changes state is an action, and up to `MaxTasks` background tasks run
behind it.  What a list's cursor, search and filters do is a choice of what is
selected.  `mods` is the list in memory, `disk` the entries: an edit changes the
record in memory, then loads, changes and saves the entry, of which the load or
save may fail and, as in the code, leave memory ahead of disk (the history
variable `spoiled` remembers for which mods).  A task remembers the mod it was
started for; its result carries no more than the code's does.

A mod has a source and an entry's dependencies are ids with sources.  The
screen's tree calls a dependency installed when its whole source is an entry's,
while `AddContext::add` stores it under a slug, which the entry of another
source may have: `BeginAdd` finds what to add, and ends there or waits for a new
entry's version or asks whether to update the entry or to replace it; `Answer`
is the user's yes or no; `EndAdd` saves or fails.  The variable `agreed`
remembers the entries a yes was given for; the list in memory does not learn of
what became of them.

### Modpack - `Modpack`

The entries on disk, by name, and the commands over them.  A project goes by up
to three names (slug, source id, raw id), and dependency lists use the third; a
URL mod may have the slug of another project.  An edge is the id it is recorded
under and the id of its source, as `Dependency` is; an update records the
slugified raw id and the raw id (`Slugify`), an import by hash stores an entry
under the slugified raw id, and an import by search takes an answer whose slug
or title (`TitleOf`) is the name of the file.  The source ids of an API are
taken to be slugs.  `Add` goes through `FetchModInfo`, the treatment of an entry
that exists (`Overwrite` removes it before anything is resolved;
`KeepOtherSource`, `CheckForUpdate`), `ResolveVersion` and
`ResolveDependencies`; then one task for each accepted dependency
(`InstallStart`, `InstallFinish`, `InstallFails`), whose steps interleave, and
only after `InstallDepsEnd` the edges (`RecordDepEdges`).  `Update` asks for the
releases (`CheckOne`) and, when it applies one, again for the dependencies of
what is latest then.  `Remove` goes on to the dependents, one entry and one
clean-up at a time, and looks for references by the name of what it removes and
by the source id of the mod that was named.  What a clean-up cannot list or read
it passes over without a word: such entries are in `cmd.missed`.  `ImportMrpack`
and `ImportYmpk` skip what is there.  `Publish` is the provider; `Kill` and
`PowerLoss` end the command; after a power loss an entry that was renamed but
not synced may be torn, and the list then skips it.

### Launcher - `Launch`

`BuildVfs` makes the virtual tree, in which the later of two files for one path
replaces the earlier (the configuration of mods that cannot be listed is left
out, as the code leaves it out); `RealizeEntry` links what does not exist, in
the order of the tree (`Rank`), one path at a time, and ends the launch at a
dangling link; then the server's JAR (`CopyServerJar`), libraries, shims and
arguments.  `EditEntry`, `EvictJar` and `GameWrites` come from outside at any
time.  Until `InstallSignalHandlers` a signal simply ends the launcher.  `Spawn`
and `StorePid` are two steps, between which a signal finds no child;
`SetInterrupted` and `ForwardSigInt` are the SIGINT thread, `SigTerm` the
handler that forwards and exits; `SetDeadline`, `ForceKill` and `ChildReaped`
are `wait_for_child`.

### Launch preparation - `Prepare`

A launch goes through the steps of its loader and side in the order of the code
(`Place`, `StepsOf`), and each step through the files of its kinds.  What
differs between the kinds is how they are treated (`How`): checked against a
hash or not; looked for before they are asked for; downloaded under a temporary
name or written in place; reported at the end of their step or at once; parsed
when they are there; passed over when they are not.  `StatDest`, `RemoveStale`,
`Fetch`, `FetchAgain` and `Commit` are `download_to_file` whole.  A library of a
version's list without a url is skipped when it is not there, written by a
processor, and looked for a second time after the processors (the step "again").
A library that two lists name, in the profile and in the version, is two files
in the model.

`ResolveJava`, `FetchJdk` to `CleanJdkTmp` are `java.rs`, whose temporary
directory is shared: a JDK whose version cannot be told is installed again, and
`ClearJdk` removes the older one before the rename, in a step of its own that a
failure or a kill may cut short ("remains").  Two processes run at once, one of
them may be killed and start again, and a file may be damaged from the
beginning.

### Account - `Auth`, composed in `MCResolver`

The stored token, the request for a new one, the exchange through Xbox Live in
four requests, and the device-code login with its deadline and the interval the
server raises.  The server keeps, adds or retires refresh tokens (`policy`,
chosen once) and its answers can be lost after it has acted.  Processes share
`auth.json`; `AuthKill` ends one.

### HTTP metadata - `HttpMeta`, composed in `MCCaches`

Lookup, conditional request, 304, store with its temporary file, staleness,
eviction over the cap, prune and the retries of `send_retried`, by tasks that
share one directory.  `fileOf` maps URLs to file names and may map two to one,
which is what the URL recorded in an entry is for.  A file is an entry's or the
temporary file of one; a listing of the directory may fail, as a whole or by
leaving files out, and so may the removal of a file, both without a word; `lost`
counts what failures and kills may have left since somebody last saw the whole
directory.

### Cache and its manager - `Caches`, composed in `MCCaches`

`UseJar` and `FillDir` are the commands that use the cache, with the two
versions of the manifest (in memory, on disk; `Persist`); `cache clean` in the
order of `cache_manager.rs` (sizes, JARs by last use, then games, then loaders
by modification time, the budget carried from one to the next modulo the width
of the word); `Obliterate`, which may end half done; a kill.  A JAR's removal
fails or succeeds, a directory's takes some, all or none of its files and their
sizes leave the budget only when all of it went; `stuck` remembers what a clean
tried to remove in vain.  A command that cannot read the manifest starts with an
empty one.  A commit while a clean runs makes its sums stale, in the model as in
the code.

### Organizer, export, workspace, versions - composed in `MCProject`

`Organize`: one action per key that changes state, `AssignCopy` and
`AssignRemove` apart, both lists of ignored names saved at the end from what was
read at the start; the game writes and a second organizer runs beside it.

`Export`: missing JARs are downloaded, then an archive is made item by item, as
the loops do, while entries, JARs and `config/` change.  An item's file in the
archive has a path (`PathIn`): in an mrpack its file name or the slug of its
name, in a ympk the slug, so that two items may ask for one: the later copy
replaces the earlier, and a ympk fails at the second entry of a name.  The
directory of an mrpack is named by the process id and is there again when the id
is.

`Workspace`: how a command finds and loads `config.toml` and `modpack.toml`,
`config get/set/reset/edit` and `init`, with both files' writers following
inodes over the shared temporary name, a hand edit, a kill, a power loss.
`init` takes the loader's version from a list of releases as each API client
does, and its README may be left as it is, cut short, or not be reached at all
when `.gitignore` cannot be written.

`Versions`: numbers as their parts and pre-release; `Matches` with its two
branches, semver and digit tuples; each provider's list and choice; a dependency
chosen by the resolver and asked for again by number.  `InRange` is the
reference: a requirement as an interval of numbers.

## Runs and bounds

| Run | Instance | Properties |
|---|---|---|
| `resolver` | root and two mods, one with two names, every edge of every kind; then 2 processes on one `auth.json`, 3 refresh tokens, 3 attempts per request, a device code that lives 3 intervals, intervals up to 2, 3 commands, 1 kill | `KindsExact`, `Termination`, `ImplementsClosure`; `TokenKept`, `LoginEnds` |
| `manifest_writer` | main and one task, 3 changes, 2 syncs each; or 1 writer of a file, 3 versions of 2, 1, 2 blocks, 3 inodes | `NothingForgotten`, `SyncMeansSaved`, `CleanExitSaved`, `SavedNeverGoesBack`, `FlushHappens`, `DropReturns`; `ResultHonest`, `ImplementsAtomicFile` |
| `download` | 4 mods: two share a JAR, one has no hash; 2 permits, 1 retry, 1 kill | `JarsVerified`, `SummaryHonest`, `Termination` |
| `manage` | 2 mods on the list, one without a provider, 4 sources, each mod with a dependency of the other's slug (one of another source, one of a source with the same id), 2 tasks, 1 edit, 1 fault | `VersionsBelong`, `ShownIsSaved`, `VersionOnlyByChoice`, `DepsNeverReturn`, `ProgressEnds` |
| `modpack` | 4 projects (a mod, its dependency with a raw id that is no slug, a resource pack with the dependency's slug for a title, a URL mod with that slug), 6 names, 2 releases, an archive of 2 files, 2 commands, a kill or power loss | `EdgesAfterInstall`, `CleanRemoval`, `LossOnlyByConsent`, `ImportKeepsExisting` |
| `launch` | 2 mods with one file name, 2 versions, 2 launches, 1 edit, 2 signals | `RunDirExact`, `InterruptEnds` |
| `prepare` | 2 processes, one file for each of five of the eight treatments, a Forge client and a Fabric server, 2 launches, 1 kill | `LaunchSound`, `JdkSound`, `PrepareEnds` |
| `caches` | 2 processes, 2 JARs of sizes 1 and 2, a game of two files, a loader, limit 1, a word of 5 bits, clock to 2, 2 commands; or 2 tasks, 2 URLs with one or two file names, age 0, cap 1, 1 retry, 2 versions, time to 2, 3 calls, 1 fault (a kill, a listing or a removal that fails) | `CleanReachesLimit`, `EvictionJustified`; `AnswerFresh`, `CapHolds` |
| `project` | organizer: 2 users, 2 files, 3 versions, 2 runs, 1 kill. Export: 1 exporter, 3 items, two of one name, 1 file, 2 exports, 3 edits, 1 death. Workspace: 2 processes, one pack inside another, 2 commands, 1 hand edit, 1 stop. Versions: 9 numbers, 2 releases, a question and the install of its dependency | `NoVersionLost`, `IgnoresKept`; `ArchiveExact`; `NeverLockedOut`, `LastWord`; `RightVersion` |
| `download_zero` | as `download`, 0 permits | violates `Termination` |
| `launch_sigterm` | as `launch` | violates `SigTermForwarded` |
| `project_loader` | as `project` | violates `LoaderFits` |

Distinct states: 192,624 (`resolver`), 241,777 (`manifest_writer`), 320,971
(`prepare`), 986,418 (`manage`), and between 1.6 and 2.1 million
(`launch`, `modpack`, `caches`, `project`).

Why they are enough.

- Resolver: three mods give every shape that matters to the walk: a chain, a
  diamond, two-cycles and self references through the alias, a mod wanted as
  required and as optional.  For the account, two processes let one refresh with
  a token the other is replacing; three tokens are the first, its successor and
  the successor's; three attempts are what the code makes; two intervals and a
  lifetime of three let `slow_down` come in time and too late.
- Manifest writer: its races are between one user's change and one write; three
  changes put one before, one during and one after a snapshot, and two calls let
  an answer come late to a call that has timed out.
- Atomic write: versions of different length are what makes a torn file show:
  two blocks over one, and back.
- Downloads: the two mods that share a JAR compete for one path while the third
  waits for a permit, and each can be retried once, panic, and be killed.
- Manager: two tasks let a late result meet a newer dialog, and one edit or
  fault tells memory from disk; selection moves freely between both mods.  An
  install meets an entry to update, an entry of another source to replace, and,
  after a removal, none.
- Modpack: two commands let the second find what the first left (an import after
  an add, a repeat after a kill, a removal after an update); two releases let
  one appear between the two questions of an update; the title that is another's
  slug and the raw id that is no slug give an import a wrong name to store
  under.
- Launch: the second launch finds the links of the first after one edit; the
  second signal finds the first being handled.
- Prepare: the run has a loader library, the installer, a library of its
  profile, one of the version and an output of a processor.  The game's JAR,
  libraries and natives are treated as the version's library is but that they
  fail at once, the index as the installer, the assets as the version's library;
  the unpacked natives and the launch arguments as the processor's output but
  that they are looked for first.  These, the Forge server, the Fabric client
  and loaders without processors for a side are left to the proofs, which cover
  every treatment and every number of files.  The second process is the other
  one of every race, and its second launch finds what a kill left.
- Caches: the limit of 1 is met after each of the three stages of a clean,
  depending on what is there; 5 bits hold every sum of sizes and let a
  subtraction wrap; the second command runs beside a clean or after one; the two
  files of one directory let a removal take only one of them.  With a cap of one
  entry every second store evicts, and one fault is enough to leave a file over
  the cap, which a third call finds.
- Project: one pack inside another decides which manifest a command finds; three
  edits make an export stale on each side of one read; two items of one name and
  one of another tell a path that is shared from one that is not; the numbers
  are those at which the two comparisons, the zeros of `^` and `~`, and the
  pre-releases part ways.

Every bound (`MaxVersion`, `MaxCalls`, `MaxWrites`, `MaxRetries`, `MaxKills`,
`MaxEdits`, `MaxTasks`, `MaxFaults`, the inodes; `MaxRelease`, `MaxCommands`;
`MaxLaunches`, `MaxSignals`, `MaxStarts`; `MaxLogins`, `MaxAuthKills`,
`MaxTokens`; `MaxClock`, `MaxTime`; `MaxRuns`, `MaxExports`, `MaxDeaths`, `MaxHand`, `MaxStops`,
`MaxReleases`, `MaxQuestions`) is a constant, and the theorems hold for every
value of it.  `MaxAttempts`, `MaxAge`, `MaxEntries`, `Limit`, `Width`,
`Lifetime` and `MaxInterval` are small values of numbers in the code.

Symmetry is used in `caches` (processes, tasks) and `project` (users,
processes), which check safety only and treat these alike.

`CHECK_DEADLOCK FALSE` is set where the system really stops: the resolver has
answered and the account's commands are used up, the user has left the manager,
the commands, launches or questions of the bound are over; and in
`download_zero` the command hangs, which is the point.

Every property of a passing run is shown to depend on the code by a mutant in
its module (a definition named for the mistake, just before the one it varies):
among them the optional dependencies walked first, the temporary file opened
without truncating it, a retry that is not counted, a whole stale record saved
instead of one field, an import that puts edges on the wrong entry, a JAR counted
as removed that is still there, a 304 that renews an entry, the ignore lists of
the other side dropped.

## Fairness

- `Resolver`: weak fairness of the loop.  Provider calls return, since the HTTP
  client has a connect and a request timeout (`app.rs:180`, `api/mod.rs:62`).
- `Auth`: weak fairness of each process's next step, for the same reason; the
  user need not log in.  The wait for the device code ends because the code's
  deadline is checked in every turn.
- `ManifestWriter`: the writer thread runs while the process does, and a user in
  the middle of a call goes on.  Nobody has to touch, flush, drop or exit.
- `Download`: weak fairness of all its work together, `Work`; panics and kills
  need not happen.  Weak fairness of the union is enough for termination, since
  every step of it brings the command nearer its end.
- `Manage`: each background task by itself makes progress and its result is
  taken: requests time out and the loop polls every 50 ms.  The user need not
  press any key nor answer a prompt, so `ProgressEnds` says that the progress
  screen ends or that an install waits for an answer.
- `Launch`: the launcher's own steps after the spawn (`Spawn`, `StorePid`,
  `SetDeadline`, `ForceKill`, `ChildReaped`) and the signal thread (`Handler`).
  The child need not end by itself and no signal need come.
- `Prepare`: each process goes on; downloads end by the client's timeouts.
- `AtomicWrite`, `Modpack`, `Caches`, `HttpMeta` and the parts of `MCProject`:
  none; they have safety properties only.

## What is proved

Every property of the passing runs that is not a liveness property is also a
theorem, of the specification of its module and for every value of the constants
that meets the named assumption of the module (`ResolverAssumption`, ...).  The
assumptions are typing facts, with these beyond typing, each with what justifies
it:

- `Resolver`: canonical identities are their own canonical identity and count as
  names of the mod (the provider answers with the identity it looks up).
- `Modpack` (`SourceIdsAssumption`): a dependency is a project of the same
  provider, and two of one provider's projects differ in their source ids.
  Nothing is assumed of slugs, raw ids, titles or `Slugify`.
- `Export`: the names of mods, configuration files and the absent thing differ;
  no item's path is a configuration file's.
- `Organize` (`OrganizeNumbering`): the versions of files that are there at the
  start are numbered from one, which is how the history numbers later ones.
- `Launch` (`LaunchPaths`): no slug is the path of a configuration file or of a
  file of the loader; the marks for an absent file and for one the game wrote
  are not sources.
- `Caches`: JARs, games and loaders are different files, in different
  directories; all their sizes together stay below the width of the word.
- `Workspace`: `config.toml` is not a project directory; a game has three
  numbers.  `Versions`: a number has at most three parts.
- Where counting matters the actors and things are finite sets: users of the
  manifest, mods of a download, exporters and items, users and files of the
  organizer, tasks, URLs and names of the metadata cache, processes and files of
  the cache.

`ReaderSeesWhole`, `ResultTellsTruth` and `WriteIsAtomic` assume one writer
(their statements say so): two writers of one path empty each other's temporary
file.

| Module | Theorems | Argument |
|---|---|---|
| `ResolverProofs`, the walk | `TypeCorrect`, `CycleErrorUnreachable`, `RequiredComesFirst`, `ResultHasNoDuplicate`, `RequiredIsExact`, `WalkIsClosure` | Every ancestor of a queued entry is in `resolved`, so the duplicate check always catches it before the cycle check. An optional mod enters the result only when the required queue is empty, and from then on all children are optional. Results are canonical keys and are all in `resolved`. Exactness is two inclusions: whatever is marked required lies in every set closed under required edges; and what is marked required, with what is queued as required, is itself closed when the walk ends. From these invariants every step is a step of `DependencyClosure` or leaves its variables alone. |
| `ResolverProofs`, a release | `RequirementIsInterval`, `RightReleaseIsTaken` | `^` and `~` admit exactly the numbers of an interval, whatever the zeros and however many parts, by cases on the operator and the comparison; a choice from a list is a member of it that passed the filter, and the pinned number is found again. |
| `ResolverProofs`, files every command reads | `WorkspaceInvariance`, `NobodyLockedOut`, `LastWordStands` | As long as no two commands saved a file at once, who saves it owns its temporary file, so what is renamed is whole and valid; what he loaded is what was last asked for unless someone changed it since, and `since` and `blame` record exactly that. |
| `ResolverProofs`, the token | `AuthTypeCorrect`, `TokenIsKept` | `TokenInv`: each process holds a token nobody else has, which the server accepts; the token it is replacing is the only retired one that can be stored, until the process saves or forgets, and what it forgets is in `lost`. A server that does not retire tokens accepts every token it ever issued. |
| `ManifestWriterProofs` | `TypeCorrect`, `ChangesAreKept`, `SyncIsHonest`, `FileGoesForward`, `ExitIsClean` | The dirty bit, the writer's place and the snapshot are tied together; a sync in the channel or in `acks` is never newer than the version its round will snapshot; a manifest that was read holds what the file holds (`OriginInv`), so only one that could not be read puts less in its place; a shutdown is the last message and Main, who outlives the tasks, waits for it. |
| `AtomicWriteProofs` | `TypeCorrect`, `ReaderSeesWhole`, `ResultTellsTruth`, `WriteIsAtomic` | What any surviving directory calls `path` is a synced inode with a whole version; the one writer's tmp inode is never one of those until it is synced. `HonestInv`: whatever a power loss may leave was handed out before the call in progress, so the call's version is at `path` from its rename on and not before, and the rename always puts a newer version in place. Every other step leaves `path` and what `path` may become alone (`PathsKept`), which is a stutter of `AtomicFile`; a directory sync is its `Settle`. |
| `DownloadProofs` | `TypeCorrect`, `JarsAreVerified`, `TmpFilesOwned`, `ConcurrencyBounded`, `SummaryIsHonest` | Tmp names are drawn from a counter that only grows, so a busy task owns its file; what a task renames has been hashed and nobody else can have changed it; permits and running tasks add up; the summary counts joined tasks. |
| `ManageProofs` | `Typing`, `SelectionIsLive`, `VersionsAlwaysBelong`, `AlwaysShownAsSaved`, `VersionsByChoice`, `DepsGoForGood` | `FetchInv`: the only fetch there is belongs to the dialog that waits for it, since a loading dialog takes no key. `Kempt` are the mods for which neither the disk has failed nor the user agreed to an update or a replacement. `AddInv`: what a task is about to save without another question is not the entry of one of them, and comes without dependencies, so an install can touch a kempt entry through no prompt but one that got a yes. |
| `ModpackProofs`, the store | `Invariance`, `ModpackTypeCorrect`, `EdgesComeAfterInstall`, `RemovalIsClean`, `LossIsAgreed`, `ImportKeeps` | What a command's plan knows: `InstallInv`, a dependency that was accepted is an entry unless its task is under way or failed, since source ids tell the projects of a batch apart; `RemoveInv`, a removal goes through what was agreed to and each thing removed is cleaned up, but in what could not be listed or read, before the next; `ImportInv`, what is imported was not there before. |
| `ModpackProofs`, archives | `ExportTypeCorrect`, `ArchiveIsExact` | `ExportInv` at every stage of an export: what was there all along is already collected or still on the list, what is collected or listed was there at some moment, a file that another of the same path replaced has that one in its place, and the temporary directory held nothing when it was taken, unless it was found. |
| `ModpackProofs`, the organizer | `OrganizeInvariance`, `VersionsSurvive`, `IgnoresSurvive` | A version is in the run directory, in its destination or was written over before a removal takes it; while no two organizers overlap, the one that runs has read everything that was ever chosen to be ignored. |
| `LaunchProofs`, the launcher | `LaunchInvariance`, `RunDirIsExact`, `OnlyOneWindow` | `DirInv`: while the tree is realized, what was there is kept, and a path that is still free has in the tree the file it should get, before any other of that path in the tree's order. Who waits for the child has its id, so a signal that is handled then reaches it: the window of `launch_sigterm`, between the spawn and the store of the id, is the only one. |
| `LaunchProofs`, the preparation | `PrepareInvariance`, `LaunchIsSound`, `JdkIsSound` | `DiskInv`: which files can be bad or torn at all, by treatment; `CurInv`: what is known of the file a process is at; `CoverInv`: every file of the steps behind it was checked, written, passed over where it may be, or its failure is noted; `LookInv`: what a processor wrote is found by the second look. `JdkInv`: while only one process installs, what it moves into place is whole, and what is not whole there is what the removal of an older one left. |
| `CacheProofs`, `cache clean` | `CachesInvariance`, `CleanReaches`, `Eviction` | `Measured`: what a clean that runs alone has emptied but for what it could not remove, and how the sums it keeps relate to the files left, by lemmas on `TotalSize` and on subtraction that does not wrap below the width. `OrderInv`: while processes have run one at a time, memory or manifest holds the order of last use, so the next to be removed is the oldest. |
| `CacheProofs`, metadata | `HttpInvariance`, `AnswersAreFresh`, `CapIsHeld` | `FreshInv`: what a task has in hand is of its own URL and not older than its question or than its file may be. `CapInv`: for every set of the tasks that evict, the files that outlast their evictions exceed the cap by at most the tasks that have still to list, the evictions outside the set, and what failures and kills left since the last complete listing. |

The strengthened invariant of each module is in its proof module and is
inductive; the invariants of the runs follow from it.  The type invariants and
`NoCycleError`, `RequiredFirst`, `NoDuplicate`, `NeverTorn`, `Bounded`,
`TmpOwned` and `SelectionLive` are proved for every value of the constants and
are therefore not checked again by a run.

Only model-checked: all liveness (`Termination` of the resolver and of the
downloads, `LoginEnds`, `FlushHappens`, `DropReturns`, `ProgressEnds`,
`InterruptEnds`, `PrepareEnds`), since the prover has no rule for fairness and
ENABLED here; and the fairness part of `ImplementsClosure`, that the walk
answers whenever `DependencyClosure` must.  `WalkIsClosure` is its safety part:
`ASafety` is the specification of `DependencyClosure` without its fairness.

## Findings

Three runs show the code doing other than its documents say.

1. **`max_concurrent_downloads = 0` hangs** (`download_zero`,
   `services/download.rs:349`): the first acquire of a semaphore without permits
   waits for ever.
2. **`init` can choose a NeoForge release of another game** (`project_loader`,
   `api/neoforge.rs:154`): for a game without a patch number the prefix fits the
   releases of every patch.
3. **A SIGTERM can leave the server running** (`launch_sigterm`,
   `commands/launch/mod.rs:134`): `docs/specs/launch.md:237` calls the time
   before the process id is stored of no concern, but a signal between the spawn
   and the store finds no id, and the launcher goes without telling the child.
   `OnlyOneWindow` proves that this, and an error of `try_wait`, are all there
   is.

The following were met while modelling.  Most are states the modules can reach,
each with the property that names it, defined in the module but not part of a
run:

- A dependency cycle is never reported, which the comment of `resolve` and
  `docs/specs/deps.md` promise (`Resolver`, `CircularRejected`; the tests expect
  cycles to resolve, and `CycleErrorUnreachable` proves the branch dead).
- Two processes share `<path>.tmp`, so `atomic_write_bytes` can tear the file
  (`AtomicWrite`, `NeverTorn` with two writers; `utils/fs.rs:48`).
- An update check that answers late is applied to the mod that is selected then
  (`Manage`, `OwnVersions`; `commands/manage/app/actions.rs:391`), and the
  install screen can ignore all keys for good (`NotTrapped`;
  `commands/manage/tui.rs:479`).
- A mod that is added under a name other than its source id can be among the
  dependencies it is offered (`Modpack`, `RootExcluded`;
  `commands/add/mod.rs:206`), and an update records edges whose source is the
  raw id, under which `remove` does not look for dependents (`ReverseDepsFound`;
  `commands/update.rs:441`).
- The clean-up that follows a removal, which "scans all mods and removes
  references to the deleted mod" (`services/dep_graph.rs:45`), passes over a
  store it cannot list and an entry it cannot read and reports success
  (`CleanRemoval` excepts exactly those, `cmd.missed`); and a dependent that is
  removed along leaves the references to its source id
  (`commands/remove.rs:110`).
- A `cache clean` that could not remove a JAR goes on to the directories, and
  one that could not remove a directory ends above the limit and says it has
  succeeded (`storage/cache.rs:690`, `storage/cache_manager.rs:187`);
  `CleanReachesLimit` and `EvictionJustified` except exactly what it tried in
  vain.
- A command that cannot read the LRU manifest starts with an empty one and
  replaces the file: the times of last use are gone (`storage/cache.rs:64`).
- Two items with one display name cannot be exported as a ympk
  (`commands/export/mod.rs:170`), and in an mrpack the JAR of one replaces that of
  another with the same file name (`commands/export/mrpack.rs:215`).
- Of two sources of a configuration file the one of lower priority wins
  (`Launch`, `ConfigPriority`; `commands/launch/mod.rs:268` against
  `docs/specs/storage.md:173`).
- A limit of zero empties the cache (`Caches`, `ZeroIsUnlimited`;
  `storage/cache_manager.rs:116` against `docs/specs/caching.md:164`).
- A kept installer or asset index that is damaged is never downloaded again; the
  outputs and arguments a kill leaves torn are taken as they are; an existing
  `download_jar` target is trusted (`minecraft.rs:63`).  `LaunchSound` says
  exactly which files a launch may rely on.
- Removing a file with a wrong hash may remove the good one another process has
  just put there; two first launches unpack their JDKs into one directory.
- A refresh token that was rotated is lost with the answer that carried it or
  with a failure of the exchange after it; a refresh in flight writes the
  account back after a logout.
- `send_retried` never honours Retry-After.
- The organizer removes a version the game wrote between copy and removal
  (`NoVersionLost` excepts exactly that).
- In a release build the remaining budget of a clean wraps when files change
  under it.
- Configuration kept inside a mod's own directory is not exported.
- A `config.toml` or `modpack.toml` that does not load stops every command,
  `config reset`, `config edit` and `init` among them; a README that `init`
  finds is kept although it names another game.
- `~1.0` admits 1.5 when the numbers have two parts and only 1.0.x when they
  have three; `--version "*"` takes the first release listed and not the newest;
  the resolver ignores the release a dependency names; a CurseForge file whose
  link cannot be looked up is dropped; GitHub's pre-releases are not filtered; a
  URL has the version "unknown".

## Plan

Done, in this order: what decides which files are trusted (resolver, manifest,
atomic write, downloads, manager), what changes a modpack (`Modpack`), what runs
it (`Launch`, `Prepare`), what is shared between processes (`Caches`,
`HttpMeta`, `Auth`), what surrounds them (`Organize`, `Export`, `Workspace`,
`Versions`); and the proofs of the safety properties of all of these.

Left:

1. The capture of a background task's output (`output.rs:35`), which needs tasks
   that move between threads.
2. The delays between attempts, with Retry-After.

Of the properties checked by the passing runs, those that remain without a proof
are the liveness properties.

## Not modelled

- `output.rs`: formatting and flags.  The one hazard in it is listed.
- The manager's screens: they draw from the state and change scroll offsets.
- `info`, `search`, `completions`: queries.  `self-update` calls a crate.
- URLs, JSON shapes, archive formats, command-line parsing, templates of the
  installers' arguments, rules of library selection: string and JSON work
  without state.  Models take the answers as nondeterministic.
- `cache.rs`: `write_bytes` and `put`, which only tests call.
- The end-to-end harness, tests and packaging.

## How to run

    tlc -workers 2 -config MCManage.cfg MCManage     # model-check
    tlapm ManageProofs.tla                           # check the proofs
