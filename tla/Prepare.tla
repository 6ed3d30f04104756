------------------------------ MODULE Prepare ------------------------------
(***************************************************************************)
(* From the start of a launch to the moment it can build its run directory *)
(* (commands/launch/prepare.rs, api/streaming.rs, api/installer/): a JDK,  *)
(* Minecraft's files and the loader's, fetched into a cache directory that *)
(* all yammm processes share.                                              *)
(*                                                                         *)
(* Nothing is locked.  A process can be killed at any point and started    *)
(* again.  Temporary files of download_to_file have names of their own     *)
(* (process id and counter) and are left out; the JDK's are shared.        *)
(***************************************************************************)
EXTENDS Naturals, FiniteSets, Sequences

CONSTANTS
  Procs,
  Files, Class,   \* Class[f]: what kind of file f is, one of Classes
  Modpacks,       \* what is launched: [loader, side]
  MaxStarts, MaxKills

Sides == {"client", "server"}

\* The steps of a launch that fetch or write files, in their order.
Place == [game |-> 1, index |-> 2, asset |-> 3, library |-> 4, native |-> 5, natives |-> 6,
          loaderlib |-> 7, installer |-> 8, profilelib |-> 9, versionlib |-> 10,
          processors |-> 11, again |-> 12, args |-> 13]
Steps == DOMAIN Place
GameSteps == {"game", "index", "asset", "library", "native", "natives"}
FabricSteps == {"loaderlib"}
InstallerSteps == {"installer", "profilelib", "versionlib", "args"}
\* The processors of the installer, and the second look at the version's libraries.
ProcessorSteps == {"processors", "again"}
StepsOf == [fabric |-> GameSteps \cup FabricSteps,
            plain |-> GameSteps \cup InstallerSteps,  \* no processors for the side
            forge |-> GameSteps \cup InstallerSteps \cup ProcessorSteps]
Loaders == DOMAIN StepsOf

\* How a kind is treated.  "hashed": HashPolicy::Required.  "looks": the caller
\* looks whether the file exists and asks for it only if not.  "inplace": it is
\* written under its own name.  "collected": failures are reported after the
\* last file of the step.  "parsed": at once when it is there.  "optional": it
\* may be passed over.
GameJar == {"hashed", "looks"}
IndexFile == {"looks", "parsed"}
Asset == {"hashed", "looks", "collected"}
McLibrary == {"hashed", "looks"}
NativesDir == {"inplace", "looks"}
LoaderLibrary == {}
Installer == {"looks", "parsed"}
ProfileLibrary == {"hashed", "collected"}
VersionLibrary == {"hashed", "looks", "collected"}
\* A library of the version without a url, for the processors to write.
ProcessorOutput == {"inplace", "optional"}
LaunchArgs == {"inplace", "looks", "optional"}

How == [game |-> GameJar, index |-> IndexFile, asset |-> Asset, library |-> McLibrary,
        native |-> McLibrary, natives |-> NativesDir, loaderlib |-> LoaderLibrary,
        installer |-> Installer, profilelib |-> ProfileLibrary,
        versionlib |-> VersionLibrary, output |-> ProcessorOutput, args |-> LaunchArgs]
Classes == DOMAIN How

\* The kinds of files that a step sees to: its own, but for those of the installer.
ClassesAt(step) ==
  IF step \in {"versionlib", "again"} THEN {"versionlib", "output"}
  ELSE IF step = "processors" THEN {"output"} ELSE {step}

ASSUME PrepareAssumption ==
  /\ Class \in [Files -> Classes]
  /\ Modpacks \subseteq [loader : Loaders, side : Sides]
  /\ {MaxStarts, MaxKills} \subseteq Nat

VARIABLES
  at,         \* what each process is doing
  disk,       \* each file: "absent", "whole", "bad" (other bytes), "torn" (being written)
  damaged,    \* files that were bad from the start
  run,        \* what each process was started for
  todo,       \* the steps it still has to take
  step,       \* the one it is at
  left,       \* the files that are left of it
  cur,        \* the file it is at, or ""
  got,        \* what it has downloaded: "whole" or "bad"
  failures,   \* a collected failure
  used,       \* history: the files it passed, with the step, as they were then
  jdk, archive, extract,  \* java/temurin-..., java/tmp/<archive>, java/tmp/extract-<major>
  intact,     \* nobody has removed what the process has in java/tmp
  overlap,    \* history: a process installed a JDK while another did or had one
  starts, kills

fetchVars == <<disk, todo, step, left, cur, got, failures, used>>
jdkVars == <<jdk, archive, extract, intact, overlap>>
bounds == <<starts, kills>>
prepareVars == <<at, damaged, run, fetchVars, jdkVars, bounds>>

Is(f, what) == what \in How[Class[f]]
FilesOf(s) == {f \in Files : Class[f] \in ClassesAt(s)}
\* The steps that a launch takes: assets are the client's.
StepsFor == [r \in [loader : Loaders, side : Sides] |->
               {s \in StepsOf[r.loader] : /\ FilesOf(s) # {}
                                          /\ s \in {"index", "asset"} => r.side = "client"}]
Go(p, where) == at' = [at EXCEPT ![p] = where]
NoRun == [loader |-> "fabric", side |-> "client"]

PrepareInit ==
  /\ at = [p \in Procs |-> "idle"]
  /\ damaged \in SUBSET {f \in Files : Is(f, "hashed")} /\ Cardinality(damaged) <= 1
  /\ disk = [f \in Files |-> IF f \in damaged THEN "bad" ELSE "absent"]
  /\ run = [p \in Procs |-> NoRun]
  /\ todo = [p \in Procs |-> {}]
  /\ step = [p \in Procs |-> ""]
  /\ left = [p \in Procs |-> {}]
  /\ cur = [p \in Procs |-> ""]
  /\ got = [p \in Procs |-> ""]
  /\ failures = [p \in Procs |-> FALSE]
  /\ used = [p \in Procs |-> {}]
  /\ jdk \in {"absent", "whole"} /\ archive = "absent" /\ extract = "absent"
  /\ intact = [p \in Procs |-> TRUE]
  /\ overlap = FALSE
  /\ starts = 0 /\ kills = 0

\* A launch begins, of a modpack of either loader.
Start(p) ==
  /\ at[p] \in {"idle", "failed"}
  /\ starts < MaxStarts /\ starts' = starts + 1
  /\ \E r \in Modpacks : run' = [run EXCEPT ![p] = r]
  /\ Go(p, "java")
  /\ UNCHANGED <<damaged, fetchVars, jdkVars, kills>>

----------------------------------------------------------------------------
(* The JDK: resolve_java and install_jdk.                                  *)

JdkSteps == {"asset", "fetchjdk", "storejdk", "unpack", "unpacking", "move", "clear", "movein",
             "clean", "detect"}
Installing(p) == at[p] \in JdkSteps
HasJdk(p) == at[p] \in {"info", "file", "write", "stat", "stale", "fetch", "commit", "ready"}
JdkFiles == <<jdk, archive, extract>>
JdkDir == <<JdkFiles, intact>>
Elsewhere == <<damaged, run, fetchVars, bounds>>

\* find_cached_java, and whether it tells its version; any JDK may fail to, and
\* is installed anew.  With --java none of this happens.
ResolveJava(p) ==
  /\ at[p] = "java"
  /\ \/ /\ jdk # "absent"
        /\ Go(p, "info")
        /\ overlap' = (overlap \/ \E q \in Procs \ {p} : Installing(q))
     \/ /\ Go(p, "asset")
        /\ overlap' = (overlap \/ \E q \in Procs \ {p} : Installing(q) \/ HasJdk(q))
  /\ UNCHANGED <<JdkDir, Elsewhere>>

\* get_latest_jdk; a stale archive is removed.
JdkAsset(p) ==
  /\ at[p] = "asset"
  /\ \/ Go(p, "fetchjdk") /\ archive' = "absent"
     \/ Go(p, "failed") /\ UNCHANGED archive
  /\ UNCHANGED <<jdk, extract, intact, overlap, Elsewhere>>

FetchJdk(p) ==
  /\ at[p] = "fetchjdk"
  /\ \E next \in {"storejdk", "failed"} : Go(p, next)
  /\ intact' = [intact EXCEPT ![p] = TRUE]
  /\ UNCHANGED <<JdkFiles, overlap, Elsewhere>>

\* The rename needs the temporary file, which went with java/tmp if another
\* process has cleaned up.
StoreJdk(p) ==
  /\ at[p] = "storejdk"
  /\ \/ /\ intact[p] \/ archive = "whole"
        /\ Go(p, "unpack") /\ archive' = "whole"
     \/ ~intact[p] /\ archive = "absent" /\ Go(p, "failed") /\ UNCHANGED archive
  /\ UNCHANGED <<jdk, extract, intact, overlap, Elsewhere>>

Others(p, value) == [q \in Procs |-> IF q = p THEN intact[q] ELSE value]

\* Mistake: the archive is unpacked where the JDK is looked for.
UnpackHere(p) ==
  /\ at[p] = "unpack"
  /\ \/ /\ archive = "whole" /\ Go(p, "unpacking")
        /\ extract' = "partial" /\ jdk' = "partial"
        /\ intact' = [Others(p, FALSE) EXCEPT ![p] = TRUE]
     \/ archive = "absent" /\ Go(p, "failed") /\ extract' = "partial"
          /\ intact' = Others(p, FALSE) /\ UNCHANGED jdk
  /\ UNCHANGED <<archive, overlap, Elsewhere>>

\* extract-<major> is removed and made anew.
Unpack(p) ==
  /\ at[p] = "unpack"
  /\ \/ /\ archive = "whole" /\ Go(p, "unpacking")
        /\ intact' = [Others(p, FALSE) EXCEPT ![p] = TRUE]
     \/ archive = "absent" /\ Go(p, "failed")
          /\ intact' = Others(p, FALSE)
  /\ extract' = "partial"
  /\ UNCHANGED <<jdk, archive, overlap, Elsewhere>>

\* It is complete if nobody removed or wrote any of it meanwhile.
Unpacked(p) ==
  /\ at[p] = "unpacking"
  /\ LET alone == intact[p] /\ \A q \in Procs \ {p} : at[q] # "unpacking"
     IN \/ alone /\ extract' = "whole" /\ Go(p, "move")
        \/ ~alone /\ extract' = "partial" /\ Go(p, "move")
        \/ Go(p, "failed") /\ UNCHANGED extract
  /\ UNCHANGED <<jdk, archive, intact, overlap, Elsewhere>>

\* find_extracted_jdk_dir; then the JDK that is there is removed,
MoveJdk(p) ==
  /\ at[p] = "move"
  /\ \/ extract # "absent" /\ jdk = "absent" /\ Go(p, "movein") /\ UNCHANGED jdk
     \/ extract # "absent" /\ jdk # "absent" /\ Go(p, "clear") /\ jdk' = "remains"
     \/ extract # "whole" /\ Go(p, "failed") /\ UNCHANGED jdk
  /\ UNCHANGED <<archive, extract, intact, overlap, Elsewhere>>

\* file by file, until all is gone or one cannot be removed,
ClearJdk(p) ==
  /\ at[p] = "clear"
  /\ \/ Go(p, "movein") /\ jdk' = "absent"
     \/ Go(p, "failed") /\ jdk' \in {jdk, IF jdk = "absent" THEN jdk ELSE "remains"}
  /\ UNCHANGED <<archive, extract, intact, overlap, Elsewhere>>

\* and the new one renamed into its place, which must be free.
MoveJdkIn(p) ==
  /\ at[p] = "movein"
  /\ \/ /\ extract # "absent" /\ jdk = "absent"
        /\ jdk' = extract /\ extract' = "absent"
        /\ intact' = Others(p, FALSE)
        /\ Go(p, "clean")
     \/ (extract = "absent" \/ jdk # "absent")
          /\ Go(p, "failed") /\ UNCHANGED <<jdk, extract, intact>>
  /\ UNCHANGED <<archive, overlap, Elsewhere>>

\* java/tmp is removed, with whatever other processes have in it.
CleanJdkTmp(p) ==
  /\ at[p] = "clean"
  /\ archive' = "absent" /\ extract' = "absent"
  /\ intact' = Others(p, FALSE)
  /\ Go(p, "detect")
  /\ UNCHANGED <<jdk, overlap, Elsewhere>>

DetectJava(p) ==
  /\ at[p] = "detect"
  /\ \/ jdk # "absent" /\ Go(p, "info")
     \/ Go(p, "failed")
  /\ UNCHANGED <<jdkVars, Elsewhere>>

----------------------------------------------------------------------------
(* The files.                                                              *)

Other == <<damaged, run, jdkVars, bounds>>
\* get_version_info: the manifest, then the version's own file; it names the
\* files.
GetVersionInfo(p) ==
  /\ at[p] = "info"
  /\ \/ Go(p, "file") /\ todo' = [todo EXCEPT ![p] = StepsFor[run[p]]]
     \/ Go(p, "failed") /\ UNCHANGED todo
  /\ UNCHANGED <<disk, step, left, cur, got, failures, used, Other>>

progress == <<todo, step, left, cur, got, failures, used>>

\* The launch is over.
End(p, how) ==
  /\ Go(p, how)
  /\ todo' = [todo EXCEPT ![p] = {}]
  /\ step' = [step EXCEPT ![p] = ""]
  /\ left' = [left EXCEPT ![p] = {}]
  /\ cur' = [cur EXCEPT ![p] = ""]
  /\ got' = [got EXCEPT ![p] = ""]
  /\ failures' = [failures EXCEPT ![p] = FALSE]
  /\ used' = [used EXCEPT ![p] = {}]

\* The step whose turn it is.
NextOf(p) == {s \in todo[p] : \A other \in todo[p] : Place[s] <= Place[other]}

Take(p, s) ==
  /\ step' = [step EXCEPT ![p] = s]
  /\ left' = [left EXCEPT ![p] = FilesOf(s)]
  /\ todo' = [todo EXCEPT ![p] = @ \ {s}]
  /\ UNCHANGED <<at, cur, got, failures, used>>

\* Mistake: what failed is only logged.
NextStepAnyway(p) ==
  /\ at[p] = "file" /\ left[p] = {}
  /\ \/ \E s \in NextOf(p) : Take(p, s)
     \/ todo[p] = {} /\ Go(p, "ready") /\ UNCHANGED progress
  /\ UNCHANGED <<disk, Other>>

\* Once all files of a step are seen to, what failed of them ends the launch;
\* else the next step follows.
NextStep(p) ==
  /\ at[p] = "file" /\ left[p] = {}
  /\ \/ failures[p] /\ End(p, "failed")
     \/ ~failures[p] /\ \E s \in NextOf(p) : Take(p, s)
     \/ ~failures[p] /\ todo[p] = {} /\ Go(p, "ready") /\ UNCHANGED progress
  /\ UNCHANGED <<disk, Other>>

\* p goes on with f as it is; a file that is not what it should be may not
\* parse.
Pass(p, f, content) ==
  \/ /\ Go(p, "file")
     /\ used' = [used EXCEPT ![p] = @ \cup {<<step[p], f, content>>}]
     /\ left' = [left EXCEPT ![p] = @ \ {f}]
     /\ cur' = [cur EXCEPT ![p] = ""]
     /\ got' = [got EXCEPT ![p] = ""]
     /\ UNCHANGED <<todo, step, failures>>
  \/ Is(f, "parsed") /\ content # "whole" /\ End(p, "failed")

\* A failure ends the launch at once, or is collected.
FailFile(p) ==
  \/ /\ Is(cur[p], "collected")
     /\ Go(p, "file")
     /\ failures' = [failures EXCEPT ![p] = TRUE]
     /\ left' = [left EXCEPT ![p] = @ \ {cur[p]}]
     /\ cur' = [cur EXCEPT ![p] = ""]
     /\ UNCHANGED <<todo, step, got, used>>
  \/ ~Is(cur[p], "collected") /\ End(p, "failed")

\* What is there is taken, by the callers that look first and by the writers in
\* place that skip what exists.
TakeExisting(p) ==
  /\ at[p] = "file"
  /\ \E f \in left[p] :
       /\ disk[f] # "absent"
       /\ Is(f, "looks")
       /\ Pass(p, f, disk[f])
  /\ UNCHANGED <<disk, Other>>

\* A library without a url is on the class path if it exists, and silently not
\* if it does not.
Sourceless(p, f) == Class[f] = "output" /\ step[p] # "processors"

\* So with a file that processors leave as it is, or launch arguments that the
\* installer does not have or that have no directory.
PassOver(p) ==
  /\ at[p] = "file"
  /\ \E f \in left[p] : Is(f, "optional") /\ Pass(p, f, disk[f])
  /\ UNCHANGED <<disk, Other>>

\* Else download_to_file is called, or the writing in place begins.
BeginFile(p) ==
  /\ at[p] = "file"
  /\ \E f \in left[p] :
       /\ ~Sourceless(p, f)
       /\ disk[f] = "absent" \/ ~Is(f, "looks")
       /\ cur' = [cur EXCEPT ![p] = f]
       /\ IF Is(f, "inplace")
          THEN Go(p, "write") /\ disk' = [disk EXCEPT ![f] = "torn"]
          ELSE Go(p, "stat") /\ UNCHANGED disk
  /\ UNCHANGED <<todo, step, left, got, failures, used, Other>>

\* The writer may fail, or be a processor that does.
WriteInPlace(p) ==
  /\ at[p] = "write"
  /\ LET f == cur[p]
         shared == \E q \in Procs \ {p} : at[q] = "write" /\ cur[q] = f
         content == IF shared THEN "torn" ELSE "whole"
     IN \/ Pass(p, f, content) /\ disk' = [disk EXCEPT ![f] = content]
        \/ FailFile(p) /\ UNCHANGED disk
  /\ UNCHANGED Other

\* download_to_file: a file that exists is taken as it is if there is no hash to
\* compare, and if there is one, only if it matches.
StatDest(p) ==
  /\ at[p] = "stat"
  /\ LET f == cur[p]
         matches == ~Is(f, "hashed") \/ disk[f] = "whole"
     IN \/ disk[f] = "absent" /\ Go(p, "fetch") /\ UNCHANGED progress
        \/ disk[f] # "absent" /\ matches /\ Pass(p, f, disk[f])
        \/ disk[f] # "absent" /\ ~matches /\ Go(p, "stale") /\ UNCHANGED progress
  /\ UNCHANGED <<disk, Other>>

\* The stale file is removed, whatever has become of it since it was hashed.
RemoveStale(p) ==
  /\ at[p] = "stale"
  /\ \/ /\ disk[cur[p]] # "absent"
        /\ disk' = [disk EXCEPT ![cur[p]] = "absent"]
        /\ Go(p, "fetch")
        /\ UNCHANGED progress
     \/ disk[cur[p]] = "absent" /\ FailFile(p) /\ UNCHANGED disk
  /\ UNCHANGED Other

\* Mistake: a download that failed is begun again.
FetchAgain(p) ==
  /\ at[p] = "fetch"
  /\ \/ /\ \E content \in {"whole", "bad"} :
             /\ content = "whole" \/ ~Is(cur[p], "hashed")
             /\ got' = [got EXCEPT ![p] = content]
        /\ Go(p, "commit")
     \/ Go(p, "stat") /\ UNCHANGED got
  /\ UNCHANGED <<todo, step, left, cur, failures, used, disk, Other>>

\* The request (retried), the stream and the sync; then the hash, if there is one.
Fetch(p) ==
  /\ at[p] = "fetch"
  /\ \/ /\ \E content \in {"whole", "bad"} :
             /\ content = "whole" \/ ~Is(cur[p], "hashed")
             /\ got' = [got EXCEPT ![p] = content]
        /\ Go(p, "commit")
        /\ UNCHANGED <<todo, step, left, cur, failures, used>>
     \/ FailFile(p)
  /\ UNCHANGED <<disk, Other>>

\* A file that has appeared meanwhile is preferred and not hashed.
Commit(p) ==
  /\ at[p] = "commit"
  /\ LET f == cur[p]
         content == IF disk[f] = "absent" THEN got[p] ELSE disk[f]
     IN disk' = [disk EXCEPT ![f] = content] /\ Pass(p, f, content)
  /\ UNCHANGED Other

----------------------------------------------------------------------------
\* The process dies; what it has written in place stays as it is.
Kill(p) ==
  /\ at[p] \notin {"idle", "failed", "ready"}
  /\ kills < MaxKills /\ kills' = kills + 1
  /\ End(p, "idle")
  /\ UNCHANGED <<damaged, run, disk, jdkVars, starts>>

JdkStep(p) ==
  \/ ResolveJava(p) \/ JdkAsset(p) \/ FetchJdk(p) \/ StoreJdk(p) \/ Unpack(p) \/ Unpacked(p)
  \/ MoveJdk(p) \/ ClearJdk(p) \/ MoveJdkIn(p) \/ CleanJdkTmp(p) \/ DetectJava(p)

FileStep(p) ==
  \/ GetVersionInfo(p) \/ NextStep(p) \/ TakeExisting(p) \/ PassOver(p) \/ BeginFile(p)
  \/ WriteInPlace(p)
  \/ StatDest(p) \/ RemoveStale(p) \/ Fetch(p) \/ Commit(p)

Onward(p) == JdkStep(p) \/ FileStep(p)

PrepareNext == \E p \in Procs : Start(p) \/ Onward(p) \/ Kill(p)

\* A process that runs goes on: every request ends, by an answer or by the
\* client's timeout.
PrepareFairness == \A p \in Procs : WF_prepareVars(Onward(p))

PrepareSpec == PrepareInit /\ [][PrepareNext]_prepareVars /\ PrepareFairness
----------------------------------------------------------------------------
(* Properties.                                                             *)

Contents == {"absent", "whole", "bad", "torn"}
Uses == (Steps \cup {""}) \X Files \X Contents

PrepareTypeOK ==
  /\ disk \in [Files -> Contents] /\ damaged \subseteq Files
  /\ run \in [Procs -> [loader : Loaders, side : Sides]]
  /\ at \in [Procs -> {"idle", "java", "info", "file", "write", "stat", "stale", "fetch",
                       "commit", "ready", "failed"} \cup JdkSteps]
  /\ todo \in [Procs -> SUBSET Steps] /\ \A p \in Procs : todo[p] \subseteq StepsFor[run[p]]
  /\ step \in [Procs -> Steps \cup {""}]
  /\ left \in [Procs -> SUBSET Files] /\ cur \in [Procs -> Files \cup {""}]
  /\ got \in [Procs -> {"", "whole", "bad"}]
  /\ used \in [Procs -> SUBSET Uses]
  /\ failures \in [Procs -> BOOLEAN] /\ intact \in [Procs -> BOOLEAN]
  /\ jdk \in {"absent", "partial", "remains", "whole"} /\ extract \in {"absent", "partial", "whole"}
  /\ archive \in {"absent", "whole"} /\ overlap \in BOOLEAN
  /\ starts \in 0 .. MaxStarts /\ kills \in 0 .. MaxKills

\* How a file may be when a launch goes on with it: a file that has a hash is
\* what it should be, unless its caller looked only whether it exists and it
\* was damaged before; one that has none may be any; only a file written under
\* its own name may be incomplete; and only what has no url or may not be in the
\* installer may be absent.
Acceptable(f) ==
  {"whole"} \cup (IF ~Is(f, "hashed") /\ ~Is(f, "inplace") THEN {"bad"} ELSE {})
           \cup (IF Is(f, "looks") /\ f \in damaged THEN {"bad"} ELSE {})
           \cup (IF Is(f, "inplace") THEN {"torn"} ELSE {})
           \cup (IF Is(f, "optional") THEN {"absent"} ELSE {})

\* streaming.rs, "Common guarantees": a launch that gets through the preparation
\* has passed every file it needs, none missing because a failure of many was
\* overlooked, and each of them verified and complete as far as it can be,
\* whatever other processes fetch, replace or leave behind meanwhile.  A library
\* without a url that was there when the processors were done with it is on the
\* class path, though the first look at the libraries may have found none.
LaunchSound ==
  \A p \in Procs : at[p] = "ready" =>
    /\ \A s \in StepsFor[run[p]] : \A f \in FilesOf(s) :
         \E content \in Acceptable(f) : <<s, f, content>> \in used[p]
    /\ \A f \in FilesOf("processors") : \A content \in Contents \ {"absent"} :
         <<"processors", f, content>> \in used[p] =>
           \E s \in {"versionlib", "again"}, found \in Contents \ {"absent"} :
             <<s, f, found>> \in used[p]

\* install_jdk: by unpacking in a place of its own and renaming, no failure and
\* no kill leaves a JDK that was never complete where it is looked for; the one
\* that a launch has installed is whole; and the one that it has got stays as it
\* is to the end of the preparation.  All this as long as no process installs a
\* JDK while another does or has got one.  What the removal of an older JDK has
\* left when it was cut short may be incomplete, and may be got.
JdkSound ==
  [][~overlap' =>
       /\ jdk' # "partial"
       /\ \A p \in Procs : HasJdk(p)' =>
            /\ jdk' # "absent"
            /\ at[p] = "detect" => jdk' = "whole"
            /\ HasJdk(p) => jdk' = jdk]_prepareVars

\* A launch that has begun gets through its preparation or fails, if it is not
\* killed, however the processes undo each other's work.
PrepareEnds == \A p \in Procs : at[p] = "java" ~> at[p] \in {"idle", "ready", "failed"}
=============================================================================
