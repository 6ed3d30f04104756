------------------------------ MODULE Download ------------------------------
(***************************************************************************)
(* The download service (services/download.rs): download_missing_mods      *)
(* partitions the tracked mods, spawns one task per missing JAR under a    *)
(* semaphore and joins them; each task runs download_jar, that is          *)
(* retry_request (api/retry.rs) around download_once and                   *)
(* JarCache::commit_tmp (storage/cache.rs).                                *)
(*                                                                         *)
(* Abstracted: a file is "part" (being written), "right" (it hashes to the *)
(* hash in its name) or "wrong"; an error is its being retryable or not;   *)
(* the mods are spawned in any order; the LRU touch is module              *)
(* ManifestWriter's.  A mod may share its hash, so its JAR, with another.  *)
(***************************************************************************)
EXTENDS Naturals, FiniteSets

CONSTANTS
  Mods,           \* tracked items of the modpack
  Hashes,         \* the values of a recorded hash
  NoHash,         \* a missing or empty hash
  HashOf,         \* HashOf[m]: the hash recorded for m
  MaxConcurrent,  \* the max_concurrent argument
  MaxRetries,     \* RetryConfig::max_retries
  MaxKills        \* bound on kills of the process

ASSUME DownloadAssumption ==
  /\ IsFiniteSet(Mods)
  /\ NoHash \notin Hashes
  /\ HashOf \in [Mods -> Hashes \cup {NoHash}]
  /\ MaxConcurrent \in Nat
  /\ MaxRetries \in Nat
  /\ MaxKills \in Nat

VARIABLES
  pc,          \* where download_missing_mods is
  todo,        \* to_download, less the tasks spawned
  permits,     \* permits left in the semaphore
  downloaded,  \* DownloadSummary::downloaded
  failed,      \* the mods of DownloadSummary::failed
  task,        \* task[m]: where m's task is
  attempt,     \* attempt[m]: retry_request's loop variable
  tmpName,     \* tmpName[m]: the number of m's tmp file
  counter,     \* unique_tmp_path's COUNTER
  tmps,        \* this process's tmp files: <<hash, number>> -> content
  jars,        \* jars[h]: what is at h's final path, or "none"
  kills        \* kills so far

mainVars == <<pc, todo, permits, downloaded, failed>>
taskVars == <<task, attempt, tmpName>>
diskVars == <<counter, tmps, jars>>
vars == <<mainVars, taskVars, diskVars, kills>>

-----------------------------------------------------------------------------
(* Tasks *)

Running == {"check", "request", "stream", "hash", "commit", "rename", "sleep"}

\* Those in which the task has a tmp file.
Writing == {"stream", "hash", "commit", "rename"}

Ended == {"ok", "err"}

InFlight == {m \in Mods : task[m] \in Running}

Content == {"part", "right", "wrong"}

\* download_jar and JarCache::contains look only for the file.
Cached(m) == jars[HashOf[m]] # "none"

At(m, place) == task[m] = place

Goto(m, place) == task' = [task EXCEPT ![m] = place]

\* The task's future completes: its permit goes back.
End(m, result) == Goto(m, result) /\ permits' = permits + 1

Tmp(m) == <<HashOf[m], tmpName[m]>>

\* The tmp file is renamed or removed, and its name forgotten.
Discard(m) ==
  /\ tmps' = [n \in DOMAIN tmps \ {Tmp(m)} |-> tmps[n]]
  /\ tmpName' = [tmpName EXCEPT ![m] = 0]

Holding(name, content) ==
  [n \in DOMAIN tmps \cup {name} |-> IF n = name THEN content ELSE tmps[n]]

\* download_missing_mods is not concerned by the step.
MainRests == UNCHANGED <<pc, todo, downloaded, failed>>

\* The permit is given back for the time of the sleep as well.
FailedPermitTwice(m, retryable) ==
  /\ permits' = permits + 1
  /\ IF retryable /\ attempt[m] < MaxRetries
       THEN Goto(m, "sleep") /\ attempt' = [attempt EXCEPT ![m] = @ + 1]
       ELSE Goto(m, "err") /\ UNCHANGED attempt

\* One retry too many.
FailedOneMore(m, retryable) ==
  IF retryable /\ attempt[m] <= MaxRetries
    THEN Goto(m, "sleep") /\ attempt' = [attempt EXCEPT ![m] = @ + 1]
         /\ UNCHANGED permits
    ELSE End(m, "err") /\ UNCHANGED attempt

\* A retry does not count.
FailedUncounted(m, retryable) ==
  /\ IF retryable THEN Goto(m, "sleep") /\ UNCHANGED permits
                  ELSE End(m, "err")
  /\ UNCHANGED attempt

\* download_once returned an error: sleep and try again, or give up.
Failed(m, retryable) ==
  IF retryable /\ attempt[m] < MaxRetries
    THEN Goto(m, "sleep") /\ attempt' = [attempt EXCEPT ![m] = @ + 1]
         /\ UNCHANGED permits
    ELSE End(m, "err") /\ UNCHANGED attempt

-----------------------------------------------------------------------------
(* download_missing_mods *)

\* Mods without a hash fail, those in the cache are skipped, the others are
\* downloaded.
Partition ==
  /\ pc = "partition"
  /\ failed' = {m \in Mods : HashOf[m] = NoHash}
  /\ todo' = {m \in Mods \ failed' : ~Cached(m)}
  /\ pc' = IF todo' = {} THEN "done" ELSE "spawn"
  /\ UNCHANGED <<permits, downloaded, taskVars, diskVars, kills>>

\* acquire_owned, then spawn.
Spawn(m) ==
  /\ pc = "spawn"
  /\ m \in todo
  /\ permits > 0
  /\ todo' = todo \ {m}
  /\ pc' = IF todo' = {} THEN "join" ELSE "spawn"
  /\ permits' = permits - 1
  /\ Goto(m, "check")
  /\ UNCHANGED <<downloaded, failed, attempt, tmpName, diskVars, kills>>

\* A failed task is joined and forgotten.
JoinForgetsErrors(m) ==
  /\ pc = "join"
  /\ task[m] \in Ended
  /\ downloaded' = downloaded + (IF At(m, "ok") THEN 1 ELSE 0)
  /\ Goto(m, "joined")
  /\ pc' = IF \E n \in Mods \ {m} : task[n] \in Running \cup Ended
             THEN "join" ELSE "done"
  /\ UNCHANGED <<todo, permits, failed, attempt, tmpName, diskVars, kills>>

\* join_next_with_id; a panic is an error of the mod the id stands for.
Join(m) ==
  /\ pc = "join"
  /\ task[m] \in Ended
  /\ IF At(m, "ok")
       THEN downloaded' = downloaded + 1 /\ UNCHANGED failed
       ELSE failed' = failed \cup {m} /\ UNCHANGED downloaded
  /\ Goto(m, "joined")
  /\ pc' = IF \E n \in Mods \ {m} : task[n] \in Running \cup Ended
             THEN "join" ELSE "done"
  /\ UNCHANGED <<todo, permits, attempt, tmpName, diskVars, kills>>

-----------------------------------------------------------------------------
(* download_jar and download_once *)

\* The fast path: another task may have brought the JAR since the partition.
Check(m) ==
  /\ At(m, "check")
  /\ IF Cached(m) THEN End(m, "ok") ELSE Goto(m, "request") /\ UNCHANGED permits
  /\ MainRests
  /\ UNCHANGED <<attempt, tmpName, diskVars, kills>>

\* The request fails, is answered with an error status (5xx is retried), or
\* the cache directory or the tmp file cannot be created (not retried).
RequestFails(m) ==
  /\ At(m, "request")
  /\ \E retryable \in BOOLEAN : Failed(m, retryable)
  /\ MainRests
  /\ UNCHANGED <<tmpName, diskVars, kills>>

\* The tmp file is named after the JAR alone.
CreateShared(m) ==
  /\ At(m, "request")
  /\ tmpName' = [tmpName EXCEPT ![m] = 0]
  /\ tmps' = Holding(<<HashOf[m], 0>>, "part")
  /\ Goto(m, "stream")
  /\ MainRests
  /\ UNCHANGED <<permits, attempt, counter, jars, kills>>

\* A success status: the tmp file gets its unique name and is created empty.
Create(m) ==
  /\ At(m, "request")
  /\ tmpName' = [tmpName EXCEPT ![m] = counter]
  /\ counter' = counter + 1
  /\ tmps' = Holding(<<HashOf[m], counter>>, "part")
  /\ Goto(m, "stream")
  /\ MainRests
  /\ UNCHANGED <<permits, attempt, jars, kills>>

\* The body ended and the file is synced; the CDN may have sent another file.
StreamEnds(m) ==
  /\ At(m, "stream")
  /\ \E content \in {"right", "wrong"} : tmps' = Holding(Tmp(m), content)
  /\ Goto(m, "hash")
  /\ MainRests
  /\ UNCHANGED <<permits, attempt, tmpName, counter, jars, kills>>

\* The guard was disarmed too early.
StreamFailsLeaking(m) ==
  /\ task[m] \in {"stream", "hash"}
  /\ \E retryable \in BOOLEAN :
       /\ retryable => At(m, "stream")
       /\ Failed(m, retryable)
  /\ MainRests
  /\ UNCHANGED <<tmpName, counter, tmps, jars, kills>>

\* A chunk (retried when it timed out), a write, the sync or the hashing
\* fails: the guard removes the tmp file.
StreamFails(m) ==
  /\ task[m] \in {"stream", "hash"}
  /\ Discard(m)
  /\ \E retryable \in BOOLEAN :
       /\ retryable => At(m, "stream")
       /\ Failed(m, retryable)
  /\ MainRests
  /\ UNCHANGED <<counter, jars, kills>>

\* The file is hashed from disk; a mismatch is retried.
Hash(m) ==
  /\ At(m, "hash")
  /\ Tmp(m) \in DOMAIN tmps
  /\ IF tmps[Tmp(m)] = "right"
       THEN Goto(m, "commit") /\ UNCHANGED <<permits, attempt, tmps, tmpName>>
       ELSE Discard(m) /\ Failed(m, TRUE)
  /\ MainRests
  /\ UNCHANGED <<counter, jars, kills>>

\* commit_tmp, first half: a JAR that is already there is used.
Commit(m) ==
  /\ At(m, "commit")
  /\ IF Cached(m)
       THEN Discard(m) /\ End(m, "ok")
       ELSE Goto(m, "rename") /\ UNCHANGED <<permits, tmps, tmpName>>
  /\ MainRests
  /\ UNCHANGED <<attempt, counter, jars, kills>>

\* commit_tmp, second half; another task may have renamed its own in between.
Rename(m) ==
  /\ At(m, "rename")
  /\ Tmp(m) \in DOMAIN tmps
  /\ jars' = [jars EXCEPT ![HashOf[m]] = tmps[Tmp(m)]]
  /\ Discard(m)
  /\ End(m, "ok")
  /\ MainRests
  /\ UNCHANGED <<attempt, counter, kills>>

RenameFails(m) ==
  /\ At(m, "rename")
  /\ Discard(m)
  /\ Failed(m, FALSE)
  /\ MainRests
  /\ UNCHANGED <<counter, jars, kills>>

\* The delay of retry_request is over.
Retry(m) ==
  /\ At(m, "sleep")
  /\ Goto(m, "request")
  /\ MainRests
  /\ UNCHANGED <<permits, attempt, tmpName, diskVars, kills>>

\* A panic unwinds the task: the guard and the permit are dropped.
Panic(m) ==
  /\ m \in InFlight
  /\ End(m, "err")
  /\ IF task[m] \in Writing THEN Discard(m) ELSE UNCHANGED <<tmps, tmpName>>
  /\ MainRests
  /\ UNCHANGED <<attempt, counter, jars, kills>>

-----------------------------------------------------------------------------
(* The process *)

Init ==
  /\ pc = "partition"
  /\ todo = {}
  /\ permits = MaxConcurrent
  /\ downloaded = 0
  /\ failed = {}
  /\ task = [m \in Mods |-> "none"]
  /\ attempt = [m \in Mods |-> 0]
  /\ tmpName = [m \in Mods |-> 0]
  /\ counter = 0
  /\ tmps = [n \in {} |-> "part"]
  /\ jars \in [Hashes -> {"none", "right"}]
  /\ kills = 0

\* The process is killed and the command run again.  Its tmp files stay but are
\* nobody's: their names hold its process id, and File::create would truncate
\* one whose name comes again.
Kill ==
  /\ kills < MaxKills
  /\ kills' = kills + 1
  /\ pc' = "partition"
  /\ todo' = {}
  /\ permits' = MaxConcurrent
  /\ downloaded' = 0
  /\ failed' = {}
  /\ task' = [m \in Mods |-> "none"]
  /\ attempt' = [m \in Mods |-> 0]
  /\ tmpName' = [m \in Mods |-> 0]
  /\ counter' = 0
  /\ tmps' = [n \in {} |-> "part"]
  /\ UNCHANGED jars

Task(m) ==
  \/ Check(m) \/ RequestFails(m) \/ Create(m)
  \/ StreamEnds(m) \/ StreamFails(m) \/ Hash(m)
  \/ Commit(m) \/ Rename(m) \/ RenameFails(m)
  \/ Retry(m)

Work ==
  \/ Partition
  \/ \E m \in Mods : Spawn(m) \/ Join(m) \/ Task(m)

Done == pc = "done" /\ UNCHANGED vars

Next == Work \/ (\E m \in Mods : Panic(m)) \/ Kill \/ Done

Spec == Init /\ [][Next]_vars /\ WF_vars(Work)

-----------------------------------------------------------------------------
(* Properties *)

TypeOK ==
  /\ pc \in {"partition", "spawn", "join", "done"}
  /\ todo \subseteq Mods
  /\ permits \in 0..MaxConcurrent
  /\ downloaded \in Nat
  /\ failed \subseteq Mods
  /\ task \in [Mods -> Running \cup Ended \cup {"none", "joined"}]
  /\ attempt \in [Mods -> 0..MaxRetries]
  /\ tmpName \in [Mods -> Nat]
  /\ counter \in Nat
  /\ DOMAIN tmps \subseteq Hashes \X Nat
  /\ tmps \in [DOMAIN tmps -> Content]
  /\ jars \in [Hashes -> Content \cup {"none"}]
  /\ kills \in 0..MaxKills

\* Whatever is at a final path hashes to the name it has: no partial and no
\* unverified JAR is ever visible there, for two tasks of one hash and for the
\* run after a kill as well.  ("only renamed into the final location if the
\* hash matches", services/download.rs.)
JarsVerified == \A h \in Hashes : jars[h] \in {"none", "right"}

\* When the summary is returned, a mod that is not listed as failed has its
\* JAR in the cache, and every task is counted once.  launch and export build
\* on nothing else.
SummaryHonest ==
  pc = "done" =>
    /\ \A m \in Mods \ failed : HashOf[m] # NoHash /\ Cached(m)
    /\ downloaded = Cardinality({m \in Mods \ failed : At(m, "joined")})

\* No more tasks are in flight than the semaphore admits, and none while the
\* summary is being returned.
Bounded ==
  /\ permits + Cardinality(InFlight) = MaxConcurrent
  /\ pc = "done" => InFlight = {}

\* Each tmp file is that of one task which is still busy with it: nothing is
\* left behind by an attempt that failed, was retried or panicked, and two tasks
\* for one hash never write to one file.
TmpOwned ==
  /\ \A n \in DOMAIN tmps : \E m \in Mods : task[m] \in Writing /\ Tmp(m) = n
  /\ \A m, n \in Mods :
       {task[m], task[n]} \subseteq Writing /\ Tmp(m) = Tmp(n) => m = n

\* With at least one permit the command returns, whatever fails: every attempt
\* ends, is retried at most MaxRetries times, and gives its permit back.
Termination == <>[](pc = "done")
=============================================================================
