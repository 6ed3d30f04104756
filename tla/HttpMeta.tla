------------------------------ MODULE HttpMeta ------------------------------
(***************************************************************************)
(* The HTTP metadata cache (api/http_cache.rs) and the retries under it    *)
(* (api/retry.rs): conditional GETs of several tasks or processes on one   *)
(* directory, its soft cap, and `cache clear-http-meta`.                   *)
(*                                                                         *)
(* A body is the version of the resource; its ETag and Last-Modified are   *)
(* the same number.  A server is honest, or answers 304 as it likes.  The  *)
(* atomic write of an entry is its temporary file and the rename: what two *)
(* writers of one path do to its bytes is module AtomicWrite's.            *)
(***************************************************************************)
EXTENDS Integers, FiniteSets

CONSTANTS
  Tasks,
  Urls,
  Names,        \* file names
  Hashes,       \* path_for: what the names of the URLs' files may be
  MaxAge,       \* MAX_AGE_SECS, in ticks
  MaxEntries,   \* MAX_ENTRIES
  MaxRetries,   \* RetryConfig::max_retries
  MaxVersion, MaxTime, MaxCalls, MaxFaults

ASSUME HttpMetaAssumption ==
  /\ IsFiniteSet(Tasks) /\ IsFiniteSet(Urls) /\ IsFiniteSet(Names)
  /\ Urls # {} /\ Hashes \subseteq [Urls -> Names]
  /\ {MaxEntries, MaxVersion, MaxTime} \subseteq Nat \ {0}
  /\ {MaxAge, MaxRetries, MaxCalls, MaxFaults} \subseteq Nat

None == [kind |-> "none"]
Junk == [kind |-> "junk"]      \* a file serde cannot read
\* "taken" is history: when the body came, "fetched" what the entry says.
Response(u, body, time) ==
  [kind |-> "entry", url |-> u, body |-> body, fetched |-> time, taken |-> time]
IsEntry(e) == e.kind = "entry"

\* A file of the directory: <<n, "json">> the entry n, <<n, "tmp">> its
\* temporary file.
Paths == Names \X {"json", "tmp"}

VARIABLES
  fileOf,    \* the name of each URL's file; two URLs may share it
  now,
  honest,    \* whether the server answers 304 only for the current version
  version,   \* the current version of the resources
  disk,      \* what each path holds
  at,        \* what each task is doing
  url,       \* the URL it fetches
  cached,    \* what its lookup found
  tries,     \* attempts of its request that failed
  began,     \* history: [version, time] of its lookup
  got,       \* the entry it stores
  doomed,    \* the paths its eviction or its pruning is to remove
  answer,    \* history: what the call returned, None for an error
  lost,      \* history: the files that failures and kills since the last
             \* complete listing may have left over the cap
  calls,
  faults     \* the listings and removals that failed, and the kills

world == <<fileOf, now, honest, version>>
task == <<url, cached, tries, began, got>>
bounds == <<calls, faults>>
httpVars == <<world, disk, at, task, doomed, answer, lost, bounds>>

\* A fault; it may leave n files over the cap.
Fault(n) == faults < MaxFaults /\ faults' = faults + 1 /\ lost' = lost + n

SomeUrl == CHOOSE u \in Urls : TRUE
NotBegun == [version |-> 0, time |-> 0]

HttpInit ==
  /\ fileOf \in Hashes
  /\ now = 1
  /\ honest \in BOOLEAN
  /\ version = 1
  /\ disk = [f \in Paths |-> None]
  /\ at = [t \in Tasks |-> "idle"]
  /\ url = [t \in Tasks |-> SomeUrl]
  /\ cached = [t \in Tasks |-> None]
  /\ tries = [t \in Tasks |-> 0]
  /\ began = [t \in Tasks |-> NotBegun]
  /\ got = [t \in Tasks |-> None]
  /\ doomed = [t \in Tasks |-> {}]
  /\ answer = [t \in Tasks |-> None]
  /\ lost = 0
  /\ calls = 0 /\ faults = 0

Go(t, step) == at' = [at EXCEPT ![t] = step]
Put(f, e) == disk' = [disk EXCEPT ![f] = e]
Present == {f \in Paths : disk[f] # None}
Json(t) == <<fileOf[url[t]], "json">>
Tmp(t) == <<fileOf[url[t]], "tmp">>

\* What a call that ends leaves behind: nothing but its answer.
Return(t, e) ==
  /\ Go(t, "idle")
  /\ answer' = [answer EXCEPT ![t] = e]
  /\ cached' = [cached EXCEPT ![t] = None]
  /\ got' = [got EXCEPT ![t] = None]
  /\ tries' = [tries EXCEPT ![t] = 0]
  /\ IF e = None THEN /\ url' = [url EXCEPT ![t] = SomeUrl]
                      /\ began' = [began EXCEPT ![t] = NotBegun]
                 ELSE UNCHANGED <<url, began>>

----------------------------------------------------------------------------
(* A conditional GET *)

IsStale(e) == now - e.fetched > MaxAge

\* lookup: no entry if there is none, it cannot be read, or it is of another
\* URL of the same file name.
Lookup(u) ==
  LET e == disk[<<fileOf[u], "json">>] IN
    IF IsEntry(e) /\ e.url = u THEN e ELSE None

\* conditional_fetch_json up to the request; --no-http-cache neither looks up
\* nor stores.
Begin(t, u) ==
  /\ at[t] = "idle" /\ calls < MaxCalls /\ calls' = calls + 1
  /\ url' = [url EXCEPT ![t] = u]
  /\ answer' = [answer EXCEPT ![t] = None]
  /\ began' = [began EXCEPT ![t] = [version |-> version, time |-> now]]
  /\ LET e == Lookup(u)
         fresh == IF IsEntry(e) /\ ~IsStale(e) THEN e ELSE None
     IN \/ Go(t, "send") /\ cached' = [cached EXCEPT ![t] = fresh]
        \/ Go(t, "bypass") /\ UNCHANGED cached
  /\ UNCHANGED <<world, disk, tries, got, doomed, lost, faults>>

Sending(t) == at[t] \in {"send", "bypass"}

\* send_retried: no answer, 429 or a 5xx.
SendFails(t) ==
  /\ Sending(t)
  /\ IF tries[t] < MaxRetries
       THEN tries' = [tries EXCEPT ![t] = @ + 1]
            /\ UNCHANGED <<at, url, cached, began, got, answer>>
       ELSE Return(t, None)
  /\ UNCHANGED <<world, disk, doomed, lost, bounds>>

\* Another status, or a body that cannot be read.
Refused(t) ==
  /\ Sending(t)
  /\ Return(t, None)
  /\ UNCHANGED <<world, disk, doomed, lost, bounds>>

\* Mistake: the 304 makes the entry fresh again.
NotModifiedRenews(t) ==
  /\ Sending(t)
  /\ IF honest THEN cached[t] # None /\ cached[t].body = version ELSE TRUE
  /\ Return(t, cached[t])
  /\ IF cached[t] = None THEN UNCHANGED disk
     ELSE Put(Json(t), [cached[t] EXCEPT !.fetched = now])
  /\ UNCHANGED <<world, doomed, lost, bounds>>

\* 304.  Without an entry it is an error.
NotModified(t) ==
  /\ Sending(t)
  /\ IF honest THEN cached[t] # None /\ cached[t].body = version ELSE TRUE
  /\ Return(t, cached[t])
  /\ UNCHANGED <<world, disk, doomed, lost, bounds>>

\* 200.  The body is returned; it is stored first unless it is too large, has
\* no validator, or the cache is bypassed.
Modified(t) ==
  /\ Sending(t)
  /\ LET e == Response(url[t], version, now) IN
       \/ Return(t, e)
       \/ /\ at[t] = "send"
          /\ Go(t, "write")
          /\ got' = [got EXCEPT ![t] = e]
          /\ cached' = [cached EXCEPT ![t] = None]
          /\ tries' = [tries EXCEPT ![t] = 0]
          /\ UNCHANGED <<url, began, answer>>
  /\ UNCHANGED <<world, disk, doomed, lost, bounds>>

----------------------------------------------------------------------------
(* store *)

WriteTmp(t) ==
  /\ at[t] = "write"
  /\ Put(Tmp(t), got[t]) /\ Go(t, "rename")
  /\ UNCHANGED <<world, task, doomed, answer, lost, bounds>>

\* It fails, or the directory cannot be made: the body is returned all the same.
WriteTmpFails(t) ==
  /\ at[t] = "write"
  /\ Put(Tmp(t), None) /\ Return(t, got[t])
  /\ UNCHANGED <<world, doomed, lost, bounds>>

\* The temporary file is renamed over the entry.  If another task writes it
\* at this moment, the entry is what that task has written so far.
RenameTmp(t) ==
  /\ at[t] = "rename" /\ disk[Tmp(t)] # None
  /\ LET others == {o \in Tasks \ {t} : at[o] \in {"write", "rename"} /\ Tmp(o) = Tmp(t)}
     IN \E e \in {disk[Tmp(t)]} \cup (IF others = {} THEN {} ELSE {Junk}) :
          disk' = [disk EXCEPT ![Json(t)] = e, ![Tmp(t)] = None]
  /\ Go(t, "list")
  /\ UNCHANGED <<world, task, doomed, answer, lost, bounds>>

\* Someone has taken the temporary file.
RenameTmpFails(t) ==
  /\ at[t] = "rename" /\ disk[Tmp(t)] = None
  /\ Return(t, got[t])
  /\ UNCHANGED <<world, disk, doomed, lost, bounds>>

\* The age of a file for evict_if_over_cap; one that cannot be read is oldest.
FetchedAt(f) == IF IsEntry(disk[f]) /\ f[2] = "json" THEN disk[f].fetched ELSE 0

\* Mistake: one file too few.
OldestEntriesButOne(seen, excess) ==
  {s \in SUBSET seen :
    /\ Cardinality(s) = excess - 1
    /\ \A f \in s, g \in seen \ s : FetchedAt(f) <= FetchedAt(g)}

\* The oldest of the files, as many as there are over the cap.
OldestEntries(seen, excess) ==
  {s \in SUBSET seen :
    /\ Cardinality(s) = excess
    /\ \A f \in s, g \in seen \ s : FetchedAt(f) <= FetchedAt(g)}

\* evict_if_over_cap, the listing, which may miss what it has no entry for.  A
\* temporary file counts; its whole content may already be readable, or not.
ListEntries(t) ==
  /\ at[t] = "list"
  /\ \E seen \in SUBSET Present :
       LET excess == Cardinality(seen) - MaxEntries IN
         /\ \/ seen = Present /\ lost' = 0 /\ UNCHANGED faults
            \/ seen # Present /\ Fault(1)
         /\ IF excess <= 0 THEN Return(t, got[t]) /\ UNCHANGED doomed
            ELSE /\ \E s \in OldestEntries(seen, excess) : doomed' = [doomed EXCEPT ![t] = s]
                 /\ Go(t, "evict")
                 /\ UNCHANGED <<task, answer>>
  /\ UNCHANGED <<world, disk, calls>>

\* The directory cannot be listed: the body is stored and returned all the same.
ListFails(t) ==
  /\ at[t] = "list" /\ Fault(1)
  /\ Return(t, got[t])
  /\ UNCHANGED <<world, disk, doomed, calls>>

\* One removal after another, of a file that may be gone; one that fails is
\* passed over.
EvictEntry(t) ==
  /\ at[t] = "evict"
  /\ IF doomed[t] = {} THEN Return(t, got[t]) /\ UNCHANGED <<disk, doomed, lost, faults>>
     ELSE \E f \in doomed[t] :
            /\ \/ Put(f, None) /\ UNCHANGED <<lost, faults>>
               \/ disk[f] # None /\ Fault(1) /\ UNCHANGED disk
            /\ doomed' = [doomed EXCEPT ![t] = @ \ {f}]
            /\ UNCHANGED <<at, task, answer>>
  /\ UNCHANGED <<world, calls>>

----------------------------------------------------------------------------
(* cache clear-http-meta *)

\* All of it is removed, or some before an error.
Clear(t) ==
  /\ at[t] = "idle" /\ calls < MaxCalls /\ calls' = calls + 1
  /\ \E gone \in SUBSET Present : disk' = [f \in Paths |-> IF f \in gone THEN None ELSE disk[f]]
  /\ UNCHANGED <<world, at, task, doomed, answer, lost, faults>>

\* clear_older_than, file by file: what cannot be parsed goes, whatever its
\* age, and a removal may fail.
PruneRead(t) ==
  /\ at[t] = "idle" /\ calls < MaxCalls /\ calls' = calls + 1
  /\ \E f \in Present, age \in {0, MaxAge} :
       /\ FetchedAt(f) = 0 \/ now - FetchedAt(f) > age
       /\ doomed' = [doomed EXCEPT ![t] = {f}]
  /\ Go(t, "prune")
  /\ UNCHANGED <<world, disk, task, answer, lost, faults>>

PruneRemove(t) ==
  /\ at[t] = "prune"
  /\ \E gone \in {doomed[t], {}} : disk' = [f \in Paths |-> IF f \in gone THEN None ELSE disk[f]]
  /\ doomed' = [doomed EXCEPT ![t] = {}]
  /\ Go(t, "idle")
  /\ UNCHANGED <<world, task, answer, lost, bounds>>

----------------------------------------------------------------------------
Publish ==
  /\ version < MaxVersion /\ version' = version + 1
  /\ UNCHANGED <<fileOf, now, honest, disk, at, task, doomed, answer, lost, bounds>>

Tick ==
  /\ now < MaxTime /\ now' = now + 1
  /\ UNCHANGED <<fileOf, honest, version, disk, at, task, doomed, answer, lost, bounds>>

\* Before the rename and in a listing a kill is no more than a failure.
Kill(t) ==
  /\ at[t] \in {"rename", "list", "evict"}
  /\ Fault(IF at[t] = "evict" THEN Cardinality(doomed[t]) ELSE 1)
  /\ Return(t, None)
  /\ doomed' = [doomed EXCEPT ![t] = {}]
  /\ UNCHANGED <<world, disk, calls>>

HttpNext ==
  \/ Tick \/ Publish
  \/ \E t \in Tasks :
       \/ \E u \in Urls : Begin(t, u)
       \/ SendFails(t) \/ Refused(t) \/ NotModified(t) \/ Modified(t)
       \/ WriteTmp(t) \/ WriteTmpFails(t) \/ RenameTmp(t) \/ RenameTmpFails(t)
       \/ ListEntries(t) \/ ListFails(t) \/ EvictEntry(t)
       \/ Clear(t) \/ PruneRead(t) \/ PruneRemove(t) \/ Kill(t)

HttpSpec == HttpInit /\ [][HttpNext]_httpVars

----------------------------------------------------------------------------
\* conditional_fetch_json: an answer is one of the URL that was asked for; it
\* was fetched less than MaxAge before the call, even from a server that
\* always answers 304; and from an honest one it is not older than what the
\* server had when the call began, whatever other tasks store, evict or clear.
AnswerFresh ==
  \A t \in Tasks : IsEntry(answer[t]) =>
    /\ answer[t].url = url[t]
    /\ began[t].time - answer[t].taken <= MaxAge
    /\ honest => answer[t].body >= began[t].version

\* evict_if_over_cap: when no task is between its write and the end of its
\* eviction, the directory is not over the cap, but for what failures and kills
\* since the last complete listing left: whoever lists last removes what the
\* others have added, and the next listing what others have failed to remove.
CapHolds ==
  (\A t \in Tasks : at[t] \notin {"rename", "list", "evict"}) =>
    Cardinality(Present) <= MaxEntries + lost
=============================================================================
