--------------------------- MODULE ManifestWriter ---------------------------
(***************************************************************************)
(* The LRU manifest of the JAR cache (storage/cache.rs): an in-memory map  *)
(* shared by every clone of a JarCache, and the one background thread that *)
(* writes it to cache_manifest.json.                                       *)
(*                                                                         *)
(* Users hold the clones: Main is the command (AppContext and App), the    *)
(* others are download tasks, each with a clone of its own and awaited     *)
(* before Main lets go of its handles (services/download.rs).              *)
(*                                                                         *)
(* Abstracted: the map itself.  `version` counts its changes, so a         *)
(* snapshot and the file are version numbers too: the manifest in memory   *)
(* holds the changes after `from` up to `version`, the file those after    *)
(* `savedFrom` up to `saved`.  A command that cannot read the file begins  *)
(* with an empty manifest, so its `from` is where it began.  Writing the   *)
(* file is one step that succeeds or fails (module AtomicWrite opens it    *)
(* up).                                                                    *)
(***************************************************************************)
EXTENDS Naturals, Sequences, FiniteSets

CONSTANTS
  Users,       \* those who may hold a clone of the JarCache
  Main,        \* the one that holds the first clone and outlives the tasks
  Evictors,    \* those who also evict; a download task only touches
  MaxVersion,  \* bound on the changes made to the manifest
  MaxCalls     \* bound on the sync calls of one user

ASSUME WriterAssumption ==
  /\ Main \in Users
  /\ Evictors \subseteq Users
  /\ IsFiniteSet(Users)
  /\ MaxVersion \in Nat
  /\ MaxCalls \in Nat

VARIABLES
  version,    \* changes made to the in-memory manifest
  dirty,      \* CacheManifest::dirty
  from,       \* changes up to this one are not in the in-memory manifest
  unread,     \* (history) the command could not read the file when it began
  saved,      \* version in cache_manifest.json
  savedFrom,  \* changes up to this one are not in that file
  channel,    \* messages sent and not yet received
  wpc,        \* where the writer thread is
  snapshot,   \* version the writer is writing
  acks,       \* pending_acks
  stop,       \* the writer's local `shutdown`
  upc,        \* upc[u]: where user u is
  call,       \* call[u]: sync calls u has made, one ack channel each
  proc,       \* "up" or "exited" (main returned)
  mark,       \* (history) version when u's last sync was sent
  confirmed,  \* (history) users whose last sync was acknowledged
  failed      \* (history) the last attempt to write the file failed

memory == <<version, dirty>>
origin == <<from, unread>>
file   == <<saved, savedFrom>>
writer == <<wpc, snapshot, acks, stop>>
users  == <<upc, call>>
history == <<mark, confirmed, failed>>
vars == <<memory, origin, file, channel, writer, users, proc, history>>

Tasks == Users \ {Main}

\* WriterMsg: the sender and its call matter for Sync only.
Flush == [kind |-> "flush", user |-> Main, call |-> 0]
Shutdown == [kind |-> "shutdown", user |-> Main, call |-> 0]
Sync(u, n) == [kind |-> "sync", user |-> u, call |-> n]

WriterMsg == [kind : {"flush", "sync", "shutdown"}, user : Users, call : Nat]

\* Users that hold a strong reference to the writer.
Handles == {u \in Users : upc[u] \notin {"unborn", "gone"}}

TypeOK ==
  /\ version \in Nat
  /\ dirty \in BOOLEAN
  /\ saved \in 0..version
  /\ from \in 0..snapshot /\ savedFrom \in 0..saved
  /\ unread \in BOOLEAN
  /\ channel \in Seq(WriterMsg)
  /\ wpc \in {"recv", "debounce", "snapshot", "write", "remark", "ack", "exited"}
  /\ snapshot \in 0..version
  /\ acks \in Seq(WriterMsg)
  /\ stop \in BOOLEAN
  /\ upc \in [Users -> {"unborn", "run", "signal", "send", "wait", "join", "release", "gone"}]
  /\ call \in [Users -> Nat]
  /\ proc \in {"up", "exited"}
  /\ mark \in [Users -> Nat]
  /\ confirmed \in SUBSET Users
  /\ failed \in BOOLEAN

\* JarCache::new on the file left by whoever ran before: the manifest is loaded
\* clean and the writer thread started.
Init ==
  /\ version = 0
  /\ dirty = FALSE
  /\ from = 0 /\ unread = FALSE
  /\ saved = 0 /\ savedFrom = 0
  /\ channel = <<>>
  /\ wpc = "recv"
  /\ snapshot = 0
  /\ acks = <<>>
  /\ stop = FALSE
  /\ upc = [u \in Users |-> IF u = Main THEN "run" ELSE "unborn"]
  /\ call = [u \in Users |-> 0]
  /\ proc = "up"
  /\ mark = [u \in Users |-> 0]
  /\ confirmed = {}
  /\ failed = FALSE

Goto(u, place) == upc' = [upc EXCEPT ![u] = place]

\* A send fails, and the message is gone, once the writer thread has ended.
Send(msg) == channel' = IF wpc = "exited" THEN channel ELSE Append(channel, msg)
-----------------------------------------------------------------------------
(* The users of the cache. *)

\* The command clones its JarCache for a task it starts.
Clone(t) ==
  /\ upc[Main] = "run"
  /\ upc[t] = "unborn"
  /\ Goto(t, "run")
  /\ UNCHANGED <<memory, file, channel, writer, call, proc, origin, history>>

\* touch_in_memory, first half: under the manifest lock.
Touch(u) ==
  /\ upc[u] = "run"
  /\ version < MaxVersion
  /\ version' = version + 1
  /\ dirty' = TRUE
  /\ Goto(u, "signal")
  /\ UNCHANGED <<file, channel, writer, call, proc, origin, history>>

\* Faulty variant: no signal while the writer is already busy with a round.
SignalWhenIdle(u) ==
  /\ upc[u] = "signal"
  /\ IF wpc = "recv" THEN Send(Flush) ELSE UNCHANGED channel
  /\ Goto(u, "run")
  /\ UNCHANGED <<memory, file, writer, call, proc, origin, history>>

\* touch_in_memory, second half: signal_dirty, after the lock is released.
SignalDirty(u) ==
  /\ upc[u] = "signal"
  /\ Send(Flush)
  /\ Goto(u, "run")
  /\ UNCHANGED <<memory, file, writer, call, proc, origin, history>>

\* remove and cleanup, up to the release of the lock: entries are taken out of the
\* manifest, or there was none to take out and the manifest is as clean as before.
Evict(u) ==
  /\ u \in Evictors
  /\ upc[u] = "run"
  /\ call[u] < MaxCalls
  /\ \/ /\ version < MaxVersion
        /\ version' = version + 1
        /\ dirty' = TRUE
     \/ UNCHANGED memory
  /\ Goto(u, "send")
  /\ UNCHANGED <<file, channel, writer, call, proc, origin, history>>

\* cleanup fails on reading the directory after prune_missing changed the manifest:
\* it returns without a flush and without a signal.
EvictFails(u) ==
  /\ u \in Evictors
  /\ upc[u] = "run"
  /\ version < MaxVersion
  /\ version' = version + 1
  /\ dirty' = TRUE
  /\ UNCHANGED <<file, channel, writer, users, proc, origin, history>>

\* flush: sync() sends its request, or returns at once if the writer is gone.
SendSync(u) ==
  /\ upc[u] = "send"
  /\ Goto(u, IF wpc = "exited" THEN "run" ELSE "wait")
  /\ call' = [call EXCEPT ![u] = @ + 1]
  /\ Send(Sync(u, call[u] + 1))
  /\ mark' = [mark EXCEPT ![u] = version]
  /\ confirmed' = confirmed \ {u}
  /\ UNCHANGED <<memory, file, writer, proc, origin, failed>>

\* recv_timeout gives up after SYNC_TIMEOUT, or because the request was dropped.
SyncTimeout(u) ==
  /\ upc[u] = "wait"
  /\ Goto(u, "run")
  /\ UNCHANGED <<memory, file, channel, writer, call, proc, origin, history>>

\* Faulty variant: the last handle is dropped without telling the writer.
DropSilently(u) ==
  /\ upc[u] = "run"
  /\ u = Main => Handles = {Main}
  /\ Goto(u, "release")
  /\ UNCHANGED <<memory, file, channel, writer, call, proc, origin, history>>

\* Drop for JarCache, before the fields are dropped: the holder of the only strong
\* reference asks the writer to stop and waits for the thread to end.  A task is
\* joined before the command returns, so Main drops last.
Drop(u) ==
  /\ upc[u] = "run"
  /\ u = Main => Handles = {Main}
  /\ LET last == Cardinality(Handles) = 1 /\ wpc # "exited"
     IN  IF last
         THEN Goto(u, "join") /\ Send(Shutdown)
         ELSE Goto(u, "release") /\ UNCHANGED channel
  /\ UNCHANGED <<memory, file, writer, call, proc, origin, history>>

\* The thread has ended and handle.join() returns.
Join(u) ==
  /\ upc[u] = "join"
  /\ wpc = "exited"
  /\ Goto(u, "release")
  /\ UNCHANGED <<memory, file, channel, writer, call, proc, origin, history>>

\* The fields of the handle are dropped, the strong reference with them.
Release(u) ==
  /\ upc[u] = "release"
  /\ Goto(u, "gone")
  /\ UNCHANGED <<memory, file, channel, writer, call, proc, origin, history>>
-----------------------------------------------------------------------------
(* The writer thread: writer_loop. *)

\* Faulty variant: a Shutdown that ends the debounce window is taken for its end only.
TakeShutdownLost(msg) ==
  /\ channel' = Tail(channel)
  /\ acks' = IF msg.kind = "sync" THEN Append(acks, msg) ELSE acks
  /\ stop' = (stop \/ (msg.kind = "shutdown" /\ wpc = "recv"))
  /\ wpc' = IF msg.kind = "flush" THEN "debounce" ELSE "snapshot"

\* What one received message does to the round that is being collected.
Take(msg) ==
  /\ channel' = Tail(channel)
  /\ acks' = IF msg.kind = "sync" THEN Append(acks, msg) ELSE acks
  /\ stop' = (stop \/ msg.kind = "shutdown")
  /\ wpc' = IF msg.kind = "flush" THEN "debounce" ELSE "snapshot"

\* The first message of a round, or one that comes during the debounce window; a
\* Sync or a Shutdown ends the window.
Receive ==
  /\ wpc \in {"recv", "debounce"}
  /\ channel # <<>>
  /\ Take(Head(channel))
  /\ UNCHANGED <<memory, file, snapshot, users, proc, origin, history>>

\* Every sender is gone and the channel is empty.
Disconnected ==
  /\ wpc = "recv"
  /\ channel = <<>>
  /\ Handles = {}
  /\ wpc' = "exited"
  /\ UNCHANGED <<memory, file, channel, snapshot, acks, stop, users, proc, origin, history>>

\* FLUSH_DEBOUNCE is over (or the channel is disconnected).
DebounceEnds ==
  /\ wpc = "debounce"
  /\ wpc' = "snapshot"
  /\ UNCHANGED <<memory, file, channel, snapshot, acks, stop, users, proc, origin, history>>

\* Under the manifest lock: a dirty manifest is marked clean and handed to the write.
Snapshot ==
  /\ wpc = "snapshot"
  /\ IF dirty
     THEN /\ dirty' = FALSE
          /\ snapshot' = version
          /\ wpc' = "write"
     ELSE /\ wpc' = "ack"
          /\ UNCHANGED <<dirty, snapshot>>
  /\ UNCHANGED <<version, file, channel, acks, stop, users, proc, origin, history>>

\* Faulty variant: the manifest is marked clean once it is written, not before.
WriteOkCleans ==
  /\ wpc = "write"
  /\ saved' = snapshot /\ savedFrom' = from
  /\ dirty' = FALSE
  /\ failed' = FALSE
  /\ wpc' = "ack"
  /\ UNCHANGED <<version, channel, snapshot, acks, stop, users, proc, origin, mark, confirmed>>

WriteOk ==
  /\ wpc = "write"
  /\ saved' = snapshot /\ savedFrom' = from
  /\ failed' = FALSE
  /\ wpc' = "ack"
  /\ UNCHANGED <<memory, channel, snapshot, acks, stop, users, proc, origin, mark, confirmed>>

WriteErr ==
  /\ wpc = "write"
  /\ failed' = TRUE
  /\ wpc' = "remark"
  /\ UNCHANGED <<memory, file, channel, snapshot, acks, stop, users, proc, origin, mark, confirmed>>

\* The lock is taken again: what could not be written is dirty again.
Remark ==
  /\ wpc = "remark"
  /\ dirty' = TRUE
  /\ wpc' = "ack"
  /\ UNCHANGED <<version, file, channel, snapshot, acks, stop, users, proc, origin, history>>

\* Faulty variant: an answer releases its caller from whichever call it is in.
AckAnyCall ==
  /\ wpc = "ack"
  /\ acks # <<>>
  /\ acks' = Tail(acks)
  /\ LET u == Head(acks).user
         heard == upc[u] = "wait"
     IN  /\ upc' = IF heard THEN [upc EXCEPT ![u] = "run"] ELSE upc
         /\ confirmed' = IF heard THEN confirmed \cup {u} ELSE confirmed
  /\ UNCHANGED <<memory, file, channel, wpc, snapshot, stop, call, proc, origin, mark, failed>>

\* One ack is sent, whether or not the write succeeded.  A caller that has timed out
\* has dropped the receiving end and hears nothing, in a later call neither.
Ack ==
  /\ wpc = "ack"
  /\ acks # <<>>
  /\ acks' = Tail(acks)
  /\ LET u == Head(acks).user
         heard == upc[u] = "wait" /\ call[u] = Head(acks).call
     IN  /\ upc' = IF heard THEN [upc EXCEPT ![u] = "run"] ELSE upc
         /\ confirmed' = IF heard THEN confirmed \cup {u} ELSE confirmed
  /\ UNCHANGED <<memory, file, channel, wpc, snapshot, stop, call, proc, origin, mark, failed>>

\* The round is over.
RoundEnds ==
  /\ wpc = "ack"
  /\ acks = <<>>
  /\ wpc' = IF stop THEN "exited" ELSE "recv"
  /\ UNCHANGED <<memory, file, channel, snapshot, acks, stop, users, proc, origin, history>>
-----------------------------------------------------------------------------
(* The process. *)

\* main returns with every handle dropped; a writer still running dies with it.
Exit ==
  /\ Handles = {}
  /\ proc' = "exited"
  /\ UNCHANGED <<memory, origin, file, channel, writer, users, history>>

\* All of a command that is not the manifest begins anew.
Fresh ==
  /\ proc' = "up"
  /\ channel' = <<>>
  /\ wpc' = "recv"
  /\ snapshot' = saved
  /\ acks' = <<>>
  /\ stop' = FALSE
  /\ upc' = [u \in Users |-> IF u = Main THEN "run" ELSE "unborn"]
  /\ call' = [u \in Users |-> 0]
  /\ mark' = [u \in Users |-> 0]
  /\ confirmed' = {}
  /\ failed' = FALSE

\* Faulty variant: what the last command has written is not read.
ReloadEmpty ==
  /\ version' = saved
  /\ dirty' = FALSE
  /\ from' = saved
  /\ unread' = FALSE
  /\ Fresh
  /\ UNCHANGED file

\* JarCache::new of the next command: the manifest is loaded clean, empty if the
\* file cannot be read or parsed.
Reload ==
  /\ version' = saved
  /\ dirty' = FALSE
  /\ \/ from' = savedFrom /\ unread' = FALSE
     \/ from' = saved /\ unread' = TRUE
  /\ Fresh
  /\ UNCHANGED file

\* SIGKILL, Ctrl-C, or the SIGTERM handler's _exit: no destructor runs.
Kill == proc = "up" /\ Reload

Restart == proc = "exited" /\ Reload

UserStep(u) ==
  \/ Touch(u)
  \/ SignalDirty(u)
  \/ Evict(u)
  \/ EvictFails(u)
  \/ SendSync(u)
  \/ SyncTimeout(u)
  \/ Drop(u)
  \/ Join(u)
  \/ Release(u)

WriterStep ==
  \/ Receive
  \/ Disconnected
  \/ DebounceEnds
  \/ Snapshot
  \/ WriteOk
  \/ WriteErr
  \/ Remark
  \/ Ack
  \/ RoundEnds

Running == \/ \E t \in Tasks : Clone(t)
           \/ \E u \in Users : UserStep(u)
           \/ WriterStep
           \/ Exit

Next ==
  \/ proc = "up" /\ Running
  \/ Kill
  \/ Restart

\* A thread that can go on does: the writer, and a user in the middle of a call.
\* Nobody has to make another call, to drop its handle or to start the next command.
Fairness ==
  /\ WF_vars(proc = "up" /\ WriterStep)
  /\ \A u \in Users :
       WF_vars(proc = "up" /\ (SignalDirty(u) \/ SendSync(u) \/ SyncTimeout(u) \/ Join(u)
                                \/ Release(u)))

Spec == Init /\ [][Next]_vars /\ Fairness
-----------------------------------------------------------------------------
\* The dirty bit is cleared before the write and touches go on meanwhile: a change
\* that is not in the file is in the snapshot being written, or the manifest is
\* dirty, or the write has failed and is about to say so.  (With nothing changed,
\* an empty manifest that stands for an unreadable file is not written.)
NothingForgotten ==
  proc = "up" /\ ~dirty =>
    /\ wpc = "write" => snapshot = version
    /\ wpc \notin {"write", "remark"} => saved = version

\* "Must not observe a stale manifest after the call returns": when flush returns on
\* an ack, the file holds every change made before the call, by anybody, unless
\* writing it failed.  An ack for a call that timed out confirms no later call.
SyncMeansSaved ==
  proc = "up" => \A u \in confirmed : saved >= mark[u] \/ failed

\* "Callers observe a fully persisted manifest at process exit": the drop of the
\* last handle leaves no change behind, unless the last write failed.
CleanExitSaved ==
  proc = "exited" => saved = version \/ failed

\* The single writer thread writes snapshots in the order it took them, and no
\* crash or restart brings an older manifest back.  The file keeps what it holds,
\* but for a command that could not read it when it began: its first write
\* replaces it, and then the changes of the commands before are gone.
SavedNeverGoesBack ==
  [][saved' >= saved /\ (savedFrom' # savedFrom => unread)]_file

\* A touch reaches the file with no explicit flush, unless the write fails (it is
\* then retried at the next signal only) or the process ends first: the manifest
\* that is dirty when the signal is about to be sent is taken for a write later on.
FlushHappens ==
  \A u \in Users :
    (proc = "up" /\ upc[u] = "signal") ~> (~dirty \/ failed \/ proc # "up")

\* Dropping the last handle does not hang on a writer that waits for messages.
DropReturns == \A u \in Users : (upc[u] = "join") ~> (upc[u] # "join" \/ proc # "up")
=============================================================================
