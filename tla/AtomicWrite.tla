----------------------------- MODULE AtomicWrite -----------------------------
(***************************************************************************)
(* atomic_write_bytes (utils/fs.rs): write `<path>.tmp`, fsync, rename it  *)
(* over `path`, fsync the directory.  The cache manifest and every entry   *)
(* of the HTTP cache are written this way.                                 *)
(*                                                                         *)
(* The file system is modelled down to its inodes, since two writers of    *)
(* one path share the name of the temporary file.  A file is a sequence of *)
(* blocks, each stamped with the version whose bytes it holds.  The        *)
(* process may be killed at any point, and the power may fail: what was    *)
(* not synced is then lost block by block, and the directory is one of     *)
(* those it has been since it last reached the disk.                       *)
(*                                                                         *)
(* Abstracted: the permission bits; the reason of an I/O error.            *)
(***************************************************************************)
EXTENDS Naturals, Sequences

CONSTANTS
  Writers,      \* tasks or processes that write this path
  Inodes,       \* bound on the inodes in use at a time
  MaxWrites,    \* bound on the versions written
  Size,         \* Size[v]: blocks in version v
  FsyncParent   \* AtomicWriteOptions::fsync_parent

None == "none"

ASSUME AtomicWriteAssumption ==
  /\ None \notin Inodes
  /\ MaxWrites \in Nat
  /\ Size \in [1..MaxWrites -> Nat \ {0}]
  /\ FsyncParent \in BOOLEAN

VARIABLES
  dir,        \* the directory: inodes of the names "tmp" and "path"
  text,       \* text[i]: the blocks of inode i
  synced,     \* inodes whose blocks are on disk
  survivors,  \* directories a power loss may leave
  pc,         \* pc[w]: where writer w is
  fd,         \* fd[w]: inode w has open
  want,       \* want[w]: version w writes
  pos,        \* pos[w]: blocks w has written
  result,     \* what w's last call returned
  issued      \* (history) versions handed out so far

disk == <<dir, text, synced, survivors>>
callVars == <<pc, fd, want, pos, result>>
atomicVars == <<disk, callVars, issued>>

Directory == [tmp : Inodes \cup {None}, path : Inodes \cup {None}]

AtomicTypeOK ==
  /\ dir \in Directory
  /\ text \in [Inodes -> Seq(0..MaxWrites)]
  /\ synced \in SUBSET Inodes
  /\ survivors \in SUBSET Directory
  /\ pc \in [Writers -> {"idle", "open", "write", "rename", "dirsync"}]
  /\ fd \in [Writers -> Inodes \cup {None}]
  /\ want \in [Writers -> 0..MaxWrites]
  /\ pos \in [Writers -> Nat]
  /\ result \in [Writers -> {"none", "ok", "err"}]
  /\ issued \in 0..MaxWrites
  /\ \A w \in Writers :
       /\ pc[w] # "idle" => want[w] > 0 /\ pos[w] <= Size[want[w]]
       /\ pc[w] \in {"write", "rename"} => fd[w] \in Inodes

AtomicInit ==
  /\ dir = [tmp |-> None, path |-> None]
  /\ text = [i \in Inodes |-> <<>>]
  /\ synced = Inodes
  /\ survivors = {dir}
  /\ pc = [w \in Writers |-> "idle"]
  /\ fd = [w \in Writers |-> None]
  /\ want = [w \in Writers |-> 0]
  /\ pos = [w \in Writers |-> 0]
  /\ result = [w \in Writers |-> "none"]
  /\ issued = 0

Go(w, place) == pc' = [pc EXCEPT ![w] = place]

Return(w, answer) ==
  /\ Go(w, "idle")
  /\ result' = [result EXCEPT ![w] = answer]
  /\ fd' = [fd EXCEPT ![w] = None]
  /\ UNCHANGED <<want, pos>>

\* A change of the directory: the old one may still be what is on disk.
Relink(d) ==
  /\ dir' = d
  /\ survivors' = survivors \cup {d}

\* remove_file(&tmp_path), whose own failure is ignored.
Cleanup ==
  /\ \/ Relink([dir EXCEPT !.tmp = None])
     \/ UNCHANGED <<dir, survivors>>
  /\ UNCHANGED <<text, synced>>

\* An inode no directory names and no writer has open.
Free(i) ==
  /\ \A d \in survivors \cup {dir} : i # d.tmp /\ i # d.path
  /\ \A w \in Writers : fd[w] # i

\* The blocks of `old` with the block at p + 1 overwritten; a gap reads as zeros.
Overwrite(old, p, v) ==
  [k \in 1..(IF p < Len(old) THEN Len(old) ELSE p + 1) |->
     IF k = p + 1 THEN v ELSE IF k <= Len(old) THEN old[k] ELSE 0]
-----------------------------------------------------------------------------
\* The caller has a new version to write.
Begin(w) ==
  /\ pc[w] = "idle"
  /\ issued < MaxWrites
  /\ issued' = issued + 1
  /\ want' = [want EXCEPT ![w] = issued + 1]
  /\ pos' = [pos EXCEPT ![w] = 0]
  /\ result' = [result EXCEPT ![w] = "none"]
  /\ Go(w, "open")
  /\ UNCHANGED <<disk, fd>>

\* Faulty variant: the temporary file is opened without truncating it.
OpenKeeping(w) ==
  /\ pc[w] = "open"
  /\ \E i \in Inodes :
       /\ IF dir.tmp # None
          THEN i = dir.tmp /\ UNCHANGED <<dir, survivors, text>>
          ELSE Free(i) /\ Relink([dir EXCEPT !.tmp = i])
                       /\ text' = [text EXCEPT ![i] = <<>>]
       /\ synced' = synced \ {i}
       /\ fd' = [fd EXCEPT ![w] = i]
  /\ Go(w, "write")
  /\ UNCHANGED <<want, pos, result, issued>>

\* write(true).create(true).truncate(true): a temporary file that is there, left by
\* a crash or in use by another writer, is emptied and reused.
Open(w) ==
  /\ pc[w] = "open"
  /\ \E i \in Inodes :
       /\ IF dir.tmp # None
          THEN i = dir.tmp /\ UNCHANGED <<dir, survivors>>
          ELSE Free(i) /\ Relink([dir EXCEPT !.tmp = i])
       /\ text' = [text EXCEPT ![i] = <<>>]
       /\ synced' = synced \ {i}
       /\ fd' = [fd EXCEPT ![w] = i]
  /\ Go(w, "write")
  /\ UNCHANGED <<want, pos, result, issued>>

\* write_all: one more block, at the writer's own offset.
WriteBlock(w) ==
  /\ pc[w] = "write"
  /\ pos[w] < Size[want[w]]
  /\ text' = [text EXCEPT ![fd[w]] = Overwrite(@, pos[w], want[w])]
  /\ synced' = synced \ {fd[w]}
  /\ pos' = [pos EXCEPT ![w] = @ + 1]
  /\ UNCHANGED <<dir, survivors, pc, fd, want, result, issued>>

\* sync_all, after which the file is closed.
SyncFile(w) ==
  /\ pc[w] = "write"
  /\ pos[w] = Size[want[w]]
  /\ synced' = synced \cup {fd[w]}
  /\ Go(w, "rename")
  /\ UNCHANGED <<dir, text, survivors, fd, want, pos, result, issued>>

\* create_dir_all, open, write_all or sync_all fails.
WriteFails(w) ==
  /\ pc[w] \in {"open", "write"}
  /\ Cleanup
  /\ Return(w, "err")
  /\ UNCHANGED issued

\* rename takes whatever inode the temporary name has now.
Rename(w) ==
  /\ pc[w] = "rename"
  /\ dir.tmp # None
  /\ Relink([tmp |-> None, path |-> dir.tmp])
  /\ Go(w, "dirsync")
  /\ UNCHANGED <<text, synced, fd, want, pos, result, issued>>

\* Faulty variant: a failed rename is cleaned up after and not reported.
RenameFailsSilently(w) ==
  /\ pc[w] = "rename"
  /\ Cleanup
  /\ Return(w, "ok")
  /\ UNCHANGED issued

RenameFails(w) ==
  /\ pc[w] = "rename"
  /\ Cleanup
  /\ Return(w, "err")
  /\ UNCHANGED issued

\* The directory is synced if asked for and possible.
SyncDir(w) ==
  /\ pc[w] = "dirsync"
  /\ \/ FsyncParent /\ survivors' = {dir}
     \/ UNCHANGED survivors
  /\ Return(w, "ok")
  /\ UNCHANGED <<dir, text, synced, issued>>
-----------------------------------------------------------------------------
\* The kernel writes back on its own: the directory, or the blocks of an inode.
WriteBack ==
  /\ \/ survivors' = {dir} /\ UNCHANGED synced
     \/ \E i \in Inodes : synced' = synced \cup {i} /\ UNCHANGED survivors
  /\ UNCHANGED <<dir, text, callVars, issued>>

\* A writer is killed: its file is closed, everything else stays as it is.
KillWriter(w) ==
  /\ pc[w] # "idle"
  /\ Return(w, "none")
  /\ UNCHANGED <<disk, issued>>

\* What may be left of the blocks of an inode that was not synced.
Remains(s) == {t \in [1..Len(s) -> {0} \cup {s[k] : k \in 1..Len(s)}] :
                 \A k \in 1..Len(s) : t[k] \in {0, s[k]}}

PowerLoss ==
  /\ dir' \in survivors
  /\ survivors' = {dir'}
  /\ text' \in {t \in [Inodes -> UNION {{text[i]} \cup Remains(text[i]) : i \in Inodes}] :
                  \A i \in Inodes :
                    t[i] \in IF i \in synced THEN {text[i]} ELSE Remains(text[i])}
  /\ synced' = Inodes
  /\ pc' = [w \in Writers |-> "idle"]
  /\ fd' = [w \in Writers |-> None]
  /\ result' = [w \in Writers |-> "none"]
  /\ UNCHANGED <<want, pos, issued>>

Step(w) ==
  \/ Begin(w)
  \/ Open(w)
  \/ WriteBlock(w)
  \/ SyncFile(w)
  \/ WriteFails(w)
  \/ Rename(w)
  \/ RenameFails(w)
  \/ SyncDir(w)
  \/ KillWriter(w)

AtomicNext ==
  \/ \E w \in Writers : Step(w)
  \/ WriteBack
  \/ PowerLoss

AtomicSpec == AtomicInit /\ [][AtomicNext]_atomicVars
-----------------------------------------------------------------------------
IsWhole(s, v) == s = [k \in 1..Size[v] |-> v]

Torn == MaxWrites + 1

\* The version a reader of directory d finds at `path`.
VersionIn(d) ==
  IF d.path = None THEN 0
  ELSE IF \E v \in 1..MaxWrites : IsWhole(text[d.path], v)
  THEN CHOOSE v \in 1..MaxWrites : IsWhole(text[d.path], v)
  ELSE Torn

\* "Atomically write": a reader finds no file or one whole version, at every moment,
\* after a kill at any point and after a power loss.
NeverTorn == VersionIn(dir) # Torn

\* Ok means the file has the caller's version, an error that it has not.
ResultHonest ==
  \A w \in Writers :
    /\ result[w] = "ok" => VersionIn(dir) = want[w]
    /\ result[w] = "err" => VersionIn(dir) # want[w]

\* The steps of the write are an atomic replacement of the file.
File == INSTANCE AtomicFile
          WITH MaxVersion <- MaxWrites, value <- VersionIn(dir),
               past <- {VersionIn(d) : d \in survivors}

ImplementsAtomicFile == File!ASpec
=============================================================================
