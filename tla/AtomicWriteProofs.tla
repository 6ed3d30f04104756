-------------------------- MODULE AtomicWriteProofs --------------------------
(***************************************************************************)
(* A reader never finds a torn file, whatever the sizes of the versions    *)
(* and whenever the writer is killed or the power fails, as long as one    *)
(* writer at a time uses the path.                                         *)
(***************************************************************************)
EXTENDS AtomicWrite, SequenceTheorems, TLAPS

USE AtomicWriteAssumption

LEMMA OverwriteType ==
  ASSUME NEW s \in Seq(0..MaxWrites), NEW p \in Nat, NEW v \in 0..MaxWrites
  PROVE  Overwrite(s, p, v) \in Seq(0..MaxWrites)
<1> DEFINE n == IF p < Len(s) THEN Len(s) ELSE p + 1
<1>1. n \in Nat
  OBVIOUS
<1>2. Overwrite(s, p, v) \in [1..n -> 0..MaxWrites]
  <2>1. \A k \in 1..n : (IF k = p + 1 THEN v ELSE IF k <= Len(s) THEN s[k] ELSE 0) \in 0..MaxWrites
    OBVIOUS
  <2> QED BY <2>1 DEF Overwrite
<1> HIDE DEF n
<1> QED BY <1>1, <1>2, SeqDef

\* What a power loss leaves of a file is a sequence of the same length.
LEMMA RemainsType ==
  ASSUME NEW s \in Seq(0..MaxWrites), NEW t \in Remains(s)
  PROVE  t \in Seq(0..MaxWrites)
<1>1. t \in [1..Len(s) -> 0..MaxWrites]
  <2>1. DOMAIN t = 1..Len(s) /\ t = [k \in 1..Len(s) |-> t[k]]
    BY DEF Remains
  <2>2. ASSUME NEW k \in 1..Len(s) PROVE t[k] \in 0..MaxWrites
    <3>1. t[k] = 0 \/ t[k] = s[k]
      BY DEF Remains
    <3>2. s[k] \in 0..MaxWrites
      OBVIOUS
    <3>3. 0 \in 0..MaxWrites
      OBVIOUS
    <3> QED BY <3>1, <3>2, <3>3, Zenon
  <2> QED BY <2>1, <2>2
<1>2. Len(s) \in Nat
  OBVIOUS
<1> QED BY <1>1, <1>2, SeqDef

LEMMA PowerLossText ==
  ASSUME AtomicTypeOK, PowerLoss
  PROVE  /\ text' \in [Inodes -> Seq(0..MaxWrites)]
         /\ \A i \in synced : text'[i] = text[i]
<1> DEFINE S == UNION {{text[i]} \cup Remains(text[i]) : i \in Inodes}
<1>1. /\ text' \in [Inodes -> S]
      /\ \A i \in Inodes : text'[i] \in IF i \in synced THEN {text[i]} ELSE Remains(text[i])
  BY DEF PowerLoss
<1>2. \A i \in Inodes : text[i] \in Seq(0..MaxWrites)
  BY DEF AtomicTypeOK
<1>3. ASSUME NEW i \in Inodes PROVE text'[i] \in Seq(0..MaxWrites)
  <2>1. CASE i \in synced
    BY <1>1, <1>2, <2>1
  <2>2. CASE i \notin synced
    <3>1. text'[i] \in Remains(text[i])
      BY <1>1, <2>2
    <3> QED BY <1>2, <3>1, RemainsType
  <2> QED BY <2>1, <2>2
<1>4. synced \subseteq Inodes
  BY DEF AtomicTypeOK
<1> HIDE DEF S
<1> QED BY <1>1, <1>3, <1>4

LEMMA CleanupStep ==
  ASSUME AtomicTypeOK, Cleanup
  PROVE  /\ dir' \in Directory /\ dir'.path = dir.path /\ dir'.tmp \in {None, dir.tmp}
         /\ \/ survivors' = survivors \cup {dir'}
            \/ dir' = dir /\ survivors' = survivors
         /\ UNCHANGED <<text, synced>>
<1>0. UNCHANGED <<text, synced>>
  BY DEF Cleanup
<1>1. dir \in Directory
  BY DEF AtomicTypeOK
<1>2. CASE Relink([dir EXCEPT !.tmp = None])
  <2>1. dir' = [dir EXCEPT !.tmp = None] /\ survivors' = survivors \cup {dir'}
    BY <1>2 DEF Relink
  <2>2. dir' \in Directory /\ dir'.path = dir.path /\ dir'.tmp = None
    BY <1>1, <2>1 DEF Directory
  <2>3. dir'.tmp \in {None, dir.tmp}
    BY <2>2
  <2>4. dir' \in Directory /\ dir'.path = dir.path
    BY <2>2
  <2> QED BY <1>0, <2>1, <2>3, <2>4, Zenon
<1>3. CASE UNCHANGED <<dir, survivors>>
  BY <1>0, <1>1, <1>3 DEF Directory
<1> QED BY <1>2, <1>3 DEF Cleanup

\* Every variable keeps its type, for any number of writers.
THEOREM TypeCorrect == AtomicSpec => []AtomicTypeOK
<1>1. AtomicInit => AtomicTypeOK
  <2>1. <<>> \in Seq(0..MaxWrites)
    OBVIOUS
  <2>2. [tmp |-> None, path |-> None] \in Directory
    BY DEF Directory
  <2> QED BY <2>1, <2>2 DEF AtomicInit, AtomicTypeOK
<1>2. AtomicTypeOK /\ [AtomicNext]_atomicVars => AtomicTypeOK'
  <2> SUFFICES ASSUME AtomicTypeOK, [AtomicNext]_atomicVars PROVE AtomicTypeOK'
    OBVIOUS
  <2> USE DEF disk, callVars
  <2>1. ASSUME NEW w \in Writers, Begin(w) PROVE AtomicTypeOK'
    BY <2>1 DEF Begin, Go, AtomicTypeOK
  <2>2. ASSUME NEW w \in Writers, Open(w) PROVE AtomicTypeOK'
    <3>1. PICK i \in Inodes :
            /\ IF dir.tmp # None
               THEN i = dir.tmp /\ UNCHANGED <<dir, survivors>>
               ELSE Free(i) /\ Relink([dir EXCEPT !.tmp = i])
            /\ text' = [text EXCEPT ![i] = <<>>]
            /\ synced' = synced \ {i}
            /\ fd' = [fd EXCEPT ![w] = i]
      BY <2>2 DEF Open
    <3>2. dir' \in Directory /\ survivors' \in SUBSET Directory
      BY <3>1 DEF Relink, AtomicTypeOK, Directory
    <3>3. text' \in [Inodes -> Seq(0..MaxWrites)]
      <4>1. <<>> \in Seq(0..MaxWrites)
        OBVIOUS
      <4> QED BY <3>1, <4>1 DEF AtomicTypeOK
    <3>4. /\ synced' \in SUBSET Inodes /\ fd' \in [Writers -> Inodes \cup {None}]
          /\ pc' = [pc EXCEPT ![w] = "write"] /\ UNCHANGED <<want, pos, result, issued>>
      BY <2>2, <3>1 DEF Open, Go, AtomicTypeOK
    <3>5. pc[w] = "open" /\ fd'[w] \in Inodes
      BY <2>2, <3>1 DEF Open, AtomicTypeOK
    <3> QED BY <3>1, <3>2, <3>3, <3>4, <3>5 DEF AtomicTypeOK
  <2>3. ASSUME NEW w \in Writers, WriteBlock(w) PROVE AtomicTypeOK'
    <3>1. /\ fd[w] \in Inodes /\ want[w] \in 0..MaxWrites /\ pos[w] \in Nat
          /\ text[fd[w]] \in Seq(0..MaxWrites)
      BY <2>3 DEF WriteBlock, AtomicTypeOK
    <3>2. Overwrite(text[fd[w]], pos[w], want[w]) \in Seq(0..MaxWrites)
      BY <3>1, OverwriteType
    <3>3. text' \in [Inodes -> Seq(0..MaxWrites)]
      BY <2>3, <3>1, <3>2 DEF WriteBlock, AtomicTypeOK
    <3>4. want[w] \in 1..MaxWrites /\ Size[want[w]] \in Nat
      <4>1. pc[w] # "idle"
        BY <2>3 DEF WriteBlock
      <4>2. want[w] \in 1..MaxWrites
        BY <3>1, <4>1 DEF AtomicTypeOK
      <4> QED BY <4>2
    <3>5. pos' \in [Writers -> Nat] /\ pos'[w] <= Size[want[w]]
      <4>1. pos' = [pos EXCEPT ![w] = pos[w] + 1] /\ pos[w] < Size[want[w]]
        BY <2>3 DEF WriteBlock
      <4>2. pos \in [Writers -> Nat]
        BY DEF AtomicTypeOK
      <4> QED BY <3>1, <3>4, <4>1, <4>2
    <3> QED BY <2>3, <3>3, <3>5 DEF WriteBlock, AtomicTypeOK
  <2>4. ASSUME NEW w \in Writers, SyncFile(w) PROVE AtomicTypeOK'
    BY <2>4 DEF SyncFile, Go, AtomicTypeOK
  <2>5. ASSUME NEW w \in Writers, WriteFails(w) \/ RenameFails(w) PROVE AtomicTypeOK'
    <3>1. Cleanup /\ Return(w, "err") /\ UNCHANGED issued
      BY <2>5 DEF WriteFails, RenameFails
    <3> QED BY <3>1, CleanupStep DEF Return, Go, AtomicTypeOK
  <2>6. ASSUME NEW w \in Writers, Rename(w) PROVE AtomicTypeOK'
    <3>1. dir' \in Directory /\ survivors' \in SUBSET Directory
      BY <2>6 DEF Rename, Relink, AtomicTypeOK, Directory
    <3> QED BY <2>6, <3>1 DEF Rename, Go, AtomicTypeOK
  <2>7. ASSUME NEW w \in Writers, SyncDir(w) \/ KillWriter(w) PROVE AtomicTypeOK'
    BY <2>7 DEF SyncDir, KillWriter, Return, Go, AtomicTypeOK
  <2>8. CASE WriteBack
    BY <2>8 DEF WriteBack, AtomicTypeOK
  <2>9. CASE PowerLoss
    BY <2>9, PowerLossText DEF PowerLoss, AtomicTypeOK
  <2>10. CASE UNCHANGED atomicVars
    BY <2>10 DEF atomicVars, AtomicTypeOK
  <2> QED
    BY <2>1, <2>2, <2>3, <2>4, <2>5, <2>6, <2>7, <2>8, <2>9, <2>10 DEF AtomicNext, Step
<1> QED BY <1>1, <1>2, PTL DEF AtomicSpec
-----------------------------------------------------------------------------
OneWriter == \A v, w \in Writers : v = w

WholeInode(i) == \E v \in 1..MaxWrites : IsWhole(text[i], v)

\* The writer fills the temporary file from its first block on, and syncs it whole
\* before it is renamed.
TmpIsPrefix ==
  \A w \in Writers :
    /\ pc[w] = "open" => pos[w] = 0
    /\ pc[w] \in {"write", "rename"} =>
         /\ fd[w] = dir.tmp
         /\ text[fd[w]] = [k \in 1..pos[w] |-> want[w]]
    /\ pc[w] = "rename" => pos[w] = Size[want[w]] /\ fd[w] \in synced

\* No directory a reader may ever see again names an inode that is not whole and on
\* disk, or that the next write is going to reuse.
PathIsSafe ==
  /\ dir \in survivors
  /\ \A d \in survivors :
       d.path # None =>
         /\ d.path \in synced
         /\ WholeInode(d.path)
         /\ d.path # d.tmp
         /\ d.path # dir.tmp

AtomicInv == TmpIsPrefix /\ PathIsSafe

LEMMA OverwriteAppends ==
  ASSUME NEW p \in Nat, NEW v \in 0..MaxWrites
  PROVE  Overwrite([k \in 1..p |-> v], p, v) = [k \in 1..(p + 1) |-> v]
<1> DEFINE s == [k \in 1..p |-> v]
<1>1. s \in Seq(0..MaxWrites) /\ Len(s) = p
  <2>1. s \in [1..p -> 0..MaxWrites]
    OBVIOUS
  <2> QED BY <2>1, SeqDef, LenProperties
<1>2. Overwrite(s, p, v) = [k \in 1..(p + 1) |-> IF k = p + 1 THEN v ELSE IF k <= p THEN s[k] ELSE 0]
  BY <1>1 DEF Overwrite
<1> QED BY <1>2

LEMMA AtomicInvHolds == ASSUME OneWriter PROVE AtomicSpec => []AtomicInv
<1>1. AtomicInit => AtomicInv
  BY DEF AtomicInit, AtomicInv, TmpIsPrefix, PathIsSafe
<1>2. AtomicTypeOK /\ AtomicTypeOK' /\ AtomicInv /\ [AtomicNext]_atomicVars => AtomicInv'
  <2> SUFFICES ASSUME AtomicTypeOK, AtomicTypeOK', AtomicInv, [AtomicNext]_atomicVars PROVE AtomicInv'
    OBVIOUS
  <2> USE DEF disk, callVars
  <2>a. /\ \A d \in survivors \cup {dir} : d \in Directory
        /\ \A w \in Writers : pc'[w] \in {"write", "rename"} => fd'[w] \in Inodes
    BY DEF AtomicTypeOK
  <2>1. ASSUME NEW w \in Writers, Begin(w) PROVE AtomicInv'
    <3>1. \A x \in Writers : x = w /\ pc'[x] = "open" /\ pos'[x] = 0
      BY <2>1 DEF Begin, Go, OneWriter, AtomicTypeOK
    <3>2. UNCHANGED <<dir, text, synced, survivors>>
      BY <2>1 DEF Begin
    <3> QED BY <3>1, <3>2 DEF AtomicInv, TmpIsPrefix, PathIsSafe, WholeInode
  <2>2. ASSUME NEW w \in Writers, Open(w) PROVE AtomicInv'
    <3>1. PICK i \in Inodes :
            /\ IF dir.tmp # None
               THEN i = dir.tmp /\ UNCHANGED <<dir, survivors>>
               ELSE Free(i) /\ Relink([dir EXCEPT !.tmp = i])
            /\ text' = [text EXCEPT ![i] = <<>>]
            /\ synced' = synced \ {i}
            /\ fd' = [fd EXCEPT ![w] = i]
      BY <2>2 DEF Open
    <3>2. dir'.tmp = i /\ dir'.path = dir.path /\ survivors' = survivors \cup {dir'}
      <4>1. CASE dir.tmp # None
        BY <3>1, <4>1 DEF AtomicInv, PathIsSafe
      <4>2. CASE dir.tmp = None
        BY <3>1, <4>2, <2>a DEF Relink, Directory
      <4> QED BY <4>1, <4>2
    <3>3. \A d \in survivors \cup {dir} : d.path # i
      BY <3>1 DEF Free, AtomicInv, PathIsSafe
    <3>4. \A j \in Inodes : j # i => text'[j] = text[j]
      BY <3>1 DEF AtomicTypeOK
    <3>5. PathIsSafe'
      <4>1. \A d \in survivors : d.path # None =>
              /\ d.path \in synced /\ WholeInode(d.path) /\ d.path # d.tmp /\ d.path \in Inodes
        BY <2>a DEF AtomicInv, PathIsSafe, Directory
      <4>2. \A d \in survivors : d.path # None =>
              /\ d.path \in synced' /\ WholeInode(d.path)' /\ d.path # d.tmp /\ d.path # dir'.tmp
        BY <3>1, <3>2, <3>3, <3>4, <4>1 DEF WholeInode
      <4>3. dir \in survivors
        BY DEF AtomicInv, PathIsSafe
      <4> QED BY <3>2, <3>3, <4>2, <4>3 DEF PathIsSafe, WholeInode
    <3>6. TmpIsPrefix'
      <4>1. /\ pc' = [pc EXCEPT ![w] = "write"] /\ UNCHANGED <<want, pos>>
            /\ pos[w] = 0
        BY <2>2 DEF Open, Go, AtomicInv, TmpIsPrefix
      <4> QED BY <3>1, <3>2, <4>1 DEF TmpIsPrefix, OneWriter, AtomicTypeOK
    <3> QED BY <3>5, <3>6 DEF AtomicInv
  <2>3. ASSUME NEW w \in Writers, WriteBlock(w) PROVE AtomicInv'
    <3>1. /\ fd[w] \in Inodes /\ fd[w] = dir.tmp
          /\ text[fd[w]] = [k \in 1..pos[w] |-> want[w]]
          /\ pos[w] \in Nat /\ want[w] \in 0..MaxWrites
      BY <2>3 DEF WriteBlock, AtomicTypeOK, AtomicInv, TmpIsPrefix
    <3>2. /\ text' = [text EXCEPT ![fd[w]] = Overwrite(text[fd[w]], pos[w], want[w])]
          /\ synced' = synced \ {fd[w]}
          /\ pos' = [pos EXCEPT ![w] = pos[w] + 1]
          /\ UNCHANGED <<dir, survivors, pc, fd, want>>
          /\ pc[w] = "write"
      BY <2>3 DEF WriteBlock
    <3>3. text'[fd[w]] = [k \in 1..(pos[w] + 1) |-> want[w]]
      <4>1. text'[fd[w]] = Overwrite(text[fd[w]], pos[w], want[w])
        BY <3>1, <3>2 DEF AtomicTypeOK
      <4>2. Overwrite([k \in 1..pos[w] |-> want[w]], pos[w], want[w])
              = [k \in 1..(pos[w] + 1) |-> want[w]]
        BY <3>1, OverwriteAppends
      <4> QED BY <3>1, <4>1, <4>2, Zenon
    <3>4. pos'[w] = pos[w] + 1
      BY <3>2 DEF AtomicTypeOK
    <3>5. TmpIsPrefix'
      <4>1. \A x \in Writers : x = w
        BY DEF OneWriter
      <4>2. fd'[w] = dir'.tmp /\ text'[fd'[w]] = [k \in 1..pos'[w] |-> want'[w]] /\ pc'[w] = "write"
        BY <3>1, <3>2, <3>3, <3>4
      <4> QED BY <4>1, <4>2 DEF TmpIsPrefix
    <3>6. \A j \in Inodes : j # fd[w] => text'[j] = text[j]
      BY <3>2 DEF AtomicTypeOK
    <3>7. \A d \in survivors : d.path # None => d.path \in Inodes /\ d.path # fd[w]
      BY <2>a, <3>1 DEF AtomicInv, PathIsSafe, Directory
    <3>8. PathIsSafe'
      BY <3>2, <3>6, <3>7 DEF AtomicInv, PathIsSafe, WholeInode
    <3> QED BY <3>5, <3>8 DEF AtomicInv
  <2>4. ASSUME NEW w \in Writers, SyncFile(w) PROVE AtomicInv'
    <3>1. /\ pc[w] = "write" /\ pos[w] = Size[want[w]]
          /\ synced' = synced \cup {fd[w]}
          /\ pc' = [pc EXCEPT ![w] = "rename"]
          /\ UNCHANGED <<dir, text, survivors, fd, want, pos>>
      BY <2>4 DEF SyncFile, Go
    <3>2. TmpIsPrefix'
      BY <3>1 DEF AtomicInv, TmpIsPrefix, OneWriter, AtomicTypeOK
    <3> QED BY <3>1, <3>2 DEF AtomicInv, PathIsSafe, WholeInode
  <2>5. ASSUME NEW w \in Writers, WriteFails(w) \/ RenameFails(w) PROVE AtomicInv'
    <3>1. Cleanup /\ Return(w, "err")
      BY <2>5 DEF WriteFails, RenameFails
    <3>2. \A x \in Writers : pc'[x] = "idle"
      BY <3>1 DEF Return, Go, OneWriter, AtomicTypeOK
    <3>3. PathIsSafe'
      BY <2>a, <3>1, CleanupStep DEF AtomicInv, PathIsSafe, WholeInode, Directory
    <3> QED BY <3>2, <3>3 DEF AtomicInv, TmpIsPrefix
  <2>6. ASSUME NEW w \in Writers, Rename(w) PROVE AtomicInv'
    <3>1. /\ pc[w] = "rename" /\ dir.tmp # None
          /\ dir' = [tmp |-> None, path |-> dir.tmp]
          /\ survivors' = survivors \cup {dir'}
          /\ UNCHANGED <<text, synced>>
          /\ pc' = [pc EXCEPT ![w] = "dirsync"]
      BY <2>6 DEF Rename, Relink, Go
    <3>2. \A x \in Writers : pc'[x] = "dirsync"
      BY <3>1 DEF OneWriter, AtomicTypeOK
    <3>3. dir.tmp \in synced /\ IsWhole(text[dir.tmp], want[w]) /\ want[w] \in 1..MaxWrites
      <4>1. want[w] \in 1..MaxWrites
        <5>1. pc[w] # "idle" /\ want[w] \in 0..MaxWrites
          BY <3>1 DEF AtomicTypeOK
        <5>2. want[w] > 0
          BY <5>1 DEF AtomicTypeOK
        <5> QED BY <5>1, <5>2
      <4>2. /\ fd[w] = dir.tmp /\ fd[w] \in synced /\ pos[w] = Size[want[w]]
            /\ text[fd[w]] = [k \in 1..pos[w] |-> want[w]]
        BY <3>1 DEF AtomicInv, TmpIsPrefix
      <4> QED BY <4>1, <4>2 DEF IsWhole
    <3>4. PathIsSafe'
      BY <3>1, <3>3 DEF AtomicInv, PathIsSafe, WholeInode
    <3> QED BY <3>2, <3>4 DEF AtomicInv, TmpIsPrefix
  <2>7. ASSUME NEW w \in Writers, SyncDir(w) \/ KillWriter(w) PROVE AtomicInv'
    <3>1. \A x \in Writers : pc'[x] = "idle"
      BY <2>7 DEF SyncDir, KillWriter, Return, Go, OneWriter, AtomicTypeOK
    <3>2. UNCHANGED <<dir, text, synced>> /\ (survivors' = survivors \/ survivors' = {dir})
      BY <2>7 DEF SyncDir, KillWriter
    <3> QED BY <3>1, <3>2 DEF AtomicInv, TmpIsPrefix, PathIsSafe, WholeInode
  <2>8. CASE WriteBack
    <3>1. /\ UNCHANGED <<dir, text, pc, fd, want, pos>>
          /\ synced \subseteq synced'
          /\ survivors' = survivors \/ survivors' = {dir}
      BY <2>8 DEF WriteBack
    <3>2. TmpIsPrefix'
      BY <3>1 DEF AtomicInv, TmpIsPrefix
    <3>3. PathIsSafe'
      BY <3>1 DEF AtomicInv, PathIsSafe, WholeInode
    <3> QED BY <3>2, <3>3 DEF AtomicInv
  <2>9. CASE PowerLoss
    <3>1. /\ dir' \in survivors /\ survivors' = {dir'} /\ synced' = Inodes
          /\ \A w \in Writers : pc'[w] = "idle"
      BY <2>9 DEF PowerLoss
    <3>2. \A i \in synced : text'[i] = text[i]
      BY <2>9, PowerLossText
    <3>3. ASSUME dir'.path # None
          PROVE  /\ dir'.path \in Inodes /\ dir'.path # dir'.tmp
                 /\ \E v \in 1..MaxWrites : IsWhole(text'[dir'.path], v)
      <4>1. dir'.path \in synced /\ WholeInode(dir'.path) /\ dir'.path # dir'.tmp
        BY <3>1, <3>3 DEF AtomicInv, PathIsSafe
      <4> QED BY <2>a, <3>1, <3>2, <3>3, <4>1 DEF WholeInode, Directory
    <3>4. PathIsSafe'
      BY <3>1, <3>3 DEF PathIsSafe, WholeInode, IsWhole
    <3> QED BY <3>1, <3>4 DEF AtomicInv, TmpIsPrefix
  <2>10. CASE UNCHANGED atomicVars
    BY <2>10 DEF atomicVars, AtomicInv, TmpIsPrefix, PathIsSafe, WholeInode
  <2> QED
    BY <2>1, <2>2, <2>3, <2>4, <2>5, <2>6, <2>7, <2>8, <2>9, <2>10 DEF AtomicNext, Step
<1> QED BY <1>1, <1>2, TypeCorrect, PTL DEF AtomicSpec

\* With one writer a reader never finds a mixture of versions, or a file cut short.
THEOREM ReaderSeesWhole == ASSUME OneWriter PROVE AtomicSpec => []NeverTorn
<1>1. AtomicTypeOK /\ AtomicInv => NeverTorn
  <2> SUFFICES ASSUME AtomicTypeOK, AtomicInv PROVE NeverTorn
    OBVIOUS
  <2>1. CASE dir.path = None
    BY <2>1 DEF NeverTorn, VersionIn, Torn
  <2>2. CASE dir.path # None
    <3>1. \E v \in 1..MaxWrites : IsWhole(text[dir.path], v)
      BY <2>2 DEF AtomicInv, PathIsSafe, WholeInode
    <3>2. VersionIn(dir) \in 1..MaxWrites
      BY <2>2, <3>1 DEF VersionIn
    <3> QED BY <3>2 DEF NeverTorn, Torn
  <2> QED BY <2>1, <2>2
<1> QED BY <1>1, TypeCorrect, AtomicInvHolds, PTL
-----------------------------------------------------------------------------
\* A file holds at most one version whole.
LEMMA OneVersion ==
  ASSUME NEW s, NEW u \in 1..MaxWrites, NEW v \in 1..MaxWrites,
         IsWhole(s, u), IsWhole(s, v)
  PROVE  u = v
<1>1. Size[u] \in Nat \ {0} /\ Size[v] \in Nat \ {0}
  OBVIOUS
<1>2. s[1] = u
  BY <1>1 DEF IsWhole
<1>3. s[1] = v
  BY <1>1 DEF IsWhole
<1> QED BY <1>2, <1>3

\* Every step of a call but the rename.
Prepares(w) ==
  \/ Begin(w) \/ Open(w) \/ WriteBlock(w) \/ SyncFile(w)
  \/ WriteFails(w) \/ RenameFails(w) \/ SyncDir(w) \/ KillWriter(w)

\* It leaves alone what `path` names now and what it may name after a power loss.
LEMMA PathsKept ==
  ASSUME AtomicTypeOK, AtomicInv, WriteBack \/ \E w \in Writers : Prepares(w)
  PROVE  /\ dir'.path = dir.path
         /\ \A d \in survivors' : \E e \in survivors : e.path = d.path
         /\ \A d \in survivors : d.path # None => text'[d.path] = text[d.path]
<1> USE DEF disk, callVars
<1>1. /\ \A d \in survivors \cup {dir} : d \in Directory
      /\ dir \in survivors
      /\ \A d \in survivors : d.path # None => d.path \in Inodes /\ d.path # dir.tmp
  BY DEF AtomicTypeOK, AtomicInv, PathIsSafe, Directory
<1>2. CASE WriteBack
  BY <1>1, <1>2 DEF WriteBack
<1>3. ASSUME NEW w \in Writers, Begin(w) \/ SyncFile(w) \/ SyncDir(w) \/ KillWriter(w)
      PROVE  /\ dir' = dir /\ text' = text
             /\ survivors' \subseteq survivors
  BY <1>1, <1>3 DEF Begin, SyncFile, SyncDir, KillWriter
<1>4. ASSUME NEW w \in Writers, Open(w)
      PROVE  /\ dir'.path = dir.path
             /\ \A d \in survivors' : \E e \in survivors : e.path = d.path
             /\ \A d \in survivors : d.path # None => text'[d.path] = text[d.path]
  <2>1. PICK i \in Inodes :
          /\ IF dir.tmp # None
             THEN i = dir.tmp /\ UNCHANGED <<dir, survivors>>
             ELSE Free(i) /\ Relink([dir EXCEPT !.tmp = i])
          /\ text' = [text EXCEPT ![i] = <<>>]
    BY <1>4 DEF Open
  <2>2. dir'.path = dir.path /\ (survivors' = survivors \/ survivors' = survivors \cup {dir'})
    BY <1>1, <2>1 DEF Relink, Directory
  <2>3. \A d \in survivors : d.path # i
    BY <1>1, <2>1 DEF Free
  <2> QED BY <1>1, <2>1, <2>2, <2>3 DEF AtomicTypeOK
<1>5. ASSUME NEW w \in Writers, WriteBlock(w)
      PROVE  /\ UNCHANGED <<dir, survivors>>
             /\ \A d \in survivors : d.path # None => text'[d.path] = text[d.path]
  <2>1. fd[w] = dir.tmp /\ text' = [text EXCEPT ![fd[w]] = Overwrite(text[fd[w]], pos[w], want[w])]
    BY <1>5 DEF WriteBlock, AtomicInv, TmpIsPrefix
  <2> QED BY <1>1, <1>5, <2>1 DEF WriteBlock, AtomicTypeOK
<1>6. ASSUME NEW w \in Writers, WriteFails(w) \/ RenameFails(w)
      PROVE  /\ dir'.path = dir.path /\ text' = text
             /\ \A d \in survivors' : \E e \in survivors : e.path = d.path
  <2>1. Cleanup
    BY <1>6 DEF WriteFails, RenameFails
  <2> QED BY <1>1, <2>1, CleanupStep
<1> QED BY <1>1, <1>2, <1>3, <1>4, <1>5, <1>6 DEF Prepares

\* What a power loss may leave at `path` was handed out before.
KeptAreIssued ==
  \A d \in survivors : d.path # None =>
    \A v \in 1..MaxWrites : IsWhole(text[d.path], v) => v <= issued

\* Before the rename, and after an error, the file has not the call's version; after
\* the rename it has.
CallIsHonest ==
  \A w \in Writers :
    /\ want[w] <= issued
    /\ pc[w] # "idle" => want[w] = issued
    /\ pc[w] # "idle" => result[w] = "none"
    /\ pc[w] # "idle" \/ result[w] # "none" => want[w] # 0
    /\ pc[w] \in {"open", "write", "rename"} \/ result[w] = "err"
         => dir.path = None \/ ~IsWhole(text[dir.path], want[w])
    /\ pc[w] = "dirsync" \/ result[w] = "ok"
         => dir.path # None /\ IsWhole(text[dir.path], want[w])

HonestInv == KeptAreIssued /\ CallIsHonest

LEMMA HonestInvHolds == ASSUME OneWriter PROVE AtomicSpec => []HonestInv
<1>1. AtomicInit => HonestInv
  BY DEF AtomicInit, HonestInv, KeptAreIssued, CallIsHonest
<1>2. AtomicTypeOK /\ AtomicInv /\ HonestInv /\ [AtomicNext]_atomicVars => HonestInv'
  <2> SUFFICES ASSUME AtomicTypeOK, AtomicInv, HonestInv, [AtomicNext]_atomicVars PROVE HonestInv'
    OBVIOUS
  <2> USE DEF disk, callVars
  <2>a. dir \in survivors /\ issued \in 0..MaxWrites
    BY DEF AtomicInv, PathIsSafe, AtomicTypeOK
  <2>1. ASSUME NEW w \in Writers, Begin(w) PROVE HonestInv'
    <3>1. /\ UNCHANGED disk /\ issued' = issued + 1 /\ issued < MaxWrites
          /\ \A x \in Writers : x = w /\ want'[x] = issued + 1 /\ pc'[x] = "open" /\ result'[x] = "none"
      BY <2>1 DEF Begin, Go, OneWriter, AtomicTypeOK
    <3>2. dir.path # None => ~IsWhole(text[dir.path], issued + 1)
      BY <2>a, <3>1 DEF HonestInv, KeptAreIssued
    <3>3. KeptAreIssued'
      <4>1. \A d \in survivors' : d.path # None =>
              \A v \in 1..MaxWrites : IsWhole(text'[d.path], v) => v <= issued
        BY <3>1 DEF HonestInv, KeptAreIssued
      <4>2. \A v \in 1..MaxWrites : v <= issued => v <= issued'
        BY <2>a, <3>1
      <4> QED BY <4>1, <4>2 DEF KeptAreIssued, IsWhole
    <3>4. CallIsHonest'
      <4>1. dir'.path # None => ~IsWhole(text'[dir'.path], want'[w])
        BY <3>1, <3>2
      <4>2. want'[w] = issued' /\ want'[w] <= issued' /\ want'[w] # 0
        BY <2>a, <3>1
      <4> QED BY <3>1, <4>1, <4>2 DEF CallIsHonest, IsWhole
    <3> QED BY <3>3, <3>4 DEF HonestInv
  <2>2. ASSUME /\ dir'.path = dir.path
               /\ \A d \in survivors' : \E e \in survivors : e.path = d.path
               /\ \A d \in survivors : d.path # None => text'[d.path] = text[d.path],
               issued' = issued
        PROVE  /\ KeptAreIssued'
               /\ dir'.path # None => text'[dir'.path] = text[dir.path]
    BY <2>a, <2>2 DEF HonestInv, KeptAreIssued, IsWhole
  <2>3. ASSUME NEW w \in Writers,
               Open(w) \/ WriteBlock(w) \/ SyncFile(w) \/ WriteFails(w) \/ RenameFails(w)
                 \/ SyncDir(w) \/ KillWriter(w)
        PROVE  HonestInv'
    <3>1. /\ dir'.path = dir.path /\ issued' = issued
          /\ KeptAreIssued'
          /\ dir'.path # None => text'[dir'.path] = text[dir.path]
      <4>1. issued' = issued
        BY <2>3 DEF Open, WriteBlock, SyncFile, WriteFails, RenameFails, SyncDir, KillWriter
      <4> QED BY <2>2, <2>3, <4>1, PathsKept DEF Prepares
    <3>2. /\ want'[w] = want[w]
          /\ \/ /\ pc[w] \in {"open", "write"} /\ pc'[w] \in {"write", "rename"}
                /\ result'[w] = result[w]
             \/ pc[w] \in {"open", "write", "rename"} /\ pc'[w] = "idle" /\ result'[w] = "err"
             \/ pc[w] = "dirsync" /\ pc'[w] = "idle" /\ result'[w] = "ok"
             \/ pc'[w] = "idle" /\ result'[w] = "none"
      BY <2>3 DEF Open, WriteBlock, SyncFile, WriteFails, RenameFails, SyncDir, KillWriter, Return, Go, AtomicTypeOK
    <3>3. \A x \in Writers : x = w
      BY DEF OneWriter
    <3>4. CallIsHonest'
      BY <3>1, <3>2, <3>3 DEF HonestInv, CallIsHonest, IsWhole
    <3> QED BY <3>1, <3>4 DEF HonestInv
  <2>4. ASSUME NEW w \in Writers, Rename(w) PROVE HonestInv'
    <3>1. /\ pc[w] = "rename" /\ dir.tmp # None
          /\ dir' = [tmp |-> None, path |-> dir.tmp]
          /\ survivors' = survivors \cup {dir'}
          /\ UNCHANGED <<text, want, result, issued>>
          /\ pc' = [pc EXCEPT ![w] = "dirsync"]
      BY <2>4 DEF Rename, Relink, Go
    <3>2. want[w] \in 1..MaxWrites /\ want[w] = issued /\ want[w] <= issued /\ result[w] = "none"
      BY <3>1 DEF HonestInv, CallIsHonest, AtomicTypeOK
    <3>3. IsWhole(text[dir.tmp], want[w])
      <4>1. /\ fd[w] = dir.tmp /\ pos[w] = Size[want[w]]
            /\ text[fd[w]] = [k \in 1..pos[w] |-> want[w]]
        BY <3>1 DEF AtomicInv, TmpIsPrefix
      <4> QED BY <4>1 DEF IsWhole
    <3>4. \A v \in 1..MaxWrites : IsWhole(text[dir.tmp], v) => v <= issued
      BY <3>2, <3>3, OneVersion
    <3>5. KeptAreIssued'
      <4>1. \A d \in survivors' : d.path # None =>
              \A v \in 1..MaxWrites : IsWhole(text'[d.path], v) => v <= issued
        BY <3>1, <3>4 DEF HonestInv, KeptAreIssued
      <4> QED BY <3>1, <4>1 DEF KeptAreIssued, IsWhole
    <3>6. \A x \in Writers : x = w /\ pc'[x] = "dirsync" /\ result'[x] = "none"
      BY <3>1, <3>2 DEF OneWriter, AtomicTypeOK
    <3>7. CallIsHonest'
      <4>1. dir'.path # None /\ IsWhole(text'[dir'.path], want'[w])
        BY <3>1, <3>3
      <4>2. want'[w] = issued' /\ want'[w] <= issued' /\ want'[w] # 0
        BY <3>1, <3>2
      <4> QED BY <3>6, <4>1, <4>2 DEF CallIsHonest, IsWhole
    <3> QED BY <3>5, <3>7 DEF HonestInv
  <2>5. CASE WriteBack
    <3>1. UNCHANGED <<dir, text, pc, fd, want, pos, result, issued>>
      BY <2>5 DEF WriteBack
    <3>2. KeptAreIssued'
      BY <2>2, <2>5, <3>1, PathsKept
    <3>3. CallIsHonest'
      BY <3>1 DEF HonestInv, CallIsHonest, IsWhole
    <3> QED BY <3>2, <3>3 DEF HonestInv
  <2>6. CASE PowerLoss
    <3>1. /\ dir' \in survivors /\ survivors' = {dir'} /\ UNCHANGED <<want, issued>>
          /\ \A w \in Writers : pc'[w] = "idle" /\ result'[w] = "none"
      BY <2>6 DEF PowerLoss
    <3>2. dir'.path # None => text'[dir'.path] = text[dir'.path]
      BY <2>6, <3>1, PowerLossText DEF AtomicInv, PathIsSafe
    <3>3. KeptAreIssued'
      BY <3>1, <3>2 DEF HonestInv, KeptAreIssued, IsWhole
    <3>4. CallIsHonest'
      BY <3>1 DEF HonestInv, CallIsHonest
    <3> QED BY <3>3, <3>4 DEF HonestInv
  <2>7. CASE UNCHANGED atomicVars
    BY <2>7 DEF atomicVars, HonestInv, KeptAreIssued, CallIsHonest, IsWhole
  <2> QED
    BY <2>1, <2>3, <2>4, <2>5, <2>6, <2>7 DEF AtomicNext, Step
<1> QED BY <1>1, <1>2, TypeCorrect, AtomicInvHolds, PTL DEF AtomicSpec

\* With one writer a call that returns Ok has left the caller's version at `path`, and
\* one that returns an error has not, until the next call begins.
THEOREM ResultTellsTruth == ASSUME OneWriter PROVE AtomicSpec => []ResultHonest
<1>1. AtomicTypeOK /\ HonestInv => ResultHonest
  <2> SUFFICES ASSUME AtomicTypeOK, HonestInv, NEW w \in Writers
               PROVE  /\ result[w] = "ok" => VersionIn(dir) = want[w]
                      /\ result[w] = "err" => VersionIn(dir) # want[w]
    BY DEF ResultHonest
  <2>1. result[w] # "none" => want[w] \in 1..MaxWrites
    BY DEF HonestInv, CallIsHonest, AtomicTypeOK
  <2>2. ASSUME result[w] = "ok" PROVE VersionIn(dir) = want[w]
    <3>1. dir.path # None /\ IsWhole(text[dir.path], want[w])
      BY <2>2 DEF HonestInv, CallIsHonest
    <3>2. \A v \in 1..MaxWrites : IsWhole(text[dir.path], v) => v = want[w]
      BY <2>1, <2>2, <3>1, OneVersion
    <3> QED BY <2>1, <2>2, <3>1, <3>2 DEF VersionIn
  <2>3. ASSUME result[w] = "err" PROVE VersionIn(dir) # want[w]
    <3>1. dir.path = None \/ ~IsWhole(text[dir.path], want[w])
      BY <2>3 DEF HonestInv, CallIsHonest
    <3>2. CASE dir.path = None
      BY <2>1, <2>3, <3>2 DEF VersionIn
    <3>3. CASE dir.path # None /\ \E v \in 1..MaxWrites : IsWhole(text[dir.path], v)
      <4>1. IsWhole(text[dir.path], VersionIn(dir))
        BY <3>3 DEF VersionIn
      <4> QED BY <3>1, <3>3, <4>1
    <3>4. CASE dir.path # None /\ ~\E v \in 1..MaxWrites : IsWhole(text[dir.path], v)
      BY <2>1, <2>3, <3>4 DEF VersionIn, Torn
    <3> QED BY <3>2, <3>3, <3>4
  <2> QED BY <2>2, <2>3
<1> QED BY <1>1, TypeCorrect, HonestInvHolds, PTL
-----------------------------------------------------------------------------
\* VersionIn as a function of the blocks and of the inode, to speak of it in the
\* next state.
VersionAt(t, i) ==
  IF i = None THEN 0
  ELSE IF \E v \in 1..MaxWrites : IsWhole(t[i], v)
  THEN CHOOSE v \in 1..MaxWrites : IsWhole(t[i], v)
  ELSE Torn

\* A step that leaves `path` alone changes neither the version a reader finds nor,
\* unless the directory reaches the disk, what a power loss can leave.
LEMMA KeepingRefines ==
  ASSUME AtomicTypeOK, AtomicInv, WriteBack \/ \E w \in Writers : Prepares(w)
  PROVE  UNCHANGED File!avars \/ File!Settle
<1> USE DEF disk, callVars
<1> DEFINE value == VersionAt(text, dir.path)
           past == {VersionAt(text, d.path) : d \in survivors}
           newValue == VersionAt(text', dir'.path)
           newPast == {VersionAt(text', d.path) : d \in survivors'}
<1>1. /\ dir'.path = dir.path
      /\ \A d \in survivors' : \E e \in survivors : e.path = d.path
      /\ \A d \in survivors : d.path # None => text'[d.path] = text[d.path]
  BY PathsKept
<1>2. (\A e \in survivors : \E d \in survivors' : e.path = d.path) \/ survivors' = {dir'}
  <2>1. ASSUME Cleanup PROVE survivors \subseteq survivors'
    BY <2>1, CleanupStep
  <2>2. ASSUME NEW w \in Writers, Prepares(w)
        PROVE  survivors \subseteq survivors' \/ survivors' = {dir'}
    BY <2>1, <2>2 DEF Prepares, Begin, Open, WriteBlock, SyncFile, WriteFails, RenameFails,
                      SyncDir, KillWriter, Relink
  <2>3. WriteBack => survivors \subseteq survivors' \/ survivors' = {dir'}
    BY DEF WriteBack
  <2>4. survivors \subseteq survivors' \/ survivors' = {dir'}
    BY <2>2, <2>3
  <2> QED BY <2>4
<1>3. dir \in survivors
  BY DEF AtomicInv, PathIsSafe
<1>4. \A d \in survivors : VersionAt(text', d.path) = VersionAt(text, d.path)
  BY <1>1 DEF VersionAt
<1>5. newValue = value
  BY <1>1, <1>3, <1>4
<1>6. newPast = past \/ newPast = {newValue}
  <2>1. CASE survivors' = {dir'}
    BY <2>1
  <2>2. CASE \A e \in survivors : \E d \in survivors' : e.path = d.path
    BY <1>1, <1>4, <2>2
  <2> QED BY <1>2, <2>1, <2>2
<1>7. /\ VersionIn(dir) = value /\ VersionIn(dir)' = newValue
      /\ {VersionIn(d) : d \in survivors} = past
      /\ {VersionIn(d) : d \in survivors}' = newPast
  BY DEF VersionIn, VersionAt
<1> HIDE DEF value, past, newValue, newPast
<1> QED BY <1>5, <1>6, <1>7 DEF File!avars, File!Settle

\* With one writer, every step of the write is a step of the atomic file: the rename
\* puts a newer version in place, a sync of the directory settles it, a power loss
\* goes back to a version the file had, and nothing else can be seen.
THEOREM WriteIsAtomic == ASSUME OneWriter PROVE AtomicSpec => ImplementsAtomicFile
<1>1. AtomicInit => File!AInit
  BY DEF AtomicInit, File!AInit, VersionIn
<1>2. AtomicTypeOK /\ AtomicInv /\ HonestInv /\ [AtomicNext]_atomicVars => [File!ANext]_File!avars
  <2> SUFFICES ASSUME AtomicTypeOK, AtomicInv, HonestInv, [AtomicNext]_atomicVars
               PROVE  File!ANext \/ UNCHANGED File!avars
    OBVIOUS
  <2>1. ASSUME NEW w \in Writers, Rename(w) PROVE File!Replace
    <3> USE DEF disk, callVars
    <3>1. /\ pc[w] = "rename" /\ dir.tmp # None
          /\ dir' = [tmp |-> None, path |-> dir.tmp]
          /\ survivors' = survivors \cup {dir'}
          /\ text' = text
      BY <2>1 DEF Rename, Relink
    <3>2. want[w] \in 1..MaxWrites /\ want[w] = issued
      BY <3>1 DEF HonestInv, CallIsHonest, AtomicTypeOK
    <3>3. IsWhole(text[dir.tmp], want[w])
      <4>1. /\ fd[w] = dir.tmp /\ pos[w] = Size[want[w]]
            /\ text[fd[w]] = [k \in 1..pos[w] |-> want[w]]
        BY <3>1 DEF AtomicInv, TmpIsPrefix
      <4> QED BY <4>1 DEF IsWhole
    <3>4. VersionAt(text', dir'.path) = want[w]
      <4>1. \A v \in 1..MaxWrites : IsWhole(text[dir.tmp], v) => v = want[w]
        BY <3>2, <3>3, OneVersion
      <4> QED BY <3>1, <3>2, <3>3, <4>1 DEF VersionAt
    <3>5. VersionAt(text, dir.path) \in Nat /\ VersionAt(text, dir.path) < want[w]
      <4>1. dir \in survivors
        BY DEF AtomicInv, PathIsSafe
      <4>2. CASE dir.path = None
        BY <3>2, <4>2 DEF VersionAt
      <4>3. CASE dir.path # None
        <5>1. \E v \in 1..MaxWrites : IsWhole(text[dir.path], v)
          BY <4>1, <4>3 DEF AtomicInv, PathIsSafe, WholeInode
        <5>2. PICK v \in 1..MaxWrites : v = VersionAt(text, dir.path) /\ IsWhole(text[dir.path], v)
          BY <4>3, <5>1 DEF VersionAt
        <5>3. v <= issued
          BY <4>1, <4>3, <5>2 DEF HonestInv, KeptAreIssued
        <5>4. ~IsWhole(text[dir.path], want[w])
          BY <3>1, <4>3 DEF HonestInv, CallIsHonest
        <5> QED BY <3>2, <5>2, <5>3, <5>4
      <4> QED BY <4>2, <4>3
    <3>6. {VersionAt(text', d.path) : d \in survivors'}
            = {VersionAt(text, d.path) : d \in survivors} \cup {VersionAt(text', dir'.path)}
      BY <3>1
    <3>7. /\ VersionIn(dir) = VersionAt(text, dir.path)
          /\ VersionIn(dir)' = VersionAt(text', dir'.path)
          /\ {VersionIn(d) : d \in survivors} = {VersionAt(text, d.path) : d \in survivors}
          /\ {VersionIn(d) : d \in survivors}' = {VersionAt(text', d.path) : d \in survivors'}
      BY DEF VersionIn, VersionAt
    <3>8. VersionIn(dir)' \in VersionIn(dir) + 1..MaxWrites
      BY <3>2, <3>4, <3>5, <3>7
    <3> QED BY <3>6, <3>7, <3>8 DEF File!Replace
  <2>2. CASE PowerLoss
    <3>1. dir' \in survivors /\ survivors' = {dir'}
      BY <2>2 DEF PowerLoss
    <3>2. dir'.path # None => text'[dir'.path] = text[dir'.path]
      BY <2>2, <3>1, PowerLossText DEF AtomicInv, PathIsSafe
    <3>3. VersionAt(text', dir'.path) = VersionAt(text, dir'.path)
      BY <3>2 DEF VersionAt
    <3>4. /\ VersionIn(dir)' = VersionAt(text', dir'.path)
          /\ {VersionIn(d) : d \in survivors} = {VersionAt(text, d.path) : d \in survivors}
          /\ {VersionIn(d) : d \in survivors}' = {VersionAt(text', d.path) : d \in survivors'}
      BY DEF VersionIn, VersionAt
    <3>5. {VersionAt(text', d.path) : d \in survivors'} = {VersionAt(text', dir'.path)}
      BY <3>1
    <3> QED BY <3>1, <3>3, <3>4, <3>5 DEF File!ANext, File!Lose
  <2>3. CASE WriteBack \/ \E w \in Writers : Prepares(w)
    BY <2>3, KeepingRefines DEF File!ANext
  <2>4. CASE UNCHANGED atomicVars
    BY <2>4 DEF atomicVars, disk, File!avars, VersionIn
  <2> QED BY <2>1, <2>2, <2>3, <2>4 DEF AtomicNext, Step, Prepares, File!ANext
<1> QED
  BY <1>1, <1>2, TypeCorrect, AtomicInvHolds, HonestInvHolds, PTL
     DEF AtomicSpec, ImplementsAtomicFile, File!ASpec
=============================================================================
