---------------------------- MODULE CacheProofs -----------------------------
(***************************************************************************)
(* Safety of the two caches: the cache directory under `cache clean`       *)
(* (module Caches) and the HTTP metadata cache (module HttpMeta), for any  *)
(* number of processes, tasks, files, URLs and names.                      *)
(*                                                                         *)
(* For `cache clean` the invariant says what a clean that runs alone has   *)
(* measured: which part of the cache it has emptied and how the sizes it   *)
(* keeps (status, remaining, freed) relate to the files that are left;     *)
(* and, as long as the order of the uses is known, that one process at a   *)
(* time holds that order in memory or has written it. It rests on lemmas   *)
(* about TotalSize, which counts bytes, and on u64 subtraction being exact *)
(* for what a cache can hold.                                              *)
(*                                                                         *)
(* For the HTTP cache the invariant says that what a task has in hand is   *)
(* of its own URL and not older than its question or the file it came      *)
(* from, that a file's age is that of its body, and how many entries the   *)
(* tasks that have yet to prune can account for.                           *)
(***************************************************************************)
EXTENDS Caches, HttpMeta, FiniteSetTheorems, FunctionTheorems, TLAPS

-----------------------------------------------------------------------------
(***************************************************************************)
(* The cache directory and cache clean                                     *)
(***************************************************************************)

USE CachesAssumption DEF Files

(***************************************************************************)
(* Sizes                                                                   *)
(***************************************************************************)

\* The bytes of a file, as a set.
Piece(f) == {f} \X (1 .. SizeOf[f])
Bytes(s) == UNION {Piece(f) : f \in s}

\* A file has as many bytes as its size says.
LEMMA PieceSize ==
  ASSUME NEW f \in Files
  PROVE  IsFiniteSet(Piece(f)) /\ Cardinality(Piece(f)) = SizeOf[f]
<1>1. SizeOf[f] \in Nat /\ SizeOf[f] > 0
  OBVIOUS
<1>2. IsFiniteSet(1 .. SizeOf[f]) /\ Cardinality(1 .. SizeOf[f]) = SizeOf[f]
  BY <1>1, FS_Interval
<1>3. IsFiniteSet({f}) /\ Cardinality({f}) = 1
  BY FS_Singleton
<1>4. /\ IsFiniteSet({f} \X (1 .. SizeOf[f]))
      /\ Cardinality({f} \X (1 .. SizeOf[f])) = Cardinality({f}) * Cardinality(1 .. SizeOf[f])
  BY <1>2, <1>3, FS_Product
<1> QED
  BY <1>1, <1>2, <1>3, <1>4 DEF Piece

\* Some files have finitely many bytes.
LEMMA BytesFinite ==
  ASSUME NEW s \in SUBSET Files
  PROVE  IsFiniteSet(Bytes(s))
<1> DEFINE all == {Piece(f) : f \in s}
           piece == [f \in s |-> Piece(f)]
<1>1. IsFiniteSet(s)
  BY FS_Subset
<1>2. piece \in Surjection(s, all)
  BY DEF Surjection
<1>3. IsFiniteSet(all)
  <2> HIDE DEF all, piece
  <2> QED
    BY <1>1, <1>2, FS_Surjection
<1>4. \A p \in all : IsFiniteSet(p)
  BY PieceSize
<1> HIDE DEF all
<1>5. IsFiniteSet(UNION all)
  BY <1>3, <1>4, FS_UNION
<1> QED
  BY <1>5 DEF all, Bytes

\* TotalSize counts the bytes.
LEMMA SizeIsBytes ==
  ASSUME NEW s
  PROVE  TotalSize(s) = Cardinality(Bytes(s))
BY DEF TotalSize, Bytes, Piece

\* The size of some files is a number that a u64 holds.
LEMMA SizeIsNat ==
  ASSUME NEW s \in SUBSET Files
  PROVE  TotalSize(s) \in Nat /\ TotalSize(s) < Width
<1>1. IsFiniteSet(Bytes(s)) /\ IsFiniteSet(Bytes(Files))
  BY BytesFinite
<1>2. Bytes(s) \subseteq Bytes(Files)
  BY DEF Bytes
<1>3. Cardinality(Bytes(s)) <= Cardinality(Bytes(Files))
  BY <1>1, <1>2, FS_Subset
<1>4. Cardinality(Bytes(s)) \in Nat /\ Cardinality(Bytes(Files)) \in Nat
  BY <1>1, FS_CardinalityType
<1>5. Cardinality(Bytes(Files)) < Width
  BY SizeIsBytes
<1> QED
  BY <1>3, <1>4, <1>5, SizeIsBytes

\* The sizes of files that are apart add up.
LEMMA SizeSplit ==
  ASSUME NEW s \in SUBSET Files, NEW t \in SUBSET Files, s \cap t = {}
  PROVE  TotalSize(s \cup t) = TotalSize(s) + TotalSize(t)
<1>1. IsFiniteSet(Bytes(s)) /\ IsFiniteSet(Bytes(t))
  BY BytesFinite
<1>2. Bytes(s \cup t) = Bytes(s) \cup Bytes(t)
  BY DEF Bytes
<1>3. Bytes(s) \cap Bytes(t) = {}
  BY DEF Bytes, Piece
<1>4. Cardinality(Bytes(s) \cup Bytes(t))
        = Cardinality(Bytes(s)) + Cardinality(Bytes(t)) - Cardinality(Bytes(s) \cap Bytes(t))
  BY <1>1, FS_Union
<1>5. Cardinality(Bytes(s) \cap Bytes(t)) = 0
  BY <1>3, FS_EmptySet
<1>6. Cardinality(Bytes(s)) \in Nat /\ Cardinality(Bytes(t)) \in Nat
  BY <1>1, FS_CardinalityType
<1>7. Cardinality(Bytes(s) \cup Bytes(t)) = Cardinality(Bytes(s)) + Cardinality(Bytes(t))
  BY <1>4, <1>5, <1>6
<1> QED
  BY <1>2, <1>7, SizeIsBytes

\* No files have no bytes, and any file has some.
LEMMA SizeZero ==
  ASSUME NEW s \in SUBSET Files
  PROVE  TotalSize(s) = 0 <=> s = {}
<1>1. IsFiniteSet(Bytes(s))
  BY BytesFinite
<1>2. Cardinality(Bytes(s)) = 0 <=> Bytes(s) = {}
  BY <1>1, FS_EmptySet
<1>3. ASSUME NEW f \in s
      PROVE  Bytes(s) # {}
  <2>1. <<f, 1>> \in Piece(f)
    BY DEF Piece
  <2> QED
    BY <2>1 DEF Bytes
<1>4. s = {} => Bytes(s) = {}
  BY DEF Bytes
<1> QED
  BY <1>2, <1>3, <1>4, SizeIsBytes

\* Removing a file takes its size off.
LEMMA SizeMinus ==
  ASSUME NEW s \in SUBSET Files, NEW f \in s
  PROVE  TotalSize(s) = TotalSize(s \ {f}) + SizeOf[f]
<1>1. TotalSize((s \ {f}) \cup {f}) = TotalSize(s \ {f}) + TotalSize({f})
  BY SizeSplit
<1>2. (s \ {f}) \cup {f} = s
  OBVIOUS
<1>3. Bytes({f}) = Piece(f)
  BY DEF Bytes
<1> QED
  BY <1>1, <1>2, <1>3, PieceSize, SizeIsBytes

\* u64 arithmetic is arithmetic for what a u64 holds.
LEMMA ModFits ==
  ASSUME NEW n \in Int
  PROVE  /\ n % Width \in Nat
         /\ 0 <= n /\ n < Width => n % Width = n
<1>1. TotalSize(Files) \in Nat
  BY SizeIsNat
<1>2. Width \in Nat /\ Width > 0
  BY <1>1
<1> QED
  BY <1>2

\* Removing some files takes their size off.
LEMMA SizeWithout ==
  ASSUME NEW s \in SUBSET Files, NEW t \in SUBSET s
  PROVE  TotalSize(s) = TotalSize(s \ t) + TotalSize(t)
<1>1. TotalSize((s \ t) \cup t) = TotalSize(s \ t) + TotalSize(t)
  BY SizeSplit
<1>2. (s \ t) \cup t = s
  OBVIOUS
<1> QED
  BY <1>1, <1>2

\* Fewer files are not larger.
LEMMA SizeGrows ==
  ASSUME NEW s \in SUBSET Files, NEW t \in SUBSET s
  PROVE  TotalSize(t) <= TotalSize(s)
<1>1. TotalSize(s) = TotalSize(s \ t) + TotalSize(t)
  BY SizeWithout
<1>2. TotalSize(s \ t) \in Nat /\ TotalSize(t) \in Nat
  BY SizeIsNat
<1> QED
  BY <1>1, <1>2

HIDE CachesAssumption DEF Files

(***************************************************************************)
(* The inductive invariant                                                 *)
(***************************************************************************)

Steps == {"idle", "cleaned", "use", "jars", "dirs", "size", "list", "evict", "flush",
          "games", "evict games", "loaders", "evict loaders", "failed"}

Sums == [jars : Nat, other : Nat, left : Nat, gone : Nat]

InCache == files \cap Jars
InDirs == files \ Jars

CachesTypeOK ==
  /\ clock \in Nat
  /\ files \in SUBSET Files
  /\ used \in [Jars -> Nat]
  /\ mtime \in [Games \cup Loaders -> Nat]
  /\ manifest \in [Jars -> Nat]
  /\ job \in [Procs -> Steps]
  /\ mem \in [Procs -> [Jars -> Nat]]
  /\ dirty \in [Procs -> BOOLEAN]
  /\ sum \in [Procs -> Sums]
  /\ list \in [Procs -> SUBSET Files]
  /\ exact \in BOOLEAN
  /\ quiet \in [Procs -> BOOLEAN]
  /\ stuck \in [Procs -> SUBSET Files]

\* Only a command that touches or evicts JARs has anything to write, and what
\* a clean lists is of the kind it is removing.
JobInv(p) ==
  /\ dirty[p] => job[p] \in {"use", "evict", "flush", "failed"}
  /\ job[p] = "evict" => list[p] \subseteq Jars
  /\ job[p] = "evict games" => list[p] \subseteq Games
  /\ job[p] = "evict loaders" => list[p] \subseteq Loaders

\* As long as the order of the uses is known one process runs at a time, and
\* knows it; what it has in memory is that order for the JARs that are there,
\* and so is the manifest unless the process has yet to write it.
OrderInv ==
  exact =>
    /\ \A p, q \in Procs : p # q => Idle(p) \/ Idle(q)
    /\ (\A p \in Procs : Idle(p)) => \A f \in InCache : manifest[f] = used[f]
    /\ \A p \in Procs : ~Idle(p) =>
         /\ quiet[p]
         /\ \A f \in InCache : mem[p][f] = used[f]
         /\ ~dirty[p] => \A f \in InCache : manifest[f] = used[f]

\* What a clean has listed of one kind of directory and not tried: all of that
\* kind it did not try in vain, and of a directory it tried nothing.
Untried(p, kind) ==
  /\ list[p] = (files \cap kind) \ stuck[p]
  /\ \A f \in list[p], g \in stuck[p] \ Jars : DirOf[f] # DirOf[g]

\* What a clean that no other process disturbs knows of the cache.
Measured(p) ==
  /\ job[p] \in {"use", "jars", "dirs", "size", "list"} => stuck[p] = {}
  /\ job[p] = "dirs" => sum[p].jars = TotalSize(InCache) /\ sum[p].gone = 0
  /\ job[p] \in {"size", "list", "evict", "flush"} =>
       /\ sum[p].other = TotalSize(InDirs)
       /\ sum[p].jars = TotalSize(InCache) + sum[p].gone
  /\ job[p] \in {"list", "evict"} => sum[p].left = TotalSize(InCache)
  /\ job[p] = "evict" => list[p] = InCache \ stuck[p]
  /\ job[p] \in {"evict", "flush", "games"} => stuck[p] \subseteq InCache
  /\ job[p] = "flush" => TotalSize(InCache) <= JarBudget(p) \/ InCache \subseteq stuck[p]
  /\ job[p] \in {"games", "evict games", "loaders", "evict loaders"} =>
       InCache \subseteq stuck[p] /\ sum[p].left = TotalSize(files \cup stuck[p])
  /\ job[p] = "evict games" => Untried(p, Games)
  /\ job[p] \in {"evict games", "loaders"} => stuck[p] \subseteq Jars \cup Games
  /\ job[p] \in {"loaders", "evict loaders"} => files \cap Games \subseteq stuck[p]
  /\ job[p] = "evict loaders" => Untried(p, Loaders)
  /\ job[p] = "cleaned" => TotalSize(files) <= Limit \/ files \subseteq stuck[p]

QuietInv(p) == quiet[p] => Measured(p) /\ \A q \in Procs \ {p} : Idle(q)

CachesInv ==
  /\ CachesTypeOK
  /\ \A p \in Procs : JobInv(p) /\ QuietInv(p)
  /\ OrderInv

\* Each process acts by itself; only the clock is nobody's.
Does(p) ==
  \/ StartUse(p) \/ (\E f \in Jars : UseJar(p, f)) \/ (\E d \in Games \cup Loaders : FillDir(p, d))
  \/ Persist(p) \/ EndUse(p)
  \/ StartClean(p) \/ ReadJarSize(p) \/ ReadDirSize(p)
  \/ ReadSize(p) \/ ListJars(p) \/ EvictJar(p) \/ EndEvict(p) \/ EndCleanup(p)
  \/ ListDirs(p) \/ EvictDir(p) \/ EndDirs(p)
  \/ Obliterate(p) \/ Die(p)

LEMMA NextSteps ==
  CacheNext <=> Second \/ \E p \in Procs : Does(p)
BY DEF CacheNext, Does

(***************************************************************************)
(* Types                                                                   *)
(***************************************************************************)

LEMMA TypeInit ==
  CacheInit => CachesTypeOK
BY DEF CacheInit, CachesTypeOK, Never, NoSum, Steps, Sums

\* A difference is a number of bytes, and the difference if that fits.
LEMMA MinusFits ==
  ASSUME NEW a \in Int, NEW b \in Int
  PROVE  /\ Minus(a, b) \in Nat
         /\ 0 <= a - b /\ a - b < Width => Minus(a, b) = a - b
<1>1. a - b \in Int
  OBVIOUS
<1>2. /\ (a - b) % Width \in Nat
      /\ 0 <= a - b /\ a - b < Width => (a - b) % Width = a - b
  BY <1>1, ModFits
<1> QED
  BY <1>2 DEF Minus

\* What a clean works out are numbers of bytes.
LEMMA NumbersFit ==
  ASSUME CachesTypeOK, NEW p \in Procs
  PROVE  /\ NoSum \in Sums
         /\ [NoSum EXCEPT !.jars = TotalSize(files \cap Jars)] \in Sums
         /\ [sum[p] EXCEPT !.other = TotalSize(files \ Jars)] \in Sums
         /\ [sum[p] EXCEPT !.left = TotalSize(files \cap Jars)] \in Sums
         /\ [NoSum EXCEPT !.left = AfterJars(p)] \in Sums
         /\ \A f \in Files :
              [sum[p] EXCEPT !.left = Minus(@, SizeOf[f]), !.gone = @ + SizeOf[f]] \in Sums
         /\ \A dir \in SUBSET Files :
              [sum[p] EXCEPT !.left = Minus(@, TotalSize(dir))] \in Sums
<1>1. /\ TotalSize(files \cap Jars) \in Nat
      /\ TotalSize(files \ Jars) \in Nat
  BY SizeIsNat DEF CachesTypeOK, Files
<1>2. sum[p] \in Sums
  BY DEF CachesTypeOK
<1>3. /\ sum[p].jars \in Nat /\ sum[p].other \in Nat /\ sum[p].left \in Nat /\ sum[p].gone \in Nat
  BY <1>2 DEF Sums
<1>4. AfterJars(p) \in Nat
  <2>1. sum[p].jars + sum[p].other \in Int /\ sum[p].gone \in Int
    BY <1>3
  <2>2. Minus(sum[p].jars + sum[p].other, sum[p].gone) \in Nat
    BY <2>1, MinusFits
  <2> QED
    BY <2>2 DEF AfterJars
<1>5. ASSUME NEW f \in Files
      PROVE  SizeOf[f] \in Nat /\ Minus(sum[p].left, SizeOf[f]) \in Nat
  <2>1. SizeOf[f] \in Nat
    BY CachesAssumption
  <2>2. sum[p].left \in Int /\ SizeOf[f] \in Int
    BY <2>1, <1>3
  <2>3. Minus(sum[p].left, SizeOf[f]) \in Nat
    BY <2>2, MinusFits
  <2> QED
    BY <2>1, <2>3
<1>6. NoSum \in Sums
  BY DEF NoSum, Sums
<1>6a. \A a, b \in Nat : /\ [sum[p] EXCEPT !.left = a] \in Sums
                         /\ [sum[p] EXCEPT !.left = a, !.gone = b] \in Sums
  BY <1>2 DEF Sums
<1>7. ASSUME NEW f \in Files
      PROVE  [sum[p] EXCEPT !.left = Minus(@, SizeOf[f]), !.gone = @ + SizeOf[f]] \in Sums
  <2>1. Minus(sum[p].left, SizeOf[f]) \in Nat /\ sum[p].gone + SizeOf[f] \in Nat
    BY <1>3, <1>5
  <2> QED
    BY <2>1, <1>6a
<1>7a. ASSUME NEW dir \in SUBSET Files
       PROVE  [sum[p] EXCEPT !.left = Minus(@, TotalSize(dir))] \in Sums
  <2>1. sum[p].left \in Int /\ TotalSize(dir) \in Int
    BY <1>3, SizeIsNat
  <2>2. Minus(sum[p].left, TotalSize(dir)) \in Nat
    BY <2>1, MinusFits
  <2> QED
    BY <2>2, <1>6a
<1>8. /\ [NoSum EXCEPT !.jars = TotalSize(files \cap Jars)] \in Sums
      /\ [sum[p] EXCEPT !.other = TotalSize(files \ Jars)] \in Sums
      /\ [sum[p] EXCEPT !.left = TotalSize(files \cap Jars)] \in Sums
      /\ [NoSum EXCEPT !.left = AfterJars(p)] \in Sums
  BY <1>1, <1>2, <1>4, <1>6 DEF Sums
<1> QED
  BY <1>6, <1>7, <1>7a, <1>8

LEMMA StepNames ==
  /\ {"idle", "cleaned", "use", "jars", "dirs", "size", "list"} \subseteq Steps
  /\ {"evict", "flush", "games", "evict games", "loaders", "evict loaders", "failed"} \subseteq Steps
BY DEF Steps

\* The end of a clean.
LEMMA CleanedType ==
  ASSUME CachesTypeOK, NEW p \in Procs, Cleaned(p), CleanRests
  PROVE  CachesTypeOK'
<1>1. NoSum \in Sums /\ "cleaned" \in Steps /\ Never \in [Jars -> Nat]
  BY NumbersFit, StepNames DEF Never
<1>2. /\ job' = [job EXCEPT ![p] = "cleaned"] /\ sum' = [sum EXCEPT ![p] = NoSum]
      /\ list' = [list EXCEPT ![p] = {}] /\ mem' = [mem EXCEPT ![p] = Never]
  BY DEF Cleaned, Enter, SumIs
<1> QED
  BY <1>1, <1>2 DEF CleanRests, CachesTypeOK, cacheFiles, history

LEMMA UnlessType ==
  ASSUME CachesTypeOK, NEW p \in Procs, NEW s \in Sums, NEW enough, CleanRests,
         NEW next \in {"size", "games"}, Unless(p, enough, next, s)
  PROVE  CachesTypeOK'
<1>1. CASE enough
  BY <1>1, CleanedType DEF Unless
<1>2. CASE ~enough
  <2>1. job' = [job EXCEPT ![p] = next] /\ sum' = [sum EXCEPT ![p] = s] /\ UNCHANGED <<list, mem>>
    BY <1>2 DEF Unless, Enter, SumIs
  <2>2. next \in Steps
    BY StepNames
  <2> QED
    BY <2>1, <2>2 DEF CleanRests, CachesTypeOK, cacheFiles, history
<1> QED
  BY <1>1, <1>2

\* The directory a clean tries is of what it listed.
LEMMA ListedDir ==
  ASSUME NEW p, EvictDir(p)
  PROVE  \E f \in list[p] : \E dir \in SUBSET list[p] :
           LET there == {g \in files : g \notin Jars /\ \E h \in dir : DirOf[g] = DirOf[h]}
           IN /\ dir = Beside(f, list[p])
              /\ list' = [list EXCEPT ![p] = @ \ dir]
              /\ \/ /\ files' = files \ there
                    /\ SumIs(p, [sum[p] EXCEPT !.left = Minus(@, TotalSize(dir))])
                    /\ UNCHANGED history
                 \/ /\ \E gone \in SUBSET there : files' = files \ gone
                    /\ Stuck(p, dir) /\ UNCHANGED sum
<1> DEFINE there(dir) == {g \in files : g \notin Jars /\ \E h \in dir : DirOf[g] = DirOf[h]}
<1>1. PICK dir \in OldestDirs(p) :
        /\ list' = [list EXCEPT ![p] = @ \ dir]
        /\ \/ /\ there(dir) # {} /\ files' = files \ there(dir)
              /\ SumIs(p, [sum[p] EXCEPT !.left = Minus(@, TotalSize(dir))])
              /\ UNCHANGED history
           \/ /\ \E gone \in SUBSET there(dir) : files' = files \ gone
              /\ Stuck(p, dir) /\ UNCHANGED sum
  BY DEF EvictDir
<1>2. PICK f \in list[p] : dir = Beside(f, list[p])
  BY DEF OldestDirs
<1>3. dir \in SUBSET list[p]
  BY <1>2 DEF Beside
<1> QED
  BY <1>1, <1>2, <1>3

LEMMA TypeStep ==
  ASSUME CachesTypeOK, [CacheNext]_cacheVars
  PROVE  CachesTypeOK'
<1> USE DEF CachesTypeOK, cacheFiles, memory, history
<1>1. CASE UNCHANGED cacheVars
  BY <1>1 DEF cacheVars
<1>2. CASE Second
  BY <1>2 DEF Second
<1>3. ASSUME NEW p \in Procs, Does(p)
      PROVE  CachesTypeOK'
  <2>n. /\ NoSum \in Sums
        /\ [NoSum EXCEPT !.jars = TotalSize(files \cap Jars)] \in Sums
        /\ [sum[p] EXCEPT !.other = TotalSize(files \ Jars)] \in Sums
        /\ [sum[p] EXCEPT !.left = TotalSize(files \cap Jars)] \in Sums
        /\ [NoSum EXCEPT !.left = AfterJars(p)] \in Sums
        /\ \A f \in Files :
             [sum[p] EXCEPT !.left = Minus(@, SizeOf[f]), !.gone = @ + SizeOf[f]] \in Sums
        /\ \A dir \in SUBSET Files :
             [sum[p] EXCEPT !.left = Minus(@, TotalSize(dir))] \in Sums
    BY NumbersFit
  <2>v. Never \in [Jars -> Nat]
    BY DEF Never
  <2>a. ASSUME NEW known \in BOOLEAN, Alone(p, known)
        PROVE  /\ used' \in [Jars -> Nat] /\ exact' \in BOOLEAN
               /\ quiet' \in [Procs -> BOOLEAN] /\ stuck' \in [Procs -> SUBSET Files]
    BY <2>a, <2>v DEF Alone, Know
  <2>f. Jars \in SUBSET Files /\ Games \cup Loaders \in SUBSET Files
    BY DEF Files
  <2>1. CASE StartUse(p)
    <3>1. UNCHANGED <<clock, files, mtime, manifest, sum, list>>
          /\ job' \in [Procs -> Steps] /\ dirty' \in [Procs -> BOOLEAN]
      BY <2>1, StepNames DEF StartUse, Load, Enter
    <3>2. mem' \in [Procs -> [Jars -> Nat]]
      BY <2>1, <2>v DEF StartUse, Load
    <3>3. \E known \in BOOLEAN : Alone(p, known)
      BY <2>1 DEF StartUse, Load
    <3> QED
      BY <3>1, <3>2, <3>3, <2>a
  <2>2. ASSUME NEW f \in Jars, UseJar(p, f)
        PROVE  CachesTypeOK'
    BY <2>2, <2>f DEF UseJar, Touch
  <2>3. ASSUME NEW d \in Games \cup Loaders, FillDir(p, d)
        PROVE  CachesTypeOK'
    BY <2>3, <2>f DEF FillDir
  <2>4. CASE Persist(p)
    BY <2>4 DEF Persist
  <2>5. CASE EndUse(p)
    BY <2>5, <2>v, StepNames DEF EndUse, Enter
  <2>6. CASE StartClean(p)
    <3>1. UNCHANGED <<clock, files, mtime, manifest, sum, list>>
          /\ job' \in [Procs -> Steps] /\ dirty' \in [Procs -> BOOLEAN]
      BY <2>6, StepNames DEF StartClean, Load, Enter
    <3>2. mem' \in [Procs -> [Jars -> Nat]]
      BY <2>6, <2>v DEF StartClean, Load
    <3>3. \E known \in BOOLEAN : Alone(p, known)
      BY <2>6 DEF StartClean, Load
    <3> QED
      BY <3>1, <3>2, <3>3, <2>a
  <2>7. CASE ReadJarSize(p)
    BY <2>7, <2>n, StepNames DEF ReadJarSize, GiveUp, Enter, SumIs, CleanRests
  <2>8. CASE ReadDirSize(p)
    BY <2>8, <2>n, UnlessType DEF ReadDirSize
  <2>9. CASE ReadSize(p)
    BY <2>9, <2>n, StepNames DEF ReadSize, GiveUp, Enter, SumIs, CleanRests
  <2>10. CASE ListJars(p)
    <3>1. job' \in [Procs -> Steps] /\ list' \in [Procs -> SUBSET Files]
      BY <2>10, <2>f, StepNames DEF ListJars, GiveUp, Enter
    <3>2. sum' \in [Procs -> Sums]
      BY <2>10, <2>n DEF ListJars, GiveUp, SumIs
    <3>3. mem' \in [Procs -> [Jars -> Nat]] /\ dirty' \in [Procs -> BOOLEAN]
      BY <2>10 DEF ListJars
    <3> QED
      BY <2>10, <3>1, <3>2, <3>3 DEF ListJars
  <2>11. CASE EvictJar(p)
    <3>1. PICK f \in list[p] :
            /\ list' = [list EXCEPT ![p] = @ \ {f}]
            /\ \/ /\ files' = files \ {f}
                  /\ mem' = [mem EXCEPT ![p][f] = 0]
                  /\ dirty' = [dirty EXCEPT ![p] = @ \/ mem[p][f] # 0]
                  /\ sum' = [sum EXCEPT ![p] =
                       [sum[p] EXCEPT !.left = Minus(@, SizeOf[f]), !.gone = @ + SizeOf[f]]]
                  /\ UNCHANGED stuck
               \/ Stuck(p, {f}) /\ UNCHANGED <<files, memory, sum>>
      BY <2>11 DEF EvictJar, Oldest, SumIs
    <3>2. UNCHANGED <<clock, mtime, manifest, job, used, exact, quiet>>
      BY <2>11 DEF EvictJar, Stuck
    <3>2a. stuck' \in [Procs -> SUBSET Files]
      BY <3>1 DEF Stuck
    <3>3. sum' \in [Procs -> Sums]
      <4>1. f \in Files
        OBVIOUS
      <4>2. [sum[p] EXCEPT !.left = Minus(@, SizeOf[f]), !.gone = @ + SizeOf[f]] \in Sums
        BY <4>1, <2>n
      <4> HIDE DEF memory
      <4> QED
        BY <3>1, <4>2 DEF memory
    <3>4. mem' \in [Procs -> [Jars -> Nat]]
      <4>1. [mem[p] EXCEPT ![f] = 0] \in [Jars -> Nat]
        OBVIOUS
      <4> QED
        BY <3>1, <4>1
    <3>5. dirty' \in [Procs -> BOOLEAN]
      <4>1. (dirty[p] \/ mem[p][f] # 0) \in BOOLEAN
        OBVIOUS
      <4> QED
        BY <3>1, <4>1
    <3>6. list' \in [Procs -> SUBSET Files] /\ files' \in SUBSET Files
      BY <3>1
    <3> QED
      BY <3>2, <3>2a, <3>3, <3>4, <3>5, <3>6
  <2>12. CASE EndEvict(p)
    BY <2>12, StepNames DEF EndEvict, Enter, CleanRests
  <2>13. CASE EndCleanup(p)
    BY <2>13, <2>n, UnlessType DEF EndCleanup
  <2>14. CASE ListDirs(p)
    <3>1. job' \in [Procs -> Steps] /\ list' \in [Procs -> SUBSET Files]
      BY <2>14, <2>f, StepNames DEF ListDirs, GiveUp, Enter
    <3>2. sum' \in [Procs -> Sums]
      BY <2>14, <2>n DEF ListDirs, GiveUp, SumIs
    <3> QED
      BY <2>14, <3>1, <3>2 DEF ListDirs, CleanRests
  <2>15. CASE EvictDir(p)
    <3>1. PICK dir \in SUBSET list[p] :
            /\ list' = [list EXCEPT ![p] = @ \ dir]
            /\ \/ sum' = [sum EXCEPT ![p] = [sum[p] EXCEPT !.left = Minus(@, TotalSize(dir))]]
                 /\ UNCHANGED history
               \/ Stuck(p, dir) /\ UNCHANGED sum
      BY <2>15, ListedDir DEF SumIs
    <3>2. dir \in SUBSET Files /\ [sum[p] EXCEPT !.left = Minus(@, TotalSize(dir))] \in Sums
      BY <2>n
    <3>3. sum' \in [Procs -> Sums] /\ list' \in [Procs -> SUBSET Files]
      BY <3>1, <3>2
    <3>4. stuck' \in [Procs -> SUBSET Files] /\ UNCHANGED <<used, exact, quiet>>
      BY <3>1 DEF Stuck
    <3>5. files' \in SUBSET Files /\ mtime' \in [Games \cup Loaders -> Nat]
      <4>1. files' \subseteq files
        BY <2>15 DEF EvictDir
      <4>2. mtime' = [f \in Games \cup Loaders |-> IF f \in files' THEN mtime[f] ELSE 0]
        BY <2>15 DEF EvictDir
      <4> QED
        BY <4>1, <4>2
    <3> QED
      BY <2>15, <3>3, <3>4, <3>5 DEF EvictDir
  <2>16. CASE EndDirs(p)
    <3>1. CASE Cleaned(p)
      BY <2>16, <3>1, CleanedType DEF EndDirs
    <3>2. CASE Enter(p, "loaders") /\ UNCHANGED <<sum, mem>> /\ list' = [list EXCEPT ![p] = {}]
      BY <2>16, <3>2, StepNames DEF EndDirs, Enter, CleanRests
    <3> QED
      BY <2>16, <3>1, <3>2 DEF EndDirs
  <2>17. CASE Obliterate(p)
    <3>1. files' \in SUBSET Files /\ manifest' \in [Jars -> Nat]
          /\ mtime' \in [Games \cup Loaders -> Nat]
      BY <2>17, <2>v DEF Obliterate
    <3> QED
      BY <2>17, <3>1, <2>v, StepNames DEF Obliterate, Alone, Know, Enter
  <2>18. CASE Die(p)
    BY <2>18, <2>n, <2>v, StepNames DEF Die, Enter, Know
  <2> QED
    BY <1>3, <2>1, <2>2, <2>3, <2>4, <2>5, <2>6, <2>7, <2>8, <2>9, <2>10, <2>11, <2>12, <2>13,
       <2>14, <2>15, <2>16, <2>17, <2>18 DEF Does
<1> QED
  BY <1>1, <1>2, <1>3, NextSteps

(***************************************************************************)
(* Who else runs                                                           *)
(***************************************************************************)

\* A process leaves alone what belongs to another.
LEMMA OthersRest ==
  ASSUME CachesTypeOK, NEW p \in Procs, Does(p), NEW q \in Procs, q # p
  PROVE  /\ job'[q] = job[q] /\ dirty'[q] = dirty[q] /\ list'[q] = list[q]
         /\ sum'[q] = sum[q] /\ mem'[q] = mem[q]
<1> USE DEF CachesTypeOK, Enter, SumIs, CleanRests, cacheFiles, memory, history
<1>1. CASE StartUse(p) \/ StartClean(p)
  BY <1>1 DEF StartUse, StartClean, Load
<1>2. ASSUME NEW f \in Jars, UseJar(p, f)
      PROVE  job'[q] = job[q] /\ dirty'[q] = dirty[q] /\ list'[q] = list[q]
               /\ sum'[q] = sum[q] /\ mem'[q] = mem[q]
  BY <1>2 DEF UseJar, Touch
<1>3. ASSUME NEW d \in Games \cup Loaders, FillDir(p, d)
      PROVE  job'[q] = job[q] /\ dirty'[q] = dirty[q] /\ list'[q] = list[q]
               /\ sum'[q] = sum[q] /\ mem'[q] = mem[q]
  BY <1>3 DEF FillDir
<1>4. CASE Persist(p) \/ EndUse(p)
  BY <1>4 DEF Persist, EndUse
<1>5. CASE ReadJarSize(p) \/ ReadSize(p)
  BY <1>5 DEF ReadJarSize, ReadSize, GiveUp
<1>6. CASE ReadDirSize(p) \/ EndCleanup(p)
  BY <1>6 DEF ReadDirSize, EndCleanup, Unless, Cleaned
<1>7. CASE ListJars(p)
  BY <1>7 DEF ListJars, GiveUp
<1>8. CASE EvictJar(p)
  BY <1>8 DEF EvictJar
<1>9. CASE EndEvict(p) \/ ListDirs(p)
  BY <1>9 DEF EndEvict, ListDirs, GiveUp
<1>10. CASE EvictDir(p)
  BY <1>10 DEF EvictDir
<1>11. CASE EndDirs(p)
  BY <1>11 DEF EndDirs, Cleaned
<1>12. CASE Obliterate(p) \/ Die(p)
  BY <1>12 DEF Obliterate, Die
<1> QED
  BY <1>1, <1>2, <1>3, <1>4, <1>5, <1>6, <1>7, <1>8, <1>9, <1>10, <1>11, <1>12 DEF Does

\* A process that runs nothing can only begin a command.
Begins(p) == StartUse(p) \/ StartClean(p) \/ Obliterate(p)

LEMMA IdleBegins ==
  ASSUME CachesTypeOK, NEW p \in Procs, JobInv(p), Does(p), Idle(p)
  PROVE  Begins(p)
BY DEF Does, Begins, JobInv, Idle, Removing, UseJar, FillDir, Persist, EndUse, ReadJarSize,
       ReadDirSize, ReadSize, ListJars, EvictJar, EndEvict, EndCleanup, ListDirs, EvictDir,
       EndDirs, Die

\* What beginning a command does to the history.
LEMMA BeginsAlone ==
  ASSUME NEW p \in Procs, Begins(p)
  PROVE  /\ Idle(p)
         /\ exact' => exact /\ used' = used /\ \A q \in Procs \ {p} : Idle(q)
         /\ quiet' = [q \in Procs |-> q = p /\ \A r \in Procs \ {p} : Idle(r)]
BY DEF Begins, StartUse, StartClean, Obliterate, Load, Alone, Know

\* Any other step than beginning a command or dying keeps the history; a use
\* is recorded in it.
LEMMA HistoryRests ==
  ASSUME NEW p \in Procs, Does(p), ~Begins(p), ~Die(p)
  PROVE  /\ exact' = exact
         /\ quiet' = quiet \/ (EndUse(p) /\ quiet' = [quiet EXCEPT ![p] = FALSE])
<1>1. EvictJar(p) => UNCHANGED history \/ \E f : Stuck(p, {f})
  BY DEF EvictJar
<1>2. EvictDir(p) => UNCHANGED history \/ \E dir : Stuck(p, dir)
  BY ListedDir
<1>3. EvictJar(p) \/ EvictDir(p) => UNCHANGED <<exact, quiet>>
  BY <1>1, <1>2 DEF history, Stuck
<1>4. ASSUME NEW f, UseJar(p, f) \/ FillDir(p, f)
      PROVE  UNCHANGED <<exact, quiet>>
  BY <1>4 DEF UseJar, FillDir, history
<1>5. Persist(p) \/ ListJars(p) \/ CleanRests => UNCHANGED <<exact, quiet>>
  BY DEF Persist, ListJars, CleanRests, history
<1>6. EndUse(p) => exact' = exact /\ quiet' = [quiet EXCEPT ![p] = FALSE]
  BY DEF EndUse
<1>8. ReadJarSize(p) \/ ReadDirSize(p) \/ ReadSize(p) \/ EndEvict(p) \/ EndCleanup(p)
        \/ ListDirs(p) \/ EndDirs(p) => CleanRests
  BY DEF ReadJarSize, ReadDirSize, ReadSize, EndEvict, EndCleanup, ListDirs, EndDirs
<1>9. EndUse(p) \/ UNCHANGED <<exact, quiet>>
  BY <1>3, <1>4, <1>5, <1>8 DEF Does, Begins
<1>10. UNCHANGED <<exact, quiet>> => exact' = exact /\ quiet' = quiet
  OBVIOUS
<1> QED
  BY <1>6, <1>9, <1>10, Zenon

\* After a step the history still knows of it, nobody else runs.
LEMMA ExactAlone ==
  ASSUME CachesInv, NEW p \in Procs, Does(p), exact'
  PROVE  exact /\ \A q \in Procs \ {p} : Idle(q)
<1>1. ~Die(p)
  BY DEF Die, Know
<1>2. CASE Begins(p)
  BY <1>2, BeginsAlone
<1>3. CASE ~Begins(p)
  <2>1. exact
    BY <1>1, <1>3, HistoryRests
  <2>2. ~Idle(p)
    BY <1>3, IdleBegins DEF CachesInv
  <2> QED
    BY <2>1, <2>2 DEF CachesInv, OrderInv
<1> QED
  BY <1>2, <1>3

\* After a step in which a process is quiet, nobody else runs, and the step was
\* its own.
LEMMA QuietAlone ==
  ASSUME CachesInv, NEW p \in Procs, Does(p), NEW q \in Procs, quiet'[q]
  PROVE  /\ q = p
         /\ \A r \in Procs \ {p} : Idle(r)
         /\ Begins(p) \/ quiet[p]
<1>1. CASE Begins(p)
  BY <1>1, BeginsAlone
<1>2. CASE ~Begins(p)
  <2>1. quiet[q]
    <3>1. CASE Die(p)
      BY <3>1 DEF Die, CachesInv, CachesTypeOK
    <3>2. CASE ~Die(p)
      BY <1>2, <3>2, HistoryRests DEF CachesInv, CachesTypeOK
    <3> QED
      BY <3>1, <3>2
  <2>2. ~Idle(p)
    BY <1>2, IdleBegins DEF CachesInv
  <2> QED
    BY <2>1, <2>2 DEF CachesInv, QuietInv
<1> QED
  BY <1>1, <1>2

(***************************************************************************)
(* What a process has to write and to remove                               *)
(***************************************************************************)

LEMMA JobStep ==
  ASSUME CachesTypeOK, NEW p \in Procs, JobInv(p), Does(p)
  PROVE  JobInv(p)'
<1> USE DEF CachesTypeOK, JobInv, Enter, SumIs, CleanRests, cacheFiles, memory, history
<1>1. CASE StartUse(p) \/ StartClean(p)
  BY <1>1 DEF StartUse, StartClean, Load
<1>2. ASSUME NEW f \in Jars, UseJar(p, f)
      PROVE  JobInv(p)'
  BY <1>2 DEF UseJar, Touch
<1>3. ASSUME NEW d \in Games \cup Loaders, FillDir(p, d)
      PROVE  JobInv(p)'
  BY <1>3 DEF FillDir
<1>4. CASE Persist(p) \/ EndUse(p)
  BY <1>4 DEF Persist, EndUse
<1>5. CASE ReadJarSize(p) \/ ReadSize(p)
  BY <1>5 DEF ReadJarSize, ReadSize, GiveUp
<1>6. CASE ReadDirSize(p) \/ EndCleanup(p)
  BY <1>6 DEF ReadDirSize, EndCleanup, Unless, Cleaned
<1>7. CASE ListJars(p)
  BY <1>7 DEF ListJars, GiveUp
<1>8. CASE EvictJar(p)
  <2>1. job' = job /\ job[p] = "evict" /\ list'[p] \subseteq list[p]
    BY <1>8 DEF EvictJar
  <2> QED
    BY <2>1
<1>9a. CASE EndEvict(p)
  BY <1>9a DEF EndEvict
<1>9b. CASE ListDirs(p)
  <2>1. dirty' = dirty
    BY <1>9b DEF ListDirs
  <2>2. \/ job'[p] = "evict games" /\ list'[p] = files \cap Games
        \/ job'[p] = "evict loaders" /\ list'[p] = files \cap Loaders
        \/ job'[p] = "failed"
    BY <1>9b DEF ListDirs, GiveUp
  <2>3. ~dirty[p]
    BY <1>9b DEF ListDirs
  <2> QED
    BY <2>1, <2>2, <2>3
<1>10. CASE EvictDir(p)
  <2>1. job' = job /\ dirty' = dirty
    BY <1>10 DEF EvictDir
  <2>2. \E dir \in SUBSET list[p] : list' = [list EXCEPT ![p] = @ \ dir]
    BY <1>10, ListedDir
  <2>3. list'[p] \subseteq list[p]
    BY <2>2
  <2> QED
    BY <2>1, <2>3
<1>11. CASE EndDirs(p)
  BY <1>11 DEF EndDirs, Cleaned, Removing
<1>12. CASE Obliterate(p) \/ Die(p)
  BY <1>12 DEF Obliterate, Die, Idle
<1> QED
  BY <1>1, <1>2, <1>3, <1>4, <1>5, <1>6, <1>7, <1>8, <1>9a, <1>9b, <1>10, <1>11, <1>12 DEF Does

(***************************************************************************)
(* The order of the uses                                                   *)
(***************************************************************************)

\* What a process that runs alone knows of the order, for itself.
Ordered(p) ==
  /\ Idle(p) => \A f \in InCache : manifest[f] = used[f]
  /\ ~Idle(p) =>
       /\ \A f \in InCache : mem[p][f] = used[f]
       /\ ~dirty[p] => \A f \in InCache : manifest[f] = used[f]

LEMMA OrderedStep ==
  ASSUME CachesInv, NEW p \in Procs, Ordered(p), Does(p), exact'
  PROVE  Ordered(p)'
<1> USE DEF Ordered, Idle, InCache, CachesTypeOK, Enter, SumIs, CleanRests, cacheFiles, memory, history
<1>t. CachesTypeOK /\ JobInv(p)
  BY DEF CachesInv
<1>e. exact
  BY ExactAlone
<1>1. CASE StartUse(p) \/ StartClean(p)
  <2>1. Begins(p) /\ Idle(p)
    BY <1>1, BeginsAlone DEF Begins
  <2>2. mem'[p] = manifest /\ UNCHANGED <<files, manifest, used>> /\ ~Idle(p)'
    BY <1>t, <1>1, <2>1, BeginsAlone DEF StartUse, StartClean, Load, Alone, Know
  <2> QED
    BY <2>1, <2>2
<1>2. ASSUME NEW f \in Jars, UseJar(p, f)
      PROVE  Ordered(p)'
  <2>1. /\ job' = job /\ job[p] = "use" /\ files' = files \cup {f} /\ dirty'[p]
        /\ used' = [used EXCEPT ![f] = clock]
        /\ mem'[p] = [mem[p] EXCEPT ![f] = clock]
    BY <1>e, <1>t, <1>2 DEF UseJar, Touch
  <2>2. mem[p] \in [Jars -> Nat] /\ used \in [Jars -> Nat]
    BY <1>t
  <2>3. \A g \in files' \cap Jars : mem'[p][g] = used'[g]
    BY <2>1, <2>2
  <2> QED
    BY <2>1, <2>3
<1>3. ASSUME NEW d \in Games \cup Loaders, FillDir(p, d)
      PROVE  Ordered(p)'
  <2>1. d \notin Jars
    BY CachesAssumption
  <2> QED
    BY <1>t, <1>3, <2>1 DEF FillDir
<1>4. CASE Persist(p) \/ EndUse(p)
  BY <1>t, <1>4 DEF Persist, EndUse, JobInv
<1>5. CASE ReadJarSize(p) \/ ReadSize(p)
  BY <1>t, <1>5 DEF ReadJarSize, ReadSize, GiveUp
<1>6. CASE ReadDirSize(p) \/ EndCleanup(p)
  <2>1. ~dirty[p] /\ ~Idle(p)
    BY <1>t, <1>6 DEF ReadDirSize, EndCleanup, JobInv
  <2>2. UNCHANGED <<files, manifest, dirty, used>>
    BY <1>6 DEF ReadDirSize, EndCleanup
  <2>3. job'[p] # "evict" /\ (job'[p] # "cleaned" => mem' = mem)
    BY <1>t, <1>6 DEF ReadDirSize, EndCleanup, Unless, Cleaned
  <2> QED
    BY <2>1, <2>2, <2>3
<1>7. CASE ListJars(p)
  <2>1. /\ UNCHANGED <<files, manifest, used>> /\ ~Idle(p)'
        /\ \A f \in files \cap Jars : mem'[p][f] = mem[p][f]
        /\ ~dirty'[p] => mem'[p] = mem[p] /\ ~dirty[p]
    BY <1>t, <1>7 DEF ListJars, GiveUp
  <2>2. job[p] = "list"
    BY <1>7 DEF ListJars
  <2> QED
    BY <2>1, <2>2
<1>8. CASE EvictJar(p)
  <2>1. PICK f \in list[p] :
          \/ /\ files' = files \ {f} /\ mem'[p] = [mem[p] EXCEPT ![f] = 0]
             /\ ~dirty'[p] => ~dirty[p]
          \/ UNCHANGED <<files, memory>>
    BY <1>t, <1>8 DEF EvictJar, Oldest
  <2>2. UNCHANGED <<job, manifest, used>> /\ job[p] = "evict"
    BY <1>8 DEF EvictJar, Stuck
  <2>3. files' \subseteq files /\ \A g \in files' \cap Jars : mem'[p][g] = mem[p][g]
    BY <1>t, <2>1
  <2>4. ~dirty'[p] => ~dirty[p]
    BY <2>1
  <2> QED
    BY <2>2, <2>3, <2>4
<1>9. CASE EndEvict(p) \/ ListDirs(p)
  BY <1>t, <1>9 DEF EndEvict, ListDirs, GiveUp
<1>10. CASE EvictDir(p)
  <2>1. UNCHANGED <<job, manifest, used, mem, dirty>> /\ Removing(p) /\ files' \subseteq files
    BY <1>10 DEF EvictDir, Stuck
  <2> QED
    BY <2>1 DEF Removing
<1>11. CASE EndDirs(p)
  <2>1. ~dirty[p] /\ ~Idle(p)
    BY <1>t, <1>11 DEF EndDirs, JobInv, Removing
  <2>2. UNCHANGED <<files, manifest, dirty, used>>
    BY <1>11 DEF EndDirs
  <2>3. job'[p] # "evict" /\ (job'[p] # "cleaned" => mem' = mem)
    BY <1>t, <1>11 DEF EndDirs, Cleaned
  <2> QED
    BY <2>1, <2>2, <2>3
<1>12. CASE Obliterate(p)
  <2>1. Begins(p)
    BY <1>12 DEF Begins
  <2>2. /\ files' \subseteq files /\ used' = used /\ Idle(p) /\ Idle(p)'
        /\ files' = {} \/ manifest' = manifest
    BY <1>t, <1>12, <2>1, BeginsAlone DEF Obliterate, Alone, Know
  <2> QED
    BY <2>2
<1>13. CASE Die(p)
  BY <1>13 DEF Die, Know
<1> QED
  BY <1>1, <1>2, <1>3, <1>4, <1>5, <1>6, <1>7, <1>8, <1>9, <1>10, <1>11, <1>12, <1>13 DEF Does

LEMMA OrderStep ==
  ASSUME CachesInv, NEW p \in Procs, Does(p)
  PROVE  OrderInv'
<1> SUFFICES ASSUME exact' PROVE OrderInv'
  BY DEF OrderInv
<1>1. exact /\ \A q \in Procs \ {p} : Idle(q)
  BY ExactAlone
<1>2. Ordered(p)
  BY <1>1 DEF Ordered, CachesInv, OrderInv
<1>3. Ordered(p)'
  BY <1>2, OrderedStep
<1>4. \A q \in Procs \ {p} : Idle(q)'
  BY <1>1, OthersRest DEF Idle, CachesInv
<1>5. quiet'[p] \/ Idle(p)'
  <2>1. CASE Begins(p)
    BY <1>1, <2>1, BeginsAlone
  <2>2. CASE ~Begins(p)
    <3>1. ~Die(p)
      BY DEF Die, Know
    <3>2. quiet[p]
      BY <1>1, <2>2, IdleBegins DEF CachesInv, OrderInv
    <3>3. EndUse(p) => Idle(p)'
      BY DEF EndUse, Enter, Idle, CachesInv, CachesTypeOK
    <3> QED
      BY <2>2, <3>1, <3>2, <3>3, HistoryRests
  <2> QED
    BY <2>1, <2>2
<1> QED
  BY <1>3, <1>4, <1>5 DEF OrderInv, Ordered

(***************************************************************************)
(* What a clean has measured                                               *)
(***************************************************************************)

\* The cache is its JARs and its directories.
LEMMA Parts ==
  ASSUME CachesTypeOK
  PROVE  /\ InCache \in SUBSET Files /\ InDirs \in SUBSET Files
         /\ TotalSize(files) = TotalSize(InCache) + TotalSize(InDirs)
         /\ TotalSize(files) \in Nat /\ TotalSize(files) < Width
         /\ TotalSize(InCache) \in Nat /\ TotalSize(InDirs) \in Nat
<1>1. InCache \in SUBSET Files /\ InDirs \in SUBSET Files /\ files \in SUBSET Files
  BY DEF CachesTypeOK, InCache, InDirs
<1>2. InCache \cap InDirs = {} /\ files = InCache \cup InDirs
  BY DEF InCache, InDirs
<1>3. TotalSize(InCache \cup InDirs) = TotalSize(InCache) + TotalSize(InDirs)
  BY <1>1, <1>2, SizeSplit
<1> QED
  BY <1>1, <1>2, <1>3, SizeIsNat

LEMMA MinusIs ==
  ASSUME NEW a \in Int, NEW b \in Int, NEW c \in Nat, c < Width, a = b + c
  PROVE  Minus(a, b) = c
<1>1. a - b = c
  OBVIOUS
<1> QED
  BY <1>1, MinusFits

\* The whole cache after the JARs' cleanup is what there is.
LEMMA AfterJarsIsAll ==
  ASSUME CachesTypeOK, NEW p \in Procs,
         sum[p].other = TotalSize(InDirs), sum[p].jars = TotalSize(InCache) + sum[p].gone
  PROVE  AfterJars(p) = TotalSize(files)
<1>1. sum[p].jars \in Nat /\ sum[p].other \in Nat /\ sum[p].gone \in Nat
  BY DEF CachesTypeOK, Sums
<1>2. sum[p].jars + sum[p].other \in Int /\ sum[p].gone \in Int
  BY <1>1
<1>3. sum[p].jars + sum[p].other = sum[p].gone + TotalSize(files)
  BY <1>1, Parts
<1>4. TotalSize(files) \in Nat /\ TotalSize(files) < Width
  BY Parts
<1>5. Minus(sum[p].jars + sum[p].other, sum[p].gone) = TotalSize(files)
  BY <1>2, <1>3, <1>4, MinusIs
<1> QED
  BY <1>5 DEF AfterJars

\* What is left without a file is what was left less its size.
LEMMA LessFile ==
  ASSUME NEW s \in SUBSET Files, NEW f \in s
  PROVE  /\ Minus(TotalSize(s), SizeOf[f]) = TotalSize(s \ {f})
         /\ TotalSize(s) = TotalSize(s \ {f}) + SizeOf[f]
<1>1. TotalSize(s) = TotalSize(s \ {f}) + SizeOf[f]
  BY SizeMinus
<1>2. TotalSize(s) \in Nat /\ TotalSize(s \ {f}) \in Nat /\ TotalSize(s \ {f}) < Width
  BY SizeIsNat
<1>3. SizeOf[f] \in Nat
  BY CachesAssumption
<1>4. TotalSize(s) = SizeOf[f] + TotalSize(s \ {f})
  BY <1>1, <1>2, <1>3
<1>5. TotalSize(s) \in Int /\ SizeOf[f] \in Int
  BY <1>2, <1>3
<1> QED
  BY <1>1, <1>2, <1>4, <1>5, MinusIs

\* The list of a kind of directory, when nothing of that kind was tried.
LEMMA ListsUntried ==
  ASSUME CachesTypeOK, NEW p \in Procs, NEW kind \in {Games, Loaders},
         UNCHANGED <<files, stuck>>, list'[p] = files \cap kind,
         kind = Games => stuck[p] \subseteq Jars, stuck[p] \subseteq Jars \cup Games
  PROVE  Untried(p, kind)'
<1>1. \A f \in list'[p] : f \notin stuck[p]
  BY CachesAssumption
<1>2. \A f \in list'[p], g \in stuck[p] \ Jars : DirOf[f] # DirOf[g]
  BY CachesAssumption
<1> QED
  BY <1>1, <1>2 DEF Untried

\* What removing a directory leaves, and what not being able to.
LEMMA DirStep ==
  ASSUME CachesTypeOK, NEW p \in Procs, NEW kind \in {Games, Loaders}, EvictDir(p), quiet[p],
         Untried(p, kind), sum[p].left = TotalSize(files \cup stuck[p])
  PROVE  /\ Untried(p, kind)'
         /\ sum'[p].left = TotalSize(files' \cup stuck'[p])
         /\ InCache' = InCache /\ files' \subseteq files
         /\ stuck[p] \subseteq stuck'[p] /\ stuck'[p] \subseteq stuck[p] \cup kind
<1> DEFINE there(dir) == {g \in files : g \notin Jars /\ \E h \in dir : DirOf[g] = DirOf[h]}
<1>1. PICK f \in list[p], dir \in SUBSET list[p] :
        /\ dir = Beside(f, list[p])
        /\ list' = [list EXCEPT ![p] = @ \ dir]
        /\ \/ /\ files' = files \ there(dir)
              /\ SumIs(p, [sum[p] EXCEPT !.left = Minus(@, TotalSize(dir))])
              /\ UNCHANGED history
           \/ /\ \E gone \in SUBSET there(dir) : files' = files \ gone
              /\ Stuck(p, dir) /\ UNCHANGED sum
  BY ListedDir
<1>2. /\ list[p] = (files \cap kind) \ stuck[p] /\ dir \subseteq files \cap kind
      /\ dir \cap stuck[p] = {} /\ list'[p] = list[p] \ dir
      /\ \A h \in list[p], g \in stuck[p] \ Jars : DirOf[h] # DirOf[g]
  BY <1>1 DEF Untried, CachesTypeOK
<1>3. there(dir) = dir
  <2>1. dir \subseteq there(dir)
    BY <1>2, CachesAssumption
  <2>2. ASSUME NEW g \in there(dir)
        PROVE  g \in dir
    <3>1. PICK h \in dir : DirOf[g] = DirOf[h]
      OBVIOUS
    <3>2. DirOf[h] = DirOf[f]
      BY <1>1 DEF Beside
    <3>3. g \in files /\ g \notin Jars
      OBVIOUS
    <3>4. g \in kind
      BY <1>2, <3>1, <3>3, CachesAssumption DEF CachesTypeOK, Files
    <3>5. g \notin stuck[p]
      BY <1>2, <3>1, <3>3
    <3>6. g \in list[p]
      BY <1>2, <3>3, <3>4, <3>5
    <3> QED
      BY <1>1, <3>1, <3>2, <3>6 DEF Beside
  <2> QED
    BY <2>1, <2>2
<1> HIDE DEF there
<1>4. \A h \in list'[p], g \in dir : DirOf[h] # DirOf[g]
  BY <1>1, <1>2 DEF Beside
<1>5. \A h \in files \cap Jars : h \notin dir
  BY <1>2, CachesAssumption
<1>6. CASE /\ files' = files \ there(dir)
           /\ SumIs(p, [sum[p] EXCEPT !.left = Minus(@, TotalSize(dir))])
           /\ UNCHANGED history
  <2>1. files' = files \ dir /\ stuck' = stuck
    BY <1>3, <1>6 DEF history
  <2>2. files' \cup stuck'[p] = (files \cup stuck[p]) \ dir /\ dir \subseteq files \cup stuck[p]
        /\ files \cup stuck[p] \in SUBSET Files
    BY <1>2, <2>1 DEF CachesTypeOK
  <2>3. TotalSize(files \cup stuck[p]) = TotalSize(files' \cup stuck'[p]) + TotalSize(dir)
    BY <2>2, SizeWithout
  <2>4. /\ TotalSize(files \cup stuck[p]) \in Nat /\ TotalSize(dir) \in Nat
        /\ TotalSize(files' \cup stuck'[p]) \in Nat /\ TotalSize(files' \cup stuck'[p]) < Width
    BY <2>2, SizeIsNat
  <2>5. Minus(TotalSize(files \cup stuck[p]), TotalSize(dir)) = TotalSize(files' \cup stuck'[p])
    BY <2>3, <2>4, MinusIs
  <2>6. sum'[p].left = Minus(sum[p].left, TotalSize(dir))
    <3>1. sum[p] \in Sums /\ sum'[p] = [sum[p] EXCEPT !.left = Minus(sum[p].left, TotalSize(dir))]
      BY <1>6 DEF SumIs, CachesTypeOK
    <3> QED
      BY <3>1 DEF Sums
  <2>7. Untried(p, kind)'
    BY <1>2, <2>1 DEF Untried
  <2>8. InCache' = InCache
    BY <1>5, <2>1 DEF InCache
  <2> QED
    BY <2>1, <2>5, <2>6, <2>7, <2>8
<1>7. CASE /\ \E gone \in SUBSET there(dir) : files' = files \ gone
           /\ Stuck(p, dir) /\ UNCHANGED sum
  <2>1. PICK gone \in SUBSET dir : files' = files \ gone
    BY <1>3, <1>7
  <2>2. stuck'[p] = stuck[p] \cup dir /\ sum' = sum
    BY <1>7 DEF Stuck, CachesTypeOK
  <2>3. files' \cup stuck'[p] = files \cup stuck[p]
    BY <1>2, <2>1, <2>2
  <2>4. Untried(p, kind)'
    BY <1>2, <1>4, <2>1, <2>2 DEF Untried
  <2>5. InCache' = InCache
    BY <1>5, <2>1 DEF InCache
  <2> QED
    BY <1>2, <2>1, <2>2, <2>3, <2>4, <2>5
<1> QED
  BY <1>1, <1>6, <1>7

LEMMA MeasuredStep ==
  ASSUME CachesTypeOK, NEW p \in Procs, JobInv(p), Does(p), ~Begins(p), ~Die(p), quiet[p],
         Measured(p), CachesTypeOK'
  PROVE  Measured(p)'
<1> DEFINE J == TotalSize(InCache)
<1>n. J \in Nat /\ TotalSize(files) \in Nat /\ TotalSize(InDirs) \in Nat
  BY Parts
<1>m. Limit \in Nat
  BY CachesAssumption
<1>j. JarBudget(p) \in Nat
  <2>1. sum[p].other \in Nat
    BY DEF CachesTypeOK, Sums
  <2> QED
    BY <1>m, <2>1 DEF JarBudget
<1>g. GiveUp(p) => Measured(p)'
  BY DEF GiveUp, Enter, Measured, CachesTypeOK
<1>1. ASSUME NEW f \in Jars, UseJar(p, f)
      PROVE  Measured(p)'
  BY <1>1 DEF UseJar, Measured
<1>2. ASSUME NEW d \in Games \cup Loaders, FillDir(p, d)
      PROVE  Measured(p)'
  BY <1>2 DEF FillDir, Measured, history
<1>3. CASE Persist(p)
  BY <1>3 DEF Persist, Measured, Untried, InCache, InDirs, JarBudget, cacheFiles, history
<1>4. CASE EndUse(p)
  BY <1>4 DEF EndUse, Enter, Measured, CachesTypeOK
<1>5. CASE ReadJarSize(p) /\ ~GiveUp(p)
  <2>1. /\ job[p] = "jars" /\ job'[p] = "dirs" /\ UNCHANGED <<files, stuck>>
        /\ sum'[p] = [NoSum EXCEPT !.jars = J]
    BY <1>5 DEF ReadJarSize, Enter, SumIs, CleanRests, cacheFiles, history, CachesTypeOK, InCache
  <2>2. sum'[p].jars = J /\ sum'[p].gone = 0
    BY <2>1 DEF NoSum
  <2> QED
    BY <2>1, <2>2 DEF Measured, InCache
<1>6. CASE ReadDirSize(p)
  <2>1. /\ UNCHANGED <<files, stuck>> /\ job[p] = "dirs"
        /\ sum[p].jars = J /\ sum[p].gone = 0 /\ stuck[p] = {}
    BY <1>6 DEF ReadDirSize, CleanRests, cacheFiles, history, Measured
  <2>2. CASE sum[p].jars + TotalSize(InDirs) <= Limit
    <3>1. job'[p] = "cleaned"
      BY <1>6, <2>2 DEF ReadDirSize, Unless, Cleaned, Enter, CachesTypeOK, InDirs
    <3>2. TotalSize(files) <= Limit
      BY <2>1, <2>2, Parts
    <3> QED
      BY <2>1, <3>1, <3>2 DEF Measured
  <2>3. CASE ~(sum[p].jars + TotalSize(InDirs) <= Limit)
    <3>1. job'[p] = "size" /\ sum' = [sum EXCEPT ![p] = [sum[p] EXCEPT !.other = TotalSize(InDirs)]]
      BY <1>6, <2>3 DEF ReadDirSize, Unless, Enter, SumIs, CachesTypeOK, InDirs
    <3>2. sum[p] \in Sums
      BY DEF CachesTypeOK
    <3>3. /\ sum'[p].other = TotalSize(InDirs)
          /\ sum'[p].jars = sum[p].jars /\ sum'[p].gone = sum[p].gone
      BY <3>1, <3>2 DEF CachesTypeOK, Sums
    <3>4. sum'[p].jars = J + sum'[p].gone
      BY <2>1, <3>3, <1>n
    <3> QED
      BY <2>1, <3>1, <3>3, <3>4 DEF Measured, InCache, InDirs
  <2> QED
    BY <2>2, <2>3
<1>7. CASE ReadSize(p) /\ ~GiveUp(p)
  <2>1. /\ UNCHANGED <<files, stuck>> /\ job[p] = "size" /\ stuck[p] = {}
        /\ sum[p].other = TotalSize(InDirs) /\ sum[p].jars = J + sum[p].gone
    BY <1>7 DEF ReadSize, CleanRests, cacheFiles, history, Measured
  <2>2. CASE J > JarBudget(p)
    <3>1. job'[p] = "list" /\ sum' = [sum EXCEPT ![p] = [sum[p] EXCEPT !.left = J]]
      BY <1>7, <2>2 DEF ReadSize, Enter, SumIs, CachesTypeOK, InCache
    <3>2. sum[p] \in Sums
      BY DEF CachesTypeOK
    <3>3. /\ sum'[p].other = sum[p].other /\ sum'[p].left = J
          /\ sum'[p].jars = sum[p].jars /\ sum'[p].gone = sum[p].gone
      BY <3>1, <3>2 DEF CachesTypeOK, Sums
    <3> QED
      BY <2>1, <3>1, <3>3 DEF Measured, InCache, InDirs
  <2>3. CASE ~(J > JarBudget(p))
    <3>1. job'[p] = "flush" /\ sum' = sum
      BY <1>7, <2>3 DEF ReadSize, Enter, CachesTypeOK, InCache
    <3>2. J <= JarBudget(p)
      BY <2>3, <1>n, <1>j
    <3> QED
      BY <2>1, <3>1, <3>2 DEF Measured, InCache, InDirs, JarBudget
  <2> QED
    BY <2>2, <2>3
<1>8. CASE ListJars(p) /\ ~GiveUp(p)
  <2>1. /\ job[p] = "list" /\ job'[p] = "evict" /\ UNCHANGED <<files, sum, stuck>>
        /\ list'[p] = InCache
    BY <1>8 DEF ListJars, Enter, cacheFiles, history, CachesTypeOK, InCache
  <2>2. stuck[p] = {}
    BY <2>1 DEF Measured
  <2> QED
    BY <2>1, <2>2 DEF Measured, InCache, InDirs
<1>9. CASE EvictJar(p)
  <2>1. PICK f \in list[p] :
          /\ list'[p] = list[p] \ {f}
          /\ \/ /\ files' = files \ {f} /\ UNCHANGED stuck
                /\ sum' = [sum EXCEPT ![p] =
                     [sum[p] EXCEPT !.left = Minus(@, SizeOf[f]), !.gone = @ + SizeOf[f]]]
             \/ Stuck(p, {f}) /\ UNCHANGED <<files, sum>>
    BY <1>9 DEF EvictJar, Oldest, SumIs, CachesTypeOK, history
  <2>2. job[p] = "evict" /\ job' = job
    BY <1>9 DEF EvictJar
  <2>3. /\ list[p] = InCache \ stuck[p] /\ stuck[p] \subseteq InCache
        /\ sum[p].left = J /\ sum[p].other = TotalSize(InDirs)
        /\ sum[p].jars = J + sum[p].gone
    BY <2>2 DEF Measured
  <2>f. CASE Stuck(p, {f}) /\ UNCHANGED <<files, sum>>
    <3>1. stuck'[p] = stuck[p] \cup {f}
      BY <2>f DEF Stuck, CachesTypeOK
    <3>2. list'[p] = InCache' \ stuck'[p] /\ stuck'[p] \subseteq InCache'
      BY <2>1, <2>3, <2>f, <3>1 DEF InCache
    <3>3. InCache' = InCache /\ InDirs' = InDirs
      BY <2>f DEF InCache, InDirs
    <3> QED
      BY <2>2, <2>3, <2>f, <3>2, <3>3 DEF Measured
  <2> SUFFICES ASSUME files' = files \ {f}, UNCHANGED stuck,
                 sum' = [sum EXCEPT ![p] =
                   [sum[p] EXCEPT !.left = Minus(@, SizeOf[f]), !.gone = @ + SizeOf[f]]]
               PROVE  Measured(p)'
    BY <2>1, <2>f
  <2>4. f \in InCache /\ f \in files /\ f \in Jars
    BY <2>1, <2>3 DEF InCache
  <2>5. InCache' = InCache \ {f} /\ InDirs' = InDirs
    BY <2>1, <2>4 DEF InCache, InDirs
  <2>6. InCache \in SUBSET Files /\ SizeOf[f] \in Nat
    BY <2>4, Parts, CachesAssumption DEF Files
  <2>7. Minus(J, SizeOf[f]) = TotalSize(InCache \ {f}) /\ J = TotalSize(InCache \ {f}) + SizeOf[f]
    BY <2>4, <2>6, LessFile
  <2>8. sum[p] \in Sums
    BY DEF CachesTypeOK
  <2>9. /\ sum'[p].left = Minus(sum[p].left, SizeOf[f]) /\ sum'[p].gone = sum[p].gone + SizeOf[f]
        /\ sum'[p].jars = sum[p].jars /\ sum'[p].other = sum[p].other
    <3>2. sum'[p] = [sum[p] EXCEPT !.left = Minus(sum[p].left, SizeOf[f]),
                                   !.gone = sum[p].gone + SizeOf[f]]
      BY <2>1, <2>4, <2>8 DEF CachesTypeOK, Sums
    <3> QED
      BY <2>8, <3>2 DEF Sums
  <2>10. sum'[p].left = TotalSize(InCache')
    BY <2>3, <2>5, <2>7, <2>9
  <2>11. sum'[p].jars = TotalSize(InCache') + sum'[p].gone
    <3>1. sum[p].gone \in Nat /\ TotalSize(InCache \ {f}) \in Nat
      BY <2>6, <2>8, SizeIsNat DEF Sums
    <3> QED
      BY <3>1, <2>3, <2>5, <2>6, <2>7, <2>9
  <2>12. list'[p] = InCache' \ stuck'[p] /\ stuck'[p] \subseteq InCache'
    BY <2>1, <2>3, <2>5
  <2> QED
    BY <2>2, <2>3, <2>5, <2>9, <2>10, <2>11, <2>12 DEF Measured
<1>10. CASE EndEvict(p)
  <2>1. /\ job[p] = "evict" /\ job'[p] = "flush" /\ UNCHANGED <<files, sum, stuck>>
        /\ list[p] = {} \/ sum[p].left <= JarBudget(p)
    BY <1>10 DEF EndEvict, Enter, CleanRests, cacheFiles, history, CachesTypeOK
  <2>2. list[p] = InCache \ stuck[p] /\ sum[p].left = J
    BY <2>1 DEF Measured
  <2>4. J <= JarBudget(p) \/ InCache \subseteq stuck[p]
    BY <2>1, <2>2
  <2> QED
    BY <2>1, <2>4 DEF Measured, InCache, InDirs, JarBudget
<1>11. CASE EndCleanup(p)
  <2>1. /\ job[p] = "flush" /\ UNCHANGED <<files, stuck>>
        /\ sum[p].other = TotalSize(InDirs) /\ sum[p].jars = J + sum[p].gone
        /\ J <= JarBudget(p) \/ InCache \subseteq stuck[p]
        /\ stuck[p] \subseteq InCache
    BY <1>11 DEF EndCleanup, CleanRests, cacheFiles, history, Measured
  <2>2. AfterJars(p) = TotalSize(files)
    BY <2>1, AfterJarsIsAll
  <2>3. CASE TotalSize(files) <= Limit
    <3>1. job'[p] = "cleaned"
      BY <1>11, <2>2, <2>3 DEF EndCleanup, Unless, Cleaned, Enter, CachesTypeOK
    <3> QED
      BY <2>1, <2>3, <3>1 DEF Measured
  <2>4. CASE ~(TotalSize(files) <= Limit)
    <3>1. job'[p] = "games" /\ sum' = [sum EXCEPT ![p] = [NoSum EXCEPT !.left = TotalSize(files)]]
      BY <1>11, <2>2, <2>4 DEF EndCleanup, Unless, Enter, SumIs, CachesTypeOK
    <3>2. sum'[p].left = TotalSize(files)
      BY <3>1 DEF CachesTypeOK, NoSum
    <3>3. ASSUME J <= JarBudget(p)
          PROVE  J = 0
      <4>1. CASE Limit > sum[p].other
        <5>1. JarBudget(p) = Limit - sum[p].other
          BY <4>1 DEF JarBudget
        <5>2. TotalSize(files) = J + TotalSize(InDirs)
          BY Parts
        <5> QED
          BY <5>1, <5>2, <2>1, <2>4, <3>3, <1>n, <1>m
      <4>2. CASE ~(Limit > sum[p].other)
        <5>1. JarBudget(p) = 0
          BY <4>2 DEF JarBudget
        <5> QED
          BY <5>1, <3>3, <1>n
      <4> QED
        BY <4>1, <4>2
    <3>4. InCache \subseteq stuck[p]
      <4>1. J = 0 => InCache = {}
        BY SizeZero, Parts
      <4> QED
        BY <2>1, <3>3, <4>1
    <3>5. files \cup stuck[p] = files
      BY <2>1 DEF InCache
    <3> QED
      BY <2>1, <3>1, <3>2, <3>4, <3>5 DEF Measured, InCache
  <2> QED
    BY <2>3, <2>4
<1>12. CASE ListDirs(p) /\ ~GiveUp(p)
  <2>1. UNCHANGED <<files, sum, stuck>>
    BY <1>12 DEF ListDirs, CleanRests, cacheFiles, history
  <2>2. CASE job[p] = "games"
    <3>1. job'[p] = "evict games" /\ list'[p] = files \cap Games
      BY <1>12, <2>2 DEF ListDirs, Enter, CachesTypeOK
    <3>2. stuck[p] \subseteq Jars
      BY <2>2 DEF Measured, InCache
    <3>3. Untried(p, Games)'
      BY <2>1, <3>1, <3>2, ListsUntried
    <3> QED
      BY <2>1, <2>2, <3>1, <3>2, <3>3 DEF Measured, InCache
  <2>3. CASE job[p] = "loaders"
    <3>1. job'[p] = "evict loaders" /\ list'[p] = files \cap Loaders
      BY <1>12, <2>3 DEF ListDirs, Enter, CachesTypeOK
    <3>2. stuck[p] \subseteq Jars \cup Games
      BY <2>3 DEF Measured
    <3>3. Untried(p, Loaders)'
      <4>1. Loaders = Games => Games = {}
        BY CachesAssumption
      <4>2. Loaders = Games => stuck[p] \subseteq Jars
        BY <3>2, <4>1
      <4> QED
        BY <2>1, <3>1, <3>2, <4>2, ListsUntried
    <3> QED
      BY <2>1, <2>3, <3>1, <3>3 DEF Measured, InCache
  <2> QED
    BY <1>12, <2>2, <2>3 DEF ListDirs
<1>13. CASE EvictDir(p)
  <2>1. Removing(p) /\ job' = job
    BY <1>13 DEF EvictDir
  <2>2. InCache \subseteq stuck[p] /\ sum[p].left = TotalSize(files \cup stuck[p])
    BY <2>1 DEF Measured, Removing
  <2>3. CASE job[p] = "evict games"
    <3>1. Untried(p, Games) /\ stuck[p] \subseteq Jars \cup Games
      BY <2>3 DEF Measured
    <3>2. /\ Untried(p, Games)'
          /\ sum'[p].left = TotalSize(files' \cup stuck'[p])
          /\ InCache' = InCache /\ files' \subseteq files
          /\ stuck[p] \subseteq stuck'[p] /\ stuck'[p] \subseteq stuck[p] \cup Games
      BY <1>13, <2>2, <3>1, DirStep
    <3>3. InCache' \subseteq stuck'[p] /\ stuck'[p] \subseteq Jars \cup Games
      BY <2>2, <3>1, <3>2
    <3> QED
      BY <2>1, <2>3, <3>2, <3>3 DEF Measured
  <2>4. CASE job[p] = "evict loaders"
    <3>1. Untried(p, Loaders) /\ files \cap Games \subseteq stuck[p]
      BY <2>4 DEF Measured
    <3>2. /\ Untried(p, Loaders)'
          /\ sum'[p].left = TotalSize(files' \cup stuck'[p])
          /\ InCache' = InCache /\ files' \subseteq files
          /\ stuck[p] \subseteq stuck'[p] /\ stuck'[p] \subseteq stuck[p] \cup Loaders
      BY <1>13, <2>2, <3>1, DirStep
    <3>3. InCache' \subseteq stuck'[p] /\ files' \cap Games \subseteq stuck'[p]
      BY <2>2, <3>1, <3>2
    <3> QED
      BY <2>1, <2>4, <3>2, <3>3 DEF Measured
  <2> QED
    BY <2>1, <2>3, <2>4 DEF Removing
<1>14. CASE EndDirs(p)
  <2>1. /\ Removing(p) /\ UNCHANGED <<files, stuck>>
        /\ list[p] = {} \/ sum[p].left <= Limit
    BY <1>14 DEF EndDirs, CleanRests, cacheFiles, history
  <2>2. InCache \subseteq stuck[p] /\ sum[p].left = TotalSize(files \cup stuck[p])
    BY <2>1 DEF Measured, Removing
  <2>s. /\ TotalSize(files) <= TotalSize(files \cup stuck[p])
        /\ TotalSize(files \cup stuck[p]) \in Nat
    <3>1. files \cup stuck[p] \in SUBSET Files /\ files \in SUBSET (files \cup stuck[p])
      BY DEF CachesTypeOK
    <3> QED
      BY <3>1, SizeGrows, SizeIsNat
  <2>3. CASE job[p] = "evict games" /\ sum[p].left > Limit
    <3>1. job'[p] = "loaders" /\ sum' = sum
      BY <1>14, <2>3 DEF EndDirs, Enter, CachesTypeOK
    <3>2. files \cap Games \subseteq stuck[p] /\ stuck[p] \subseteq Jars \cup Games
      <4>1. list[p] = (files \cap Games) \ stuck[p] /\ stuck[p] \subseteq Jars \cup Games
        BY <2>3 DEF Measured, Untried
      <4>2. list[p] = {}
        <5>1. sum[p].left \in Nat /\ sum[p].left > Limit
          BY <2>2, <2>3, <2>s
        <5>2. ~(sum[p].left <= Limit)
          BY <5>1, <1>m
        <5> QED
          BY <2>1, <5>2
      <4> QED
        BY <4>1, <4>2
    <3> QED
      BY <2>1, <2>2, <3>1, <3>2 DEF Measured, InCache
  <2>4. CASE ~(job[p] = "evict games" /\ sum[p].left > Limit)
    <3>1. job'[p] = "cleaned"
      BY <1>14, <2>4 DEF EndDirs, Cleaned, Enter, CachesTypeOK
    <3>2. TotalSize(files) <= Limit \/ files \subseteq stuck[p]
      <4>0. CASE sum[p].left <= Limit
        BY <4>0, <2>2, <2>s, <1>n, <1>m
      <4>1. CASE job[p] = "evict games"
        <5>1. ~(TotalSize(files \cup stuck[p]) > Limit)
          BY <4>1, <2>2, <2>4
        <5> QED
          BY <5>1, <2>s, <1>n, <1>m
      <4>2. CASE job[p] = "evict loaders" /\ list[p] = {}
        <5>1. files \cap Games \subseteq stuck[p] /\ (files \cap Loaders) \ stuck[p] = {}
          BY <4>2 DEF Measured, Untried
        <5> QED
          BY <5>1, <2>2 DEF InCache, CachesTypeOK, Files
      <4> QED
        BY <4>0, <4>1, <4>2, <2>1 DEF Removing
    <3> QED
      BY <2>1, <3>1, <3>2 DEF Measured
  <2> QED
    BY <2>3, <2>4
<1> QED
  BY <1>g, <1>1, <1>2, <1>3, <1>4, <1>5, <1>6, <1>7, <1>8, <1>9, <1>10, <1>11, <1>12, <1>13, <1>14
     DEF Does, Begins

(***************************************************************************)
(* The theorems                                                            *)
(***************************************************************************)

LEMMA QuietStep ==
  ASSUME CachesInv, CachesTypeOK', NEW p \in Procs, Does(p), NEW q \in Procs
  PROVE  QuietInv(q)'
<1> SUFFICES ASSUME quiet'[q] PROVE Measured(q)' /\ \A r \in Procs \ {q} : Idle(r)'
  BY DEF QuietInv
<1>1. q = p /\ (\A r \in Procs \ {p} : Idle(r)) /\ (Begins(p) \/ quiet[p])
  BY QuietAlone
<1>2. \A r \in Procs \ {q} : Idle(r)'
  BY <1>1, OthersRest DEF Idle, CachesInv
<1>3. Measured(p)'
  <2>1. CASE StartUse(p) \/ StartClean(p)
    <3>1. job'[p] \in {"use", "jars"}
      BY <2>1 DEF StartUse, StartClean, Enter, CachesInv, CachesTypeOK
    <3>2. stuck'[p] = {}
      BY <2>1 DEF StartUse, StartClean, Load, Alone
    <3> QED
      BY <3>1, <3>2 DEF Measured
  <2>2. CASE Obliterate(p)
    <3>1. job'[p] = "idle"
      BY <2>2 DEF Obliterate, Enter, CachesInv, CachesTypeOK
    <3> QED
      BY <3>1 DEF Measured
  <2>3. CASE ~Begins(p)
    <3>1. ~Die(p)
      BY <1>1 DEF Die, CachesInv, CachesTypeOK
    <3>2. quiet[p] /\ Measured(p) /\ JobInv(p) /\ CachesTypeOK
      BY <1>1, <2>3 DEF CachesInv, QuietInv
    <3> QED
      BY <2>3, <3>1, <3>2, MeasuredStep
  <2> QED
    BY <2>1, <2>2, <2>3 DEF Begins
<1> QED
  BY <1>1, <1>2, <1>3

LEMMA CachesInvInit ==
  CacheInit => CachesInv
<1> SUFFICES ASSUME CacheInit PROVE CachesInv
  OBVIOUS
<1>1. CachesTypeOK
  BY TypeInit
<1>2. \A p \in Procs : JobInv(p) /\ QuietInv(p)
  BY DEF CacheInit, JobInv, QuietInv
<1>3. OrderInv
  BY DEF CacheInit, OrderInv, InCache, Idle
<1> QED
  BY <1>1, <1>2, <1>3 DEF CachesInv

LEMMA CachesInvStep ==
  CachesInv /\ [CacheNext]_cacheVars => CachesInv'
<1> SUFFICES ASSUME CachesInv, [CacheNext]_cacheVars PROVE CachesInv'
  OBVIOUS
<1>1. CachesTypeOK'
  BY TypeStep DEF CachesInv
<1>2. CASE UNCHANGED cacheVars \/ Second
  <2>1. UNCHANGED <<files, used, manifest, job, mem, dirty, sum, list, exact, quiet, stuck>>
    BY <1>2 DEF cacheVars, Second, cacheFiles, memory, history
  <2>2. \A p \in Procs : JobInv(p)' /\ QuietInv(p)'
    <3>1. ASSUME NEW p \in Procs
          PROVE  Measured(p) => Measured(p)'
      BY <2>1 DEF Measured, Untried, InCache, InDirs, JarBudget
    <3> QED
      BY <2>1, <3>1 DEF CachesInv, JobInv, QuietInv, Idle
  <2>3. OrderInv'
    BY <2>1 DEF CachesInv, OrderInv, InCache, Idle
  <2> QED
    BY <1>1, <2>2, <2>3 DEF CachesInv
<1>3. ASSUME NEW p \in Procs, Does(p)
      PROVE  CachesInv'
  <2>1. \A q \in Procs : JobInv(q)'
    <3>1. JobInv(p)'
      BY <1>3, JobStep DEF CachesInv
    <3>2. ASSUME NEW q \in Procs, q # p
          PROVE  JobInv(q)'
      BY <1>3, <3>2, OthersRest DEF CachesInv, JobInv
    <3> QED
      BY <3>1, <3>2
  <2>2. \A q \in Procs : QuietInv(q)'
    BY <1>1, <1>3, QuietStep
  <2>3. OrderInv'
    BY <1>3, OrderStep
  <2> QED
    BY <1>1, <2>1, <2>2, <2>3 DEF CachesInv
<1> QED
  BY <1>2, <1>3, NextSteps

\* The inductive invariant of the cache directory.
THEOREM CachesInvariance ==
  CacheSpec => []CachesInv
BY CachesInvInit, CachesInvStep, PTL DEF CacheSpec

\* CacheManager::clean: a clean that no other process disturbed leaves the
\* cache within the limit, or nothing in it but what it tried to remove and
\* could not.
THEOREM CleanReaches ==
  CacheSpec => []CleanReachesLimit
<1>1. CachesInv => CleanReachesLimit
  BY DEF CachesInv, QuietInv, Measured, CleanReachesLimit
<1> QED
  BY <1>1, CachesInvariance, PTL

\* The removal of a file for a clean is the process's own, of a JAR or of a
\* directory.
LEMMA WhoEvicts ==
  ASSUME CachesTypeOK, CacheNext, NEW p \in Procs, NEW f \in Files, Evicts(p, f)
  PROVE  EvictJar(p) \/ EvictDir(p)
<1>1. ~Second
  BY DEF Second, cacheFiles, Evicts
<1>2. PICK q \in Procs : Does(q)
  BY <1>1, NextSteps
<1>3. q = p
  BY <1>2, OthersRest DEF Evicts
<1>4. files' # files /\ list' # list /\ ~(files \subseteq files')
  BY DEF Evicts
<1> QED
  BY <1>2, <1>3, <1>4
     DEF Does, StartUse, UseJar, FillDir, Persist, EndUse, StartClean, ReadJarSize, ReadDirSize,
         ReadSize, ListJars, EndEvict, EndCleanup, ListDirs, EndDirs, Obliterate, Die,
         CleanRests, cacheFiles

\* CacheManager::clean, JarCache::cleanup: what a clean may remove, and in
\* which order.
THEOREM Eviction ==
  CacheSpec => EvictionJustified
<1> DEFINE Justified(p, f) ==
      /\ quiet[p] => /\ TotalSize(files \cup stuck[p]) > Limit
                     /\ f \notin Jars => files \cap Jars \subseteq stuck[p]
                     /\ f \in Loaders => files \cap Games \subseteq stuck[p]
      /\ exact /\ f \in Jars =>
           \A g \in files' \cap Jars : used[f] <= used[g] \/ g \in stuck[p]
<1>1. ASSUME CachesInv, [CacheNext]_cacheVars, NEW p \in Procs, NEW f \in Files, Evicts(p, f)
      PROVE  Justified(p, f)
  <2>0. CachesTypeOK /\ JobInv(p) /\ QuietInv(p) /\ OrderInv
    BY <1>1 DEF CachesInv
  <2>1. CacheNext
    BY <1>1 DEF Evicts, cacheVars, cacheFiles
  <2>n. /\ Limit \in Nat /\ TotalSize(files) = TotalSize(InCache) + TotalSize(InDirs)
        /\ TotalSize(files) \in Nat /\ TotalSize(InCache) \in Nat /\ TotalSize(InDirs) \in Nat
    BY <2>0, Parts, CachesAssumption
  <2>2. CASE EvictJar(p)
    <3>1. PICK g \in Oldest(p) : files' \subseteq files /\ files \subseteq files' \cup {g}
      BY <2>2 DEF EvictJar
    <3>2. f = g /\ f \in list[p] /\ job[p] = "evict" /\ sum[p].left > JarBudget(p) /\ ~Idle(p)
      BY <1>1, <2>2, <3>1 DEF Evicts, Oldest, EvictJar
    <3>3. f \in Jars
      BY <3>2, <2>0 DEF JobInv
    <3>4. ASSUME quiet[p]
          PROVE  TotalSize(files \cup stuck[p]) > Limit
      <4>0. TotalSize(files \cup stuck[p]) = TotalSize(files)
        <5>1. files \cup stuck[p] = files
          BY <2>0, <3>2, <3>4 DEF QuietInv, Measured, InCache
        <5> QED
          BY <5>1
      <4>1. TotalSize(InCache) > JarBudget(p) /\ sum[p].other = TotalSize(InDirs)
        BY <2>0, <3>2, <3>4 DEF QuietInv, Measured
      <4>2. CASE Limit > TotalSize(InDirs)
        <5>1. JarBudget(p) = Limit - TotalSize(InDirs)
          BY <4>1, <4>2 DEF JarBudget
        <5> QED
          BY <5>1, <4>0, <4>1, <2>n
      <4>3. CASE ~(Limit > TotalSize(InDirs))
        <5>1. JarBudget(p) = 0
          BY <4>1, <4>3 DEF JarBudget
        <5> QED
          BY <5>1, <4>0, <4>1, <4>3, <2>n
      <4> QED
        BY <4>2, <4>3
    <3>5. ASSUME exact, NEW h \in files' \cap Jars
          PROVE  used[f] <= used[h] \/ h \in stuck[p]
      <4>1. quiet[p] /\ \A i \in InCache : mem[p][i] = used[i]
        BY <2>0, <3>2, <3>5 DEF OrderInv
      <4>2. list[p] = InCache \ stuck[p]
        BY <2>0, <3>2, <4>1 DEF QuietInv, Measured
      <4>3. h \in InCache
        BY <3>1 DEF InCache
      <4>4. h \in list[p] => mem[p][f] <= mem[p][h]
        BY <3>2, <3>1 DEF Oldest
      <4>5. f \in InCache
        BY <3>2, <4>2
      <4> QED
        BY <4>1, <4>2, <4>3, <4>4, <4>5
    <3>6. f \notin Loaders
      BY <3>3, CachesAssumption
    <3> QED
      BY <3>3, <3>4, <3>5, <3>6
  <2>3. CASE EvictDir(p)
    <3>1. PICK dir \in SUBSET list[p] : \E g \in dir : f \notin Jars /\ DirOf[f] = DirOf[g]
      <4> DEFINE there(dir) == {h \in files : h \notin Jars /\ \E g \in dir : DirOf[h] = DirOf[g]}
      <4>1. PICK g \in list[p], dir \in SUBSET list[p] :
              /\ dir = Beside(g, list[p])
              /\ list' = [list EXCEPT ![p] = @ \ dir]
              /\ \/ /\ files' = files \ there(dir)
                    /\ SumIs(p, [sum[p] EXCEPT !.left = Minus(@, TotalSize(dir))])
                    /\ UNCHANGED history
                 \/ /\ \E gone \in SUBSET there(dir) : files' = files \ gone
                    /\ Stuck(p, dir) /\ UNCHANGED sum
        BY <2>3, ListedDir
      <4>2. f \in there(dir)
        BY <1>1, <4>1 DEF Evicts
      <4> QED
        BY <4>2
    <3>2. PICK g \in list[p] : f \notin Jars /\ DirOf[f] = DirOf[g]
      BY <3>1
    <3>3. Removing(p) /\ sum[p].left > Limit
      BY <2>3 DEF EvictDir
    <3>4. f \in Loaders => job[p] = "evict loaders"
      BY <2>0, <3>2, <3>3, CachesAssumption DEF JobInv, Removing
    <3>5. ASSUME quiet[p]
          PROVE  /\ TotalSize(files \cup stuck[p]) > Limit /\ InCache \subseteq stuck[p]
                 /\ f \in Loaders => files \cap Games \subseteq stuck[p]
      BY <2>0, <3>3, <3>4, <3>5 DEF QuietInv, Measured, Removing
    <3> QED
      BY <3>2, <3>5 DEF InCache
  <2> QED
    BY <1>1, <2>0, <2>1, <2>2, <2>3, WhoEvicts
<1>2. CachesInv /\ [CacheNext]_cacheVars
        => [\A p \in Procs, f \in Files : Evicts(p, f) => Justified(p, f)]_cacheVars
  BY <1>1
<1> QED
  BY <1>2, CachesInvariance, PTL DEF CacheSpec, EvictionJustified

-----------------------------------------------------------------------------
(***************************************************************************)
(* The HTTP metadata cache                                                 *)
(***************************************************************************)

USE HttpMetaAssumption

Entries == [kind : {"entry"}, url : Urls, body : Nat, fetched : Nat, taken : Nat]
Contents == Entries \cup {None, Junk}
Busy == {"send", "bypass", "write", "rename", "list", "evict"}

\* Every variable of the metadata cache keeps its type.
HttpTypeOK ==
  /\ fileOf \in [Urls -> Names]
  /\ now \in Nat /\ honest \in BOOLEAN /\ version \in Nat
  /\ disk \in [Paths -> Contents]
  /\ at \in [Tasks -> {"idle", "prune"} \cup Busy]
  /\ url \in [Tasks -> Urls]
  /\ cached \in [Tasks -> Entries \cup {None}]
  /\ tries \in [Tasks -> Nat]
  /\ began \in [Tasks -> [version : Nat, time : Nat]]
  /\ got \in [Tasks -> Entries \cup {None}]
  /\ doomed \in [Tasks -> SUBSET Paths]
  /\ answer \in [Tasks -> Entries \cup {None}]
  /\ lost \in Nat /\ calls \in Nat /\ faults \in Nat

\* What a task has in hand is of its URL and of its time; what a file says of its age is
\* when its body came.
FreshInv ==
  /\ \A f \in Paths : IsEntry(disk[f]) => disk[f].fetched = disk[f].taken
  /\ \A t \in Tasks :
       /\ began[t].version <= version
       /\ at[t] \in Busy => began[t].time <= now
       /\ at[t] \notin Busy => cached[t] = None /\ got[t] = None
       /\ IsEntry(cached[t]) =>
            /\ cached[t].url = url[t]
            /\ began[t].time - cached[t].taken <= MaxAge
       /\ IsEntry(got[t]) =>
            /\ got[t].url = url[t]
            /\ began[t].time <= got[t].taken
            /\ began[t].version <= got[t].body
            /\ got[t].fetched = got[t].taken
  /\ AnswerFresh

At(step) == {t \in Tasks : at[t] = step}

\* The files that stay when the evictions that run have ended, without the temporary files
\* that are about to be renamed.
Lasting ==
  Present \ ({Tmp(t) : t \in At("rename")} \cup UNION {doomed[t] : t \in At("evict")})

\* They exceed the cap by no more than what faults have left since the last complete
\* listing, and one for each task that has still to list.
CapInv ==
  Cardinality(Lasting) <= MaxEntries + lost + Cardinality(At("list"))

HttpInv == HttpTypeOK /\ FreshInv /\ CapInv

-----------------------------------------------------------------------------
(* Types *)

\* The end of a call.
LEMMA ReturnType ==
  ASSUME HttpTypeOK, NEW t \in Tasks, NEW e \in Entries \cup {None}, Return(t, e)
  PROVE  /\ at' \in [Tasks -> {"idle", "prune"} \cup Busy]
         /\ url' \in [Tasks -> Urls]
         /\ cached' \in [Tasks -> Entries \cup {None}]
         /\ tries' \in [Tasks -> Nat]
         /\ began' \in [Tasks -> [version : Nat, time : Nat]]
         /\ got' \in [Tasks -> Entries \cup {None}]
         /\ answer' \in [Tasks -> Entries \cup {None}]
<1>1. SomeUrl \in Urls
  BY DEF SomeUrl
<1>2. NotBegun \in [version : Nat, time : Nat]
  BY DEF NotBegun
<1>3. at' \in [Tasks -> {"idle", "prune"} \cup Busy] /\ tries' \in [Tasks -> Nat]
  BY DEF HttpTypeOK, Return, Go
<1>4. /\ cached' \in [Tasks -> Entries \cup {None}]
      /\ got' \in [Tasks -> Entries \cup {None}]
      /\ answer' \in [Tasks -> Entries \cup {None}]
  BY DEF HttpTypeOK, Return
<1>5. /\ url' \in [Tasks -> Urls]
      /\ began' \in [Tasks -> [version : Nat, time : Nat]]
  <2>1. CASE e = None
    <3>1. url' = [url EXCEPT ![t] = SomeUrl] /\ began' = [began EXCEPT ![t] = NotBegun]
      BY <2>1 DEF Return
    <3>2. QED BY <1>1, <1>2, <3>1 DEF HttpTypeOK
  <2>2. CASE e # None
    BY <2>2 DEF HttpTypeOK, Return
  <2>3. QED BY <2>1, <2>2
<1>6. QED BY <1>3, <1>4, <1>5

LEMMA EntryType ==
  ASSUME HttpTypeOK
  PROVE  /\ \A u \in Urls : Response(u, version, now) \in Entries
         /\ \A u \in Urls : Lookup(u) \in Entries \cup {None}
         /\ \A t \in Tasks : Json(t) \in Paths /\ Tmp(t) \in Paths
         /\ \A f \in Paths : IsEntry(disk[f]) => disk[f] \in Entries
<1>1. \A f \in Paths : IsEntry(disk[f]) => disk[f] \in Entries
  BY DEF HttpTypeOK, IsEntry, Contents, None, Junk
<1>2. \A u \in Urls : <<fileOf[u], "json">> \in Paths /\ <<fileOf[u], "tmp">> \in Paths
  BY DEF HttpTypeOK, Paths
<1>3. QED BY <1>1, <1>2 DEF HttpTypeOK, Response, Entries, Lookup, Json, Tmp

LEMMA FilesFinite ==
  /\ \A X \in SUBSET Paths : IsFiniteSet(X) /\ Cardinality(X) \in Nat
  /\ \A X \in SUBSET Tasks : IsFiniteSet(X) /\ Cardinality(X) \in Nat
<1>1. IsFiniteSet({"json", "tmp"})
  <2>1. IsFiniteSet({"json"}) /\ {"json"} \cup {"tmp"} = {"json", "tmp"}
    BY FS_Singleton
  <2>2. IsFiniteSet({"json"} \cup {"tmp"})
    BY <2>1, FS_AddElement
  <2>3. QED BY <2>1, <2>2
<1>2. IsFiniteSet(Paths)
  BY <1>1, FS_Product DEF Paths
<1>3. QED BY <1>2, FS_Subset, FS_CardinalityType

LEMMA HttpTypeStep == HttpTypeOK /\ [HttpNext]_httpVars => HttpTypeOK'
<1> SUFFICES ASSUME HttpTypeOK, [HttpNext]_httpVars PROVE HttpTypeOK'
  OBVIOUS
<1> USE DEF world, task, bounds
<1>0. \A t \in Tasks : got[t] \in Entries \cup {None} /\ cached[t] \in Entries \cup {None}
  BY DEF HttpTypeOK
<1>1. CASE Tick \/ Publish
  BY <1>1 DEF Tick, Publish, HttpTypeOK
<1>2. ASSUME NEW t \in Tasks, NEW u \in Urls, Begin(t, u) PROVE HttpTypeOK'
  <2>1. (IF IsEntry(Lookup(u)) /\ ~IsStale(Lookup(u)) THEN Lookup(u) ELSE None)
           \in Entries \cup {None}
    BY EntryType
  <2>2. at' \in [Tasks -> {"idle", "prune"} \cup Busy] /\ calls' \in Nat
    BY <1>2 DEF Begin, Go, HttpTypeOK, Busy
  <2>3. cached' \in [Tasks -> Entries \cup {None}]
    <3>1. cached' = cached \/ cached' = [cached EXCEPT ![t] =
              IF IsEntry(Lookup(u)) /\ ~IsStale(Lookup(u)) THEN Lookup(u) ELSE None]
      BY <1>2 DEF Begin
    <3>2. QED BY <2>1, <3>1 DEF HttpTypeOK
  <2>4. /\ url' \in [Tasks -> Urls]
        /\ answer' \in [Tasks -> Entries \cup {None}]
        /\ began' \in [Tasks -> [version : Nat, time : Nat]]
    BY <1>2 DEF Begin, HttpTypeOK
  <2>5. QED BY <1>2, <2>2, <2>3, <2>4 DEF Begin, HttpTypeOK
<1>3. ASSUME NEW t \in Tasks, NEW e \in Entries \cup {None}, Return(t, e),
             disk' \in [Paths -> Contents], doomed' \in [Tasks -> SUBSET Paths],
             lost' \in Nat, calls' \in Nat, faults' \in Nat, UNCHANGED world
      PROVE  HttpTypeOK'
  <2>1. /\ at' \in [Tasks -> {"idle", "prune"} \cup Busy]
        /\ url' \in [Tasks -> Urls]
        /\ cached' \in [Tasks -> Entries \cup {None}]
        /\ tries' \in [Tasks -> Nat]
        /\ began' \in [Tasks -> [version : Nat, time : Nat]]
        /\ got' \in [Tasks -> Entries \cup {None}]
        /\ answer' \in [Tasks -> Entries \cup {None}]
    BY <1>3, ReturnType
  <2>2. QED BY <1>3, <2>1 DEF HttpTypeOK
<1>4. ASSUME NEW t \in Tasks, SendFails(t) \/ Refused(t) \/ NotModified(t) PROVE HttpTypeOK'
  <2>1. CASE \E e \in {None, cached[t]} : Return(t, e)
    BY <1>0, <1>3, <1>4, <2>1 DEF SendFails, Refused, NotModified, HttpTypeOK
  <2>2. CASE /\ tries' = [tries EXCEPT ![t] = @ + 1]
             /\ UNCHANGED <<at, url, cached, began, got, answer>>
    BY <1>4, <2>2 DEF SendFails, Refused, NotModified, HttpTypeOK
  <2>3. QED BY <1>4, <2>1, <2>2 DEF SendFails, Refused, NotModified
<1>5. ASSUME NEW t \in Tasks, Modified(t) PROVE HttpTypeOK'
  <2>1. Response(url[t], version, now) \in Entries
    BY EntryType DEF HttpTypeOK
  <2>2. CASE Return(t, Response(url[t], version, now))
    BY <1>3, <1>5, <2>1, <2>2 DEF Modified, HttpTypeOK
  <2>3. CASE /\ Go(t, "write")
             /\ got' = [got EXCEPT ![t] = Response(url[t], version, now)]
             /\ cached' = [cached EXCEPT ![t] = None]
             /\ tries' = [tries EXCEPT ![t] = 0]
             /\ UNCHANGED <<url, began, answer>>
    BY <1>5, <2>1, <2>3 DEF Modified, HttpTypeOK, Go, Busy
  <2>4. QED BY <1>5, <2>2, <2>3 DEF Modified
<1>6. ASSUME NEW t \in Tasks, WriteTmp(t) \/ WriteTmpFails(t) PROVE HttpTypeOK'
  <2>1. disk' \in [Paths -> Contents]
    BY <1>0, <1>6, EntryType DEF WriteTmp, WriteTmpFails, Put, HttpTypeOK, Contents
  <2>2. CASE WriteTmpFails(t)
    BY <1>0, <1>3, <2>1, <2>2 DEF WriteTmpFails, HttpTypeOK
  <2>3. CASE WriteTmp(t)
    BY <2>1, <2>3 DEF WriteTmp, HttpTypeOK, Go, Busy
  <2>4. QED BY <1>6, <2>2, <2>3
<1>7. ASSUME NEW t \in Tasks, RenameTmp(t) PROVE HttpTypeOK'
  <2>1. disk' \in [Paths -> Contents]
    <3>1. PICK e \in {disk[Tmp(t)], Junk} :
            disk' = [disk EXCEPT ![Json(t)] = e, ![Tmp(t)] = None]
      BY <1>7 DEF RenameTmp
    <3>2. e \in Contents
      BY <3>1, EntryType DEF HttpTypeOK, Contents
    <3>3. QED BY <3>1, <3>2, EntryType DEF HttpTypeOK, Contents
  <2>2. QED BY <1>7, <2>1 DEF RenameTmp, HttpTypeOK, Go, Busy
<1>8. ASSUME NEW t \in Tasks, RenameTmpFails(t) PROVE HttpTypeOK'
  BY <1>0, <1>3, <1>8 DEF RenameTmpFails, HttpTypeOK
<1>f. ASSUME NEW n \in Nat, Fault(n) PROVE lost' \in Nat /\ faults' \in Nat
  BY <1>f DEF Fault, HttpTypeOK
<1>9. ASSUME NEW t \in Tasks, ListEntries(t) \/ ListFails(t) PROVE HttpTypeOK'
  <2>0. lost' \in Nat /\ faults' \in Nat
    BY <1>9, <1>f DEF ListEntries, ListFails, HttpTypeOK
  <2>1. CASE Return(t, got[t]) /\ UNCHANGED doomed
    BY <1>0, <1>3, <1>9, <2>0, <2>1 DEF ListEntries, ListFails, HttpTypeOK
  <2>2. ASSUME NEW s \in SUBSET Paths, doomed' = [doomed EXCEPT ![t] = s],
               Go(t, "evict"), UNCHANGED <<task, answer>>
        PROVE  HttpTypeOK'
    BY <1>9, <2>0, <2>2 DEF ListEntries, ListFails, HttpTypeOK, Go, Busy
  <2>3. \A seen \in SUBSET Present : \A n : \A s \in OldestEntries(seen, n) : s \in SUBSET Paths
    BY DEF OldestEntries, Present
  <2>4. QED BY <1>9, <2>1, <2>2, <2>3 DEF ListEntries, ListFails
<1>10. ASSUME NEW t \in Tasks, EvictEntry(t) PROVE HttpTypeOK'
  <2>1. CASE Return(t, got[t]) /\ UNCHANGED <<disk, doomed, lost, faults>>
    BY <1>0, <1>3, <1>10, <2>1 DEF EvictEntry, HttpTypeOK
  <2>2. ASSUME NEW f \in doomed[t],
               \/ Put(f, None) /\ UNCHANGED <<lost, faults>>
               \/ Fault(1) /\ UNCHANGED disk,
               doomed' = [doomed EXCEPT ![t] = @ \ {f}], UNCHANGED <<at, task, answer>>
        PROVE  HttpTypeOK'
    <3>1. disk' \in [Paths -> Contents] /\ doomed' \in [Tasks -> SUBSET Paths]
      BY <2>2 DEF Put, HttpTypeOK, Contents
    <3>2. lost' \in Nat /\ faults' \in Nat
      BY <2>2, <1>f DEF HttpTypeOK
    <3>3. QED BY <1>10, <2>2, <3>1, <3>2 DEF EvictEntry, HttpTypeOK
  <2>3. QED BY <1>10, <2>1, <2>2 DEF EvictEntry
<1>11. ASSUME NEW t \in Tasks, Clear(t) \/ PruneRead(t) \/ PruneRemove(t) PROVE HttpTypeOK'
  <2>1. disk' \in [Paths -> Contents]
    BY <1>11 DEF Clear, PruneRead, PruneRemove, HttpTypeOK, Contents
  <2>2. doomed' \in [Tasks -> SUBSET Paths]
    BY <1>11 DEF Clear, PruneRead, PruneRemove, HttpTypeOK, Present
  <2>3. at' \in [Tasks -> {"idle", "prune"} \cup Busy] /\ calls' \in Nat
    <3>1. CASE Clear(t)
      BY <3>1 DEF Clear, HttpTypeOK
    <3>2. CASE PruneRead(t)
      BY <3>2 DEF PruneRead, HttpTypeOK, Go
    <3>3. CASE PruneRemove(t)
      BY <3>3 DEF PruneRemove, HttpTypeOK, Go
    <3>4. QED BY <1>11, <3>1, <3>2, <3>3
  <2>4. QED BY <1>11, <2>1, <2>2, <2>3 DEF Clear, PruneRead, PruneRemove, HttpTypeOK
<1>12. ASSUME NEW t \in Tasks, Kill(t) PROVE HttpTypeOK'
  <2>1. doomed' \in [Tasks -> SUBSET Paths] /\ lost' \in Nat /\ faults' \in Nat
    <3>1. (IF at[t] = "evict" THEN Cardinality(doomed[t]) ELSE 1) \in Nat
      BY FilesFinite DEF HttpTypeOK
    <3>2. QED BY <1>12, <1>f, <3>1 DEF Kill, HttpTypeOK
  <2>2. QED BY <1>3, <1>12, <2>1 DEF Kill, HttpTypeOK
<1>13. CASE UNCHANGED httpVars
  BY <1>13 DEF httpVars, HttpTypeOK
<1>14. QED
  BY <1>1, <1>2, <1>4, <1>5, <1>6, <1>7, <1>8, <1>9, <1>10, <1>11, <1>12, <1>13 DEF HttpNext

-----------------------------------------------------------------------------
(* Freshness *)

\* What FreshInv says of one task.
InHand(t) ==
  /\ began[t].version <= version
  /\ at[t] \in Busy => began[t].time <= now
  /\ at[t] \notin Busy => cached[t] = None /\ got[t] = None
  /\ IsEntry(cached[t]) =>
       /\ cached[t].url = url[t]
       /\ began[t].time - cached[t].taken <= MaxAge
  /\ IsEntry(got[t]) =>
       /\ got[t].url = url[t]
       /\ began[t].time <= got[t].taken
       /\ began[t].version <= got[t].body
       /\ got[t].fetched = got[t].taken
  /\ IsEntry(answer[t]) =>
       /\ answer[t].url = url[t]
       /\ began[t].time - answer[t].taken <= MaxAge
       /\ honest => answer[t].body >= began[t].version

Dated == \A f \in Paths : IsEntry(disk[f]) => disk[f].fetched = disk[f].taken

LEMMA FreshParts ==
  /\ FreshInv <=> Dated /\ \A t \in Tasks : InHand(t)
  /\ FreshInv' <=> Dated' /\ \A t \in Tasks : InHand(t)'
BY DEF FreshInv, AnswerFresh, InHand, Dated

\* A step is of one task: what another has in hand is as good as before.
LEMMA OthersKept ==
  ASSUME HttpTypeOK, NEW t \in Tasks, InHand(t),
         now' >= now, now' \in Nat, version' >= version, version' \in Nat, honest' = honest,
         at'[t] = at[t], url'[t] = url[t], cached'[t] = cached[t], began'[t] = began[t],
         got'[t] = got[t], answer'[t] = answer[t]
  PROVE  InHand(t)'
<1>1. began[t] \in [version : Nat, time : Nat] /\ version \in Nat /\ now \in Nat
  BY DEF HttpTypeOK
<1>2. QED BY <1>1 DEF InHand

\* A call may end with what keeps its promise, or with nothing.
LEMMA ReturnKeeps ==
  ASSUME HttpTypeOK, NEW t \in Tasks, NEW e \in Entries \cup {None}, InHand(t), Return(t, e),
         UNCHANGED world, at[t] \in Busy,
         IsEntry(e) => /\ e.url = url[t]
                       /\ began[t].time - e.taken <= MaxAge
                       /\ honest => e.body >= began[t].version
  PROVE  InHand(t)'
<1>1. /\ at'[t] = "idle" /\ answer'[t] = e /\ cached'[t] = None /\ got'[t] = None
  BY DEF HttpTypeOK, Return, Go
<1>2. ~IsEntry(None) /\ "idle" \notin Busy
  BY DEF IsEntry, None, Busy
<1>3. CASE e = None
  <2>1. began'[t] = NotBegun
    BY <1>3 DEF HttpTypeOK, Return
  <2>2. QED BY <1>1, <1>2, <1>3, <2>1 DEF InHand, NotBegun, world, HttpTypeOK
<1>4. CASE e # None
  <2>1. began'[t] = began[t] /\ url'[t] = url[t] /\ UNCHANGED <<honest, version>>
    BY <1>4 DEF HttpTypeOK, Return, world
  <2>2. QED BY <1>1, <1>2, <2>1 DEF InHand, IsEntry
<1>5. QED BY <1>3, <1>4

LEMMA FreshStep ==
  ASSUME HttpTypeOK, FreshInv, [HttpNext]_httpVars
  PROVE  FreshInv'
<1> USE DEF world, task, bounds
<1>0. /\ Dated /\ \A t \in Tasks : InHand(t)
      /\ version \in Nat /\ now \in Nat
      /\ \A t \in Tasks : /\ got[t] \in Entries \cup {None} /\ cached[t] \in Entries \cup {None}
                          /\ began[t] \in [version : Nat, time : Nat]
                          /\ ~IsEntry(None)
  BY FreshParts DEF HttpTypeOK, IsEntry, None
<1>1. CASE UNCHANGED <<at, url, cached, began, got, answer, disk, honest>> /\ (Tick \/ Publish \/ UNCHANGED <<now, version>>)
  <2>1. now' \in Nat /\ now' >= now /\ version' \in Nat /\ version' >= version
    BY <1>0, <1>1 DEF Tick, Publish
  <2>2. \A t \in Tasks : InHand(t)'
    BY <1>0, <1>1, <2>1, OthersKept
  <2>3. Dated'
    BY <1>0, <1>1 DEF Dated
  <2>4. QED BY <2>2, <2>3, FreshParts
<1>2. ASSUME NEW t \in Tasks, UNCHANGED world,
             \A o \in Tasks \ {t} :
               /\ at'[o] = at[o] /\ url'[o] = url[o] /\ cached'[o] = cached[o]
               /\ began'[o] = began[o] /\ got'[o] = got[o] /\ answer'[o] = answer[o],
             InHand(t)', Dated'
      PROVE  FreshInv'
  <2>1. \A o \in Tasks \ {t} : InHand(o)'
    BY <1>0, <1>2, OthersKept
  <2>2. QED BY <1>2, <2>1, FreshParts
<1>3. ASSUME NEW t \in Tasks, NEW e \in Entries \cup {None}, Return(t, e), UNCHANGED world,
             at[t] \in Busy, Dated',
             IsEntry(e) => /\ e.url = url[t]
                           /\ began[t].time - e.taken <= MaxAge
                           /\ honest => e.body >= began[t].version
      PROVE  FreshInv'
  <2>1. InHand(t)'
    BY <1>0, <1>3, ReturnKeeps
  <2>2. \A o \in Tasks \ {t} :
          /\ at'[o] = at[o] /\ url'[o] = url[o] /\ cached'[o] = cached[o]
          /\ began'[o] = began[o] /\ got'[o] = got[o] /\ answer'[o] = answer[o]
    BY <1>3 DEF HttpTypeOK, Return, Go
  <2>3. QED BY <1>2, <1>3, <2>1, <2>2
\* What a task has fetched may be returned.
<1>4. ASSUME NEW t \in Tasks, Return(t, got[t]), UNCHANGED world, at[t] \in Busy, Dated'
      PROVE  FreshInv'
  <2>1. got[t] \in Entries \cup {None} /\ InHand(t)
    BY <1>0
  <2>2. IsEntry(got[t]) => got[t] \in Entries
    BY <1>0
  <2>3. IsEntry(got[t]) => /\ got[t].url = url[t]
                           /\ began[t].time - got[t].taken <= MaxAge
                           /\ honest => got[t].body >= began[t].version
    BY <1>0, <2>1, <2>2 DEF InHand, Entries
  <2>4. QED BY <1>3, <1>4, <2>1, <2>3
<1>5. ASSUME NEW t \in Tasks, NEW u \in Urls, Begin(t, u) PROVE FreshInv'
  <2>1. /\ at'[t] \in {"send", "bypass"} /\ url'[t] = u /\ answer'[t] = None
        /\ began'[t] = [version |-> version, time |-> now]
        /\ got'[t] = None /\ UNCHANGED <<world, disk>>
    BY <1>0, <1>5 DEF Begin, HttpTypeOK, Go, InHand, Busy
  <2>2. IsEntry(cached'[t]) => cached'[t].url = u /\ now - cached'[t].taken <= MaxAge
    <3>1. cached[t] = None
      BY <1>0, <1>5 DEF Begin, InHand, Busy
    <3>2. CASE cached' = cached
      BY <1>0, <3>1, <3>2
    <3>3. CASE cached' = [cached EXCEPT ![t] =
                 IF IsEntry(Lookup(u)) /\ ~IsStale(Lookup(u)) THEN Lookup(u) ELSE None]
      <4>1. IsEntry(cached'[t]) => cached'[t] = Lookup(u) /\ IsEntry(Lookup(u)) /\ ~IsStale(Lookup(u))
        BY <1>0, <3>3 DEF HttpTypeOK
      <4>2. IsEntry(Lookup(u)) => /\ Lookup(u).url = u /\ Lookup(u) \in Entries
                                  /\ Lookup(u).fetched = Lookup(u).taken
        <5>1. <<fileOf[u], "json">> \in Paths
          BY DEF HttpTypeOK, Paths
        <5>2. QED BY <1>0, <5>1, EntryType DEF Lookup, Dated
      <4>3. QED BY <1>0, <4>1, <4>2 DEF IsStale, Entries
    <3>4. QED BY <1>5, <3>2, <3>3 DEF Begin
  <2>3. InHand(t)'
    BY <1>0, <2>1, <2>2 DEF InHand, Busy
  <2>4. Dated'
    BY <1>0, <2>1 DEF Dated
  <2>5. \A o \in Tasks \ {t} :
          /\ at'[o] = at[o] /\ url'[o] = url[o] /\ cached'[o] = cached[o]
          /\ began'[o] = began[o] /\ got'[o] = got[o] /\ answer'[o] = answer[o]
    BY <1>5 DEF Begin, HttpTypeOK, Go
  <2>6. QED BY <1>2, <2>1, <2>3, <2>4, <2>5
<1>6. ASSUME NEW t \in Tasks, SendFails(t) \/ Refused(t) PROVE FreshInv'
  <2>1. at[t] \in Busy /\ UNCHANGED <<world, disk>> /\ Dated'
    BY <1>0, <1>6 DEF SendFails, Refused, Sending, Busy, Dated
  <2>2. CASE Return(t, None)
    BY <1>0, <1>3, <2>1, <2>2
  <2>3. CASE UNCHANGED <<at, url, cached, began, got, answer>>
    BY <1>1, <2>1, <2>3
  <2>4. QED BY <1>6, <2>2, <2>3 DEF SendFails, Refused
<1>7. ASSUME NEW t \in Tasks, NotModified(t) PROVE FreshInv'
  <2>1. at[t] \in Busy /\ UNCHANGED <<world, disk>> /\ Dated' /\ Return(t, cached[t])
    BY <1>0, <1>7 DEF NotModified, Sending, Busy, Dated
  <2>2. cached[t] \in Entries \cup {None} /\ InHand(t)
    BY <1>0
  <2>3. honest => cached[t].body >= began[t].version
    <3>1. honest => cached[t].body = version
      BY <1>7 DEF NotModified
    <3>2. QED BY <1>0, <2>2, <3>1 DEF InHand
  <2>4. QED BY <1>3, <2>1, <2>2, <2>3 DEF InHand
<1>8. ASSUME NEW t \in Tasks, Modified(t) PROVE FreshInv'
  <2>1. at[t] \in Busy /\ UNCHANGED <<world, disk>> /\ Dated' /\ InHand(t)
    BY <1>0, <1>8 DEF Modified, Sending, Busy, Dated
  <2> DEFINE e == Response(url[t], version, now)
  <2>2. /\ e \in Entries /\ IsEntry(e) /\ e.url = url[t] /\ e.taken = now /\ e.body = version
        /\ e.fetched = e.taken
    BY EntryType DEF Response, IsEntry, HttpTypeOK
  <2>3. began[t].time <= now /\ began[t].version <= version
    BY <2>1 DEF InHand
  <2> HIDE DEF e
  <2>4. CASE Return(t, e)
    <3>1. began[t].time - e.taken <= MaxAge /\ e.body >= began[t].version
      BY <1>0, <2>2, <2>3
    <3>2. QED BY <1>3, <2>1, <2>2, <2>4, <3>1
  <2>5. CASE /\ Go(t, "write")
             /\ got' = [got EXCEPT ![t] = e]
             /\ cached' = [cached EXCEPT ![t] = None]
             /\ tries' = [tries EXCEPT ![t] = 0]
             /\ UNCHANGED <<url, began, answer>>
    <3>1. at'[t] = "write" /\ got'[t] = e /\ cached'[t] = None
      BY <2>5 DEF HttpTypeOK, Go
    <3>2. InHand(t)'
      BY <1>0, <2>1, <2>2, <2>3, <2>5, <3>1 DEF InHand, Busy
    <3>3. \A o \in Tasks \ {t} : at'[o] = at[o] /\ cached'[o] = cached[o] /\ got'[o] = got[o]
      BY <2>5 DEF HttpTypeOK, Go
    <3>4. QED BY <1>2, <2>1, <2>5, <3>2, <3>3
  <2>6. QED BY <1>8, <2>4, <2>5 DEF Modified, e
<1>9. ASSUME NEW t \in Tasks, WriteTmp(t) \/ WriteTmpFails(t) PROVE FreshInv'
  <2>1. at[t] \in Busy /\ InHand(t) /\ UNCHANGED world
    BY <1>0, <1>9 DEF WriteTmp, WriteTmpFails, Busy
  <2>2. Dated'
    <3>1. \E e \in {got[t], None} : disk' = [disk EXCEPT ![Tmp(t)] = e]
      BY <1>9 DEF WriteTmp, WriteTmpFails, Put
    <3>2. QED BY <1>0, <2>1, <3>1 DEF Dated, InHand, HttpTypeOK
  <2>3. CASE WriteTmpFails(t)
    BY <1>4, <2>1, <2>2, <2>3 DEF WriteTmpFails
  <2>4. CASE WriteTmp(t)
    <3>1. at'[t] = "rename" /\ (\A o \in Tasks \ {t} : at'[o] = at[o]) /\ UNCHANGED <<task, answer>>
      BY <2>4 DEF WriteTmp, Go, HttpTypeOK
    <3>2. InHand(t)'
      BY <2>1, <3>1 DEF InHand, Busy
    <3>3. QED BY <1>2, <2>1, <2>2, <3>1, <3>2
  <2>5. QED BY <1>9, <2>3, <2>4
<1>10. ASSUME NEW t \in Tasks, RenameTmp(t) PROVE FreshInv'
  <2>1. /\ at[t] \in Busy /\ InHand(t) /\ UNCHANGED <<world, task, answer>>
        /\ at'[t] = "list" /\ (\A o \in Tasks \ {t} : at'[o] = at[o])
    BY <1>0, <1>10 DEF RenameTmp, Busy, Go, HttpTypeOK
  <2>2. Dated'
    <3>1. PICK e \in {disk[Tmp(t)], Junk} :
            disk' = [disk EXCEPT ![Json(t)] = e, ![Tmp(t)] = None]
      BY <1>10 DEF RenameTmp
    <3>2. IsEntry(e) => e.fetched = e.taken
      BY <1>0, <3>1, EntryType DEF Dated, IsEntry, Junk
    <3>3. \A f \in Paths : disk'[f] \in {disk[f], e, None}
      BY <3>1, EntryType DEF HttpTypeOK
    <3>4. QED BY <1>0, <3>2, <3>3 DEF Dated
  <2>3. InHand(t)'
    BY <2>1 DEF InHand, Busy
  <2>4. QED BY <1>2, <2>1, <2>2, <2>3
<1>11. ASSUME NEW t \in Tasks, RenameTmpFails(t) PROVE FreshInv'
  BY <1>0, <1>4, <1>11 DEF RenameTmpFails, Dated, Busy
<1>12. ASSUME NEW t \in Tasks, ListEntries(t) \/ ListFails(t) \/ EvictEntry(t) PROVE FreshInv'
  <2>1. at[t] \in Busy /\ InHand(t) /\ UNCHANGED world
    BY <1>0, <1>12 DEF ListEntries, ListFails, EvictEntry, Busy
  <2>2. Dated'
    <3>1. \A f \in Paths : disk'[f] \in {disk[f], None}
      BY <1>12 DEF ListEntries, ListFails, EvictEntry, Put, HttpTypeOK
    <3>2. QED BY <1>0, <3>1 DEF Dated
  <2>3. CASE Return(t, got[t])
    BY <1>4, <2>1, <2>2, <2>3
  <2>4. CASE Go(t, "evict") /\ UNCHANGED <<task, answer>>
    <3>1. at'[t] = "evict" /\ \A o \in Tasks \ {t} : at'[o] = at[o]
      BY <2>4 DEF Go, HttpTypeOK
    <3>2. InHand(t)'
      BY <2>1, <2>4, <3>1 DEF InHand, Busy
    <3>3. QED BY <1>2, <2>1, <2>2, <2>4, <3>1, <3>2
  <2>5. CASE UNCHANGED <<at, task, answer>>
    <3>1. InHand(t)'
      BY <2>1, <2>5 DEF InHand
    <3>2. QED BY <1>2, <2>1, <2>2, <2>5, <3>1
  <2>6. QED BY <1>12, <2>3, <2>4, <2>5 DEF ListEntries, ListFails, EvictEntry
<1>13. ASSUME NEW t \in Tasks, Clear(t) \/ PruneRead(t) \/ PruneRemove(t) PROVE FreshInv'
  <2>1. /\ at[t] \notin Busy /\ InHand(t) /\ UNCHANGED <<world, task, answer>>
        /\ at'[t] \notin Busy /\ \A o \in Tasks \ {t} : at'[o] = at[o]
    BY <1>0, <1>13 DEF Clear, PruneRead, PruneRemove, Go, HttpTypeOK, Busy
  <2>2. Dated'
    <3>1. \A f \in Paths : disk'[f] \in {disk[f], None}
      BY <1>13 DEF Clear, PruneRead, PruneRemove, HttpTypeOK
    <3>2. QED BY <1>0, <3>1 DEF Dated
  <2>3. InHand(t)'
    BY <2>1 DEF InHand
  <2>4. QED BY <1>2, <2>1, <2>2, <2>3
<1>14. ASSUME NEW t \in Tasks, Kill(t) PROVE FreshInv'
  <2>1. at[t] \in Busy /\ UNCHANGED <<world, disk>> /\ Dated' /\ Return(t, None)
    BY <1>0, <1>14 DEF Kill, Busy, Dated
  <2>2. QED BY <1>0, <1>3, <2>1
<1>15. CASE UNCHANGED httpVars
  BY <1>1, <1>15 DEF httpVars
<1>16. CASE Tick \/ Publish
  BY <1>1, <1>16 DEF Tick, Publish
<1>17. QED
  BY <1>5, <1>6, <1>7, <1>8, <1>9, <1>10, <1>11, <1>12, <1>13, <1>14, <1>15, <1>16
     DEF HttpNext

-----------------------------------------------------------------------------
(* The cap *)

\* What a step may add to the files that stay, and what then accounts for it.
LEMMA CapBy ==
  ASSUME HttpTypeOK, HttpTypeOK', CapInv, NEW X \in SUBSET Paths,
         Lasting' \subseteq Lasting \cup X,
         Cardinality(X) + lost + Cardinality(At("list")) <= lost' + Cardinality(At("list")')
  PROVE  CapInv'
<1>1. Lasting \in SUBSET Paths /\ Lasting' \in SUBSET Paths
  BY DEF Lasting, Present
<1>2. Cardinality(Lasting \cup X) <= Cardinality(Lasting) + Cardinality(X)
  <2>1. Cardinality(Lasting \cup X)
          = Cardinality(Lasting) + Cardinality(X) - Cardinality(Lasting \cap X)
    BY <1>1, FilesFinite, FS_Union
  <2>2. /\ Cardinality(Lasting) \in Nat /\ Cardinality(X) \in Nat
        /\ Cardinality(Lasting \cap X) \in Nat
    BY <1>1, FilesFinite
  <2>3. QED BY <2>1, <2>2
<1>3. Cardinality(Lasting') <= Cardinality(Lasting \cup X)
  BY <1>1, FilesFinite, FS_Subset
<1>4. At("list") \in SUBSET Tasks /\ At("list")' \in SUBSET Tasks
  BY DEF At
<1>5. /\ Cardinality(X) \in Nat /\ Cardinality(At("list")) \in Nat
      /\ Cardinality(At("list")') \in Nat /\ Cardinality(Lasting) \in Nat
      /\ Cardinality(Lasting') \in Nat /\ Cardinality(Lasting \cup X) \in Nat
  BY <1>1, <1>4, FilesFinite
<1>6. lost \in Nat /\ lost' \in Nat /\ MaxEntries \in Nat
  BY DEF HttpTypeOK
<1>7. Cardinality(Lasting) <= MaxEntries + lost + Cardinality(At("list"))
  BY DEF CapInv
<1>8. Cardinality(Lasting') <= MaxEntries + lost' + Cardinality(At("list")')
  BY <1>2, <1>3, <1>5, <1>6, <1>7, SMT
<1>9. QED BY <1>8 DEF CapInv

\* A step that adds nothing.
LEMMA CapKept ==
  ASSUME HttpTypeOK, HttpTypeOK', CapInv, lost' = lost, At("list")' = At("list"),
         Lasting' \subseteq Lasting
  PROVE  CapInv'
<1>1. Cardinality({}) = 0 /\ {} \in SUBSET Paths
  BY FS_EmptySet
<1>2. lost \in Nat /\ Cardinality(At("list")) \in Nat
  BY FilesFinite DEF At, HttpTypeOK
<1>3. Cardinality({}) + lost + Cardinality(At("list")) <= lost' + Cardinality(At("list")')
  BY <1>1, <1>2
<1>4. QED BY <1>1, <1>3, CapBy

\* A task that has no file to rename, to count or to remove, before a step and after it.
LEMMA CapQuiet ==
  ASSUME HttpTypeOK, HttpTypeOK', CapInv, lost' = lost, NEW t \in Tasks,
         at[t] \notin {"rename", "list", "evict"}, at'[t] \notin {"list", "evict"},
         \A o \in Tasks \ {t} : at'[o] = at[o] /\ url'[o] = url[o] /\ doomed'[o] = doomed[o],
         fileOf' = fileOf, Present' \subseteq Present \cup {Tmp(t)'},
         at'[t] = "rename" \/ Present' \subseteq Present
  PROVE  CapInv'
<1>1. At("list")' = At("list") /\ At("evict")' = At("evict")
  BY DEF At
<1>2. \A o \in Tasks \ {t} : Tmp(o)' = Tmp(o)
  BY DEF Tmp
<1>3. ASSUME NEW f \in Lasting' PROVE f \in Lasting
  <2>1. /\ f \in Present'
        /\ \A o \in At("rename")' : f # Tmp(o)'
        /\ \A o \in At("evict")' : f \notin doomed'[o]
    BY <1>3 DEF Lasting
  <2>2. \A o \in At("rename") : o \in At("rename")' /\ o # t /\ o \in Tasks
    BY DEF At
  <2>3. \A o \in At("evict") : o # t /\ o \in Tasks
    BY DEF At
  <2>4. f \in Present
    BY <2>1 DEF At
  <2>5. QED BY <1>1, <1>2, <2>1, <2>2, <2>3, <2>4 DEF Lasting
<1>4. QED BY <1>1, <1>3, CapKept

\* The same of a step that leaves every task where it is.
LEMMA CapStutter ==
  ASSUME HttpTypeOK, HttpTypeOK', CapInv,
         UNCHANGED <<fileOf, disk, at, url, doomed, lost>>
  PROVE  CapInv'
<1>1. At("list")' = At("list") /\ At("evict")' = At("evict") /\ At("rename")' = At("rename")
  BY DEF At
<1>2. Lasting' = Lasting
  BY <1>1 DEF Lasting, Present, Tmp
<1>3. QED BY <1>1, <1>2, CapKept

\* A task that leaves its listing for nothing has one file less to account for, and a fault.
LEMMA CapMissed ==
  ASSUME HttpTypeOK, HttpTypeOK', CapInv, NEW t \in Tasks, at[t] = "list", at'[t] # "list",
         \A o \in Tasks \ {t} : at'[o] = at[o], lost' = lost + 1, Lasting' \subseteq Lasting
  PROVE  CapInv'
<1>1. At("list")' = At("list") \ {t} /\ t \in At("list") /\ IsFiniteSet(At("list"))
      /\ Cardinality(At("list")) \in Nat /\ lost \in Nat
  BY FilesFinite DEF At, HttpTypeOK
<1>2. Cardinality(At("list")') = Cardinality(At("list")) - 1
  BY <1>1, FS_RemoveElement
<1>3. Cardinality({}) = 0 /\ {} \in SUBSET Paths
  BY FS_EmptySet
<1>4. Cardinality({}) + lost + Cardinality(At("list")) <= lost' + Cardinality(At("list")')
  BY <1>1, <1>2, <1>3
<1>5. QED BY <1>3, <1>4, CapBy

\* The end of a listing: what the task is to remove is as much as it saw over the cap.
LEMMA CapList ==
  ASSUME HttpTypeOK, HttpTypeOK', CapInv, NEW t \in Tasks, ListEntries(t) \/ ListFails(t)
  PROVE  CapInv'
<1>1. /\ at[t] = "list" /\ UNCHANGED <<world, disk>> /\ Present' = Present
      /\ at'[t] \in {"idle", "evict"}
      /\ \A o \in Tasks \ {t} : at'[o] = at[o] /\ url'[o] = url[o] /\ doomed'[o] = doomed[o]
  BY DEF ListEntries, ListFails, Present, Return, Go, HttpTypeOK, task
<1>2. /\ At("rename")' = At("rename") /\ At("evict") \subseteq At("evict")'
      /\ \A o \in At("rename") : Tmp(o)' = Tmp(o)
      /\ \A o \in At("evict") : doomed'[o] = doomed[o]
  BY <1>1 DEF At, Tmp, world
<1>3. Lasting' \subseteq Lasting
  BY <1>1, <1>2 DEF Lasting
<1>4. CASE Fault(1)
  BY <1>1, <1>3, <1>4, CapMissed DEF Fault
<1>5. CASE ~Fault(1)
  <2>1. lost' = 0
    BY <1>5 DEF ListEntries, ListFails
  <2> DEFINE excess == Cardinality(Present) - MaxEntries
  <2>2. \/ excess <= 0
        \/ \E s \in OldestEntries(Present, excess) : doomed' = [doomed EXCEPT ![t] = s] /\ Go(t, "evict")
    BY <1>5 DEF ListEntries, ListFails
  <2>3. /\ Present \in SUBSET Paths /\ Lasting' \in SUBSET Paths /\ At("list")' \in SUBSET Tasks
        /\ Cardinality(Present) \in Nat /\ Cardinality(Lasting') \in Nat
        /\ Cardinality(At("list")') \in Nat /\ MaxEntries \in Nat
    BY FilesFinite DEF Present, Lasting, At
  <2>4. \A X \in SUBSET Paths : Lasting' \subseteq X => Cardinality(Lasting') <= Cardinality(X)
    BY FilesFinite, FS_Subset
  <2>5. Cardinality(Lasting') <= MaxEntries
    <3>1. CASE excess <= 0
      <4>1. Lasting' \subseteq Present
        BY <1>1 DEF Lasting
      <4>2. QED BY <2>3, <2>4, <3>1, <4>1
    <3>2. ASSUME NEW s \in OldestEntries(Present, excess),
                 doomed' = [doomed EXCEPT ![t] = s], Go(t, "evict")
          PROVE  Cardinality(Lasting') <= MaxEntries
      <4>1. s \subseteq Present /\ Cardinality(s) = excess
        BY <3>2 DEF OldestEntries
      <4>2. at'[t] = "evict" /\ doomed'[t] = s
        BY <3>2 DEF Go, HttpTypeOK
      <4>3. Lasting' \subseteq Present \ s
        BY <1>1, <4>2 DEF Lasting, At
      <4>4. Cardinality(Present \ s) = Cardinality(Present) - Cardinality(Present \cap s)
        BY <2>3, FilesFinite, FS_Difference
      <4>5. Present \cap s = s
        BY <4>1
      <4>6. Cardinality(Present \ s) = Cardinality(Present) - Cardinality(s)
        BY <4>4, <4>5
      <4>7. Cardinality(Present \ s) = MaxEntries
        BY <2>3, <4>1, <4>6
      <4>8. QED BY <2>3, <2>4, <4>3, <4>7
    <3>3. QED BY <2>2, <3>1, <3>2
  <2>6. Cardinality(Lasting') <= MaxEntries + lost' + Cardinality(At("list")')
    BY <2>1, <2>3, <2>5
  <2>7. QED BY <2>6 DEF CapInv
<1>6. QED BY <1>4, <1>5

\* A removal: the file goes from the directory and from the list, or a fault accounts for it.
LEMMA CapEvict ==
  ASSUME HttpTypeOK, HttpTypeOK', CapInv, NEW t \in Tasks, EvictEntry(t)
  PROVE  CapInv'
<1>1. at[t] = "evict" /\ UNCHANGED fileOf
  BY DEF EvictEntry, world
<1>2. ASSUME NEW f \in doomed[t], doomed' = [doomed EXCEPT ![t] = @ \ {f}], UNCHANGED <<at, task>>,
             \/ Put(f, None) /\ UNCHANGED <<lost, faults>>
             \/ Fault(1) /\ UNCHANGED disk
      PROVE  CapInv'
  <2>1. /\ At("list")' = At("list") /\ At("evict")' = At("evict") /\ At("rename")' = At("rename")
        /\ \A o \in Tasks : Tmp(o)' = Tmp(o)
    BY <1>1, <1>2 DEF At, Tmp, task
  <2>2. \A o \in Tasks : doomed[o] \subseteq doomed'[o] \cup {f}
    BY <1>2 DEF HttpTypeOK
  <2>3. CASE Put(f, None) /\ UNCHANGED <<lost, faults>>
    <3>1. Present' = Present \ {f}
      BY <2>3 DEF Present, Put, HttpTypeOK
    <3>2. Lasting' \subseteq Lasting
      BY <2>1, <2>2, <3>1 DEF Lasting, At
    <3>3. QED BY <2>1, <2>3, <3>2, CapKept
  <2>4. CASE Fault(1) /\ UNCHANGED disk
    <3>1. Present' = Present /\ lost' = lost + 1
      BY <2>4 DEF Present, Fault
    <3>2. Lasting' \subseteq Lasting \cup {f}
      BY <2>1, <2>2, <3>1 DEF Lasting, At
    <3>3. {f} \in SUBSET Paths /\ Cardinality({f}) = 1
      BY FS_Singleton DEF HttpTypeOK
    <3>4. lost \in Nat /\ Cardinality(At("list")) \in Nat
      BY FilesFinite DEF At, HttpTypeOK
    <3>5. Cardinality({f}) + lost + Cardinality(At("list")) <= lost' + Cardinality(At("list")')
      BY <2>1, <3>1, <3>3, <3>4
    <3>6. QED BY <3>2, <3>3, <3>5, CapBy
  <2>5. QED BY <1>2, <2>3, <2>4
<1>3. ASSUME doomed[t] = {}, Return(t, got[t]), UNCHANGED <<disk, doomed, lost, faults>>
      PROVE  CapInv'
  <2>1. at'[t] = "idle" /\ \A o \in Tasks \ {t} : at'[o] = at[o] /\ url'[o] = url[o]
    BY <1>3 DEF Return, Go, HttpTypeOK
  <2>2. /\ At("list")' = At("list") /\ At("rename")' = At("rename")
        /\ At("evict") = At("evict")' \cup {t}
    BY <1>1, <2>1 DEF At
  <2>3. \A o \in At("rename") : Tmp(o)' = Tmp(o)
    BY <1>1, <2>1 DEF At, Tmp
  <2>4. Lasting' \subseteq Lasting
    BY <1>3, <2>2, <2>3 DEF Lasting, Present
  <2>5. QED BY <1>3, <2>2, <2>4, CapKept
<1>4. QED BY <1>2, <1>3 DEF EvictEntry

\* A rename adds the entry, and the task that is to count it.
LEMMA CapRename ==
  ASSUME HttpTypeOK, HttpTypeOK', CapInv, NEW t \in Tasks, RenameTmp(t)
  PROVE  CapInv'
<1>1. /\ at[t] = "rename" /\ at'[t] = "list" /\ \A o \in Tasks \ {t} : at'[o] = at[o]
      /\ UNCHANGED <<fileOf, url, doomed, lost>>
  BY DEF RenameTmp, Go, HttpTypeOK, world, task
<1>2. \E e : disk' = [disk EXCEPT ![Json(t)] = e, ![Tmp(t)] = None]
  BY DEF RenameTmp
<1>3. /\ At("list")' = At("list") \cup {t} /\ t \notin At("list")
      /\ At("evict")' = At("evict") /\ At("rename") = At("rename")' \cup {t}
  BY <1>1 DEF At
<1>4. Json(t) \in Paths /\ Tmp(t) \in Paths
  BY EntryType
<1>5. \A f \in Present' : f # Tmp(t) /\ (f = Json(t) \/ f \in Present)
  BY <1>2, <1>4 DEF Present, HttpTypeOK
<1>6. \A o \in Tasks : Tmp(o)' = Tmp(o)
  BY <1>1 DEF Tmp
<1>7. Lasting' \subseteq Lasting \cup {Json(t)}
  <2>1. ASSUME NEW f \in Lasting', f # Json(t) PROVE f \in Lasting
    <3>1. f \in Present /\ f # Tmp(t) /\ \A o \in At("evict") : f \notin doomed[o]
      BY <1>1, <1>3, <1>5, <2>1 DEF Lasting
    <3>2. \A o \in At("rename")' : f # Tmp(o)
      BY <1>6, <2>1 DEF Lasting, At
    <3>3. \A o \in At("rename") : f # Tmp(o)
      BY <1>3, <3>1, <3>2
    <3>4. QED BY <3>1, <3>3 DEF Lasting
  <2>2. QED BY <2>1
<1>8. /\ Cardinality(At("list")) \in Nat /\ lost \in Nat
      /\ Cardinality(At("list")') = Cardinality(At("list")) + 1
  <2>1. At("list") \in SUBSET Tasks
    BY DEF At
  <2>2. QED BY <1>3, <2>1, FilesFinite, FS_AddElement DEF HttpTypeOK
<1>9. Cardinality({Json(t)}) = 1 /\ {Json(t)} \in SUBSET Paths
  BY <1>4, FS_Singleton
<1>10. Cardinality({Json(t)}) + lost + Cardinality(At("list")) <= lost' + Cardinality(At("list")')
  BY <1>1, <1>8, <1>9
<1>11. QED BY <1>7, <1>9, <1>10, CapBy

\* A killed task leaves its temporary file, or does not count, or does not remove.
LEMMA CapKill ==
  ASSUME HttpTypeOK, HttpTypeOK', CapInv, NEW t \in Tasks, Kill(t)
  PROVE  CapInv'
<1>1. /\ at[t] \in {"rename", "list", "evict"} /\ at'[t] = "idle"
      /\ lost' = lost + IF at[t] = "evict" THEN Cardinality(doomed[t]) ELSE 1
      /\ UNCHANGED <<fileOf, disk>>
      /\ \A o \in Tasks \ {t} : at'[o] = at[o] /\ url'[o] = url[o] /\ doomed'[o] = doomed[o]
  BY DEF Kill, Fault, Return, Go, HttpTypeOK, world
<1>2. /\ Present' = Present
      /\ At("rename")' = At("rename") \ {t}
      /\ At("list")' = At("list") \ {t} /\ At("evict")' = At("evict") \ {t}
  BY <1>1 DEF At, Present
<1>3. /\ \A o \in At("rename") \ {t} : Tmp(o)' = Tmp(o)
      /\ \A o \in At("evict") \ {t} : doomed'[o] = doomed[o]
  BY <1>1 DEF Tmp, At
<1>4. /\ Cardinality(At("list")) \in Nat /\ lost \in Nat /\ doomed[t] \in SUBSET Paths
      /\ Cardinality(doomed[t]) \in Nat
  BY FilesFinite DEF At, HttpTypeOK
<1>5. CASE at[t] = "list"
  <2>1. t \notin At("rename") /\ t \notin At("evict")
    BY <1>5 DEF At
  <2>2. Lasting' \subseteq Lasting
    BY <1>2, <1>3, <2>1 DEF Lasting
  <2>3. QED BY <1>1, <1>5, <2>2, CapMissed
<1>6. ASSUME NEW X \in SUBSET Paths, at[t] # "list", Lasting' \subseteq Lasting \cup X,
             lost' = lost + Cardinality(X)
      PROVE  CapInv'
  <2>1. At("list")' = At("list")
    BY <1>1, <1>6 DEF At
  <2>2. Cardinality(X) \in Nat
    BY FilesFinite
  <2>3. Cardinality(X) + lost + Cardinality(At("list")) <= lost' + Cardinality(At("list")')
    BY <1>4, <1>6, <2>1, <2>2
  <2>4. QED BY <1>6, <2>3, CapBy
<1>7. CASE at[t] = "rename"
  <2>1. t \notin At("evict") /\ {Tmp(t)} \in SUBSET Paths /\ Cardinality({Tmp(t)}) = 1
    BY <1>7, EntryType, FS_Singleton DEF At
  <2>2. Lasting' \subseteq Lasting \cup {Tmp(t)}
    BY <1>2, <1>3, <2>1 DEF Lasting
  <2>3. QED BY <1>1, <1>6, <1>7, <2>1, <2>2
<1>8. CASE at[t] = "evict"
  <2>1. t \notin At("rename")
    BY <1>8 DEF At
  <2>2. Lasting' \subseteq Lasting \cup doomed[t]
    BY <1>2, <1>3, <2>1 DEF Lasting
  <2>3. QED BY <1>1, <1>4, <1>6, <1>8, <2>2
<1>9. QED BY <1>1, <1>5, <1>7, <1>8

LEMMA CapStep ==
  ASSUME HttpTypeOK, HttpTypeOK', CapInv, [HttpNext]_httpVars
  PROVE  CapInv'
<1> USE DEF world, task, bounds
<1>1. CASE Tick \/ Publish \/ UNCHANGED httpVars
  BY <1>1, CapStutter DEF Tick, Publish, httpVars
<1>2. ASSUME NEW t \in Tasks,
             (\E u \in Urls : Begin(t, u)) \/ SendFails(t) \/ Refused(t) \/ NotModified(t) \/ Modified(t)
      PROVE  CapInv'
  <2>1. UNCHANGED <<fileOf, disk, doomed, lost>> /\ Present' = Present
    BY <1>2 DEF Begin, SendFails, Refused, NotModified, Modified, Present
  <2>2. /\ at[t] \in {"idle", "send", "bypass"} /\ at'[t] \in {"idle", "send", "bypass", "write"}
        /\ \A o \in Tasks \ {t} : at'[o] = at[o] /\ url'[o] = url[o]
    <3>1. CASE \E u \in Urls : Begin(t, u)
      BY <3>1 DEF Begin, Go, HttpTypeOK
    <3>2. CASE SendFails(t) \/ Refused(t)
      BY <3>2 DEF SendFails, Refused, Sending, Return, Go, HttpTypeOK
    <3>3. CASE NotModified(t) \/ Modified(t)
      BY <3>3 DEF NotModified, Modified, Sending, Return, Go, HttpTypeOK
    <3>4. QED BY <1>2, <3>1, <3>2, <3>3
  <2>3. QED BY <2>1, <2>2, CapQuiet
<1>3. ASSUME NEW t \in Tasks, WriteTmp(t) \/ WriteTmpFails(t) PROVE CapInv'
  <2>1. /\ at[t] = "write" /\ UNCHANGED <<fileOf, doomed, lost>> /\ at'[t] \in {"idle", "rename"}
        /\ \A o \in Tasks \ {t} : at'[o] = at[o] /\ url'[o] = url[o]
    BY <1>3 DEF WriteTmp, WriteTmpFails, Return, Go, HttpTypeOK
  <2>2. CASE WriteTmp(t)
    <3>1. /\ at'[t] = "rename" /\ Tmp(t)' = Tmp(t)
          /\ Present' \subseteq Present \cup {Tmp(t)}
      BY <2>2, EntryType DEF WriteTmp, Put, Go, HttpTypeOK, Present, Tmp
    <3>2. QED BY <2>1, <3>1, CapQuiet
  <2>3. CASE WriteTmpFails(t)
    <3>1. Present' \subseteq Present
      BY <2>3, EntryType DEF WriteTmpFails, Put, HttpTypeOK, Present
    <3>2. QED BY <2>1, <3>1, CapQuiet
  <2>4. QED BY <1>3, <2>2, <2>3
<1>4. ASSUME NEW t \in Tasks, RenameTmpFails(t) PROVE CapInv'
  <2>1. /\ at[t] = "rename" /\ at'[t] = "idle" /\ UNCHANGED <<fileOf, disk, doomed, lost>>
        /\ \A o \in Tasks \ {t} : at'[o] = at[o] /\ url'[o] = url[o]
    BY <1>4 DEF RenameTmpFails, Return, Go, HttpTypeOK
  <2>2. Tmp(t) \notin Present /\ Present' = Present
    BY <1>4 DEF RenameTmpFails, Present
  <2>3. /\ At("list")' = At("list") /\ At("evict")' = At("evict")
        /\ At("rename") = At("rename")' \cup {t}
    BY <2>1 DEF At
  <2>4. \A o \in At("rename")' : Tmp(o)' = Tmp(o)
    BY <2>1 DEF At, Tmp
  <2>5. Lasting' \subseteq Lasting
    BY <2>1, <2>2, <2>3, <2>4 DEF Lasting, At
  <2>6. QED BY <2>1, <2>3, <2>5, CapKept
<1>5. ASSUME NEW t \in Tasks, Clear(t) \/ PruneRead(t) \/ PruneRemove(t) PROVE CapInv'
  <2>1. /\ at[t] \in {"idle", "prune"} /\ at'[t] \in {"idle", "prune"}
        /\ UNCHANGED <<fileOf, url, lost>>
        /\ \A o \in Tasks \ {t} : at'[o] = at[o] /\ doomed'[o] = doomed[o]
    BY <1>5 DEF Clear, PruneRead, PruneRemove, Go, HttpTypeOK
  <2>2. Present' \subseteq Present
    BY <1>5 DEF Clear, PruneRead, PruneRemove, Present, HttpTypeOK
  <2>3. QED BY <2>1, <2>2, CapQuiet
<1>6. QED
  BY <1>1, <1>2, <1>3, <1>4, <1>5, CapList, CapEvict, CapRename, CapKill DEF HttpNext

-----------------------------------------------------------------------------
(* The initial states and the theorems *)

LEMMA HttpInitially == HttpInit => HttpInv
<1> SUFFICES ASSUME HttpInit PROVE HttpInv
  OBVIOUS
<1>1. SomeUrl \in Urls
  BY DEF SomeUrl
<1>2. ~IsEntry(None)
  BY DEF IsEntry, None
<1>3. HttpTypeOK
  BY <1>1 DEF HttpInit, HttpTypeOK, Contents, Busy, NotBegun
<1>4. FreshInv
  BY <1>2 DEF HttpInit, FreshInv, AnswerFresh, Busy, NotBegun
<1>5. CapInv
  <2>1. At("list") = {} /\ Lasting = {} /\ lost = 0
    BY DEF HttpInit, At, Lasting, Present
  <2>2. QED BY <2>1, FS_EmptySet DEF CapInv
<1>6. QED BY <1>3, <1>4, <1>5 DEF HttpInv

\* In every state of the metadata cache the variables have their types, what is in hand is
\* fresh and what stays is within the cap, with what the tasks have still to do.
THEOREM HttpInvariance == HttpSpec => []HttpInv
<1>1. HttpInv /\ [HttpNext]_httpVars => HttpInv'
  BY HttpTypeStep, FreshStep, CapStep DEF HttpInv
<1>2. QED BY HttpInitially, <1>1, PTL DEF HttpSpec

\* conditional_fetch_json: whatever other tasks store, evict or clear, an answer is of the
\* URL that was asked for, was fetched less than MAX_AGE_SECS before the call, and from an
\* honest server is not older than what it had when the call began.
THEOREM AnswersAreFresh == HttpSpec => []AnswerFresh
<1>1. HttpInv => AnswerFresh
  BY DEF HttpInv, FreshInv
<1>2. QED BY HttpInvariance, <1>1, PTL

\* evict_if_over_cap: when every task has ended its eviction the directory is within
\* MAX_ENTRIES, but for what failures and kills since the last complete listing left.
THEOREM CapIsHeld == HttpSpec => []CapHolds
<1>1. HttpInv => CapHolds
  <2> SUFFICES ASSUME HttpInv, \A t \in Tasks : at[t] \notin {"rename", "list", "evict"}
               PROVE  Cardinality(Present) <= MaxEntries + lost
    BY DEF CapHolds
  <2>1. At("rename") = {} /\ At("list") = {} /\ At("evict") = {}
    BY DEF At
  <2>2. Lasting = Present
    BY <2>1 DEF Lasting
  <2>3. Cardinality({}) = 0 /\ lost \in Nat /\ MaxEntries \in Nat
    BY FS_EmptySet DEF HttpInv, HttpTypeOK
  <2>4. Cardinality(Present) <= MaxEntries + lost + 0
    BY <2>1, <2>2, <2>3 DEF HttpInv, CapInv
  <2>5. QED BY <2>3, <2>4
<1>2. QED BY HttpInvariance, <1>1, PTL
=============================================================================
