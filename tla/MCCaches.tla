------------------------------ MODULE MCCaches ------------------------------
(***************************************************************************)
(* The cache directory and the HTTP metadata cache.  They share no state   *)
(* (`cache clean` neither counts nor removes http-meta/), so a behaviour   *)
(* that uses one of them says all there is to say about it.                *)
(***************************************************************************)
EXTENDS Caches, HttpMeta, TLC

VARIABLE part

MCSizeOf == [f \in Files |-> IF f \in {"j2", "l1"} THEN 2 ELSE 1]
MCDirOf == [f \in Games \cup Loaders |-> IF f = "l1" THEN "fabric" ELSE "1.21"]

\* Two URLs of one file name (with an honest server) or of two (with one that
\* is not).
MCHashes == {[u \in Urls |-> "x"], [u \in Urls |-> IF u = "a" THEN "x" ELSE "y"]}

MCVars == <<cacheVars, httpVars, part>>
MCInit == CacheInit /\ HttpInit /\ part \in {"jars", "http"}
          /\ (honest <=> fileOf["b"] = "x")
          /\ (part = "jars" => honest)
UseCaches == part = "jars" /\ CacheNext /\ UNCHANGED <<httpVars, part>>
UseHttpMeta == part = "http" /\ HttpNext /\ UNCHANGED <<cacheVars, part>>
MCNext == UseCaches \/ UseHttpMeta
MCSpec == MCInit /\ [][MCNext]_MCVars

MCSymmetry == Permutations(Procs) \cup Permutations(Tasks)
=============================================================================
