------------------------- MODULE MCManifestWriter -------------------------
(***************************************************************************)
(* The manifest of the JAR cache and the write of the file it is kept in.  *)
(* They share no state, and a behaviour uses one of them.                  *)
(*                                                                         *)
(* One command and one download task.  Three changes let a touch come      *)
(* before, during and after a write; two calls let an answer be late.      *)
(*                                                                         *)
(* One writer of the file, and three versions of two, one and two blocks:  *)
(* a leftover temporary file may be longer than the version reusing it.    *)
(***************************************************************************)
EXTENDS ManifestWriter, AtomicWrite

CONSTANTS main, t1

VARIABLE part

MCUsers == {main, t1}
MCEvictors == {main}
MCSize == [v \in 1..MaxWrites |-> IF v % 2 = 1 THEN 2 ELSE 1]

MCInit ==
  /\ Init /\ AtomicInit
  /\ part \in {"manifest", "file"}

KeepManifest == part = "manifest" /\ Next /\ UNCHANGED <<part, atomicVars>>
WriteFile == part = "file" /\ AtomicNext /\ UNCHANGED <<part, vars>>
MCNext == KeepManifest \/ WriteFile
MCSpec == MCInit /\ [][MCNext]_<<part, vars, atomicVars>> /\ Fairness
=============================================================================
