----------------------------- MODULE MCDownload -----------------------------
(***************************************************************************)
(* Two mods share one hash, so two tasks race for one JAR, and another has *)
(* no hash; one retry tells the first attempt from the last one.           *)
(***************************************************************************)
EXTENDS Download, TLC

CONSTANTS a, b, c, d, h1, h2, none

MCMods == {a, b, c, d}

MCHashes == {h1, h2}

MCHashOf == a :> h1 @@ b :> h1 @@ c :> h2 @@ d :> none
=============================================================================
