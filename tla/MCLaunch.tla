------------------------------ MODULE MCLaunch ------------------------------
(***************************************************************************)
(* Two mods whose names give one slug, two releases, two launches.         *)
(***************************************************************************)
EXTENDS Launch

MCSlug == [m \in Mods |-> "s"]
=============================================================================
