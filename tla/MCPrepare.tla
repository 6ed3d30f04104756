----------------------------- MODULE MCPrepare -----------------------------
(***************************************************************************)
(* Two processes; a file of each treatment but three: the game's JAR, the  *)
(* libraries and the natives' JARs are looked for and hashed as a version  *)
(* library is, but fail at once; the natives and the launch arguments are  *)
(* written in place as a processor's output is, but looked for.            *)
(***************************************************************************)
EXTENDS Prepare

MCClass == [f \in Files |-> f]
MCModpacks == {[loader |-> "forge", side |-> "client"], [loader |-> "fabric", side |-> "server"]}
=============================================================================
