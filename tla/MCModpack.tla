------------------------------ MODULE MCModpack ------------------------------
(***************************************************************************)
(* Four projects: "a" is a mod whose releases need "b", which has a raw    *)
(* id that is no slug, and offer the resource pack "r", whose title is the *)
(* slug of "b"; "u" is a mod from a URL that has that slug too.  An        *)
(* archive lists "a" and a file named like "b".                            *)
(***************************************************************************)
EXTENDS Modpack

MCProjects == {"a", "b", "r", "u"}
MCNames == {"a", "b", "r", "ID_B", "id_b", "url"}
MCSlugOf == [p \in MCProjects |-> IF p = "u" THEN "b" ELSE p]
MCSidOf == [p \in MCProjects |-> IF p = "u" THEN "url" ELSE p]
MCRawOf == [p \in MCProjects |-> CASE p = "u" -> "url" [] p = "b" -> "ID_B" [] OTHER -> p]
MCTitleOf == [p \in MCProjects |-> IF p \in {"r", "u"} THEN "b" ELSE p]
MCSlugify == [n \in MCNames |-> IF n = "ID_B" THEN "id_b" ELSE n]
MCApi == {"a", "b", "r"}
MCDepsOf == [p \in MCProjects |-> [v \in 1 .. MaxRelease |->
  IF p # "a" THEN {}
  ELSE {[to |-> "b", kind |-> "required"], [to |-> "r", kind |-> "optional"]}]]
MCFiles == {[project |-> "a", stem |-> "a"], [project |-> "u", stem |-> "b"]}
=============================================================================
