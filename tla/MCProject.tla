------------------------------ MODULE MCProject ------------------------------
(***************************************************************************)
(* What the user does to a project: `init` and `config`, with the files    *)
(* every command reads first; the release that `add` takes of a mod;       *)
(* `organize`, with its configuration files; and what `export` makes of    *)
(* it.  They share files only through config/ and modpack.toml, which      *)
(* Export lets anyone change, so they are explored one at a time.          *)
(***************************************************************************)
EXTENDS Organize, Export, Workspace, Versions, TLC

CONSTANT i3
VARIABLE part

\* What the client has written before the first organizer.
FirstRel == CHOOSE r \in Rels : TRUE
MCFirstFiles ==
  [s \in Sides |-> [r \in Rels |->
     IF s = "server" THEN NoFile ELSE IF r = FirstRel THEN 1 ELSE 2]]

\* Two items with one name.
MCPathIn == [f \in Formats |-> [i \in Items |-> IF i = i3 THEN "other" ELSE "same"]]

\* One pack inside another.
MCAbove == [d \in Dirs |-> IF d = "inner" THEN "pack" ELSE NoDir]
MCGames == {<<1, 21, 0>>, <<1, 21, 1>>}
Offer(l, g, n, s) ==
  [loader |-> l, game |-> g, number |-> n, stability |-> s, build |-> 2 - s]
MCPublished ==
  <<Offer("neoforge", <<1, 21, 1>>, <<21, 1, 9>>, 2),
    Offer("neoforge", <<1, 21, 1>>, <<21, 1, 10>>, 1),
    Offer("neoforge", <<1, 21, 0>>, <<21, 0, 8>>, 2),
    Offer("fabric", <<1, 21, 0>>, <<0, 16>>, 0),
    Offer("fabric", <<1, 21, 0>>, <<0, 15>>, 2)>>

\* Two and three parts, zeros of ^ and ~, a pre-release, and a text without digits.
Number(parts, pre) == [parts |-> parts, pre |-> pre]
MCNumbers ==
  {Number(<<1, 0>>, 0), Number(<<1, 0, 0>>, 0), Number(<<1, 5>>, 0), Number(<<1, 5, 0>>, 0),
   Number(<<1, 5, 0>>, 1), Number(<<0, 2, 3>>, 0), Number(<<0, 3, 0>>, 0),
   Number(<<0, 0, 3>>, 0), Number(<<>>, 0)}

MCInit ==
  /\ part \in {"organize", "export", "workspace", "versions"}
  /\ OrganizeInit /\ ExportInit /\ WorkspaceInit /\ VersionsInit
  /\ part # "versions" => source = "modrinth"

Organizing ==
  part = "organize" /\ OrganizeNext /\ UNCHANGED <<part, exportVars, workspaceVars, versionsVars>>
Exporting ==
  part = "export" /\ ExportNext /\ UNCHANGED <<part, organizeVars, workspaceVars, versionsVars>>
Working ==
  part = "workspace" /\ WorkspaceNext /\ UNCHANGED <<part, organizeVars, exportVars, versionsVars>>
Choosing ==
  part = "versions" /\ VersionsNext /\ UNCHANGED <<part, organizeVars, exportVars, workspaceVars>>
MCNext == Organizing \/ Exporting \/ Working \/ Choosing
MCSpec == MCInit /\ [][MCNext]_<<part, organizeVars, exportVars, workspaceVars, versionsVars>>

MCSymmetry == Permutations(Users) \cup Permutations(Procs)
=============================================================================
