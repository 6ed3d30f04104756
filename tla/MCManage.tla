------------------------------ MODULE MCManage ------------------------------
(***************************************************************************)
(* Two mods on the list, a of CurseForge without an API key, so without a  *)
(* provider, and b of Modrinth.  a needs the b of CurseForge, whose id is  *)
(* the same, and b needs the a of Modrinth.  To install is thus to be      *)
(* asked to update b, to be asked to replace a, or to add what was removed *)
(* from the list before.                                                   *)
(***************************************************************************)
EXTENDS Manage, TLC

CONSTANTS a, b, a1, a2, b1, b2, x, y,
          cfA, mrA, cfB, mrB  \* sources

MCItems == {a, b}

MCSources == {cfA, mrA, cfB, mrB}

MCSlugOf == cfA :> a @@ mrA :> a @@ cfB :> b @@ mrB :> b

\* source_id: a slug on Modrinth and CurseForge for b, a number for a.
MCIdOf == cfA :> 1 @@ mrA :> 2 @@ cfB :> 3 @@ mrB :> 3

MCFinds == [s \in MCSources |-> {s}]

MCVersionsOf ==
  cfA :> {a1} @@ mrA :> {a2} @@ cfB :> {b1} @@ mrB :> {b1, b2}

Record(source, version, deps) ==
  [source |-> source, version |-> version, env |-> x, description |-> x,
   categories |-> x, deps |-> deps]

MCStart == a :> Record(cfA, a1, {<<b, cfB>>})
             @@ b :> Record(mrB, b1, {<<a, mrA>>})

MCValues == {x, y}

MCAll == {a, b}

MCSome == {b}
=============================================================================
