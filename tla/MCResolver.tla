---------------------------- MODULE MCResolver ----------------------------
(***************************************************************************)
(* What a command asks of remote services: the dependencies of a mod, and  *)
(* a token for the Microsoft account.  They share no state; the account is *)
(* explored after the shortest walk.                                       *)
(*                                                                         *)
(* Every dependency graph over three mods r, a and b, b also known by the  *)
(* project id B: r lists up to two dependencies, a up to two and b one.    *)
(* Two processes with one auth.json, three commands and one kill.          *)
(***************************************************************************)
EXTENDS Resolver, Auth

CONSTANTS r, a, b, B

VARIABLE part

MCCanon == [k \in Keys |-> IF k = B THEN b ELSE k]

MCSelfNames == [k \in Keys |-> IF k = b THEN {b, B} ELSE {k}]

Lists(keys, kinds, max) ==
  UNION {[1..n -> [key : keys, kind : kinds]] : n \in 0..max}

MCCatalogs ==
  LET soft == {"required", "optional"}
      rLists == Lists({a, b}, soft, 2)
      aLists == Lists({r, B}, soft, 2) \cup Lists({a, b}, Kinds, 1)
      bLists == Lists({r, a}, soft, 1)
  IN  {[k \in Keys |-> CASE k = r -> lr [] k = a -> la [] k = b -> lb [] OTHER -> <<>>] :
         lr \in rLists, la \in aLists, lb \in bLists}

\* The account is used once the walk over a mod without dependencies is over.
MCInit ==
  /\ Init /\ AuthInit
  /\ part \in {"dependencies", "account"}
  /\ part = "dependencies" => policy = "same" /\ stored.refresh = NoToken
  /\ part = "account" => \A k \in Keys : deps[k] = <<>>

Resolve == Next /\ UNCHANGED <<part, authVars>>
UseAccount ==
  /\ part = "account" /\ outcome = "ok" /\ unlisted = {}
  /\ AuthNext
  /\ UNCHANGED <<part, vars>>
MCNext == Resolve \/ UseAccount
MCSpec == MCInit /\ [][MCNext]_<<part, vars, authVars>> /\ Fairness /\ AuthFairness
=============================================================================
