------------------------- MODULE DependencyClosure -------------------------
(***************************************************************************)
(* What DependencyResolver::resolve promises, with no queues and no order  *)
(* of traversal: the answer is the closure of the root under the declared  *)
(* dependencies.  A mod is taken as required exactly when a chain of       *)
(* required dependencies leads to it, no optional mod is taken while a     *)
(* required one is still owed, and the call ends well only when everything *)
(* owed has been taken, given up (optional) or was never listed.           *)
(***************************************************************************)
EXTENDS Sequences, FiniteSets

CONSTANTS Keys, Root, Canon, SelfNames, Catalogs

VARIABLES
  deps,      \* the providers' dependency lists (never changes)
  taken,     \* taken[m]: "none", "required" or "optional"
  unlisted,  \* mods whose dependency list could not be read
  dropped,   \* optional keys given up
  outcome    \* "none", "ok" or "failed"

avars == <<deps, taken, unlisted, dropped, outcome>>

\* The demands [key, kind] a taken mod makes, once its own kind is known.
DemandsOf(m, kind) ==
  {[key |-> d.key, kind |-> IF kind = "optional" THEN "optional" ELSE d.kind] :
     d \in {deps[m][i] : i \in DOMAIN deps[m]} \
           {x \in {deps[m][i] : i \in DOMAIN deps[m]} :
              x.key \in SelfNames[m] \/ x.kind \in {"embedded", "incompatible"}}}

\* Everything demanded so far, the root included.
Demands ==
  {[key |-> Root, kind |-> "required"]} \cup
  UNION {DemandsOf(m, taken[m]) : m \in {x \in Keys : taken[x] # "none" /\ x \notin unlisted}}

Met(d) == taken[Canon[d.key]] # "none"

RequiredMet == \A d \in Demands : d.kind = "required" => Met(d)

AInit ==
  /\ deps \in Catalogs
  /\ taken = [m \in Keys |-> "none"]
  /\ unlisted = {}
  /\ dropped = {}
  /\ outcome = "none"

\* A demanded mod is taken, with the kind of a demand that is met now; an optional
\* one only once every required demand has been met.
Take(d) ==
  /\ outcome = "none"
  /\ ~Met(d)
  /\ d.kind = "optional" => RequiredMet
  /\ taken' = [taken EXCEPT ![Canon[d.key]] = d.kind]
  /\ UNCHANGED <<deps, unlisted, dropped, outcome>>

GiveUp(d) ==
  /\ outcome = "none"
  /\ d.kind = "optional"
  /\ RequiredMet
  /\ dropped' = dropped \cup {d.key}
  /\ UNCHANGED <<deps, taken, unlisted, outcome>>

Fail(d) ==
  /\ outcome = "none"
  /\ d.kind = "required"
  /\ outcome' = "failed"
  /\ UNCHANGED <<deps, taken, unlisted, dropped>>

\* The demands of a taken mod become unknown.
Unlist(m) ==
  /\ outcome = "none"
  /\ taken[m] # "none"
  /\ unlisted' = unlisted \cup {m}
  /\ UNCHANGED <<deps, taken, dropped, outcome>>

Answer ==
  /\ outcome = "none"
  /\ \A d \in Demands : Met(d) \/ (d.kind = "optional" /\ d.key \in dropped)
  /\ outcome' = "ok"
  /\ UNCHANGED <<deps, taken, unlisted, dropped>>

ANext ==
  \/ \E d \in Demands : Take(d) \/ GiveUp(d) \/ Fail(d)
  \/ \E m \in Keys : Unlist(m)
  \/ Answer

\* What may happen, and what must.
ASafety == AInit /\ [][ANext]_avars

ASpec == ASafety /\ WF_avars(Answer)
=============================================================================
