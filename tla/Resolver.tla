------------------------------ MODULE Resolver ------------------------------
(***************************************************************************)
(* DependencyResolver::resolve (services/resolver.rs): the breadth-first   *)
(* walk over the mods a mod depends on, with a queue of required and a     *)
(* queue of optional dependencies.                                         *)
(*                                                                         *)
(* A key is a ModIdentity: the identifier and source under which somebody  *)
(* asks for a mod.  Several keys may name one mod (a slug and a raw        *)
(* project id); Canon gives the key the provider answers with.  What the   *)
(* providers hold is the variable `deps`, chosen once.  A call to a        *)
(* provider is one step and may fail at any time.                          *)
(*                                                                         *)
(* Abstracted: the metadata copied into ResolvedMod (name, url, version,   *)
(* required_by); the version requirement of an entry, which this code      *)
(* never sets; the reason of a failed lookup.                              *)
(***************************************************************************)
EXTENDS Naturals, Sequences, FiniteSets

CONSTANTS
  Keys,       \* every ModIdentity that can be asked for
  Root,       \* the key the user asked for
  Canon,      \* Canon[k]: the identity the provider returns for k
  SelfNames,  \* SelfNames[m]: keys whose mod_id is m's mod_id or source_id
  Catalogs    \* the possible dependency lists: functions Keys -> Seq(Dep)

Kinds == {"required", "optional", "embedded", "incompatible"}

\* A dependency as a provider lists it, `source` already defaulted to the parent's.
Dep == [key : Keys, kind : Kinds]

ASSUME ResolverAssumption ==
  /\ Root \in Keys
  /\ Canon \in [Keys -> Keys]
  /\ \A k \in Keys : Canon[Canon[k]] = Canon[k]
  /\ SelfNames \in [Keys -> SUBSET Keys]
  /\ \A k \in Keys : Canon[k] \in SelfNames[Canon[k]]
  /\ Catalogs \subseteq [Keys -> Seq(Dep)]

VARIABLES
  deps,      \* the providers' dependency lists (never changes)
  required,  \* queue of entries that must resolve
  optional,  \* queue of entries that may fail
  resolved,  \* HashSet of every key and canonical key seen
  result,    \* the Vec<ResolvedMod> being built
  pc,        \* "pop", "fetch", "list", "enqueue" or "done"
  entry,     \* the entry being processed
  todo,      \* dependencies of the last result not yet looked at
  outcome,   \* "none", then "ok", "failed" or "cycle"
  unlisted,  \* (history) mods in result whose dependency list could not be read
  dropped    \* (history) optional keys given up because their lookup failed

vars == <<deps, required, optional, resolved, result, pc, entry, todo, outcome,
          unlisted, dropped>>

QueueEntry == [key : Keys, kind : Kinds, ancestors : SUBSET Keys]

ResolvedMod == [mod : Keys, kind : Kinds]

RootEntry == [key |-> Root, kind |-> "required", ancestors |-> {}]

\* The mod whose dependencies are being listed or queued.
Parent == result[Len(result)]

TypeOK ==
  /\ deps \in [Keys -> Seq(Dep)]
  /\ required \in Seq(QueueEntry)
  /\ optional \in Seq(QueueEntry)
  /\ resolved \in SUBSET Keys
  /\ result \in Seq(ResolvedMod)
  /\ pc \in {"pop", "fetch", "list", "enqueue", "done"}
  /\ entry \in QueueEntry
  /\ todo \in Seq(Dep)
  /\ outcome \in {"none", "ok", "failed", "cycle"}
  /\ unlisted \in SUBSET Keys
  /\ dropped \in SUBSET Keys
  /\ pc \in {"list", "enqueue"} => Len(result) > 0

Init ==
  /\ deps \in Catalogs
  /\ required = <<RootEntry>>
  /\ optional = <<>>
  /\ resolved = {}
  /\ result = <<>>
  /\ pc = "pop"
  /\ entry = RootEntry
  /\ todo = <<>>
  /\ outcome = "none"
  /\ unlisted = {}
  /\ dropped = {}
-----------------------------------------------------------------------------
\* What becomes of the entry just taken from a queue: a key already resolved is
\* dropped, a key among the entry's ancestors is a cycle, any other is looked up.
Examine(e) ==
  LET verdict == IF e.key \in resolved THEN "pop"
                 ELSE IF e.key \in e.ancestors THEN "done"
                 ELSE "fetch"
  IN  /\ entry' = e
      /\ pc' = verdict
      /\ outcome' = IF verdict = "done" THEN "cycle" ELSE outcome

\* Faulty variant: the optional queue is served first.
PopOptionalFirst ==
  /\ pc = "pop"
  /\ \/ /\ optional # <<>>
        /\ optional' = Tail(optional)
        /\ UNCHANGED required
        /\ Examine(Head(optional))
     \/ /\ optional = <<>>
        /\ required # <<>>
        /\ required' = Tail(required)
        /\ UNCHANGED optional
        /\ Examine(Head(required))
  /\ UNCHANGED <<deps, resolved, result, todo, unlisted, dropped>>

\* Faulty variant: the head of the required queue is read and left in place.
PopPeek ==
  /\ pc = "pop"
  /\ required # <<>>
  /\ Examine(Head(required))
  /\ UNCHANGED <<deps, required, optional, resolved, result, todo, unlisted, dropped>>

\* One turn of the loop: the required queue is drained before the optional one.
Pop ==
  /\ pc = "pop"
  /\ \/ /\ required # <<>>
        /\ required' = Tail(required)
        /\ UNCHANGED optional
        /\ Examine(Head(required))
     \/ /\ required = <<>>
        /\ optional # <<>>
        /\ optional' = Tail(optional)
        /\ UNCHANGED required
        /\ Examine(Head(optional))
  /\ UNCHANGED <<deps, resolved, result, todo, unlisted, dropped>>

\* Both queues are empty: the result is returned.
Finish ==
  /\ pc = "pop"
  /\ required = <<>>
  /\ optional = <<>>
  /\ pc' = "done"
  /\ outcome' = "ok"
  /\ UNCHANGED <<deps, required, optional, resolved, result, entry, todo, unlisted, dropped>>

\* resolve_mod succeeds.  A mod already reached under another key only gains this
\* key; a new one joins the result, and its dependencies are asked for next unless
\* the entry is of the embedded kind.
FetchOk ==
  /\ pc = "fetch"
  /\ LET mod == Canon[entry.key]
         new == mod \notin resolved
     IN  /\ resolved' = resolved \cup {entry.key, mod}
         /\ result' = IF new THEN Append(result, [mod |-> mod, kind |-> entry.kind])
                             ELSE result
         /\ pc' = IF new /\ entry.kind # "embedded" THEN "list" ELSE "pop"
  /\ UNCHANGED <<deps, required, optional, entry, todo, outcome, unlisted, dropped>>

\* Faulty variant: a failed lookup is forgiven whatever the kind of the entry.
FetchErrForgiven ==
  /\ pc = "fetch"
  /\ pc' = "pop"
  /\ dropped' = dropped \cup {entry.key}
  /\ UNCHANGED <<deps, required, optional, resolved, result, entry, todo, outcome, unlisted>>

\* resolve_mod fails: fatal for a required entry, otherwise the entry is forgotten.
FetchErr ==
  /\ pc = "fetch"
  /\ IF entry.kind = "required"
     THEN /\ pc' = "done"
          /\ outcome' = "failed"
          /\ UNCHANGED dropped
     ELSE /\ pc' = "pop"
          /\ dropped' = dropped \cup {entry.key}
          /\ UNCHANGED outcome
  /\ UNCHANGED <<deps, required, optional, resolved, result, entry, todo, unlisted>>

\* The provider lists the dependencies of the mod just added.
ListOk ==
  /\ pc = "list"
  /\ todo' = deps[Parent.mod]
  /\ pc' = "enqueue"
  /\ UNCHANGED <<deps, required, optional, resolved, result, entry, outcome, unlisted, dropped>>

\* The list (or the version it belongs to) cannot be had: the error is logged and
\* swallowed, for a required mod too.
ListErr ==
  /\ pc = "list"
  /\ pc' = "pop"
  /\ unlisted' = unlisted \cup {Parent.mod}
  /\ UNCHANGED <<deps, required, optional, resolved, result, entry, todo, outcome, dropped>>

\* A dependency that is never queued: the mod itself, a bundled or a conflicting one.
Ignored(mod, d) ==
  \/ d.key \in SelfNames[mod]
  \/ d.kind \in {"embedded", "incompatible"}

\* The children of an optional mod are optional whatever the provider says.
EffectiveKind(parentKind, kind) ==
  IF parentKind = "optional" THEN "optional" ELSE kind

\* One dependency of the list is looked at and queued on the queue of its kind.
Enqueue ==
  /\ pc = "enqueue"
  /\ todo # <<>>
  /\ todo' = Tail(todo)
  /\ LET d == Head(todo)
         e == [key |-> d.key, kind |-> EffectiveKind(Parent.kind, d.kind),
               ancestors |-> entry.ancestors \cup {entry.key, Parent.mod}]
     IN  IF Ignored(Parent.mod, d)
         THEN UNCHANGED <<required, optional>>
         ELSE IF e.kind = "required"
         THEN required' = Append(required, e) /\ UNCHANGED optional
         ELSE optional' = Append(optional, e) /\ UNCHANGED required
  /\ UNCHANGED <<deps, resolved, result, pc, entry, outcome, unlisted, dropped>>

EnqueueDone ==
  /\ pc = "enqueue"
  /\ todo = <<>>
  /\ pc' = "pop"
  /\ UNCHANGED <<deps, required, optional, resolved, result, entry, todo, outcome,
                 unlisted, dropped>>

Next ==
  \/ Pop
  \/ Finish
  \/ FetchOk
  \/ FetchErr
  \/ ListOk
  \/ ListErr
  \/ Enqueue
  \/ EnqueueDone

\* The future is polled to completion and every provider call returns (the HTTP
\* client has a timeout), so the loop never stops for ever in the middle.
Fairness == WF_vars(Next)

Spec == Init /\ [][Next]_vars /\ Fairness
-----------------------------------------------------------------------------
ResultMods == {result[i].mod : i \in DOMAIN result}

KindOf(m) ==
  IF m \in ResultMods
  THEN result[CHOOSE i \in DOMAIN result : result[i].mod = m].kind
  ELSE "none"

\* The dependencies of m that count, as [key, kind].
LiveDeps(m) == {d \in {deps[m][i] : i \in DOMAIN deps[m]} : ~Ignored(m, d)}

\* The mods every correct answer must hold as required: those in every set that has
\* the root and is closed under the required dependencies of the listed mods.
Mandatory ==
  LET closed(S) ==
        \A m \in S \ unlisted :
          \A d \in LiveDeps(m) : d.kind = "required" => Canon[d.key] \in S
  IN  {m \in Keys : \A S \in SUBSET Keys : Canon[Root] \in S /\ closed(S) => m \in S}

\* The comment before the cycle check says a key that is an ancestor but already
\* resolved is a shared dependency.  Every ancestor is resolved before its children
\* are queued, so mutual and longer cycles never end the walk in CircularDependency.
NoCycleError == outcome # "cycle"

\* "Required deps are dequeued before optional ones": once an optional mod is in the
\* result no required entry can show up any more, so no mod that is really required
\* is ever recorded (and prompted for) as an optional one.
RequiredFirst ==
  (\E i \in DOMAIN result : result[i].kind = "optional") =>
    /\ required = <<>>
    /\ \A i \in 1..Len(result) - 1 :
         result[i].kind = "optional" => result[i + 1].kind = "optional"

\* A mod asked for by slug, by project id or by several parents is in the result once.
NoDuplicate ==
  \A i, j \in DOMAIN result : result[i].mod = result[j].mod => i = j

\* An answer marks as required exactly the mods a chain of required dependencies
\* leads to: none is missing, and none is an optional branch in disguise.
KindsExact ==
  outcome = "ok" => {m \in ResultMods : KindOf(m) = "required"} = Mandatory

\* The walk ends on every dependency graph, cyclic ones too.
Termination == <>(outcome # "none")

\* What the doc of resolve says: "Circular deps produce YammmError::CircularDependency".
\* Then no successful answer would hold mods that depend on each other in a circle.
CircularRejected ==
  outcome = "ok" =>
    \A S \in SUBSET ResultMods \ {{}} :
      \E m \in S : \A d \in LiveDeps(m) : Canon[d.key] \notin S

\* The walk implements the closure it stands for.
Closure == INSTANCE DependencyClosure WITH taken <- [m \in Keys |-> KindOf(m)]

ImplementsClosure == Closure!ASpec
=============================================================================
