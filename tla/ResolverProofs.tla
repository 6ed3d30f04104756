-------------------------- MODULE ResolverProofs ----------------------------
(***************************************************************************)
(* What holds of the dependency walk (module Resolver) for every set of    *)
(* keys, every alias relation and every dependency graph, of the choice of *)
(* a release (module Versions) for every set of numbers and any number of  *)
(* releases, of the files every command reads (module Workspace) for any   *)
(* processes, directories and games, and of the refresh token (module      *)
(* Auth) for any number of processes, tokens and attempts.                 *)
(*                                                                         *)
(* For the walk: type correctness, no cycle error, required mods before    *)
(* optional ones, no mod twice. For its answer two inductive invariants:   *)
(* every required entry or mod lies in every set that is closed under the  *)
(* lists read so far (Sound), and every required dependency read so far is *)
(* in the result or still on its way (Complete). From them and from        *)
(* Accounted, every step of the walk is a step of DependencyClosure or     *)
(* changes nothing there.                                                  *)
(*                                                                         *)
(* For a release: what ^ and ~ admit is an interval, whatever the zeros    *)
(* and the number of parts, and the release taken from a list lies in it.  *)
(*                                                                         *)
(* For the files: as long as no two commands have saved a file at once,    *)
(* whoever saves it owns its temporary file, and what he has read of it is *)
(* what was last asked of it unless someone has changed it meanwhile.      *)
(*                                                                         *)
(* For the token: what auth.json holds is what the server accepts, or its  *)
(* successor is on its way to the file, or lost.                           *)
(***************************************************************************)
EXTENDS Resolver, Auth, Versions, Workspace, SequenceTheorems, WellFoundedInduction, TLAPS

-----------------------------------------------------------------------------
(***************************************************************************)
(* The walk                                                                *)
(***************************************************************************)

\* Whatever waits or is being processed descends from keys already resolved.
AncestorsResolved ==
  /\ \A i \in DOMAIN required : required[i].ancestors \subseteq resolved
  /\ \A i \in DOMAIN optional : optional[i].ancestors \subseteq resolved
  /\ entry.ancestors \subseteq resolved
  /\ pc \in {"list", "enqueue"} => entry.key \in resolved /\ Parent.mod \in resolved
  /\ outcome # "cycle"

\* Each queue holds entries of its own kind, and the mod being expanded has the
\* kind of its entry.
QueueKinds ==
  /\ \A i \in DOMAIN required : required[i].kind = "required"
  /\ \A i \in DOMAIN optional : optional[i].kind = "optional"
  /\ entry.kind \in {"required", "optional"}
  /\ pc \in {"list", "enqueue"} => Parent.kind = entry.kind

\* Once an optional entry is looked up nothing required is left, and none comes.
OptionalPhase ==
  /\ pc = "fetch" /\ entry.kind = "optional" => required = <<>>
  /\ \A i \in DOMAIN result : result[i].kind = "optional" =>
       /\ required = <<>>
       /\ pc = "fetch" => entry.kind = "optional"
       /\ \A j \in i..Len(result) : result[j].kind = "optional"

\* Mods in the result are resolved keys, each once.
ResultResolved ==
  /\ \A i \in DOMAIN result : result[i].mod \in resolved
  /\ NoDuplicate

-----------------------------------------------------------------------------
LEMMA TailElements ==
  ASSUME NEW S, NEW s \in Seq(S), s # <<>>
  PROVE  /\ Tail(s) \in Seq(S)
         /\ \A i \in DOMAIN Tail(s) : i + 1 \in DOMAIN s /\ Tail(s)[i] = s[i + 1]
         /\ 1 \in DOMAIN s
         /\ Head(s) = s[1]
         /\ Head(s) \in S
  OBVIOUS

LEMMA AppendElements ==
  ASSUME NEW S, NEW s \in Seq(S), NEW e \in S
  PROVE  /\ Append(s, e) \in Seq(S)
         /\ Len(Append(s, e)) = Len(s) + 1
         /\ DOMAIN Append(s, e) = DOMAIN s \cup {Len(s) + 1}
         /\ \A i \in DOMAIN s : Append(s, e)[i] = s[i]
         /\ Append(s, e)[Len(s) + 1] = e
  OBVIOUS

LEMMA LastElement ==
  ASSUME NEW S, NEW s \in Seq(S), Len(s) > 0
  PROVE  Len(s) \in DOMAIN s /\ s[Len(s)] \in S
  OBVIOUS

\* Every variable keeps its type: the queues hold queue entries, the result holds
\* resolved mods, and a mod is being expanded only when there is one.
THEOREM TypeCorrect == Spec => []TypeOK
<1> USE ResolverAssumption DEF TypeOK
<1>1. Init => TypeOK
  <2>1. RootEntry \in QueueEntry
    BY DEF RootEntry, QueueEntry, Kinds
  <2>2. <<RootEntry>> \in Seq(QueueEntry) /\ <<>> \in Seq(QueueEntry)
    BY <2>1
  <2>3. <<>> \in Seq(ResolvedMod) /\ <<>> \in Seq(Dep)
    OBVIOUS
  <2> QED BY <2>1, <2>2, <2>3 DEF Init
<1>2. TypeOK /\ [Next]_vars => TypeOK'
  <2> SUFFICES ASSUME TypeOK, [Next]_vars PROVE TypeOK'
    OBVIOUS
  <2>1. CASE Pop
    <3>1. ASSUME NEW e \in QueueEntry, Examine(e)
          PROVE  /\ entry' \in QueueEntry
                 /\ pc' \in {"pop", "done", "fetch"}
                 /\ outcome' \in {"none", "ok", "failed", "cycle"}
      BY <3>1 DEF Examine
    <3>2. CASE required # <<>>
      <4>1. Head(required) \in QueueEntry /\ Tail(required) \in Seq(QueueEntry)
        BY <3>2, TailElements
      <4>2. /\ required' = Tail(required) /\ UNCHANGED optional /\ Examine(Head(required))
            /\ UNCHANGED <<deps, resolved, result, todo, unlisted, dropped>>
        BY <2>1, <3>2 DEF Pop
      <4> QED BY <4>1, <4>2, <3>1
    <3>3. CASE required = <<>>
      <4>1. /\ optional # <<>> /\ optional' = Tail(optional) /\ UNCHANGED required
            /\ Examine(Head(optional))
            /\ UNCHANGED <<deps, resolved, result, todo, unlisted, dropped>>
        BY <2>1, <3>3 DEF Pop
      <4>2. Head(optional) \in QueueEntry /\ Tail(optional) \in Seq(QueueEntry)
        BY <4>1, TailElements
      <4> QED BY <4>1, <4>2, <3>1
    <3> QED BY <3>2, <3>3
  <2>2. CASE Finish
    BY <2>2 DEF Finish
  <2>3. CASE FetchOk
    <3> DEFINE m == Canon[entry.key]
               r == [mod |-> m, kind |-> entry.kind]
    <3>1. entry.key \in Keys /\ m \in Keys /\ r \in ResolvedMod
      BY DEF QueueEntry, ResolvedMod
    <3>2. Append(result, r) \in Seq(ResolvedMod) /\ Len(Append(result, r)) > 0
      <4> HIDE DEF r
      <4> QED BY <3>1, AppendElements
    <3>3. result' \in Seq(ResolvedMod) /\ (pc' = "list" => Len(result') > 0)
      BY <2>3, <3>2 DEF FetchOk
    <3>4. resolved' \in SUBSET Keys /\ pc' \in {"list", "pop"}
      BY <2>3, <3>1 DEF FetchOk
    <3> QED BY <2>3, <3>3, <3>4 DEF FetchOk
  <2>4. CASE FetchErr
    <3>1. entry.key \in Keys
      BY DEF QueueEntry
    <3> QED BY <2>4, <3>1 DEF FetchErr
  <2>5. ASSUME pc \in {"list", "enqueue"}
        PROVE  Parent \in ResolvedMod /\ Parent.mod \in Keys /\ Parent.kind \in Kinds
    <3>1. Parent \in ResolvedMod
      BY <2>5, LastElement DEF Parent
    <3> QED BY <3>1 DEF ResolvedMod
  <2>6. CASE ListOk
    BY <2>5, <2>6 DEF ListOk
  <2>7. CASE ListErr
    BY <2>5, <2>7 DEF ListErr
  <2>8. CASE Enqueue
    <3> DEFINE d == Head(todo)
               e == [key |-> d.key, kind |-> EffectiveKind(Parent.kind, d.kind),
                     ancestors |-> entry.ancestors \cup {entry.key, Parent.mod}]
    <3>1. todo # <<>> /\ d \in Dep /\ Tail(todo) \in Seq(Dep)
      BY <2>8, TailElements DEF Enqueue
    <3>2. Parent.mod \in Keys /\ Parent.kind \in Kinds
      BY <2>5, <2>8 DEF Enqueue
    <3>3. EffectiveKind(Parent.kind, d.kind) \in Kinds /\ d.key \in Keys
      BY <3>1, <3>2 DEF EffectiveKind, Dep, Kinds
    <3>4. entry.ancestors \cup {entry.key, Parent.mod} \in SUBSET Keys
      BY <3>2 DEF QueueEntry
    <3>5. e \in QueueEntry
      BY <3>3, <3>4 DEF QueueEntry
    <3>6. Append(required, e) \in Seq(QueueEntry) /\ Append(optional, e) \in Seq(QueueEntry)
      BY <3>5, AppendElements
    <3>7. \/ UNCHANGED <<required, optional>>
          \/ required' = Append(required, e) /\ UNCHANGED optional
          \/ optional' = Append(optional, e) /\ UNCHANGED required
      BY <2>8 DEF Enqueue
    <3> HIDE DEF e
    <3>8. required' \in Seq(QueueEntry) /\ optional' \in Seq(QueueEntry)
      BY <3>6, <3>7
    <3> QED BY <2>8, <3>1, <3>8 DEF Enqueue
  <2>9. CASE EnqueueDone
    BY <2>9 DEF EnqueueDone
  <2>10. CASE UNCHANGED vars
    BY <2>10 DEF vars
  <2> QED BY <2>1, <2>2, <2>3, <2>4, <2>6, <2>7, <2>8, <2>9, <2>10 DEF Next
<1>3. QED BY <1>1, <1>2, PTL DEF Spec

-----------------------------------------------------------------------------
(* What the steps do to the queues and the result, in the terms the proofs use. *)

LEMMA PopStep ==
  ASSUME TypeOK, Pop
  PROVE  /\ \A i \in DOMAIN required' :
              \E j \in DOMAIN required : required'[i] = required[j]
         /\ \A i \in DOMAIN optional' :
              \E j \in DOMAIN optional : optional'[i] = optional[j]
         /\ \/ /\ \E j \in DOMAIN required : entry' = required[j]
               /\ required # <<>>
            \/ /\ \E j \in DOMAIN optional : entry' = optional[j]
               /\ required = <<>> /\ required' = <<>>
         /\ pc' = "fetch" => entry'.key \notin resolved
         /\ pc' \in {"pop", "fetch", "done"}
         /\ outcome' = "cycle" =>
              \/ entry'.key \in entry'.ancestors /\ entry'.key \notin resolved
              \/ outcome = "cycle"
         /\ UNCHANGED <<deps, resolved, result, todo, unlisted, dropped>>
<1>1. \A e \in QueueEntry : Examine(e) =>
        /\ entry' = e
        /\ pc' = "fetch" => e.key \notin resolved
        /\ pc' \in {"pop", "fetch", "done"}
        /\ outcome' = "cycle" =>
             (e.key \in e.ancestors /\ e.key \notin resolved) \/ outcome = "cycle"
  BY DEF Examine
<1>2. UNCHANGED <<deps, resolved, result, todo, unlisted, dropped>>
  BY DEF Pop
<1>3. CASE required # <<>>
  <2>1. required' = Tail(required) /\ optional' = optional /\ Examine(Head(required))
    BY <1>3 DEF Pop
  <2>2. /\ \A i \in DOMAIN Tail(required) :
             i + 1 \in DOMAIN required /\ Tail(required)[i] = required[i + 1]
        /\ 1 \in DOMAIN required
        /\ Head(required) = required[1] /\ Head(required) \in QueueEntry
    BY <1>3, TailElements DEF TypeOK
  <2> QED BY <1>1, <1>2, <1>3, <2>1, <2>2
<1>4. CASE required = <<>>
  <2>1. /\ optional' = Tail(optional) /\ required' = required /\ optional # <<>>
        /\ Examine(Head(optional))
    BY <1>4 DEF Pop
  <2>2. /\ \A i \in DOMAIN Tail(optional) :
             i + 1 \in DOMAIN optional /\ Tail(optional)[i] = optional[i + 1]
        /\ 1 \in DOMAIN optional
        /\ Head(optional) = optional[1] /\ Head(optional) \in QueueEntry
    BY <2>1, TailElements DEF TypeOK
  <2> QED BY <1>1, <1>2, <1>4, <2>1, <2>2
<1> QED BY <1>3, <1>4

LEMMA FetchOkStep ==
  ASSUME TypeOK, FetchOk
  PROVE  /\ resolved' = resolved \cup {entry.key, Canon[entry.key]}
         /\ UNCHANGED <<deps, required, optional, entry, todo, outcome, unlisted, dropped>>
         /\ \/ /\ Canon[entry.key] \in resolved
               /\ result' = result /\ pc' = "pop"
            \/ /\ Canon[entry.key] \notin resolved
               /\ pc' \in {"list", "pop"}
               /\ Len(result') = Len(result) + 1
               /\ DOMAIN result' = DOMAIN result \cup {Len(result) + 1}
               /\ \A i \in DOMAIN result : result'[i] = result[i]
               /\ result'[Len(result) + 1].mod = Canon[entry.key]
               /\ result'[Len(result) + 1].kind = entry.kind
<1> DEFINE r == [mod |-> Canon[entry.key], kind |-> entry.kind]
<1>1. r \in ResolvedMod
  BY ResolverAssumption DEF TypeOK, QueueEntry, ResolvedMod
<1>2. r.mod = Canon[entry.key] /\ r.kind = entry.kind
  OBVIOUS
<1>3. /\ Canon[entry.key] \in resolved => result' = result /\ pc' = "pop"
      /\ Canon[entry.key] \notin resolved =>
           result' = Append(result, r) /\ pc' \in {"list", "pop"}
  BY DEF FetchOk
<1>4. result \in Seq(ResolvedMod)
  BY DEF TypeOK
<1> HIDE DEF r
<1>5. /\ Len(Append(result, r)) = Len(result) + 1
      /\ DOMAIN Append(result, r) = DOMAIN result \cup {Len(result) + 1}
      /\ \A i \in DOMAIN result : Append(result, r)[i] = result[i]
      /\ Append(result, r)[Len(result) + 1] = r
  BY <1>1, <1>4, AppendElements
<1>6. /\ resolved' = resolved \cup {entry.key, Canon[entry.key]}
      /\ UNCHANGED <<deps, required, optional, entry, todo, outcome, unlisted, dropped>>
  BY DEF FetchOk
<1> QED BY <1>2, <1>3, <1>5, <1>6

LEMMA EnqueueStep ==
  ASSUME TypeOK, Enqueue
  PROVE  /\ Head(todo) \in Dep /\ todo # <<>> /\ todo' = Tail(todo)
         /\ UNCHANGED <<deps, resolved, result, pc, entry, outcome, unlisted, dropped>>
         /\ \/ Ignored(Parent.mod, Head(todo)) /\ UNCHANGED <<required, optional>>
            \/ /\ ~Ignored(Parent.mod, Head(todo))
               /\ \E e \in QueueEntry :
                    /\ e.key = Head(todo).key
                    /\ e.kind = EffectiveKind(Parent.kind, Head(todo).kind)
                    /\ e.ancestors = entry.ancestors \cup {entry.key, Parent.mod}
                    /\ \/ /\ e.kind = "required" /\ UNCHANGED optional
                          /\ required' = Append(required, e)
                       \/ /\ e.kind # "required" /\ UNCHANGED required
                          /\ optional' = Append(optional, e)
<1> DEFINE d == Head(todo)
           e == [key |-> d.key, kind |-> EffectiveKind(Parent.kind, d.kind),
                 ancestors |-> entry.ancestors \cup {entry.key, Parent.mod}]
<1>1. todo # <<>> /\ d \in Dep
  BY TailElements DEF TypeOK, Enqueue
<1>2. Parent \in ResolvedMod
  BY LastElement DEF TypeOK, Enqueue, Parent
<1>3. Parent.mod \in Keys /\ Parent.kind \in Kinds
  BY <1>2 DEF ResolvedMod
<1>4. EffectiveKind(Parent.kind, d.kind) \in Kinds /\ d.key \in Keys
  BY <1>1, <1>3 DEF EffectiveKind, Dep, Kinds
<1>5. entry.ancestors \cup {entry.key, Parent.mod} \in SUBSET Keys
  BY <1>3 DEF TypeOK, QueueEntry
<1>6. e \in QueueEntry
  BY <1>4, <1>5 DEF QueueEntry
<1>7. /\ todo' = Tail(todo)
      /\ UNCHANGED <<deps, resolved, result, pc, entry, outcome, unlisted, dropped>>
      /\ \/ Ignored(Parent.mod, d) /\ UNCHANGED <<required, optional>>
         \/ /\ ~Ignored(Parent.mod, d)
            /\ \/ e.kind = "required" /\ UNCHANGED optional /\ required' = Append(required, e)
               \/ e.kind # "required" /\ UNCHANGED required /\ optional' = Append(optional, e)
  BY DEF Enqueue
<1>8. /\ e.key = d.key /\ e.kind = EffectiveKind(Parent.kind, d.kind)
      /\ e.ancestors = entry.ancestors \cup {entry.key, Parent.mod}
  OBVIOUS
<1> HIDE DEF e
<1> QED BY <1>1, <1>6, <1>7, <1>8

-----------------------------------------------------------------------------
LEMMA AncestorsAreResolved == Spec => []AncestorsResolved
<1>1. Init => AncestorsResolved
  BY DEF Init, AncestorsResolved, RootEntry
<1>2. TypeOK /\ AncestorsResolved /\ [Next]_vars => AncestorsResolved'
  <2> SUFFICES ASSUME TypeOK, AncestorsResolved, [Next]_vars
               PROVE  AncestorsResolved'
    OBVIOUS
  <2> USE DEF AncestorsResolved
  <2>1. CASE Pop
    <3>1. entry'.ancestors \subseteq resolved
      BY <2>1, PopStep
    <3>2. outcome' # "cycle"
      BY <2>1, <3>1, PopStep
    <3>3. pc' \notin {"list", "enqueue"} /\ resolved' = resolved
      BY <2>1, PopStep
    <3>4. \A i \in DOMAIN required' : required'[i].ancestors \subseteq resolved
      BY <2>1, PopStep
    <3>5. \A i \in DOMAIN optional' : optional'[i].ancestors \subseteq resolved
      BY <2>1, PopStep
    <3> QED BY <3>1, <3>2, <3>3, <3>4, <3>5
  <2>2. CASE Finish
    BY <2>2 DEF Finish, Parent
  <2>3. CASE FetchOk
    <3>1. resolved' = resolved \cup {entry.key, Canon[entry.key]}
      BY <2>3, FetchOkStep
    <3>2. UNCHANGED <<required, optional, entry, outcome>>
      BY <2>3, FetchOkStep
    <3>3. pc' \in {"list", "enqueue"} => Parent'.mod = Canon[entry.key]
      BY <2>3, FetchOkStep DEF Parent
    <3> QED BY <3>1, <3>2, <3>3
  <2>4. CASE FetchErr
    BY <2>4 DEF FetchErr, Parent
  <2>5. CASE ListOk
    BY <2>5 DEF ListOk, Parent
  <2>6. CASE ListErr
    BY <2>6 DEF ListErr, Parent
  <2>7. CASE Enqueue
    <3>1. UNCHANGED <<resolved, result, pc, entry, outcome>> /\ pc = "enqueue"
      BY <2>7, EnqueueStep DEF Enqueue
    <3>2. entry.ancestors \cup {entry.key, Parent.mod} \subseteq resolved
      BY <3>1
    <3>3. /\ \A i \in DOMAIN required' : required'[i].ancestors \subseteq resolved
          /\ \A i \in DOMAIN optional' : optional'[i].ancestors \subseteq resolved
      <4>1. CASE UNCHANGED <<required, optional>>
        BY <4>1
      <4>2. ASSUME NEW e \in QueueEntry, e.ancestors \subseteq resolved,
                   required' = Append(required, e), UNCHANGED optional
            PROVE  <3>3!:
        BY <4>2, AppendElements DEF TypeOK
      <4>3. ASSUME NEW e \in QueueEntry, e.ancestors \subseteq resolved,
                   optional' = Append(optional, e), UNCHANGED required
            PROVE  <3>3!:
        BY <4>3, AppendElements DEF TypeOK
      <4> QED BY <2>7, <3>2, <4>1, <4>2, <4>3, EnqueueStep
    <3> QED BY <3>1, <3>3 DEF Parent
  <2>8. CASE EnqueueDone
    BY <2>8 DEF EnqueueDone, Parent
  <2>9. CASE UNCHANGED vars
    BY <2>9 DEF vars, Parent
  <2> QED BY <2>1, <2>2, <2>3, <2>4, <2>5, <2>6, <2>7, <2>8, <2>9 DEF Next
<1>3. QED BY <1>1, <1>2, TypeCorrect, PTL DEF Spec

\* CircularDependency is never returned, whatever the graph: an ancestor is always
\* resolved before its descendant is taken from a queue.
THEOREM CycleErrorUnreachable == Spec => []NoCycleError
<1>1. AncestorsResolved => NoCycleError
  BY DEF AncestorsResolved, NoCycleError
<1>2. QED BY <1>1, AncestorsAreResolved, PTL

-----------------------------------------------------------------------------
LEMMA QueuesKeepTheirKind == Spec => []QueueKinds
<1>1. Init => QueueKinds
  BY DEF Init, QueueKinds, RootEntry
<1>2. TypeOK /\ QueueKinds /\ [Next]_vars => QueueKinds'
  <2> SUFFICES ASSUME TypeOK, QueueKinds, [Next]_vars
               PROVE  QueueKinds'
    OBVIOUS
  <2> USE DEF QueueKinds
  <2>1. CASE Pop
    <3>1. entry'.kind \in {"required", "optional"} /\ pc' \notin {"list", "enqueue"}
      BY <2>1, PopStep
    <3>2. /\ \A i \in DOMAIN required' : required'[i].kind = "required"
          /\ \A i \in DOMAIN optional' : optional'[i].kind = "optional"
      BY <2>1, PopStep
    <3> QED BY <3>1, <3>2
  <2>2. CASE Finish
    BY <2>2 DEF Finish, Parent
  <2>3. CASE FetchOk
    <3>1. UNCHANGED <<required, optional, entry>>
      BY <2>3, FetchOkStep
    <3>2. pc' \in {"list", "enqueue"} => Parent'.kind = entry.kind
      BY <2>3, FetchOkStep DEF Parent
    <3> QED BY <3>1, <3>2
  <2>4. CASE FetchErr
    BY <2>4 DEF FetchErr, Parent
  <2>5. CASE ListOk
    BY <2>5 DEF ListOk, Parent
  <2>6. CASE ListErr
    BY <2>6 DEF ListErr, Parent
  <2>7. CASE Enqueue
    <3>1. UNCHANGED <<result, pc, entry>>
      BY <2>7, EnqueueStep
    <3>2. /\ \A i \in DOMAIN required' : required'[i].kind = "required"
          /\ \A i \in DOMAIN optional' : optional'[i].kind = "optional"
      <4>1. CASE UNCHANGED <<required, optional>>
        BY <4>1
      <4>2. ASSUME NEW e \in QueueEntry, e.kind = "required",
                   required' = Append(required, e), UNCHANGED optional
            PROVE  <3>2!:
        BY <4>2, AppendElements DEF TypeOK
      <4>3. ASSUME NEW e \in QueueEntry, e.kind = "optional",
                   optional' = Append(optional, e), UNCHANGED required
            PROVE  <3>2!:
        BY <4>3, AppendElements DEF TypeOK
      <4>4. ~Ignored(Parent.mod, Head(todo)) /\ Head(todo) \in Dep =>
              EffectiveKind(Parent.kind, Head(todo).kind) \in {"required", "optional"}
        BY DEF Ignored, EffectiveKind, Dep, Kinds
      <4> QED BY <2>7, <4>1, <4>2, <4>3, <4>4, EnqueueStep
    <3> QED BY <3>1, <3>2 DEF Parent
  <2>8. CASE EnqueueDone
    BY <2>8 DEF EnqueueDone, Parent
  <2>9. CASE UNCHANGED vars
    BY <2>9 DEF vars, Parent
  <2> QED BY <2>1, <2>2, <2>3, <2>4, <2>5, <2>6, <2>7, <2>8, <2>9 DEF Next
<1>3. QED BY <1>1, <1>2, TypeCorrect, PTL DEF Spec

LEMMA OptionalComesLast == Spec => []OptionalPhase
<1>1. Init => OptionalPhase
  BY DEF Init, OptionalPhase
<1>2. TypeOK /\ QueueKinds /\ OptionalPhase /\ [Next]_vars => OptionalPhase'
  <2> SUFFICES ASSUME TypeOK, QueueKinds, OptionalPhase, [Next]_vars
               PROVE  OptionalPhase'
    OBVIOUS
  <2> USE DEF OptionalPhase
  <2>1. CASE Pop
    <3>1. UNCHANGED result
      BY <2>1, PopStep
    <3>2. pc' = "fetch" /\ entry'.kind = "optional" => required' = <<>>
      BY <2>1, PopStep DEF QueueKinds
    <3>3. required = <<>> => required' = <<>> /\ entry'.kind = "optional"
      BY <2>1, PopStep DEF QueueKinds
    <3> QED BY <3>1, <3>2, <3>3
  <2>2. CASE Finish
    BY <2>2 DEF Finish
  <2>3. CASE FetchOk
    <3>1. UNCHANGED <<required, entry>> /\ pc = "fetch" /\ pc' # "fetch"
      BY <2>3, FetchOkStep DEF FetchOk
    <3>2. CASE result' = result
      BY <3>1, <3>2
    <3>3. CASE /\ Len(result') = Len(result) + 1
               /\ DOMAIN result' = DOMAIN result \cup {Len(result) + 1}
               /\ \A i \in DOMAIN result : result'[i] = result[i]
               /\ result'[Len(result) + 1].kind = entry.kind
      <4>1. DOMAIN result = 1..Len(result) /\ Len(result) \in Nat
        BY DEF TypeOK
      <4>2. ASSUME NEW i \in DOMAIN result', result'[i].kind = "optional"
            PROVE  /\ required = <<>>
                   /\ \A j \in i..Len(result') : result'[j].kind = "optional"
        BY <3>1, <3>3, <4>1, <4>2
      <4> QED BY <3>1, <4>2
    <3> QED BY <2>3, <3>2, <3>3, FetchOkStep
  <2>4. CASE FetchErr
    BY <2>4 DEF FetchErr
  <2>5. CASE ListOk
    BY <2>5 DEF ListOk
  <2>6. CASE ListErr
    BY <2>6 DEF ListErr
  <2>7. CASE Enqueue
    <3>1. UNCHANGED <<result, pc, entry>> /\ pc = "enqueue"
      BY <2>7, EnqueueStep DEF Enqueue
    <3>2. ASSUME NEW i \in DOMAIN result, result[i].kind = "optional"
          PROVE  required' = <<>>
      <4>1. Parent.kind = "optional"
        <5>1. i \in 1..Len(result) /\ Len(result) \in Nat
          BY DEF TypeOK
        <5>2. Len(result) \in i..Len(result)
          BY <5>1
        <5> QED BY <3>2, <5>2 DEF Parent
      <4>2. UNCHANGED required
        BY <2>7, <4>1, EnqueueStep DEF EffectiveKind
      <4> QED BY <3>2, <4>2
    <3> QED BY <3>1, <3>2
  <2>8. CASE EnqueueDone
    BY <2>8 DEF EnqueueDone
  <2>9. CASE UNCHANGED vars
    BY <2>9 DEF vars
  <2> QED BY <2>1, <2>2, <2>3, <2>4, <2>5, <2>6, <2>7, <2>8, <2>9 DEF Next
<1>3. QED BY <1>1, <1>2, TypeCorrect, QueuesKeepTheirKind, PTL DEF Spec

\* In every result the required mods stand before the optional ones, and nothing
\* required is waiting once an optional mod has been taken.
THEOREM RequiredComesFirst == Spec => []RequiredFirst
<1>1. TypeOK /\ OptionalPhase => RequiredFirst
  <2> SUFFICES ASSUME TypeOK, OptionalPhase PROVE RequiredFirst
    OBVIOUS
  <2>1. DOMAIN result = 1..Len(result) /\ Len(result) \in Nat
    BY DEF TypeOK
  <2> QED BY <2>1 DEF OptionalPhase, RequiredFirst
<1>2. QED BY <1>1, TypeCorrect, OptionalComesLast, PTL

LEMMA ResultIsResolved == Spec => []ResultResolved
<1>1. Init => ResultResolved
  BY DEF Init, ResultResolved, NoDuplicate
<1>2. TypeOK /\ ResultResolved /\ [Next]_vars => ResultResolved'
  <2> SUFFICES ASSUME TypeOK, ResultResolved, [Next]_vars
               PROVE  ResultResolved'
    OBVIOUS
  <2> USE DEF ResultResolved, NoDuplicate
  <2>1. CASE UNCHANGED <<resolved, result>>
    BY <2>1
  <2>2. CASE FetchOk
    <3>1. resolved \subseteq resolved' /\ Canon[entry.key] \in resolved'
      BY <2>2, FetchOkStep
    <3>2. CASE result' = result
      BY <3>1, <3>2
    <3>3. CASE /\ Canon[entry.key] \notin resolved
               /\ DOMAIN result' = DOMAIN result \cup {Len(result) + 1}
               /\ \A i \in DOMAIN result : result'[i] = result[i]
               /\ result'[Len(result) + 1].mod = Canon[entry.key]
      BY <3>1, <3>3
    <3> QED BY <2>2, <3>2, <3>3, FetchOkStep
  <2> QED BY <2>1, <2>2 DEF Next, vars, Pop, Finish, FetchErr, ListOk, ListErr, Enqueue,
             EnqueueDone
<1>3. QED BY <1>1, <1>2, TypeCorrect, PTL DEF Spec

\* However many parents and aliases lead to a mod, the result holds it once.
THEOREM ResultHasNoDuplicate == Spec => []NoDuplicate
<1>1. ResultResolved => NoDuplicate
  BY DEF ResultResolved
<1>2. QED BY <1>1, ResultIsResolved, PTL

-----------------------------------------------------------------------------
(***************************************************************************)
(* The answer of a walk that ends well is exact                            *)
(***************************************************************************)

RequiredMods ==
  {result[i].mod : i \in {j \in DOMAIN result : result[j].kind = "required"}}

\* The mods whose dependency list has been read.
Expanded == {m \in ResultMods : m \notin unlisted /\ ~(pc = "list" /\ m = Parent.mod)}

\* A set that has the root and every required dependency read so far of its members.
ClosedSoFar(S) ==
  /\ Canon[Root] \in S
  /\ \A m \in S \cap Expanded :
       \A d \in LiveDeps(m) : d.kind = "required" => Canon[d.key] \in S

\* What is being expanded is in no trouble: it was listed, and todo is a part of its list.
Listing ==
  /\ unlisted \subseteq resolved
  /\ pc \in {"list", "enqueue"} => Parent.mod \notin unlisted
  /\ pc = "enqueue" =>
       \A i \in DOMAIN todo : \E j \in DOMAIN deps[Parent.mod] : todo[i] = deps[Parent.mod][j]

Sound ==
  \A S \in SUBSET Keys : ClosedSoFar(S) =>
    /\ RequiredMods \subseteq S
    /\ \A i \in DOMAIN required : Canon[required[i].key] \in S
    /\ pc = "fetch" /\ entry.kind = "required" => Canon[entry.key] \in S

\* The required demand for key k is met, queued or being looked up.
Served(k) ==
  \/ Canon[k] \in RequiredMods
  \/ \E i \in DOMAIN required : required[i].key = k
  \/ pc = "fetch" /\ entry.key = k /\ entry.kind = "required"

Complete ==
  outcome \in {"none", "ok"} =>
    /\ Served(Root)
    /\ \A m \in RequiredMods \cap Expanded : \A d \in LiveDeps(m) :
         d.kind = "required" =>
           \/ Served(d.key)
           \/ pc = "enqueue" /\ m = Parent.mod /\ \E i \in DOMAIN todo : todo[i] = d

\* Every resolved key leads to a mod of the result, whose kind is one of two.
Landed ==
  /\ \A k \in resolved : Canon[k] \in ResultMods
  /\ \A i \in DOMAIN result : result[i].kind \in {"required", "optional"}
  /\ outcome = "ok" => required = <<>> /\ pc = "done"
  /\ pc # "done" => outcome = "none"
-----------------------------------------------------------------------------
\* Everything proved of the walk before, in one predicate.
Known == TypeOK /\ AncestorsResolved /\ QueueKinds /\ OptionalPhase /\ ResultResolved

LEMMA KnownHolds == Spec => []Known
<1>1. TypeOK /\ AncestorsResolved /\ QueueKinds /\ OptionalPhase /\ ResultResolved => Known
  BY DEF Known
<1> QED BY <1>1, TypeCorrect, AncestorsAreResolved, QueuesKeepTheirKind, OptionalComesLast,
           ResultIsResolved, PTL

\* A new mod joins the result as its last element, with the list still to be read.
LEMMA FetchNew ==
  ASSUME Known, FetchOk, Canon[entry.key] \notin resolved
  PROVE  /\ pc' = "list"
         /\ Parent'.mod = Canon[entry.key] /\ Parent'.kind = entry.kind
         /\ ResultMods' = ResultMods \cup {Canon[entry.key]}
         /\ RequiredMods' = IF entry.kind = "required"
                            THEN RequiredMods \cup {Canon[entry.key]} ELSE RequiredMods
<1>1. /\ Len(result') = Len(result) + 1
      /\ DOMAIN result' = DOMAIN result \cup {Len(result) + 1}
      /\ \A i \in DOMAIN result : result'[i] = result[i]
      /\ result'[Len(result) + 1].mod = Canon[entry.key]
      /\ result'[Len(result) + 1].kind = entry.kind
  BY FetchOkStep DEF Known
<1>2. pc' = "list"
  BY DEF FetchOk, Known, QueueKinds
<1>3. ResultMods' = ResultMods \cup {Canon[entry.key]}
  BY <1>1 DEF ResultMods
<1>4. RequiredMods' = IF entry.kind = "required"
                      THEN RequiredMods \cup {Canon[entry.key]} ELSE RequiredMods
  BY <1>1 DEF RequiredMods
<1> QED BY <1>1, <1>2, <1>3, <1>4 DEF Parent

\* The element being expanded is the only one of its mod.
LEMMA ParentFacts ==
  ASSUME Known, pc \in {"list", "enqueue"}
  PROVE  /\ Parent.mod \in ResultMods /\ Parent.mod \in Keys
         /\ Parent.kind = entry.kind
         /\ Parent.mod \in RequiredMods <=> entry.kind = "required"
<1>1. Len(result) \in DOMAIN result /\ Parent \in ResolvedMod
  BY LastElement DEF Known, TypeOK, Parent
<1>2. Parent.mod \in ResultMods /\ Parent.mod \in Keys
  BY <1>1 DEF Parent, ResultMods, ResolvedMod
<1>3. Parent.kind = entry.kind
  BY DEF Known, QueueKinds
<1>4. Parent.mod \in RequiredMods => Parent.kind = "required"
  BY <1>1 DEF RequiredMods, Parent, Known, ResultResolved, NoDuplicate
<1>5. Parent.kind = "required" => Parent.mod \in RequiredMods
  BY <1>1 DEF RequiredMods, Parent
<1> QED BY <1>2, <1>3, <1>4, <1>5

LEMMA ListingHolds == Spec => []Listing
<1>1. Init => Listing
  BY DEF Init, Listing
<1>2. Known /\ Listing /\ [Next]_vars => Listing'
  <2> SUFFICES ASSUME Known, Listing, [Next]_vars PROVE Listing'
    OBVIOUS
  <2> USE DEF Listing
  <2>1. CASE Pop
    BY <2>1, PopStep DEF Known
  <2>2. CASE Finish
    BY <2>2 DEF Finish
  <2>3. CASE FetchOk
    <3>1. /\ resolved \subseteq resolved' /\ UNCHANGED unlisted /\ pc' # "enqueue"
          /\ Canon[entry.key] \in resolved => pc' = "pop"
      BY <2>3, FetchOkStep DEF Known
    <3>2. CASE Canon[entry.key] \in resolved
      BY <3>1, <3>2
    <3>3. CASE Canon[entry.key] \notin resolved
      <4>1. Parent'.mod \notin unlisted
        BY <2>3, <3>3, FetchNew
      <4> QED BY <3>1, <4>1
    <3> QED BY <3>2, <3>3
  <2>4. CASE FetchErr
    BY <2>4 DEF FetchErr
  <2>5. CASE ListOk
    BY <2>5 DEF ListOk, Parent
  <2>6. CASE ListErr
    BY <2>6 DEF ListErr, Parent, Known, AncestorsResolved
  <2>7. CASE Enqueue
    <3>1. todo # <<>> /\ todo' = Tail(todo) /\ pc = "enqueue"
          /\ UNCHANGED <<deps, resolved, result, pc, unlisted>>
      BY <2>7, EnqueueStep DEF Enqueue, Known
    <3>2. \A i \in DOMAIN todo' : i + 1 \in DOMAIN todo /\ todo'[i] = todo[i + 1]
      BY <3>1, TailElements DEF Known, TypeOK
    <3> QED BY <3>1, <3>2 DEF Parent
  <2>8. CASE EnqueueDone
    BY <2>8 DEF EnqueueDone
  <2>9. CASE UNCHANGED vars
    BY <2>9 DEF vars, Parent
  <2> QED BY <2>1, <2>2, <2>3, <2>4, <2>5, <2>6, <2>7, <2>8, <2>9 DEF Next
<1>3. QED BY <1>1, <1>2, KnownHolds, PTL DEF Spec

LEMMA LandedHolds == Spec => []Landed
<1>1. Init => Landed
  BY DEF Init, Landed
<1>2. Known /\ Landed /\ [Next]_vars => Landed'
  <2> SUFFICES ASSUME Known, Landed, [Next]_vars PROVE Landed'
    OBVIOUS
  <2> USE DEF Landed
  <2>1. CASE Pop
    <3>1. UNCHANGED <<resolved, result>>
      BY <2>1, PopStep DEF Known
    <3>2. pc = "pop" /\ outcome = "none" /\ outcome' # "ok" /\ (pc' # "done" => outcome' = "none")
      BY <2>1 DEF Pop, Examine
    <3> QED BY <3>1, <3>2 DEF ResultMods
  <2>2. CASE Finish
    BY <2>2 DEF Finish, ResultMods
  <2>3. CASE FetchOk
    <3>1. /\ resolved' = resolved \cup {entry.key, Canon[entry.key]}
          /\ outcome' = outcome /\ outcome = "none" /\ entry.key \in Keys
          /\ entry.kind \in {"required", "optional"}
      BY <2>3, FetchOkStep DEF FetchOk, Known, TypeOK, QueueKinds, QueueEntry
    <3>2. Canon[Canon[entry.key]] = Canon[entry.key]
      BY <3>1, ResolverAssumption
    <3>3. CASE Canon[entry.key] \in resolved
      <4>1. result' = result
        BY <2>3, <3>3, FetchOkStep DEF Known
      <4> QED BY <3>1, <3>2, <3>3, <4>1 DEF ResultMods
    <3>4. CASE Canon[entry.key] \notin resolved
      <4>1. ResultMods' = ResultMods \cup {Canon[entry.key]}
        BY <2>3, <3>4, FetchNew
      <4>2. \A i \in DOMAIN result' : result'[i].kind \in {"required", "optional"}
        BY <2>3, <3>1, FetchOkStep DEF Known
      <4> QED BY <3>1, <3>2, <4>1, <4>2
    <3> QED BY <3>3, <3>4
  <2>4. CASE FetchErr
    BY <2>4 DEF FetchErr, ResultMods
  <2>5. CASE ListOk
    BY <2>5 DEF ListOk, ResultMods
  <2>6. CASE ListErr
    BY <2>6 DEF ListErr, ResultMods
  <2>7. CASE Enqueue
    BY <2>7 DEF Enqueue, ResultMods
  <2>8. CASE EnqueueDone
    BY <2>8 DEF EnqueueDone, ResultMods
  <2>9. CASE UNCHANGED vars
    BY <2>9 DEF vars, ResultMods
  <2> QED BY <2>1, <2>2, <2>3, <2>4, <2>5, <2>6, <2>7, <2>8, <2>9 DEF Next
<1>3. QED BY <1>1, <1>2, KnownHolds, PTL DEF Spec

\* A list read is the only thing that makes a mod expanded, and nothing undoes it.
LEMMA ExpandedSteps ==
  ASSUME Known, Listing, [Next]_vars
  PROVE  /\ deps' = deps
         /\ \/ Expanded' = Expanded
            \/ ListOk /\ Expanded' = Expanded \cup {Parent.mod}
<1> USE DEF Expanded
<1>1. CASE Pop
  BY <1>1, PopStep DEF Known, ResultMods, Pop
<1>2. CASE Finish
  BY <1>2 DEF Finish, ResultMods
<1>3. CASE FetchOk
  <2>1. UNCHANGED <<deps, unlisted>> /\ pc = "fetch"
    BY <1>3, FetchOkStep DEF Known, FetchOk
  <2>2. CASE Canon[entry.key] \in resolved
    BY <1>3, <2>1, <2>2, FetchOkStep DEF Known, ResultMods
  <2>3. CASE Canon[entry.key] \notin resolved
    <3>1. Canon[entry.key] \notin ResultMods
      BY <2>3 DEF ResultMods, Known, ResultResolved
    <3> QED BY <1>3, <2>1, <2>3, <3>1, FetchNew
  <2> QED BY <2>2, <2>3
<1>4. CASE FetchErr
  BY <1>4 DEF FetchErr, ResultMods
<1>5. CASE ListOk
  <2>1. Parent.mod \in ResultMods /\ Parent.mod \notin unlisted
    BY <1>5, ParentFacts DEF ListOk, Listing
  <2>2. pc = "list" /\ pc' = "enqueue" /\ UNCHANGED <<deps, result, unlisted>>
    BY <1>5 DEF ListOk
  <2>3. ResultMods' = ResultMods
    BY <2>2 DEF ResultMods
  <2> QED BY <1>5, <2>1, <2>2, <2>3
<1>6. CASE ListErr
  BY <1>6 DEF ListErr, ResultMods
<1>7. CASE Enqueue
  BY <1>7 DEF Enqueue, ResultMods
<1>8. CASE EnqueueDone
  BY <1>8 DEF EnqueueDone, ResultMods
<1>9. CASE UNCHANGED vars
  BY <1>9 DEF vars, ResultMods, Parent
<1> QED BY <1>1, <1>2, <1>3, <1>4, <1>5, <1>6, <1>7, <1>8, <1>9 DEF Next

LEMMA SoundHolds == Spec => []Sound
<1>1. Init => Sound
  BY DEF Init, Sound, RootEntry, RequiredMods, ClosedSoFar
<1>2. Known /\ Listing /\ Sound /\ [Next]_vars => Sound'
  <2> SUFFICES ASSUME Known, Listing, Sound, [Next]_vars,
                      NEW S \in SUBSET Keys, ClosedSoFar(S)'
               PROVE  /\ RequiredMods' \subseteq S
                      /\ \A i \in DOMAIN required' : Canon[required'[i].key] \in S
                      /\ pc' = "fetch" /\ entry'.kind = "required" => Canon[entry'.key] \in S
    BY DEF Sound
  <2>1. Expanded \subseteq Expanded' /\ deps' = deps
    BY ExpandedSteps
  <2>2. \A m : LiveDeps(m)' = LiveDeps(m)
    BY <2>1 DEF LiveDeps, Ignored
  <2>3. ClosedSoFar(S)
    BY <2>1, <2>2 DEF ClosedSoFar
  <2>4. /\ RequiredMods \subseteq S
        /\ \A i \in DOMAIN required : Canon[required[i].key] \in S
        /\ pc = "fetch" /\ entry.kind = "required" => Canon[entry.key] \in S
    BY <2>3 DEF Sound
  <2>5. CASE Pop
    <3>1. RequiredMods' = RequiredMods
      BY <2>5, PopStep DEF Known, RequiredMods
    <3>2. entry'.kind = "required" => \E j \in DOMAIN required : entry' = required[j]
      BY <2>5, PopStep DEF Known, QueueKinds
    <3>3. \A i \in DOMAIN required' :
            \E j \in DOMAIN required : required'[i] = required[j]
      BY <2>5, PopStep DEF Known
    <3> QED BY <2>4, <3>1, <3>2, <3>3
  <2>6. CASE FetchOk
    <3>1. UNCHANGED <<required, entry>> /\ pc = "fetch" /\ pc' # "fetch"
      BY <2>6, FetchOkStep DEF Known, FetchOk
    <3>2. RequiredMods' \subseteq S
      <4>1. CASE Canon[entry.key] \in resolved
        BY <2>4, <2>6, <4>1, FetchOkStep DEF Known, RequiredMods
      <4>2. CASE Canon[entry.key] \notin resolved
        BY <2>4, <2>6, <3>1, <4>2, FetchNew
      <4> QED BY <4>1, <4>2
    <3> QED BY <2>4, <3>1, <3>2
  <2>7. CASE Enqueue
    <3>1. pc = "enqueue" /\ UNCHANGED <<pc, result, entry>> /\ todo # <<>>
      BY <2>7, EnqueueStep DEF Enqueue, Known
    <3>2. RequiredMods' = RequiredMods
      BY <3>1 DEF RequiredMods
    <3>3. \A i \in DOMAIN required' : Canon[required'[i].key] \in S
      <4>1. CASE UNCHANGED required
        BY <2>4, <4>1
      <4>2. ASSUME NEW e \in QueueEntry, e.kind = "required", e.key = Head(todo).key,
                   e.kind = EffectiveKind(Parent.kind, Head(todo).kind),
                   ~Ignored(Parent.mod, Head(todo)), required' = Append(required, e)
            PROVE  <3>3
        <5>1. Parent.kind # "optional" /\ Head(todo).kind = "required"
          BY <4>2 DEF EffectiveKind
        <5>2. Parent.mod \in RequiredMods /\ Parent.mod \in ResultMods
          BY <3>1, <5>1, ParentFacts DEF Known, QueueKinds
        <5>3. Parent.mod \in Expanded /\ Parent.mod \in S
          BY <2>4, <3>1, <5>2 DEF Expanded, Listing
        <5>4. Head(todo) = todo[1] /\ 1 \in DOMAIN todo
          BY <3>1, TailElements DEF Known, TypeOK
        <5>5. Head(todo) \in LiveDeps(Parent.mod)
          BY <3>1, <4>2, <5>4 DEF LiveDeps, Listing
        <5>6. Canon[e.key] \in S
          BY <2>3, <4>2, <5>1, <5>3, <5>5 DEF ClosedSoFar
        <5> QED BY <2>4, <4>2, <5>6, AppendElements DEF Known, TypeOK
      <4> QED BY <2>7, <4>1, <4>2, EnqueueStep DEF Known
    <3> QED BY <2>4, <3>1, <3>2, <3>3
  <2>8. CASE UNCHANGED <<result, required>> /\ pc' # "fetch"
    BY <2>4, <2>8 DEF RequiredMods
  <2>9. CASE UNCHANGED vars
    BY <2>4, <2>9 DEF vars, RequiredMods
  <2> QED BY <2>5, <2>6, <2>7, <2>8, <2>9 DEF Next, Finish, FetchErr, ListOk, ListErr,
             EnqueueDone
<1>3. QED BY <1>1, <1>2, KnownHolds, ListingHolds, PTL DEF Spec

LEMMA CompleteHolds == Spec => []Complete
<1>1. Init => Complete
  BY DEF Init, Complete, Served, RootEntry, RequiredMods
<1>2. Known /\ Listing /\ Landed /\ Complete /\ [Next]_vars => Complete'
  <2> SUFFICES ASSUME Known, Listing, Landed, Complete, [Next]_vars,
                      outcome' \in {"none", "ok"}
               PROVE  /\ Served(Root)'
                      /\ \A m \in RequiredMods' \cap Expanded' : \A d \in LiveDeps(m)' :
                           d.kind = "required" =>
                             \/ Served(d.key)'
                             \/ /\ pc' = "enqueue" /\ m = Parent'.mod
                                /\ \E i \in DOMAIN todo' : todo'[i] = d
    BY DEF Complete
  <2>1. \A m : LiveDeps(m)' = LiveDeps(m)
    BY ExpandedSteps DEF LiveDeps, Ignored
  <2>2. CASE UNCHANGED vars
    BY <2>2 DEF vars, Complete, Served, RequiredMods, Expanded, ResultMods, LiveDeps, Ignored,
               Parent
  <2>3. ASSUME Next PROVE outcome = "none" /\ pc # "done"
    BY <2>3 DEF Next, Pop, Finish, FetchOk, FetchErr, ListOk, ListErr, Enqueue, EnqueueDone,
             Landed
  <2>4. ASSUME Next
        PROVE  /\ Served(Root)
               /\ \A m \in RequiredMods \cap Expanded : \A d \in LiveDeps(m) :
                    d.kind = "required" =>
                      \/ Served(d.key)
                      \/ pc = "enqueue" /\ m = Parent.mod /\ \E i \in DOMAIN todo : todo[i] = d
    BY <2>3, <2>4 DEF Complete
  <2>5. CASE Pop
    <3>1. RequiredMods' = RequiredMods /\ Expanded' = Expanded /\ pc = "pop"
      BY <2>5, PopStep, ExpandedSteps DEF Known, RequiredMods, Pop, ListOk
    <3>2. ASSUME NEW k \in Keys, Served(k) PROVE Served(k)'
      <4>1. CASE Canon[k] \in RequiredMods
        BY <3>1, <4>1 DEF Served
      <4>2. CASE required # <<>> /\ \E i \in DOMAIN required : required[i].key = k
        <5>1. /\ Head(required) = required[1]
              /\ \A i \in DOMAIN required : i # 1 =>
                   i - 1 \in DOMAIN Tail(required) /\ Tail(required)[i - 1] = required[i]
          BY <4>2 DEF Known, TypeOK
        <5>2. required' = Tail(required) /\ Examine(required[1])
          BY <2>5, <4>2, <5>1 DEF Pop
        <5>3. CASE \E i \in DOMAIN required : i # 1 /\ required[i].key = k
          BY <5>1, <5>2, <5>3 DEF Served
        <5>4. CASE required[1].key = k /\ k \in resolved
          <6>1. Canon[k] \in ResultMods
            BY <5>4 DEF Landed
          <6>2. \A i \in DOMAIN result : result[i].kind = "required"
            BY <4>2 DEF Landed, Known, OptionalPhase
          <6>3. Canon[k] \in RequiredMods
            BY <6>1, <6>2 DEF ResultMods, RequiredMods
          <6> QED BY <3>1, <6>3 DEF Served
        <5>5. CASE required[1].key = k /\ k \notin resolved
          <6>1. pc' = "fetch" /\ entry' = required[1]
            BY <5>2, <5>5 DEF Examine
          <6>2. required[1].kind = "required"
            BY <4>2 DEF Known, QueueKinds, TypeOK
          <6> QED BY <5>5, <6>1, <6>2 DEF Served
        <5> QED BY <4>2, <5>3, <5>4, <5>5
      <4> QED BY <3>1, <3>2, <4>1, <4>2 DEF Served, Known, TypeOK
    <3>3. ASSUME NEW m \in Keys, NEW d \in LiveDeps(m) PROVE d.key \in Keys
      <4>1. deps[m] \in Seq(Dep)
        BY DEF Known, TypeOK
      <4>2. d \in Dep
        BY <4>1 DEF LiveDeps
      <4> QED BY <4>2 DEF Dep
    <3>4. RequiredMods \subseteq Keys
      <4>1. \A i \in DOMAIN result : result[i] \in ResolvedMod
        BY DEF Known, TypeOK
      <4>2. \A x \in ResolvedMod : x.mod \in Keys
        BY DEF ResolvedMod
      <4> QED BY <4>1, <4>2 DEF RequiredMods
    <3> QED BY <2>1, <2>4, <2>5, <3>1, <3>2, <3>3, <3>4, ResolverAssumption DEF Next
  <2>6. CASE Finish
    BY <2>1, <2>4, <2>6, ExpandedSteps
       DEF Finish, Next, Served, RequiredMods, ListOk
  <2>7. CASE FetchOk
    <3>1. /\ UNCHANGED <<required, entry>> /\ pc = "fetch" /\ pc' # "enqueue"
          /\ Expanded' = Expanded /\ entry.key \in Keys
      BY <2>7, FetchOkStep, ExpandedSteps DEF Known, FetchOk, ListOk, TypeOK, QueueEntry
    <3>2. RequiredMods \subseteq RequiredMods'
      BY <2>7, FetchOkStep, FetchNew DEF Known, RequiredMods
    <3>3. entry.kind = "required" => Canon[entry.key] \in RequiredMods'
      <4>1. CASE entry.kind = "required" /\ Canon[entry.key] \in resolved
        <5>1. Canon[entry.key] \in ResultMods
          BY <3>1, <4>1, ResolverAssumption DEF Landed
        <5>2. \A i \in DOMAIN result : result[i].kind = "required"
          BY <3>1, <4>1 DEF Landed, Known, OptionalPhase
        <5>3. Canon[entry.key] \in RequiredMods
          BY <5>1, <5>2 DEF ResultMods, RequiredMods
        <5> QED BY <3>2, <5>3
      <4>2. CASE entry.kind = "required" /\ Canon[entry.key] \notin resolved
        BY <2>7, <4>2, FetchNew
      <4> QED BY <4>1, <4>2
    <3>4. \A k : Served(k) => Served(k)'
      BY <3>1, <3>2, <3>3 DEF Served
    <3>5. RequiredMods' \cap Expanded' \subseteq RequiredMods
      <4>1. CASE Canon[entry.key] \in resolved
        BY <2>7, <4>1, FetchOkStep DEF Known, RequiredMods
      <4>2. CASE Canon[entry.key] \notin resolved
        BY <2>7, <4>2, FetchNew DEF Expanded
      <4> QED BY <4>1, <4>2
    <3> QED BY <2>1, <2>4, <2>7, <3>1, <3>4, <3>5 DEF Next
  <2>8. CASE FetchErr
    <3>1. /\ entry.kind # "required" /\ pc = "fetch" /\ pc' = "pop"
          /\ UNCHANGED <<required, result, entry, todo>>
      BY <2>8 DEF FetchErr
    <3>2. Expanded' = Expanded
      BY <2>8, ExpandedSteps DEF FetchErr, ListOk
    <3> QED BY <2>1, <2>4, <2>8, <3>1, <3>2 DEF Next, Served, RequiredMods
  <2>9. CASE ListOk
    <3>1. /\ pc = "list" /\ pc' = "enqueue" /\ todo' = deps[Parent.mod]
          /\ UNCHANGED <<required, result, entry>>
      BY <2>9 DEF ListOk
    <3>2. RequiredMods' = RequiredMods /\ Parent' = Parent
      BY <3>1 DEF RequiredMods, Parent
    <3>3. \A k : Served(k) => Served(k)'
      BY <3>1, <3>2 DEF Served
    <3>4. \A d \in LiveDeps(Parent.mod) : \E i \in DOMAIN todo' : todo'[i] = d
      BY <3>1 DEF LiveDeps
    <3>5. Expanded' \subseteq Expanded \cup {Parent.mod}
      BY ExpandedSteps
    <3> QED BY <2>1, <2>4, <2>9, <3>1, <3>2, <3>3, <3>4, <3>5 DEF Next
  <2>10. CASE ListErr
    <3>1. pc = "list" /\ pc' = "pop" /\ UNCHANGED <<required, result, entry>>
      BY <2>10 DEF ListErr
    <3>2. Expanded' = Expanded
      BY <2>10, ExpandedSteps DEF ListErr, ListOk
    <3> QED BY <2>1, <2>4, <2>10, <3>1, <3>2 DEF Next, Served, RequiredMods
  <2>11. CASE Enqueue
    <3>1. /\ pc = "enqueue" /\ pc' = "enqueue" /\ UNCHANGED <<result, entry>>
          /\ todo # <<>> /\ todo' = Tail(todo)
      BY <2>11, EnqueueStep DEF Enqueue, Known
    <3>2. RequiredMods' = RequiredMods /\ Parent' = Parent /\ Expanded' = Expanded
      BY <2>11, <3>1, ExpandedSteps DEF RequiredMods, Parent, ListOk
    <3>3. \A i \in DOMAIN required : i \in DOMAIN required' /\ required'[i] = required[i]
      <4>1. CASE UNCHANGED required
        BY <4>1
      <4>2. ASSUME NEW e \in QueueEntry, required' = Append(required, e) PROVE <3>3
        BY <4>2, AppendElements DEF Known, TypeOK
      <4> QED BY <2>11, <4>1, <4>2, EnqueueStep DEF Known
    <3>4. \A k : Served(k) => Served(k)'
      BY <3>1, <3>2, <3>3 DEF Served
    <3>5. /\ Head(todo) = todo[1]
          /\ \A i \in DOMAIN todo : i # 1 =>
               i - 1 \in DOMAIN Tail(todo) /\ Tail(todo)[i - 1] = todo[i]
      BY <3>1 DEF Known, TypeOK
    <3>6. ASSUME NEW d \in LiveDeps(Parent.mod), Parent.mod \in RequiredMods,
                 d = Head(todo), d.kind = "required"
          PROVE  Served(d.key)'
      <4>1. Parent.kind = "required"
        BY <3>1, <3>6, ParentFacts
      <4>2. ~Ignored(Parent.mod, Head(todo))
        BY <3>6 DEF LiveDeps
      <4>3. PICK e \in QueueEntry : e.key = d.key /\ required' = Append(required, e)
        BY <2>11, <3>6, <4>1, <4>2, EnqueueStep DEF EffectiveKind, Known
      <4>4. Len(required) + 1 \in DOMAIN required' /\ required'[Len(required) + 1] = e
        BY <4>3, AppendElements DEF Known, TypeOK
      <4> QED BY <4>3, <4>4 DEF Served
    <3>7. ASSUME NEW m \in RequiredMods \cap Expanded, NEW d \in LiveDeps(m),
                 d.kind = "required"
          PROVE  \/ Served(d.key)'
                 \/ m = Parent.mod /\ \E i \in DOMAIN todo' : todo'[i] = d
      <4>1. CASE Served(d.key)
        BY <3>4, <4>1
      <4>2. CASE m = Parent.mod /\ \E i \in DOMAIN todo : i # 1 /\ todo[i] = d
        BY <3>1, <3>5, <4>2
      <4>3. CASE m = Parent.mod /\ todo[1] = d
        BY <3>5, <3>6, <3>7, <4>3
      <4> QED BY <2>4, <2>11, <3>7, <4>1, <4>2, <4>3 DEF Next
    <3> QED BY <2>1, <2>4, <2>11, <3>1, <3>2, <3>4, <3>7, ResolverAssumption DEF Next
  <2>12. CASE EnqueueDone
    <3>1. pc = "enqueue" /\ pc' = "pop" /\ todo = <<>> /\ UNCHANGED <<required, result, entry>>
      BY <2>12 DEF EnqueueDone
    <3>2. Expanded' = Expanded /\ RequiredMods' = RequiredMods
      BY <2>12, <3>1, ExpandedSteps DEF EnqueueDone, ListOk, RequiredMods
    <3>3. \A k : Served(k) => Served(k)'
      BY <3>1, <3>2 DEF Served
    <3> QED BY <2>1, <2>4, <2>12, <3>1, <3>2, <3>3 DEF Next
  <2> QED BY <2>2, <2>5, <2>6, <2>7, <2>8, <2>9, <2>10, <2>11, <2>12 DEF Next
<1>3. QED BY <1>1, <1>2, KnownHolds, ListingHolds, LandedHolds, PTL DEF Spec

-----------------------------------------------------------------------------
LEMMA ExactnessFollows ==
  ASSUME Known, Landed, Sound, Complete
  PROVE  KindsExact
<1> SUFFICES ASSUME outcome = "ok"
             PROVE  {m \in ResultMods : KindOf(m) = "required"} = Mandatory
  BY DEF KindsExact
<1>1. required = <<>> /\ pc = "done"
  BY DEF Landed
<1>2. \A k : Served(k) <=> Canon[k] \in RequiredMods
  BY <1>1 DEF Served
<1>3. {m \in ResultMods : KindOf(m) = "required"} = RequiredMods
  <2>1. ASSUME NEW i \in DOMAIN result
        PROVE  KindOf(result[i].mod) = result[i].kind
    <3>1. result[i].mod \in ResultMods
      BY DEF ResultMods
    <3>2. \A j \in DOMAIN result : result[j].mod = result[i].mod => j = i
      BY DEF Known, ResultResolved, NoDuplicate
    <3>3. (CHOOSE j \in DOMAIN result : result[j].mod = result[i].mod) = i
      BY <3>2
    <3> QED BY <3>1, <3>3 DEF KindOf
  <2> QED BY <2>1 DEF ResultMods, RequiredMods
<1>4. RequiredMods \subseteq Keys
  <2>1. \A i \in DOMAIN result : result[i] \in ResolvedMod
    BY DEF Known, TypeOK
  <2>2. \A x \in ResolvedMod : x.mod \in Keys
    BY DEF ResolvedMod
  <2> QED BY <2>1, <2>2 DEF RequiredMods
<1> DEFINE closed(S) ==
      \A m \in S \ unlisted : \A d \in LiveDeps(m) : d.kind = "required" => Canon[d.key] \in S
<1>5. RequiredMods \subseteq Mandatory
  <2>1. ASSUME NEW S \in SUBSET Keys, Canon[Root] \in S, closed(S)
        PROVE  RequiredMods \subseteq S
    <3>1. ClosedSoFar(S)
      BY <2>1 DEF ClosedSoFar, Expanded
    <3> QED BY <3>1 DEF Sound
  <2> QED BY <1>4, <2>1 DEF Mandatory
<1>6. Mandatory \subseteq RequiredMods
  <2>1. Canon[Root] \in RequiredMods
    BY <1>2 DEF Complete
  <2>2. closed(RequiredMods)
    <3>1. RequiredMods \ unlisted \subseteq RequiredMods \cap Expanded
      BY <1>1 DEF Expanded, RequiredMods, ResultMods
    <3> QED BY <1>1, <1>2, <3>1 DEF Complete
  <2> QED BY <1>4, <2>1, <2>2 DEF Mandatory
<1> QED BY <1>3, <1>5, <1>6

\* Whatever the dependency graph, its aliases and the lists that could not be read, an
\* answer of the walk marks as required exactly the mods that a chain of required
\* dependencies links to the root.
THEOREM RequiredIsExact == Spec => []KindsExact
<1>1. Known /\ Landed /\ Sound /\ Complete => KindsExact
  BY ExactnessFollows
<1>2. QED BY <1>1, KnownHolds, LandedHolds, SoundHolds, CompleteHolds, PTL

-----------------------------------------------------------------------------
(***************************************************************************)
(* The walk implements the closure, step by step                           *)
(***************************************************************************)

Want(e) == [key |-> e.key, kind |-> e.kind]
RootWant == [key |-> Root, kind |-> "required"]

\* What the list of m asks for.
Asked(m) == {[key |-> d.key, kind |-> EffectiveKind(KindOf(m), d.kind)] : d \in LiveDeps(m)}
AskedSoFar == {RootWant} \cup UNION {Asked(m) : m \in Expanded}

\* What the walk has still to look at.
ToQueue ==
  IF pc = "enqueue"
  THEN {[key |-> d.key, kind |-> EffectiveKind(Parent.kind, d.kind)] :
          d \in {todo[i] : i \in {j \in DOMAIN todo : ~Ignored(Parent.mod, todo[j])}}}
  ELSE {}
Queued(queue) == {Want(queue[i]) : i \in DOMAIN queue}
Pending ==
  Queued(required) \cup Queued(optional)
    \cup (IF pc = "fetch" THEN {Want(entry)} ELSE {}) \cup ToQueue

Settled(d) ==
  Canon[d.key] \in ResultMods \/ (d.kind = "optional" /\ d.key \in dropped)

\* Nothing is pending that nobody asked for, and nothing asked for is forgotten.
Accounted ==
  /\ Pending \subseteq AskedSoFar
  /\ outcome = "none" => \A d \in AskedSoFar : Settled(d) \/ d \in Pending

-----------------------------------------------------------------------------
LEMMA KindOfResult ==
  ASSUME Known, NEW i \in DOMAIN result
  PROVE  KindOf(result[i].mod) = result[i].kind
<1>1. result[i].mod \in ResultMods
  BY DEF ResultMods
<1>2. \A j \in DOMAIN result : result[j].mod = result[i].mod => j = i
  BY DEF Known, ResultResolved, NoDuplicate
<1>3. (CHOOSE j \in DOMAIN result : result[j].mod = result[i].mod) = i
  BY <1>2
<1> QED BY <1>1, <1>3 DEF KindOf

\* Only a new mod changes what kind a mod has, and only its own.
LEMMA KindOfSteps ==
  ASSUME Known, Known', [Next]_vars
  PROVE  /\ ResultMods \subseteq ResultMods'
         /\ \A m \in ResultMods : KindOf(m)' = KindOf(m)
         /\ ~(FetchOk /\ Canon[entry.key] \notin resolved) =>
              result' = result /\ ResultMods' = ResultMods
<1>1. CASE FetchOk /\ Canon[entry.key] \notin resolved
  <2>1. \A i \in DOMAIN result : i \in DOMAIN result' /\ result'[i] = result[i]
    BY <1>1, FetchOkStep DEF Known
  <2>2. ResultMods \subseteq ResultMods'
    BY <2>1 DEF ResultMods
  <2>3. ASSUME NEW m \in ResultMods PROVE KindOf(m)' = KindOf(m)
    <3>1. PICK i \in DOMAIN result : result[i].mod = m
      BY DEF ResultMods
    <3>2. KindOf(m) = result[i].kind
      BY <3>1, KindOfResult
    <3>3. i \in DOMAIN result' /\ result'[i] = result[i] /\ m \in ResultMods'
      BY <2>1, <2>2
    <3>4. \A j \in DOMAIN result' : result'[j].mod = m => j = i
      BY <3>1, <3>3 DEF Known, ResultResolved, NoDuplicate
    <3>5. (CHOOSE j \in DOMAIN result' : result'[j].mod = m) = i
      BY <3>1, <3>3, <3>4
    <3>6. KindOf(m)' = result'[i].kind
      BY <3>3, <3>5 DEF KindOf
    <3> QED BY <3>2, <3>3, <3>6
  <2> QED BY <1>1, <2>2, <2>3
<1>2. CASE ~(FetchOk /\ Canon[entry.key] \notin resolved)
  <2>1. result' = result
    BY <1>2, PopStep, FetchOkStep
       DEF Next, Pop, Finish, FetchErr, ListOk, ListErr, Enqueue, EnqueueDone, vars, Known
  <2>2. ResultMods' = ResultMods
    BY <2>1 DEF ResultMods
  <2> QED BY <1>2, <2>1, <2>2 DEF KindOf
<1> QED BY <1>1, <1>2

LEMMA AskedSteps ==
  ASSUME Known, Known', Listing, [Next]_vars
  PROVE  AskedSoFar' = IF ListOk THEN AskedSoFar \cup Asked(Parent.mod) ELSE AskedSoFar
<1>1. \A m : LiveDeps(m)' = LiveDeps(m)
  BY ExpandedSteps DEF LiveDeps, Ignored
<1>2. Expanded \subseteq ResultMods
  BY DEF Expanded
<1>3. \A m \in ResultMods : Asked(m)' = Asked(m)
  BY <1>1, KindOfSteps DEF Asked
<1>4. CASE ListOk
  <2>1. Parent.mod \in ResultMods /\ Parent.mod \notin unlisted
    BY <1>4, ParentFacts DEF ListOk, Listing
  <2>2. Parent.mod \in Expanded'
    BY <1>4, <2>1 DEF ListOk, Expanded, ResultMods, Parent
  <2>3. Expanded' = Expanded \cup {Parent.mod}
    BY <2>2, ExpandedSteps
  <2> QED BY <1>2, <1>3, <1>4, <2>1, <2>3 DEF AskedSoFar
<1>5. CASE ~ListOk
  <2>1. Expanded' = Expanded
    BY <1>5, ExpandedSteps
  <2> QED BY <1>2, <1>3, <1>5, <2>1 DEF AskedSoFar
<1> QED BY <1>4, <1>5

LEMMA TailShift ==
  ASSUME NEW S, NEW s \in Seq(S), s # <<>>
  PROVE  \A i \in DOMAIN s : i # 1 => i - 1 \in DOMAIN Tail(s) /\ Tail(s)[i - 1] = s[i]
<1> SUFFICES ASSUME NEW i \in DOMAIN s, i # 1
             PROVE  i - 1 \in DOMAIN Tail(s) /\ Tail(s)[i - 1] = s[i]
  OBVIOUS
<1>1. Len(s) \in Nat /\ i \in 2 .. Len(s)
  OBVIOUS
<1>2. Len(Tail(s)) = Len(s) - 1 /\ \A k \in 1 .. Len(s) - 1 : Tail(s)[k] = s[k + 1]
  BY HeadTailProperties
<1>3. i - 1 \in 1 .. Len(s) - 1 /\ (i - 1) + 1 = i
  BY <1>1
<1> QED BY <1>1, <1>2, <1>3

LEMMA QueuedTail ==
  ASSUME NEW q \in Seq(QueueEntry), q # <<>>
  PROVE  Queued(q) = {Want(Head(q))} \cup Queued(Tail(q)) /\ Head(q) \in QueueEntry
<1>1. /\ 1 \in DOMAIN q /\ Head(q) = q[1] /\ Head(q) \in QueueEntry
      /\ \A i \in DOMAIN Tail(q) : i + 1 \in DOMAIN q /\ Tail(q)[i] = q[i + 1]
  BY TailElements
<1>2. \A i \in DOMAIN q : i # 1 => i - 1 \in DOMAIN Tail(q) /\ Tail(q)[i - 1] = q[i]
  BY TailShift
<1>3. Queued(q) \subseteq {Want(q[1])} \cup Queued(Tail(q))
  BY <1>2 DEF Queued
<1>4. {Want(q[1])} \cup Queued(Tail(q)) \subseteq Queued(q)
  BY <1>1 DEF Queued
<1> QED BY <1>1, <1>3, <1>4

LEMMA QueuedAppend ==
  ASSUME NEW q \in Seq(QueueEntry), NEW e \in QueueEntry
  PROVE  Queued(Append(q, e)) = Queued(q) \cup {Want(e)}
BY AppendElements DEF Queued

\* What a turn of the loop takes from a queue goes on, or was met before.
LEMMA ExamineAccounts ==
  ASSUME Known, Landed, pc = "pop", NEW e \in QueueEntry, e.ancestors \subseteq resolved,
         Examine(e), UNCHANGED <<result, dropped>>
  PROVE  /\ outcome' = outcome
         /\ (pc' = "fetch" /\ entry' = e) \/ (pc' = "pop" /\ Settled(Want(e)))
<1>1. CASE e.key \in resolved
  <2>1. Canon[e.key] \in ResultMods
    BY <1>1 DEF Landed
  <2> QED BY <1>1, <2>1 DEF Examine, Settled, Want
<1>2. CASE e.key \notin resolved
  BY <1>2 DEF Examine
<1> QED BY <1>1, <1>2

LEMMA PopAccounts ==
  ASSUME Known, Landed, Pop
  PROVE  /\ outcome' = outcome /\ Pending' \subseteq Pending
         /\ \A d \in Pending : Settled(d) \/ d \in Pending'
<1>1. pc = "pop" /\ UNCHANGED <<result, dropped>> /\ ToQueue = {}
  BY DEF Pop, ToQueue
<1>2. CASE required # <<>>
  <2>1. required' = Tail(required) /\ optional' = optional /\ Examine(Head(required))
    BY <1>2 DEF Pop
  <2>2. Queued(required) = {Want(Head(required))} \cup Queued(required')
    BY <1>2, <2>1, QueuedTail DEF Known, TypeOK
  <2>3. Head(required) \in QueueEntry /\ Head(required).ancestors \subseteq resolved
    BY <1>2, TailElements DEF Known, TypeOK, AncestorsResolved
  <2>4. /\ outcome' = outcome
        /\ \/ pc' = "fetch" /\ entry' = Head(required)
           \/ pc' = "pop" /\ Settled(Want(Head(required)))
    BY <1>1, <2>1, <2>3, ExamineAccounts
  <2>5. ToQueue' = {}
    BY <2>4 DEF ToQueue
  <2> QED BY <1>1, <2>1, <2>2, <2>4, <2>5 DEF Pending, Queued
<1>3. CASE required = <<>>
  <2>1. /\ optional # <<>> /\ required' = required
        /\ optional' = Tail(optional) /\ Examine(Head(optional))
    BY <1>3 DEF Pop
  <2>2. Queued(optional) = {Want(Head(optional))} \cup Queued(optional')
    BY <2>1, QueuedTail DEF Known, TypeOK
  <2>3. Head(optional) \in QueueEntry /\ Head(optional).ancestors \subseteq resolved
    BY <2>1, TailElements DEF Known, TypeOK, AncestorsResolved
  <2>4. /\ outcome' = outcome
        /\ \/ pc' = "fetch" /\ entry' = Head(optional)
           \/ pc' = "pop" /\ Settled(Want(Head(optional)))
    BY <1>1, <2>1, <2>3, ExamineAccounts
  <2>5. ToQueue' = {}
    BY <2>4 DEF ToQueue
  <2> QED BY <1>1, <2>1, <2>2, <2>4, <2>5 DEF Pending, Queued
<1> QED BY <1>2, <1>3

LEMMA FetchAccounts ==
  ASSUME Known, Landed, FetchOk \/ FetchErr
  PROVE  /\ Pending' \subseteq Pending
         /\ outcome' = "none" => \A d \in Pending : Settled(d)' \/ d \in Pending'
<1>1. /\ pc = "fetch" /\ pc' \notin {"fetch", "enqueue"}
      /\ UNCHANGED <<required, optional, entry>>
  BY DEF FetchOk, FetchErr
<1>2. Pending = Pending' \cup {Want(entry)}
  BY <1>1 DEF Pending, Queued, ToQueue
<1>3. ASSUME outcome' = "none" PROVE Settled(Want(entry))'
  <2>1. entry.key \in Keys /\ entry'.key = entry.key
    BY <1>1 DEF Known, TypeOK, QueueEntry
  <2>2. CASE FetchOk /\ Canon[entry.key] \in resolved
    <3>1. Canon[entry.key] \in ResultMods
      BY <2>1, <2>2, ResolverAssumption DEF Landed
    <3>2. result' = result
      BY <2>2, FetchOkStep DEF Known
    <3> QED BY <1>1, <3>1, <3>2 DEF Settled, Want, ResultMods
  <2>3. CASE FetchOk /\ Canon[entry.key] \notin resolved
    BY <1>1, <2>3, FetchNew DEF Settled, Want
  <2>4. CASE FetchErr
    <3>1. entry.kind # "required" /\ dropped' = dropped \cup {entry.key}
      BY <1>3, <2>4 DEF FetchErr
    <3>2. entry.kind = "optional"
      BY <3>1 DEF Known, QueueKinds
    <3> QED BY <1>1, <3>1, <3>2 DEF Settled, Want
  <2> QED BY <2>2, <2>3, <2>4
<1>4. ASSUME outcome' = "none", NEW d \in Pending, d \notin Pending' PROVE Settled(d)'
  BY <1>1, <1>2, <1>3, <1>4 DEF Settled, Want
<1> QED BY <1>2, <1>4

\* Reading a list makes all that it asks for pending.
LEMMA ListAccounts ==
  ASSUME Known, Listing, ListOk
  PROVE  Pending' = Pending \cup Asked(Parent.mod) /\ outcome' = outcome
<1>1. /\ pc = "list" /\ pc' = "enqueue" /\ todo' = deps[Parent.mod]
      /\ UNCHANGED <<deps, required, optional, result, entry, outcome>>
  BY DEF ListOk
<1>2. Parent' = Parent
  BY <1>1 DEF Parent
<1>3. KindOf(Parent.mod) = Parent.kind
  BY <1>1, LastElement, KindOfResult DEF Known, TypeOK, Parent
<1>4. ToQueue' = Asked(Parent.mod)
  BY <1>1, <1>2, <1>3 DEF ToQueue, Asked, LiveDeps, Ignored
<1>5. ToQueue = {}
  BY <1>1 DEF ToQueue
<1> QED BY <1>1, <1>4, <1>5 DEF Pending, Queued

\* A dependency of the list goes from the list to the queue of its kind.
LEMMA EnqueueAccounts ==
  ASSUME Known, Listing, Enqueue
  PROVE  Pending' = Pending /\ outcome' = outcome
<1> DEFINE d == Head(todo)
           w == [key |-> d.key, kind |-> EffectiveKind(Parent.kind, d.kind)]
<1>1. /\ pc = "enqueue" /\ todo # <<>> /\ todo' = Tail(todo) /\ d \in Dep
      /\ UNCHANGED <<pc, result, entry, outcome>>
  BY EnqueueStep DEF Enqueue, Known
<1>2. Parent' = Parent
  BY <1>1 DEF Parent
<1>3. /\ d = todo[1] /\ 1 \in DOMAIN todo
      /\ \A i \in DOMAIN Tail(todo) : i + 1 \in DOMAIN todo /\ Tail(todo)[i] = todo[i + 1]
      /\ \A i \in DOMAIN todo : i # 1 => i - 1 \in DOMAIN Tail(todo) /\ Tail(todo)[i - 1] = todo[i]
  BY <1>1, TailElements, TailShift DEF Known, TypeOK
<1> DEFINE NotYet == {[key |-> x.key, kind |-> EffectiveKind(Parent.kind, x.kind)] :
                      x \in {Tail(todo)[i] : i \in {j \in DOMAIN Tail(todo) : ~Ignored(Parent.mod, Tail(todo)[j])}}}
<1>4. ToQueue' = NotYet
  BY <1>1, <1>2 DEF ToQueue, Ignored
<1>5. ToQueue = IF Ignored(Parent.mod, d) THEN NotYet ELSE NotYet \cup {w}
  <2>1. ToQueue = {[key |-> x.key, kind |-> EffectiveKind(Parent.kind, x.kind)] :
                     x \in {todo[i] : i \in {j \in DOMAIN todo : ~Ignored(Parent.mod, todo[j])}}}
    BY <1>1 DEF ToQueue
  <2>2. {todo[i] : i \in {j \in DOMAIN todo : ~Ignored(Parent.mod, todo[j])}} =
          (IF Ignored(Parent.mod, d) THEN {} ELSE {d}) \cup
          {Tail(todo)[i] : i \in {j \in DOMAIN Tail(todo) : ~Ignored(Parent.mod, Tail(todo)[j])}}
    <3> DEFINE all == {todo[i] : i \in {j \in DOMAIN todo : ~Ignored(Parent.mod, todo[j])}}
               first == IF Ignored(Parent.mod, d) THEN {} ELSE {d}
               others == {Tail(todo)[i] : i \in {j \in DOMAIN Tail(todo) :
                                                   ~Ignored(Parent.mod, Tail(todo)[j])}}
    <3>1. all \subseteq first \cup others
      BY <1>3
    <3>2. first \subseteq all
      BY <1>3
    <3>3. others \subseteq all
      BY <1>3
    <3> QED BY <3>1, <3>2, <3>3
  <2> HIDE DEF d
  <2> QED BY <2>1, <2>2
<1>6. CASE Ignored(Parent.mod, d)
  <2>1. UNCHANGED <<required, optional>>
    BY <1>6 DEF Enqueue
  <2> QED BY <1>1, <1>4, <1>5, <1>6, <2>1 DEF Pending, Queued
<1>7. CASE ~Ignored(Parent.mod, d)
  <2>1. PICK e \in QueueEntry :
          /\ e.key = d.key /\ e.kind = EffectiveKind(Parent.kind, d.kind)
          /\ IF e.kind = "required" THEN required' = Append(required, e) /\ UNCHANGED optional
             ELSE optional' = Append(optional, e) /\ UNCHANGED required
    BY <1>7, EnqueueStep DEF Known
  <2>2. Want(e) = w
    BY <2>1 DEF Want
  <2>3. required \in Seq(QueueEntry) /\ optional \in Seq(QueueEntry)
    BY DEF Known, TypeOK
  <2> HIDE DEF w
  <2>4. Queued(required)' \cup Queued(optional)' = Queued(required) \cup Queued(optional) \cup {w}
    <3>1. Queued(required)' = Queued(required') /\ Queued(optional)' = Queued(optional')
      BY DEF Queued, Want
    <3> QED BY <2>1, <2>2, <2>3, <3>1, QueuedAppend
  <2>5. ToQueue = ToQueue' \cup {w}
    BY <1>4, <1>5, <1>7
  <2> QED BY <1>1, <2>4, <2>5 DEF Pending
<1> QED BY <1>1, <1>6, <1>7

\* A step that looks at no queue and no list.
LEMMA RestAccounts ==
  ASSUME Known, Finish \/ ListErr \/ EnqueueDone \/ UNCHANGED vars
  PROVE  Pending' = Pending
<1>1. UNCHANGED <<required, optional, entry, todo, result>>
  BY DEF Finish, ListErr, EnqueueDone, vars
<1>2. Parent' = Parent
  BY <1>1 DEF Parent
<1>3. CASE UNCHANGED vars
  BY <1>1, <1>2, <1>3 DEF vars, Pending, Queued, Want, ToQueue, Ignored
<1>4. CASE Finish \/ ListErr \/ EnqueueDone
  <2>1. pc # "fetch" /\ pc' \notin {"fetch", "enqueue"} /\ (pc = "enqueue" => todo = <<>>)
    BY <1>4 DEF Finish, ListErr, EnqueueDone
  <2>2. ToQueue = {} /\ ToQueue' = {}
    BY <2>1 DEF ToQueue
  <2> QED BY <1>1, <2>1, <2>2 DEF Pending, Queued, Want
<1> QED BY <1>3, <1>4

LEMMA AccountedHolds == Spec => []Accounted
<1>1. Init => Accounted
  BY DEF Init, Accounted, Pending, Queued, Want, ToQueue, AskedSoFar, RootWant, RootEntry,
         Expanded, ResultMods
<1>2. Known /\ Known' /\ Listing /\ Landed /\ Accounted /\ [Next]_vars => Accounted'
  <2> SUFFICES ASSUME Known, Known', Listing, Landed, Accounted, [Next]_vars
               PROVE  Accounted'
    OBVIOUS
  <2> DEFINE Read == IF ListOk THEN Asked(Parent.mod) ELSE {}
  <2>1. AskedSoFar' = AskedSoFar \cup Read
    BY AskedSteps
  <2>2. ASSUME NEW d, Settled(d) PROVE Settled(d)'
    <3>1. dropped \subseteq dropped'
      BY DEF Next, Pop, Finish, FetchOk, FetchErr, ListOk, ListErr, Enqueue, EnqueueDone, vars
    <3> QED BY <2>2, <3>1, KindOfSteps DEF Settled
  <2>3. outcome' = "none" => outcome = "none"
    <3>1. ASSUME Next PROVE pc # "done"
      BY <3>1 DEF Next, Pop, Finish, FetchOk, FetchErr, ListOk, ListErr, Enqueue, EnqueueDone
    <3> QED BY <3>1 DEF Landed, vars
  <2>4. /\ Pending' \subseteq Pending \cup Read
        /\ outcome' = "none" => \A d \in Pending \cup Read : Settled(d)' \/ d \in Pending'
    <3>1. CASE ListOk
      BY <3>1, ListAccounts
    <3>2. CASE Pop
      BY <2>2, <3>2, PopAccounts DEF Pop, ListOk
    <3>3. CASE FetchOk \/ FetchErr
      BY <3>3, FetchAccounts DEF FetchOk, FetchErr, ListOk
    <3>4. CASE Enqueue
      BY <3>4, EnqueueAccounts DEF Enqueue, ListOk
    <3>5. CASE (Finish \/ ListErr \/ EnqueueDone \/ UNCHANGED vars) /\ ~ListOk
      BY <3>5, RestAccounts
    <3> QED BY <3>1, <3>2, <3>3, <3>4, <3>5 DEF Next
  <2> HIDE DEF Read
  <2>5. Pending' \subseteq AskedSoFar'
    BY <2>1, <2>4 DEF Accounted
  <2>6. ASSUME outcome' = "none", NEW d \in AskedSoFar' PROVE Settled(d)' \/ d \in Pending'
    BY <2>1, <2>2, <2>3, <2>4, <2>6 DEF Accounted
  <2> QED BY <2>5, <2>6 DEF Accounted
<1>3. QED BY <1>1, <1>2, KnownHolds, ListingHolds, LandedHolds, PTL DEF Spec

-----------------------------------------------------------------------------
\* What a mod asks for is the same in both.
LEMMA DemandsOfIs ==
  ASSUME NEW m
  PROVE  Closure!DemandsOf(m, KindOf(m)) = Asked(m)
<1> DEFINE all == {deps[m][i] : i \in DOMAIN deps[m]}
           kept == all \ {x \in all : x.key \in SelfNames[m] \/ x.kind \in {"embedded", "incompatible"}}
<1>1. LiveDeps(m) = kept
  BY DEF LiveDeps, Ignored
<1>2. Asked(m) = {[key |-> d.key, kind |-> IF KindOf(m) = "optional" THEN "optional" ELSE d.kind] :
                    d \in kept}
  BY <1>1 DEF Asked, EffectiveKind
<1> QED BY <1>2 DEF Closure!DemandsOf

\* The closure's view of the result.
LEMMA TakenIs ==
  ASSUME Known, Landed
  PROVE  /\ \A m \in Keys : KindOf(m) # "none" <=> m \in ResultMods
         /\ ResultMods \subseteq Keys
         /\ \A d : d.key \in Keys => (Closure!Met(d) <=> Canon[d.key] \in ResultMods)
<1>1. \A m \in ResultMods : m \in Keys /\ KindOf(m) \in {"required", "optional"}
  <2>1. SUFFICES ASSUME NEW i \in DOMAIN result
                 PROVE  result[i].mod \in Keys /\ KindOf(result[i].mod) \in {"required", "optional"}
    BY DEF ResultMods
  <2>2. result[i] \in ResolvedMod
    BY DEF Known, TypeOK
  <2> QED BY <2>2, KindOfResult DEF Landed, ResolvedMod
<1>2. \A m \in Keys : KindOf(m) # "none" <=> m \in ResultMods
  BY <1>1 DEF KindOf
<1>3. ASSUME NEW d, d.key \in Keys PROVE Closure!Met(d) <=> Canon[d.key] \in ResultMods
  <2>1. Canon[d.key] \in Keys
    BY <1>3, ResolverAssumption
  <2> QED BY <1>2, <2>1 DEF Closure!Met
<1> QED BY <1>1, <1>2, <1>3

\* The closure's demands are those of the lists read, unless the next list is on its way.
LEMMA DemandsAre ==
  ASSUME Known, Landed, pc # "list"
  PROVE  /\ Closure!Demands = AskedSoFar
         /\ \A d \in AskedSoFar : d.key \in Keys
<1> DEFINE taken == [m \in Keys |-> KindOf(m)]
           asking == {x \in Keys : taken[x] # "none" /\ x \notin unlisted}
<1>1. asking = Expanded
  BY TakenIs DEF Expanded
<1>2. \A m \in asking : Closure!DemandsOf(m, taken[m]) = Asked(m)
  BY DemandsOfIs
<1>3. Closure!Demands =
        {RootWant} \cup UNION {Closure!DemandsOf(m, taken[m]) : m \in asking}
  BY DEF Closure!Demands, RootWant
<1> HIDE DEF taken, asking
<1>4. Closure!Demands = AskedSoFar
  BY <1>1, <1>2, <1>3 DEF AskedSoFar
<1>5. ASSUME NEW m \in Expanded, NEW d \in Asked(m) PROVE d.key \in Keys
  <2>1. deps[m] \in Seq(Dep)
    BY TakenIs DEF Expanded, Known, TypeOK
  <2>2. LiveDeps(m) \subseteq Dep
    BY <2>1 DEF LiveDeps
  <2> QED BY <1>5, <2>2 DEF Asked, Dep
<1>6. RootWant.key \in Keys
  BY ResolverAssumption DEF RootWant
<1> QED BY <1>4, <1>5, <1>6 DEF AskedSoFar

\* An optional mod is looked at only when every required demand is met.
LEMMA RequiredAreMet ==
  ASSUME Known, Landed, Accounted, pc = "fetch", entry.kind = "optional"
  PROVE  Closure!RequiredMet
<1>1. SUFFICES ASSUME NEW d \in AskedSoFar, d.kind = "required" PROVE Closure!Met(d)
  BY DemandsAre DEF Closure!RequiredMet
<1>2. d.key \in Keys /\ outcome = "none"
  BY DemandsAre DEF Landed
<1>3. required = <<>> /\ ToQueue = {}
  BY DEF Known, OptionalPhase, ToQueue
<1>4. d \notin Queued(optional) /\ d # Want(entry)
  BY <1>1 DEF Queued, Want, Known, QueueKinds
<1>5. d \notin Pending
  BY <1>3, <1>4 DEF Pending, Queued
<1>6. Canon[d.key] \in ResultMods
  BY <1>1, <1>2, <1>5 DEF Accounted, Settled
<1> QED BY <1>2, <1>6, TakenIs

\* A new mod is taken with the kind of its entry, and nothing else changes.
LEMMA NewMod ==
  ASSUME Known, Known', Landed, Landed', FetchOk, Canon[entry.key] \notin resolved
  PROVE  [m \in Keys |-> KindOf(m)]' =
           [[m \in Keys |-> KindOf(m)] EXCEPT ![Canon[entry.key]] = entry.kind]
<1> DEFINE new == Canon[entry.key]
           n == Len(result) + 1
<1>1. /\ n \in DOMAIN result' /\ result'[n].mod = new /\ result'[n].kind = entry.kind
      /\ new \in ResultMods' /\ ResultMods' = ResultMods \cup {new}
  BY FetchOkStep, FetchNew DEF Known
<1>2. KindOf(new)' = entry.kind
  <2>1. \A j \in DOMAIN result' : result'[j].mod = new => j = n
    BY <1>1 DEF Known, ResultResolved, NoDuplicate
  <2>2. (CHOOSE j \in DOMAIN result' : result'[j].mod = new) = n
    BY <1>1, <2>1
  <2>3. entry' = entry
    BY DEF FetchOk
  <2> QED BY <1>1, <2>2, <2>3 DEF KindOf
<1>3. ASSUME NEW m \in Keys, m # new PROVE KindOf(m)' = KindOf(m)
  <2>1. CASE m \in ResultMods
    BY <2>1, KindOfSteps DEF Next
  <2>2. CASE m \notin ResultMods
    BY <1>1, <1>3, <2>2 DEF KindOf
  <2> QED BY <2>1, <2>2
<1>4. new \in Keys /\ entry' = entry
  BY ResolverAssumption DEF Known, TypeOK, QueueEntry, FetchOk
<1> HIDE DEF new
<1>5. \A m \in Keys : KindOf(m)' = IF m = new THEN entry.kind ELSE KindOf(m)
  BY <1>2, <1>3, <1>4 DEF new
<1> QED BY <1>4, <1>5 DEF new

\* Each step of the walk is a step of the closure or leaves it as it is.
LEMMA StepRefines ==
  ASSUME Known, Known', Listing, Landed, Landed', Accounted, [Next]_vars
  PROVE  [Closure!ANext]_(Closure!avars)
<1> DEFINE taken == [m \in Keys |-> KindOf(m)]
<1> USE DEF Closure!avars
<1>1. ASSUME UNCHANGED <<result, deps, unlisted, dropped, outcome>>
      PROVE  UNCHANGED Closure!avars
  <2>1. taken' = taken
    BY <1>1 DEF KindOf, ResultMods
  <2> QED BY <1>1, <2>1
<1>2. ASSUME UNCHANGED result PROVE taken' = taken
  BY <1>2 DEF KindOf, ResultMods
<1>3. ASSUME pc = "fetch"
      PROVE  /\ Want(entry) \in Closure!Demands /\ entry.key \in Keys /\ outcome = "none"
             /\ Want(entry).kind = "optional" => Closure!RequiredMet
  <2>1. Want(entry) \in AskedSoFar /\ Want(entry) \in Closure!Demands
    BY <1>3, DemandsAre DEF Accounted, Pending
  <2>2. entry.key \in Keys
    BY DEF Known, TypeOK, QueueEntry
  <2> QED BY <1>3, <2>1, <2>2, RequiredAreMet DEF Landed, Want
<1> HIDE DEF taken
<1>4. CASE Pop
  <2>1. outcome' = outcome
    BY <1>4, PopAccounts
  <2> QED BY <1>1, <1>4, <2>1 DEF Pop
<1>5. CASE Finish
  <2>1. /\ pc = "pop" /\ required = <<>> /\ optional = <<>> /\ outcome' = "ok"
        /\ UNCHANGED <<result, deps, unlisted, dropped>>
    BY <1>5 DEF Finish
  <2>2. outcome = "none" /\ Pending = {}
    BY <2>1 DEF Landed, Pending, Queued, ToQueue
  <2>3. \A d \in Closure!Demands : Closure!Met(d) \/ (d.kind = "optional" /\ d.key \in dropped)
    BY <2>1, <2>2, DemandsAre, TakenIs DEF Accounted, Settled
  <2>4. Closure!Answer
    BY <1>2, <2>1, <2>2, <2>3 DEF Closure!Answer, taken
  <2> QED BY <2>4 DEF Closure!ANext
<1>6. CASE FetchOk
  <2>1. pc = "fetch" /\ UNCHANGED <<deps, unlisted, dropped, outcome>>
    BY <1>6 DEF FetchOk
  <2>2. CASE Canon[entry.key] \in resolved
    <3>1. result' = result
      BY <1>6, <2>2, FetchOkStep DEF Known
    <3> QED BY <1>1, <2>1, <3>1
  <2>3. CASE Canon[entry.key] \notin resolved
    <3>1. taken' = [taken EXCEPT ![Canon[Want(entry).key]] = Want(entry).kind]
      BY <1>6, <2>3, NewMod DEF taken, Want
    <3>2. ~Closure!Met(Want(entry))
      <4>1. Canon[entry.key] \notin ResultMods
        BY <2>3 DEF Known, ResultResolved, ResultMods
      <4> QED BY <1>3, <2>1, <4>1, TakenIs DEF Want
    <3>3. Closure!Take(Want(entry))
      BY <1>3, <2>1, <3>1, <3>2 DEF Closure!Take, taken
    <3> QED BY <1>3, <2>1, <3>3 DEF Closure!ANext
  <2> QED BY <2>2, <2>3
<1>7. CASE FetchErr
  <2>1. pc = "fetch" /\ UNCHANGED <<deps, result, unlisted>>
    BY <1>7 DEF FetchErr
  <2>2. CASE entry.kind = "required"
    <3>1. outcome' = "failed" /\ dropped' = dropped
      BY <1>7, <2>2 DEF FetchErr
    <3>2. Closure!Fail(Want(entry))
      BY <1>2, <1>3, <2>1, <2>2, <3>1 DEF Closure!Fail, Want, taken
    <3> QED BY <1>3, <2>1, <3>2 DEF Closure!ANext
  <2>3. CASE entry.kind # "required"
    <3>1. outcome' = outcome /\ dropped' = dropped \cup {entry.key} /\ entry.kind = "optional"
      BY <1>7, <2>3 DEF FetchErr, Known, QueueKinds
    <3>2. Closure!GiveUp(Want(entry))
      BY <1>2, <1>3, <2>1, <3>1 DEF Closure!GiveUp, Want, taken
    <3> QED BY <1>3, <2>1, <3>2 DEF Closure!ANext
  <2> QED BY <2>2, <2>3
<1>8. CASE ListErr
  <2>1. /\ pc = "list" /\ unlisted' = unlisted \cup {Parent.mod}
        /\ UNCHANGED <<deps, result, dropped, outcome>>
    BY <1>8 DEF ListErr
  <2>2. Parent.mod \in Keys /\ KindOf(Parent.mod) # "none" /\ outcome = "none"
    BY <2>1, ParentFacts, TakenIs DEF Landed
  <2>3. Closure!Unlist(Parent.mod)
    BY <1>2, <2>1, <2>2 DEF Closure!Unlist, taken
  <2> QED BY <2>2, <2>3 DEF Closure!ANext
<1>9. CASE ListOk \/ Enqueue \/ EnqueueDone \/ UNCHANGED vars
  BY <1>1, <1>9 DEF ListOk, Enqueue, EnqueueDone, vars
<1> QED BY <1>4, <1>5, <1>6, <1>7, <1>8, <1>9 DEF Next

\* For every dependency graph, with any aliases and failures, the walk takes mods as
\* the closure does: only what a mod taken before asks for, with a kind that is
\* asked for, optional ones when nothing required is owed, and an answer only when
\* all that was asked for is taken or given up. (That it does answer is Termination.)
THEOREM WalkIsClosure == Spec => Closure!ASafety
<1>1. Init => Closure!AInit
  BY DEF Init, Closure!AInit, KindOf, ResultMods
<1>2. Known /\ Known' /\ Listing /\ Landed /\ Landed' /\ Accounted /\ [Next]_vars
        => [Closure!ANext]_(Closure!avars)
  BY StepRefines
<1>3. QED BY <1>1, <1>2, KnownHolds, ListingHolds, LandedHolds, AccountedHolds, PTL
         DEF Spec, Closure!ASafety

-----------------------------------------------------------------------------
(***************************************************************************)
(* The choice of a release                                                 *)
(***************************************************************************)
\* A set of naturals has a least element.
LEMMA LeastNumber ==
  ASSUME NEW S \in SUBSET Nat, S # {}
  PROVE  \E m \in S : \A k \in S : m <= k
<1> DEFINE less == {pair \in Nat \X Nat : pair[1] < pair[2]}
<1>1. IsWellFoundedOn(less, Nat)
  BY NatLessThanWellFounded DEF OpToRel
<1>2. \A k \in S, m \in S : k < m => <<k, m>> \in less
  OBVIOUS
<1> HIDE DEF less
<1>3. PICK m \in S : \A k \in S : ~ (<<k, m>> \in less)
  BY <1>1, WFMin
<1>4. ASSUME NEW k \in S PROVE m <= k
  <2>1. k \in Nat /\ m \in Nat /\ ~ (k < m)
    BY <1>2, <1>3
  <2> QED BY <2>1
<1> QED BY <1>4

\* Three numbers, and five, are compared from the first.
LEMMA BelowThree ==
  ASSUME NEW a \in [1..3 -> Nat], NEW b \in [1..3 -> Nat]
  PROVE  Below(a, b) <=> \/ a[1] < b[1]
                         \/ a[1] = b[1] /\ a[2] < b[2]
                         \/ a[1] = b[1] /\ a[2] = b[2] /\ a[3] < b[3]
<1>1. DOMAIN a = 1..3
  OBVIOUS
<1> QED BY <1>1 DEF Below

LEMMA BelowFive ==
  ASSUME NEW a \in [1..5 -> Nat], NEW b \in [1..5 -> Nat]
  PROVE  Below(a, b) <=> \/ a[1] < b[1]
                         \/ a[1] = b[1] /\ a[2] < b[2]
                         \/ a[1] = b[1] /\ a[2] = b[2] /\ a[3] < b[3]
                         \/ a[1] = b[1] /\ a[2] = b[2] /\ a[3] = b[3] /\ a[4] < b[4]
                         \/ a[1] = b[1] /\ a[2] = b[2] /\ a[3] = b[3] /\ a[4] = b[4] /\ a[5] < b[5]
<1>1. DOMAIN a = 1..5
  OBVIOUS
<1> QED BY <1>1 DEF Below

\* What a release can have for a number.
IsNumber(n) == n.parts \in Seq(Nat) /\ n.pre \in Nat

LEMMA FullType ==
  ASSUME NEW v, IsNumber(v)
  PROVE  Full(v) \in [1..3 -> Nat]
BY DEF Full, IsNumber

LEMMA LessIs ==
  ASSUME NEW v, NEW t, IsNumber(v), IsNumber(t),
         NEW vs, vs = Full(v), NEW ts, ts = Full(t)
  PROVE  Less(v, t) <=>
           \/ vs[1] < ts[1]
           \/ vs[1] = ts[1] /\ vs[2] < ts[2]
           \/ vs[1] = ts[1] /\ vs[2] = ts[2] /\ vs[3] < ts[3]
           \/ /\ SemverPair(v, t) /\ vs[1] = ts[1] /\ vs[2] = ts[2] /\ vs[3] = ts[3]
              /\ v.pre # 0 /\ (t.pre = 0 \/ v.pre < t.pre)
<1> DEFINE a == Position(v, SemverPair(v, t))
           b == Position(t, SemverPair(v, t))
<1>1. vs \in [1..3 -> Nat] /\ ts \in [1..3 -> Nat] /\ v.pre \in Nat /\ t.pre \in Nat
  BY FullType DEF IsNumber
<1>2. /\ a \in [1..5 -> Nat] /\ b \in [1..5 -> Nat]
      /\ a[1] = vs[1] /\ a[2] = vs[2] /\ a[3] = vs[3]
      /\ b[1] = ts[1] /\ b[2] = ts[2] /\ b[3] = ts[3]
      /\ a[4] = (IF SemverPair(v, t) /\ v.pre # 0 THEN 0 ELSE 1)
      /\ b[4] = (IF SemverPair(v, t) /\ t.pre # 0 THEN 0 ELSE 1)
      /\ a[5] = (IF SemverPair(v, t) THEN v.pre ELSE 0)
      /\ b[5] = (IF SemverPair(v, t) THEN t.pre ELSE 0)
  BY <1>1 DEF Position
<1>3. Less(v, t) <=> Below(a, b)
  BY DEF Less
<1> HIDE DEF a, b
<1> QED BY <1>1, <1>2, <1>3, BelowFive

-----------------------------------------------------------------------------
\* For every pair of numbers, of any number of parts and with any zeros, the code's
\* case distinctions for ^ and ~ are the half-open interval that the operator stands
\* for; the other operators have no other reading.
THEOREM RequirementIsInterval ==
  ASSUME NEW v, NEW t, IsNumber(v), IsNumber(t), NEW op \in Operators
  PROVE  Matches(v, Req(op, t)) <=> InRange(v, Req(op, t))
<1> DEFINE vs == Full(v)
           ts == Full(t)
<1>1. /\ vs \in [1..3 -> Nat] /\ ts \in [1..3 -> Nat] /\ v.pre \in Nat /\ t.pre \in Nat
      /\ vs[1] \in Nat /\ vs[2] \in Nat /\ vs[3] \in Nat
      /\ ts[1] \in Nat /\ ts[2] \in Nat /\ ts[3] \in Nat
  <2>1. vs \in [1..3 -> Nat] /\ ts \in [1..3 -> Nat]
    BY FullType
  <2>2. v.pre \in Nat /\ t.pre \in Nat
    BY DEF IsNumber
  <2> HIDE DEF vs, ts
  <2> QED BY <2>1, <2>2
<1>2. Req(op, t).op = op /\ Req(op, t).number = t /\ Req(op, t) # NoReq
  BY DEF Req, NoReq, Operators
<1>3. vs = ts <=> vs[1] = ts[1] /\ vs[2] = ts[2] /\ vs[3] = ts[3]
  BY <1>1
<1>4. Less(v, t) <=>
           \/ vs[1] < ts[1]
           \/ vs[1] = ts[1] /\ vs[2] < ts[2]
           \/ vs[1] = ts[1] /\ vs[2] = ts[2] /\ vs[3] < ts[3]
           \/ /\ SemverPair(v, t) /\ vs[1] = ts[1] /\ vs[2] = ts[2] /\ vs[3] = ts[3]
              /\ v.pre # 0 /\ (t.pre = 0 \/ v.pre < t.pre)
  BY LessIs
<1>5. ASSUME NEW x \in Nat, NEW y \in Nat, NEW z \in Nat
      PROVE  Below(vs, <<x, y, z>>) <=> \/ vs[1] < x
                                        \/ vs[1] = x /\ vs[2] < y
                                        \/ vs[1] = x /\ vs[2] = y /\ vs[3] < z
  <2>1. <<x, y, z>> \in [1..3 -> Nat]
    OBVIOUS
  <2> QED BY <1>1, <2>1, BelowThree
<1> HIDE DEF vs, ts
<1>6. CASE op = "^"
  <2>1. Below(vs, CaretEnd(t)) <=>
          IF ts[1] # 0 THEN vs[1] < ts[1] + 1
          ELSE IF ts[2] # 0 THEN vs[1] = 0 /\ vs[2] < ts[2] + 1
          ELSE vs[1] = 0 /\ vs[2] = 0 /\ vs[3] < ts[3] + 1
    <3>1. CASE ts[1] # 0
      <4>1. CaretEnd(t) = <<ts[1] + 1, 0, 0>>
        BY <3>1 DEF CaretEnd, ts
      <4> QED BY <1>1, <1>5, <3>1, <4>1
    <3>2. CASE ts[1] = 0 /\ ts[2] # 0
      <4>1. CaretEnd(t) = <<0, ts[2] + 1, 0>>
        BY <3>2 DEF CaretEnd, ts
      <4> QED BY <1>1, <1>5, <3>2, <4>1
    <3>3. CASE ts[1] = 0 /\ ts[2] = 0
      <4>1. CaretEnd(t) = <<0, 0, ts[3] + 1>>
        BY <3>3 DEF CaretEnd, ts
      <4> QED BY <1>1, <1>5, <3>3, <4>1
    <3> QED BY <3>1, <3>2, <3>3
  <2>2. Caret(v, t) <=>
          /\ ~ Less(v, t)
          /\ SemverPair(v, t) /\ v.pre # 0 => t.pre # 0 /\ vs = ts
          /\ vs[1] = ts[1] /\ (ts[1] = 0 => vs[2] = ts[2])
          /\ ts[1] = 0 /\ ts[2] = 0 => vs[3] = ts[3]
    BY DEF Caret, PreAllowed, vs, ts
  <2>3. Caret(v, t) <=> /\ ~ Less(v, t) /\ Below(vs, CaretEnd(t))
                        /\ SemverPair(v, t) /\ v.pre # 0 => vs = ts
    BY <1>1, <1>3, <1>4, <2>1, <2>2
  <2>4. Matches(v, Req(op, t)) <=> Numeric(v) /\ Numeric(t) /\ Caret(v, t)
    BY <1>2, <1>6 DEF Matches
  <2> QED BY <1>2, <1>6, <2>3, <2>4 DEF InRange, vs, ts
<1>7. CASE op = "~"
  <2>1. Below(vs, TildeEnd(v, t)) <=>
          IF ts[2] = 0 /\ ~ SemverPair(v, t) THEN vs[1] < ts[1] + 1
          ELSE vs[1] < ts[1] \/ (vs[1] = ts[1] /\ vs[2] < ts[2] + 1)
    <3>1. CASE ts[2] = 0 /\ ~ SemverPair(v, t)
      <4>1. TildeEnd(v, t) = <<ts[1] + 1, 0, 0>>
        BY <3>1 DEF TildeEnd, ts
      <4> QED BY <1>1, <1>5, <3>1, <4>1
    <3>2. CASE ~ (ts[2] = 0 /\ ~ SemverPair(v, t))
      <4>1. TildeEnd(v, t) = <<ts[1], ts[2] + 1, 0>>
        BY <3>2 DEF TildeEnd, ts
      <4> QED BY <1>1, <1>5, <3>2, <4>1
    <3> QED BY <3>1, <3>2
  <2>2. Tilde(v, t) <=>
          /\ ~ Less(v, t)
          /\ SemverPair(v, t) /\ v.pre # 0 => t.pre # 0 /\ vs = ts
          /\ vs[1] = ts[1] /\ (vs[2] = ts[2] \/ (~ SemverPair(v, t) /\ ts[2] = 0))
    BY DEF Tilde, PreAllowed, vs, ts
  <2>3. Tilde(v, t) <=> /\ ~ Less(v, t) /\ Below(vs, TildeEnd(v, t))
                        /\ SemverPair(v, t) /\ v.pre # 0 => vs = ts
    BY <1>1, <1>3, <1>4, <2>1, <2>2
  <2>4. Matches(v, Req(op, t)) <=> Numeric(v) /\ Numeric(t) /\ Tilde(v, t)
    BY <1>2, <1>7 DEF Matches
  <2> QED BY <1>2, <1>7, <2>3, <2>4 DEF InRange, vs, ts
<1>8. CASE op \notin {"^", "~"}
  BY <1>2, <1>8 DEF InRange
<1> QED BY <1>6, <1>7, <1>8

-----------------------------------------------------------------------------
(* The choice from a list *)

\* The releases of a source that has published b of them.
ReleasesTo(b) == [number : Numbers, day : 0 .. b, url : BOOLEAN]

VersionsTypeOK ==
  /\ source \in Sources
  /\ count \in [releases : Nat, questions : Nat]
  /\ listed \in Seq(ReleasesTo(count.releases))
  /\ pinned \in Numbers \cup {Unknown, NoNumber}

\* A list a provider can answer with.
Answerable(s) ==
  /\ DOMAIN s \subseteq Nat
  /\ \A r \in OnList(s) : IsNumber(r.number) /\ r.day \in 0 .. count.releases

LEMMA NumbersAre ==
  /\ \A n \in Numbers \cup {Unknown, NoNumber} : IsNumber(n)
  /\ MaxReleases \in Nat /\ MaxQuestions \in Nat
<1>1. IsNumber(Unknown) /\ IsNumber(NoNumber)
  BY DEF IsNumber, Unknown, NoNumber
<1> QED BY <1>1, VersionsAssumption DEF VersionsAssumption, IsNumber

LEMMA AnswersAreLists ==
  ASSUME VersionsTypeOK, NEW s \in GetVersions
  PROVE  Answerable(s) /\ \A r \in OnList(s) : r.number \in Numbers \cup {Unknown}
<1>1. \A i \in DOMAIN listed : listed[i] \in ReleasesTo(count.releases) /\ i \in Nat
  BY DEF VersionsTypeOK
<1>2. \A r \in ReleasesTo(count.releases) : r.number \in Numbers /\ r.day \in 0 .. count.releases
  BY DEF ReleasesTo
<1>3. count.releases \in Nat
  BY DEF VersionsTypeOK
<1>4. CASE s = listed
  BY <1>1, <1>2, <1>4, NumbersAre DEF Answerable, OnList
<1>5. CASE \E kept : s = Those(kept)
  BY <1>1, <1>2, <1>5, NumbersAre DEF Answerable, OnList, Those
<1>6. CASE s \in FileVersions
  BY <1>3, <1>6, NumbersAre DEF Answerable, OnList, FileVersions
<1>7. source \in {"modrinth", "curseforge", "github", "file"}
  BY DEF VersionsTypeOK, Sources
<1> QED BY <1>4, <1>5, <1>6, <1>7
       DEF GetVersions, ModrinthVersions, CurseForgeVersions, GitHubVersions, FilesWithLink

\* Some release is the newest.
LEMMA NewestExists ==
  ASSUME NEW s, Answerable(s), VersionsTypeOK, OnList(s) # {}
  PROVE  Newest(s) # {}
<1> DEFINE b == count.releases
           ages == {b - r.day : r \in OnList(s)}
<1>1. b \in Nat /\ \A r \in OnList(s) : r.day \in 0 .. b
  BY DEF VersionsTypeOK, Answerable
<1> HIDE DEF b
<1>2. ages \in SUBSET Nat /\ ages # {}
  BY <1>1
<1>3. PICK m \in ages : \A k \in ages : m <= k
  BY <1>2, LeastNumber
<1>4. PICK r \in OnList(s) : m = b - r.day
  OBVIOUS
<1>5. ASSUME NEW o \in OnList(s) PROVE o.day <= r.day
  <2>1. b - r.day <= b - o.day
    BY <1>3, <1>4
  <2> QED BY <1>1, <2>1
<1> QED BY <1>5 DEF Newest

\* The first release that matches is there if any is.
LEMMA FirstMatchIs ==
  ASSUME NEW s, Answerable(s), NEW req
  PROVE  /\ \A r \in FirstMatch(s, req) : r \in OnList(s) /\ Matches(r.number, req)
         /\ (\E r \in OnList(s) : Matches(r.number, req)) => FirstMatch(s, req) # {}
<1>1. \A r \in FirstMatch(s, req) : r \in OnList(s) /\ Matches(r.number, req)
  BY DEF FirstMatch, OnList
<1>2. ASSUME \E r \in OnList(s) : Matches(r.number, req)
      PROVE  FirstMatch(s, req) # {}
  <2> DEFINE places == {i \in DOMAIN s : Matches(s[i].number, req)}
  <2>1. places # {} /\ places \in SUBSET Nat
    BY <1>2 DEF OnList, Answerable
  <2>2. PICK i \in places : \A k \in places : i <= k
    BY <2>1, LeastNumber
  <2>3. \A k \in DOMAIN s : k < i => ~ Matches(s[k].number, req)
    <3>1. SUFFICES ASSUME NEW k \in DOMAIN s, k < i, Matches(s[k].number, req) PROVE FALSE
      OBVIOUS
    <3>2. k \in places /\ k \in Nat /\ i \in Nat /\ i <= k
      BY <2>1, <2>2, <3>1
    <3> QED BY <3>1, <3>2
  <2> QED BY <2>2, <2>3 DEF FirstMatch
<1> QED BY <1>1, <1>2

\* An answer to a question, taken from a list, is right.
LEMMA ChoiceIsRight ==
  ASSUME VersionsTypeOK, NEW s, Answerable(s), NEW req, NEW choice,
         \/ req = NoReq /\ choice = Newest(s)
         \/ /\ choice = FirstMatch(s, req)
            /\ \E op \in Operators, t \in Numbers \cup {Unknown, NoNumber} : req = Req(op, t)
  PROVE  LET q == Question(req, s, choice)
             fits == {r \in OnList(q.from) : InRange(r.number, q.req)}
         IN  /\ q.choice \subseteq fits
             /\ fits # {} => q.choice # {}
             /\ q.req = NoReq => \A r \in q.choice, o \in OnList(q.from) : r.day >= o.day
<1> DEFINE fits == {r \in OnList(s) : InRange(r.number, req)}
<1>1. Question(req, s, choice).req = req /\ Question(req, s, choice).from = s
      /\ Question(req, s, choice).choice = choice
  BY DEF Question
<1>2. SUFFICES /\ choice \subseteq fits
               /\ fits # {} => choice # {}
               /\ req = NoReq => \A r \in choice, o \in OnList(s) : r.day >= o.day
  BY <1>1
<1>3. CASE req = NoReq /\ choice = Newest(s)
  <2>1. ASSUME NEW v PROVE InRange(v, req)
    <3>1. InRange(v, NoReq)
      BY DEF InRange
    <3> QED BY <1>3, <3>1
  <2>2. fits = OnList(s)
    BY <2>1
  <2>3. choice \subseteq OnList(s) /\ \A r \in choice, o \in OnList(s) : o.day <= r.day
    BY <1>3 DEF Newest
  <2>4. \A r \in OnList(s) : r.day \in Nat
    BY DEF Answerable, VersionsTypeOK
  <2> QED BY <1>3, <2>2, <2>3, <2>4, NewestExists
<1>4. ASSUME NEW op \in Operators, NEW t \in Numbers \cup {Unknown, NoNumber},
             req = Req(op, t), choice = FirstMatch(s, req)
      PROVE  /\ choice \subseteq fits
             /\ fits # {} => choice # {}
             /\ req = NoReq => \A r \in choice, o \in OnList(s) : r.day >= o.day
  <2>1. ASSUME NEW r \in OnList(s) PROVE Matches(r.number, req) <=> InRange(r.number, req)
    <3>1. IsNumber(r.number) /\ IsNumber(t)
      BY NumbersAre DEF Answerable
    <3> QED BY <1>4, <3>1, RequirementIsInterval
  <2>2. req # NoReq
    BY <1>4 DEF Req, NoReq, Operators
  <2> QED BY <1>4, <2>1, <2>2, FirstMatchIs
<1> QED BY <1>3, <1>4

-----------------------------------------------------------------------------
\* A list stays one when a release comes or goes.
LEMMA ListsStayLists ==
  ASSUME NEW S, NEW s \in Seq(S), NEW e \in S
  PROVE  /\ \A i \in 1 .. Len(s) + 1 : Lists!InsertAt(s, i, e) \in Seq(S)
         /\ \A i \in 1 .. Len(s) : Lists!RemoveAt(s, i) \in Seq(S)
<1>1. Len(s) \in Nat /\ \A i \in 1 .. Len(s) : s[i] \in S
  OBVIOUS
<1>2. \A i \in Nat : i >= 1 => SubSeq(s, i, Len(s)) \in Seq(S)
  BY <1>1, SubSeqProperties
<1>3. \A i \in Int : i <= Len(s) + 1 => SubSeq(s, 1, i - 1) \in Seq(S)
  BY <1>1, SubSeqProperties
<1>4. <<e>> \in Seq(S)
  OBVIOUS
<1>5. ASSUME NEW i \in 1 .. Len(s) + 1 PROVE Lists!InsertAt(s, i, e) \in Seq(S)
  <2>1. SubSeq(s, 1, i - 1) \o <<e>> \in Seq(S)
    BY <1>1, <1>3, <1>4, ConcatProperties
  <2> QED BY <1>1, <1>2, <2>1, ConcatProperties DEF Lists!InsertAt
<1>6. ASSUME NEW i \in 1 .. Len(s) PROVE Lists!RemoveAt(s, i) \in Seq(S)
  BY <1>1, <1>2, <1>3, ConcatProperties DEF Lists!RemoveAt
<1> QED BY <1>5, <1>6

VersionsInv == VersionsTypeOK /\ RightVersion

\* A step that answers no question.
LEMMA NoAnswer ==
  ASSUME last' = NoQuestion
  PROVE  RightVersion'
BY DEF RightVersion, NoQuestion, Question, OnList

\* A step that answers one, from a list of the provider's.
LEMMA Answered ==
  ASSUME VersionsTypeOK, NEW s, Answerable(s), NEW req, NEW choice,
         \/ req = NoReq /\ choice = Newest(s)
         \/ /\ choice = FirstMatch(s, req)
            /\ \E op \in Operators, t \in Numbers \cup {Unknown, NoNumber} : req = Req(op, t),
         last' = Question(req, s, choice)
  PROVE  RightVersion'
BY ChoiceIsRight DEF RightVersion

THEOREM RightReleaseIsTaken == VersionsSpec => []RightVersion
<1>1. VersionsInit => VersionsInv
  BY DEF VersionsInit, VersionsInv, VersionsTypeOK, RightVersion, NoQuestion, Question, OnList
<1>2. VersionsInv /\ [VersionsNext]_versionsVars => VersionsInv'
  <2> SUFFICES ASSUME VersionsInv, [VersionsNext]_versionsVars PROVE VersionsInv'
    OBVIOUS
  <2> USE DEF VersionsInv
  <2>1. ASSUME NEW n \in Numbers, Publish(n) PROVE VersionsInv'
    <3> DEFINE b == count.releases
    <3>1. b \in Nat /\ count'.releases = b + 1 /\ count' \in [releases : Nat, questions : Nat]
      BY <2>1 DEF Publish, VersionsTypeOK
    <3>2. listed \in Seq(ReleasesTo(b + 1))
      <4>1. ReleasesTo(b) \subseteq ReleasesTo(b + 1)
        BY <3>1 DEF ReleasesTo
      <4> QED BY <4>1 DEF VersionsTypeOK
    <3>3. PICK url \in BOOLEAN, i \in 1 .. Len(listed) + 1 :
            listed' = Lists!InsertAt(listed, i, [number |-> n, day |-> count'.releases, url |-> url])
      BY <2>1 DEF Publish
    <3>4. [number |-> n, day |-> count'.releases, url |-> url] \in ReleasesTo(b + 1)
      BY <3>1 DEF ReleasesTo
    <3>5. listed' \in Seq(ReleasesTo(b + 1))
      BY <3>2, <3>3, <3>4, ListsStayLists
    <3>6. VersionsTypeOK'
      BY <2>1, <3>1, <3>5 DEF VersionsTypeOK, Publish
    <3> QED BY <2>1, <3>6, NoAnswer DEF Publish
  <2>2. ASSUME NEW i \in DOMAIN listed, Withdraw(i) PROVE VersionsInv'
    <3> DEFINE r == listed[i]
    <3>1. listed \in Seq(ReleasesTo(count.releases)) /\ i \in 1 .. Len(listed)
          /\ r \in ReleasesTo(count.releases)
      BY DEF VersionsTypeOK
    <3>2. listed' \in Seq(ReleasesTo(count.releases))
      BY <2>2, <3>1, ListsStayLists DEF Withdraw
    <3>3. VersionsTypeOK'
      BY <2>2, <3>2 DEF VersionsTypeOK, Withdraw
    <3> QED BY <2>2, <3>3, NoAnswer DEF Withdraw
  <2>3. ASSUME NEW req \in Requests, AddVersion(req) PROVE VersionsInv'
    <3>1. PICK s \in GetVersions : Ask(Question(req, s, FirstMatch(s, req)))
      BY <2>3 DEF AddVersion
    <3>2. \E op \in Operators, t \in Numbers \cup {Unknown, NoNumber} : req = Req(op, t)
      <4>1. "*" \in Operators
        BY DEF Operators
      <4> QED BY <4>1 DEF Requests, AnyVersion
    <3>3. RightVersion'
      BY <3>1, <3>2, Answered, AnswersAreLists DEF Ask
    <3> QED BY <2>3, <3>1, <3>3 DEF AddVersion, NextQuestion, Ask, VersionsTypeOK
  <2>4. CASE AddNewest
    <3>1. PICK s \in GetVersions : Ask(Question(NoReq, s, Newest(s)))
      BY <2>4 DEF AddNewest
    <3>2. RightVersion'
      BY <3>1, Answered, AnswersAreLists DEF Ask
    <3> QED BY <2>4, <3>1, <3>2 DEF AddNewest, NextQuestion, Ask, VersionsTypeOK
  <2>5. CASE ResolveDep
    <3>1. PICK s \in GetVersions :
            /\ Ask(Question(NoReq, s, Newest(s)))
            /\ \E n \in {r.number : r \in Newest(s)} : pinned' = n
      BY <2>5 DEF ResolveDep
    <3>2. RightVersion'
      BY <3>1, Answered, AnswersAreLists DEF Ask
    <3>3. pinned' \in Numbers \cup {Unknown}
      BY <3>1, AnswersAreLists DEF Newest
    <3> QED BY <2>5, <3>1, <3>2, <3>3 DEF ResolveDep, NextQuestion, Ask, VersionsTypeOK
  <2>6. CASE InstallDep
    <3>1. PICK s \in GetVersions : Ask(Question(Exact(pinned), s, FirstMatch(s, Exact(pinned))))
      BY <2>6 DEF InstallDep
    <3>2. \E op \in Operators, t \in Numbers \cup {Unknown, NoNumber} : Exact(pinned) = Req(op, t)
      BY DEF Exact, Operators, VersionsTypeOK
    <3>3. RightVersion'
      BY <3>1, <3>2, Answered, AnswersAreLists DEF Ask
    <3> QED BY <2>6, <3>1, <3>3 DEF InstallDep, Ask, VersionsTypeOK
  <2>7. CASE UNCHANGED versionsVars
    BY <2>7 DEF versionsVars, VersionsTypeOK, RightVersion
  <2> QED BY <2>1, <2>2, <2>3, <2>4, <2>5, <2>6, <2>7 DEF VersionsNext
<1>3. VersionsInv => RightVersion
  BY DEF VersionsInv
<1>4. QED BY <1>1, <1>2, <1>3, PTL DEF VersionsSpec

-----------------------------------------------------------------------------
(***************************************************************************)
(* The files every command reads                                           *)
(***************************************************************************)
SettingsKept == [ConfigKeys -> Values \cup {"unset"}]
VersionsTaken == UNION {LoaderVersions(g) : g \in GamesGiven}
Manifests == {Manifest(g, v) : g \in GamesGiven, v \in VersionsTaken}
Texts == {Absent, Partial, Broken, EmptyManifest} \cup {Settings(s) : s \in SettingsKept}
           \cup Manifests
Alone(k, v) == [x \in {k} |-> v]
Changes == Texts \cup {Settings(Alone(k, v)) : k \in ConfigKeys, v \in Values}
Stages == {"idle", "search", "run", "check", "open", "write", "rename", "readme"}
Jobs == [path : Paths, new : Texts, change : Changes, fd : {"none", "tmp", "file", "gone"}]

WorkspaceTypeOK ==
  /\ file \in [Paths -> Texts]
  /\ tmp \in [Paths -> Texts]
  /\ readme \in [Dirs -> SUBSET GamesGiven]
  /\ place \in [Procs -> Stages]
  /\ base \in [Procs -> SettingsKept]
  /\ job \in [Procs -> Jobs]
  /\ asked \in [Paths -> Texts]
  /\ since \in [Procs -> SUBSET Paths]
  /\ blame \in [Paths -> SUBSET {"shared", "late", "nogame", "skipped", "power"}]
  /\ left \in [commands : Nat, hand : 0 .. MaxHand, stops : Nat]

AtSave == {"open", "write", "rename"}

\* What a process at work is about to save.
SavesSettings(p) ==
  \/ job[p].new = Settings(Defaults) /\ job[p].change = Settings(Defaults)
  \/ \E k \in ConfigKeys, v \in Values :
       /\ job[p].new = Settings([base[p] EXCEPT ![k] = v])
       /\ job[p].change = Settings(Alone(k, v))
SavesManifest(p) == job[p].new \in Manifests /\ job[p].change = job[p].new

JobOf(p) ==
  /\ place[p] \in {"idle", "search", "run"} => job[p] = NoJob
  /\ place[p] \notin {"write", "rename"} => job[p].fd = "none"
  /\ place[p] \in AtSave /\ job[p].path = Config => SavesSettings(p)
  /\ place[p] \in {"check", "readme"} => job[p].path \in Dirs
  /\ place[p] \in AtSave \cup {"check", "readme"} /\ job[p].path \in Dirs => SavesManifest(p)
JobFits == \A p \in Procs : JobOf(p)

\* One writer, and the temporary file is its own.
OneWriter == \A f \in Paths : "shared" \notin blame[f] =>
  /\ \A p, q \in Saving(f) : p = q
  /\ \A p \in Saving(f) : /\ job[p].fd = "tmp"
                          /\ tmp[f] = IF place[p] = "write" THEN Partial ELSE job[p].new

Clean(f) == {"shared", "late", "power"} \cap blame[f] = {}

FileIsAsked == \A f \in Paths : Clean(f) => file[f] = asked[f]

\* What a process has read is still what was asked for.
BaseIsAsked == \A p \in Procs :
  Clean(Config) /\ place[p] \notin {"idle", "readme"} /\ Config \notin since[p]
    /\ asked[Config].is = "settings" => base[p] = asked[Config].keys
NothingYet == \A p \in Procs : \A d \in Dirs :
  Clean(d) /\ place[p] \in AtSave /\ job[p].path = d /\ d \notin since[p] => asked[d] = Absent

ReadmeFits == \A d \in Dirs : blame[d] = {} /\ left.hand = MaxHand =>
  /\ \A game \in readme[d] \ {NoGame} : file[d] \in Manifests /\ file[d].game = game
  /\ \A p \in Procs : place[p] = "readme" /\ job[p].path = d => file[d] = job[p].new

WorkspaceInv ==
  /\ WorkspaceTypeOK /\ JobFits /\ OneWriter /\ NeverLockedOut
  /\ FileIsAsked /\ BaseIsAsked /\ NothingYet /\ ReadmeFits

-----------------------------------------------------------------------------
\* Texts of different kinds differ.
LEMMA TextKinds ==
  /\ {Absent, Partial, Broken, EmptyManifest} \subseteq Texts
  /\ Absent.is = "absent" /\ Partial.is = "torn" /\ Broken.is = "broken"
  /\ EmptyManifest.is = "empty"
  /\ \A s : Settings(s).is = "settings" /\ Settings(s).keys = s
  /\ \A g, v : Manifest(g, v).is = "manifest" /\ Manifest(g, v).game = g
BY DEF Texts, Absent, Partial, Broken, EmptyManifest, Settings, Manifest

LEMMA SettingsAreTexts ==
  /\ Defaults \in SettingsKept
  /\ \A s \in SettingsKept : Settings(s) \in Texts
  /\ \A s \in SettingsKept, k \in ConfigKeys, v \in Values : [s EXCEPT ![k] = v] \in SettingsKept
BY DEF Texts, SettingsKept, Defaults

LEMMA ManifestsAreTexts ==
  /\ Manifests \subseteq Texts
  /\ \A m \in Manifests : m.is = "manifest" /\ m.game \in GamesGiven /\ m # Absent
BY TextKinds DEF Texts, Manifests

LEMMA JobsAre ==
  /\ NoJob \in Jobs /\ NoJob.path = Config /\ NoJob.fd = "none"
  /\ \A j \in Jobs : /\ [j EXCEPT !.fd = "none"] \in Jobs /\ [j EXCEPT !.fd = "tmp"] \in Jobs
                     /\ [j EXCEPT !.fd = "file"] \in Jobs /\ [j EXCEPT !.fd = "gone"] \in Jobs
<1>1. Config \in Paths /\ Absent \in Texts /\ Absent \in Changes
  BY TextKinds DEF Paths, Changes
<1>2. NoJob \in Jobs /\ NoJob.path = Config /\ NoJob.fd = "none"
  BY <1>1 DEF NoJob, Jobs
<1>3. ASSUME NEW j \in Jobs, NEW fd \in {"none", "tmp", "file", "gone"}
      PROVE  [j EXCEPT !.fd = fd] \in Jobs
  BY DEF Jobs
<1> QED BY <1>2, <1>3

LEMMA EmptyGame == NoGame \notin Games /\ NoGame \in GamesGiven /\ Games \subseteq GamesGiven
  /\ Dirs \subseteq Paths /\ Config \in Paths /\ \A d \in Dirs : d # Config
<1>1. \A g \in Games : g # <<>>
  <2>1. \A g \in Nat \X Nat \X Nat : g # <<>>
    OBVIOUS
  <2>2. Games \subseteq Nat \X Nat \X Nat
    BY WorkspaceAssumption DEF WorkspaceAssumption
  <2> QED BY <2>1, <2>2
<1>2. Config \notin Dirs
  BY WorkspaceAssumption DEF WorkspaceAssumption
<1> QED BY <1>1, <1>2 DEF NoGame, GamesGiven, Paths

LEMMA InitWrites ==
  ASSUME NEW info \in InitInfo
  PROVE  Manifest(info.game, info.version) \in Manifests
BY DEF InitInfo, Manifests, VersionsTaken

LEMMA HandWrites ==
  ASSUME NEW f \in Paths, NEW c \in ByHand(f)
  PROVE  c \in Texts /\ (c = Broken \/ Valid(c))
<1>1. NoVersion \in VersionsTaken
  BY EmptyGame DEF VersionsTaken, LoaderVersions
<1>2. \A g \in Games : Manifest(g, NoVersion) \in Manifests /\ g # NoGame
  BY <1>1, EmptyGame DEF Manifests
<1> QED BY <1>2, TextKinds, SettingsAreTexts, ManifestsAreTexts DEF ByHand, Valid

LEMMA WishIsText ==
  ASSUME WorkspaceTypeOK, JobFits, NEW p \in Procs, place[p] \in AtSave
  PROVE  Wish(p) \in Texts
<1>1. job[p] \in Jobs /\ job[p].path \in Paths /\ asked[job[p].path] \in Texts
  BY DEF WorkspaceTypeOK, Jobs
<1>2. CASE job[p].path # Config
  <2>1. job[p].path \in Dirs
    BY <1>1, <1>2 DEF Paths
  <2>2. job[p].change \in Texts
    BY <2>1, ManifestsAreTexts DEF JobFits, JobOf, SavesManifest
  <2>3. Wish(p) = IF asked[job[p].path] = Absent THEN job[p].change ELSE asked[job[p].path]
    BY <1>2 DEF Wish
  <2> QED BY <1>1, <2>2, <2>3
<1>3. CASE job[p].path = Config /\ asked[Config].is # "settings"
  <2>1. job[p].new \in Texts
    BY <1>1 DEF Jobs
  <2> QED BY <1>3, <2>1 DEF Wish
<1>4. CASE job[p].path = Config /\ asked[Config].is = "settings"
  <2> DEFINE now == asked[Config]
             change == job[p].change.keys
             wish == [k \in ConfigKeys |-> IF k \in DOMAIN change THEN change[k] ELSE now.keys[k]]
  <2>1. now.keys \in SettingsKept
    <3>1. now \in Texts
      BY <1>1, <1>4
    <3> HIDE DEF now
    <3>2. now \in {Settings(s) : s \in SettingsKept}
      BY <1>4, <3>1, TextKinds, ManifestsAreTexts DEF Texts, now
    <3> QED BY <3>2, TextKinds
  <2>2. \A k \in DOMAIN change : change[k] \in Values \cup {"unset"}
    <3>1. CASE job[p].change = Settings(Defaults)
      <4>1. change = Defaults
        BY <3>1, TextKinds
      <4> QED BY <4>1 DEF Defaults
    <3>2. ASSUME NEW k \in ConfigKeys, NEW v \in Values, job[p].change = Settings(Alone(k, v))
          PROVE  \A i \in DOMAIN change : change[i] \in Values \cup {"unset"}
      <4>1. change = [x \in {k} |-> v]
        BY <3>2, TextKinds DEF Alone
      <4> QED BY <4>1
    <3> QED BY <1>4, <3>1, <3>2 DEF JobFits, JobOf, SavesSettings
  <2>3. wish \in SettingsKept
    <3> HIDE DEF change, now
    <3> QED BY <2>1, <2>2 DEF SettingsKept
  <2>4. Wish(p) = Settings(wish)
    BY <1>4 DEF Wish
  <2> QED BY <2>3, <2>4, SettingsAreTexts
<1> QED BY <1>2, <1>3, <1>4

LEMMA TypeStep ==
  ASSUME WorkspaceInv, [WorkspaceNext]_workspaceVars
  PROVE  WorkspaceTypeOK'
<1> USE DEF WorkspaceInv
<1>0. WorkspaceTypeOK
  OBVIOUS
<1>1. ASSUME NEW p \in Procs, StartCommand(p) PROVE WorkspaceTypeOK'
  <2>1. Loaded \subseteq SettingsKept
    <3>1. file[Config] \in Texts
      BY EmptyGame DEF WorkspaceTypeOK
    <3>2. CASE file[Config].is = "settings"
      <4>1. file[Config] \in {Settings(s) : s \in SettingsKept}
        BY <3>1, <3>2, TextKinds, ManifestsAreTexts DEF Texts
      <4>2. file[Config].keys \in SettingsKept
        BY <4>1, TextKinds
      <4> QED BY <3>2, <4>2 DEF Loaded
    <3> QED BY <3>2, SettingsAreTexts DEF Loaded
  <2>2. left' \in [commands : Nat, hand : 0 .. MaxHand, stops : Nat]
    BY <1>1 DEF StartCommand, WorkspaceTypeOK
  <2> QED BY <1>1, <2>1, <2>2 DEF StartCommand, Goto, WorkspaceTypeOK, disk, history, Stages
<1>2. ASSUME NEW p \in Procs, End(p),
             UNCHANGED <<file, tmp, readme, asked>>, blame' = blame,
             left' \in [commands : Nat, hand : 0 .. MaxHand, stops : Nat]
      PROVE  WorkspaceTypeOK'
  BY <1>2, JobsAre, SettingsAreTexts DEF End, Rest, Goto, WorkspaceTypeOK, Stages
<1>3. ASSUME NEW p \in Procs, FindModpack(p) PROVE WorkspaceTypeOK'
  <2>1. CASE End(p)
    BY <1>2, <1>3, <2>1 DEF FindModpack, disk, history, WorkspaceTypeOK
  <2>2. CASE ~ End(p)
    BY <1>3, <2>2 DEF FindModpack, Goto, disk, history, WorkspaceTypeOK, Stages
  <2> QED BY <2>1, <2>2
<1>4. ASSUME NEW p \in Procs, OtherCommand(p) PROVE WorkspaceTypeOK'
  BY <1>2, <1>4 DEF OtherCommand, disk, history, WorkspaceTypeOK
<1>5. ASSUME NEW p \in Procs, NEW s \in SettingsKept, NEW change \in Changes,
             Save(p, Config, Settings(s), change),
             UNCHANGED <<disk, base, since, history, left>>
      PROVE  WorkspaceTypeOK'
  <2>1. [path |-> Config, new |-> Settings(s), change |-> change, fd |-> "none"] \in Jobs
    BY EmptyGame, SettingsAreTexts DEF Jobs
  <2> QED BY <1>5, <2>1 DEF Save, Goto, disk, history, WorkspaceTypeOK, Stages
<1>6. ASSUME NEW p \in Procs, ConfigSet(p) PROVE WorkspaceTypeOK'
  <2>1. CASE End(p)
    BY <1>2, <1>6, <2>1 DEF ConfigSet, disk, history, WorkspaceTypeOK
  <2>2. CASE ~ End(p)
    <3>1. PICK k \in ConfigKeys, v \in Values :
            Save(p, Config, Settings([base[p] EXCEPT ![k] = v]), Settings(Alone(k, v)))
      BY <1>6, <2>2 DEF ConfigSet, Alone
    <3>2. [base[p] EXCEPT ![k] = v] \in SettingsKept
      BY SettingsAreTexts DEF WorkspaceTypeOK
    <3>3. Settings(Alone(k, v)) \in Changes
      BY DEF Changes
    <3> QED BY <1>5, <1>6, <2>2, <3>1, <3>2, <3>3 DEF ConfigSet
  <2> QED BY <2>1, <2>2
<1>7. ASSUME NEW p \in Procs, ConfigReset(p) PROVE WorkspaceTypeOK'
  <2>1. CASE End(p)
    BY <1>2, <1>7, <2>1 DEF ConfigReset, disk, history, WorkspaceTypeOK
  <2>2. CASE ~ End(p)
    BY <1>5, <1>7, <2>2, SettingsAreTexts DEF ConfigReset, Changes
  <2> QED BY <2>1, <2>2
<1>8. ASSUME NEW f \in Paths, EditText(f)
      PROVE  /\ file' \in [Paths -> Texts] /\ asked' \in [Paths -> Texts]
             /\ left' \in [commands : Nat, hand : 0 .. MaxHand, stops : Nat]
  <2>1. PICK c \in ByHand(f) : file' = [file EXCEPT ![f] = c] /\ asked' = [asked EXCEPT ![f] = c]
    BY <1>8 DEF EditText
  <2>2. c \in Texts
    BY <2>1, HandWrites
  <2>3. MaxHand \in Nat
    BY WorkspaceAssumption DEF WorkspaceAssumption
  <2> QED BY <1>8, <2>1, <2>2, <2>3 DEF EditText, WorkspaceTypeOK
<1>9. ASSUME NEW f \in Paths, NEW by, Missed(f, by) PROVE since' \in [Procs -> SUBSET Paths]
  BY <1>9 DEF Missed, WorkspaceTypeOK
<1>10. ASSUME NEW p \in Procs, ConfigEdit(p) PROVE WorkspaceTypeOK'
  BY <1>8, <1>9, <1>10, EmptyGame, SettingsAreTexts
     DEF ConfigEdit, EditText, Rest, Goto, WorkspaceTypeOK, Stages
<1>11. ASSUME NEW f \in Paths, HandEdit(f) PROVE WorkspaceTypeOK'
  BY <1>8, <1>9, <1>11 DEF HandEdit, EditText, WorkspaceTypeOK
<1>12. ASSUME NEW p \in Procs, InitDirs(p) PROVE WorkspaceTypeOK'
  <2>1. PICK d \in Dirs, info \in InitInfo :
          job' = [job EXCEPT ![p] = [path |-> d, new |-> Manifest(info.game, info.version),
                                     change |-> Manifest(info.game, info.version), fd |-> "none"]]
    BY <1>12 DEF InitDirs
  <2>2. Manifest(info.game, info.version) \in Texts
    BY InitWrites, ManifestsAreTexts
  <2>3. [path |-> d, new |-> Manifest(info.game, info.version),
         change |-> Manifest(info.game, info.version), fd |-> "none"] \in Jobs
    BY <2>2, EmptyGame DEF Jobs, Changes
  <2>4. job' \in [Procs -> Jobs]
    BY <2>1, <2>3 DEF WorkspaceTypeOK
  <2> QED BY <1>12, <2>4 DEF InitDirs, Goto, history, WorkspaceTypeOK, Stages
<1>13. ASSUME NEW p \in Procs, InitCheck(p) PROVE WorkspaceTypeOK'
  <2>1. job[p].path \in Paths
    BY DEF WorkspaceTypeOK, Jobs
  <2> QED BY <1>13, <2>1 DEF InitCheck, Goto, disk, WorkspaceTypeOK, Stages
<1>14. ASSUME NEW p \in Procs, InitReadme(p) PROVE WorkspaceTypeOK'
  <2>1. job[p].path \in Dirs /\ job[p].new.game \in GamesGiven
    BY <1>14, ManifestsAreTexts DEF InitReadme, JobFits, JobOf, SavesManifest
  <2>2. readme' \in [Dirs -> SUBSET GamesGiven]
    BY <1>14, <2>1, EmptyGame DEF InitReadme, WorkspaceTypeOK
  <2> QED BY <1>14, <2>2, JobsAre, SettingsAreTexts
         DEF InitReadme, End, Rest, Goto, history, WorkspaceTypeOK, Stages
<1>15. ASSUME NEW p \in Procs, OpenTmp(p) PROVE WorkspaceTypeOK'
  <2>1. job[p].path \in Paths /\ job' \in [Procs -> Jobs]
    BY <1>15, JobsAre DEF OpenTmp, WorkspaceTypeOK, Jobs
  <2>2. tmp' \in [Paths -> Texts]
    BY <1>15, <2>1, TextKinds DEF OpenTmp, WorkspaceTypeOK
  <2> QED BY <1>15, <2>1, <2>2 DEF OpenTmp, Goto, WorkspaceTypeOK, Stages
<1>16. ASSUME NEW p \in Procs, WriteTmp(p) PROVE WorkspaceTypeOK'
  <2>1. job[p].path \in Paths /\ job[p].new \in Texts
    BY DEF WorkspaceTypeOK, Jobs
  <2> QED BY <1>16, <2>1 DEF WriteTmp, Goto, history, WorkspaceTypeOK, Stages
<1>17. ASSUME NEW p \in Procs, WriteFails(p) PROVE WorkspaceTypeOK'
  <2>1. job[p].path \in Paths
    BY DEF WorkspaceTypeOK, Jobs
  <2>2. tmp' \in [Paths -> Texts]
    BY <1>17, <2>1, TextKinds DEF WriteFails, WorkspaceTypeOK
  <2>3. Handles(job[p].path, "tmp", "gone") \in [Procs -> Jobs]
    BY JobsAre DEF Handles, WorkspaceTypeOK
  <2>4. job' \in [Procs -> Jobs]
    BY <1>17, <2>3, JobsAre DEF WriteFails, WorkspaceTypeOK
  <2> QED BY <1>17, <2>2, <2>4, SettingsAreTexts
         DEF WriteFails, Rest, Goto, history, WorkspaceTypeOK, Stages
<1>18. ASSUME NEW p \in Procs, RenameTmp(p) PROVE WorkspaceTypeOK'
  <2> DEFINE f == job[p].path
  <2>1. f \in Paths /\ Wish(p) \in Texts
    BY <1>18, WishIsText DEF WorkspaceTypeOK, Jobs, RenameTmp, AtSave
  <2>2. file' \in [Paths -> Texts] /\ tmp' \in [Paths -> Texts] /\ asked' \in [Paths -> Texts]
    BY <1>18, <2>1, TextKinds DEF RenameTmp, WorkspaceTypeOK
  <2>3. blame' \in [Paths -> SUBSET {"shared", "late", "nogame", "skipped", "power"}]
    BY <1>18, <2>1 DEF RenameTmp, WorkspaceTypeOK
  <2>4. job' \in [Procs -> Jobs]
    BY <1>18, JobsAre DEF RenameTmp, WorkspaceTypeOK
  <2>5. since' \in [Procs -> SUBSET Paths]
    BY <1>9, <1>18, <2>1 DEF RenameTmp
  <2>6. place' \in [Procs -> Stages] /\ base' \in [Procs -> SettingsKept]
    <3>1. CASE f = Config
      BY <1>18, <3>1, SettingsAreTexts DEF RenameTmp, Rest, Goto, WorkspaceTypeOK, Stages
    <3>2. CASE f # Config
      BY <1>18, <3>2 DEF RenameTmp, Goto, WorkspaceTypeOK, Stages
    <3> QED BY <3>1, <3>2
  <2> QED BY <1>18, <2>2, <2>3, <2>4, <2>5, <2>6 DEF RenameTmp, WorkspaceTypeOK
<1>19. ASSUME NEW p \in Procs, RenameFails(p) PROVE WorkspaceTypeOK'
  BY <1>2, <1>19 DEF RenameFails, disk, history, WorkspaceTypeOK
<1>20. ASSUME NEW p \in Procs, KillCommand(p) PROVE WorkspaceTypeOK'
  <2>1. left' \in [commands : Nat, hand : 0 .. MaxHand, stops : Nat]
    BY <1>20 DEF KillCommand, WorkspaceTypeOK
  <2> QED BY <1>2, <1>20, <2>1 DEF KillCommand, disk, history
<1>21. CASE PowerLoss
  <2>1. file' \in [Paths -> Texts] /\ tmp' \in [Paths -> Texts]
    BY <1>21, TextKinds DEF PowerLoss, WorkspaceTypeOK
  <2>2. blame' \in [Paths -> SUBSET {"shared", "late", "nogame", "skipped", "power"}]
    BY <1>21 DEF PowerLoss, WorkspaceTypeOK
  <2>3. left' \in [commands : Nat, hand : 0 .. MaxHand, stops : Nat]
    BY <1>21 DEF PowerLoss, WorkspaceTypeOK
  <2>4. /\ place' \in [Procs -> Stages] /\ base' \in [Procs -> SettingsKept]
        /\ job' \in [Procs -> Jobs] /\ since' \in [Procs -> SUBSET Paths]
    BY <1>21, JobsAre, SettingsAreTexts DEF PowerLoss, Stages
  <2> QED BY <1>21, <2>1, <2>2, <2>3, <2>4 DEF PowerLoss, WorkspaceTypeOK
<1>22. CASE UNCHANGED workspaceVars
  BY <1>22 DEF workspaceVars, WorkspaceTypeOK
<1> QED BY <1>1, <1>3, <1>4, <1>6, <1>7, <1>10, <1>11, <1>12, <1>13, <1>14, <1>15, <1>16, <1>17,
           <1>18, <1>19, <1>20, <1>21, <1>22 DEF WorkspaceNext

-----------------------------------------------------------------------------
\* What a process does to the others: it may take away the name of their handle.
CommandStep(p) ==
  \/ StartCommand(p) \/ FindModpack(p) \/ OtherCommand(p)
  \/ ConfigSet(p) \/ ConfigReset(p) \/ ConfigEdit(p)
  \/ InitDirs(p) \/ InitCheck(p) \/ InitReadme(p)
  \/ OpenTmp(p) \/ WriteTmp(p) \/ WriteFails(p) \/ RenameTmp(p) \/ RenameFails(p)
  \/ KillCommand(p)

LEMMA StepsAre ==
  ASSUME [WorkspaceNext]_workspaceVars
  PROVE  \/ \E p \in Procs : CommandStep(p)
         \/ \E f \in Paths : HandEdit(f)
         \/ PowerLoss
         \/ UNCHANGED workspaceVars
BY DEF WorkspaceNext, CommandStep

HandleMoved(q) ==
  \/ job'[q] = job[q]
  \/ /\ job[q].fd # "none"
     /\ \E fd \in {"tmp", "file", "gone"} : job'[q] = [job[q] EXCEPT !.fd = fd]
Same(q) == place'[q] = place[q] /\ base'[q] = base[q] /\ HandleMoved(q)

LEMMA Elsewhere ==
  ASSUME WorkspaceTypeOK, NEW p \in Procs, CommandStep(p), NEW q \in Procs, q # p
  PROVE  /\ Same(q)
         /\ job'[q] # job[q] => job[q].path = job[p].path /\ place[p] \in {"write", "rename"}
<1> USE DEF Same, HandleMoved, Goto, Rest, End, Save, WorkspaceTypeOK
<1>1. CASE StartCommand(p) \/ FindModpack(p) \/ OtherCommand(p) \/ KillCommand(p)
  BY <1>1 DEF StartCommand, FindModpack, OtherCommand, KillCommand
<1>2. CASE ConfigSet(p) \/ ConfigReset(p) \/ ConfigEdit(p)
  BY <1>2 DEF ConfigSet, ConfigReset, ConfigEdit
<1>3. CASE InitDirs(p) \/ InitCheck(p) \/ InitReadme(p)
  BY <1>3 DEF InitDirs, InitCheck, InitReadme
<1>4. CASE OpenTmp(p) \/ WriteTmp(p) \/ RenameFails(p)
  BY <1>4 DEF OpenTmp, WriteTmp, RenameFails
<1>5. CASE WriteFails(p)
  <2>1. place'[q] = place[q] /\ base'[q] = base[q]
    BY <1>5 DEF WriteFails
  <2>2. job'[q] = job[q] \/ job'[q] = Handles(job[p].path, "tmp", "gone")[q]
    BY <1>5 DEF WriteFails, Handles
  <2> QED BY <1>5, <2>1, <2>2 DEF Handles, WriteFails
<1>6. CASE RenameTmp(p)
  <2>1. place'[q] = place[q] /\ base'[q] = base[q]
    BY <1>6 DEF RenameTmp
  <2>2. \/ job'[q] = job[q]
        \/ /\ job[q].fd # "none" /\ job[q].path = job[p].path
           /\ job'[q] = [job[q] EXCEPT !.fd = IF @ = "tmp" THEN "file" ELSE "gone"]
    BY <1>6 DEF RenameTmp
  <2> QED BY <1>6, <2>1, <2>2 DEF RenameTmp
<1> QED BY <1>1, <1>2, <1>3, <1>4, <1>5, <1>6 DEF CommandStep

LEMMA SameJob ==
  ASSUME WorkspaceTypeOK, NEW q \in Procs, JobOf(q), Same(q)
  PROVE  /\ JobOf(q)'
         /\ job'[q].path = job[q].path /\ job'[q].new = job[q].new
         /\ job'[q].change = job[q].change
         /\ job'[q] # job[q] => place[q] \in {"write", "rename"}
<1>1. /\ job'[q].path = job[q].path /\ job'[q].new = job[q].new
      /\ job'[q].change = job[q].change
      /\ job'[q] # job[q] => place[q] \in {"write", "rename"}
  BY DEF Same, HandleMoved, JobOf, WorkspaceTypeOK, Jobs
<1> QED BY <1>1 DEF JobOf, Same, SavesSettings, SavesManifest

\* A process that begins or ends has no job.
LEMMA NoJobFits ==
  ASSUME NEW p \in Procs, job'[p] = NoJob, place'[p] \in {"idle", "search", "run"}
  PROVE  JobOf(p)'
BY JobsAre DEF JobOf, AtSave

LEMMA JobStep ==
  ASSUME WorkspaceInv, [WorkspaceNext]_workspaceVars
  PROVE  JobFits'
<1> USE DEF WorkspaceInv
<1>0. WorkspaceTypeOK'
  BY TypeStep
<1>1. ASSUME NEW p \in Procs, CommandStep(p), NEW q \in Procs, q # p PROVE JobOf(q)'
  BY <1>1, Elsewhere, SameJob DEF JobFits
<1>2. ASSUME NEW p \in Procs, CommandStep(p) PROVE JobOf(p)'
  <2>1. JobOf(p) /\ job[p] \in Jobs
    BY DEF JobFits, WorkspaceTypeOK
  <2>2. CASE End(p)
    BY <2>2, NoJobFits DEF End, Rest, Goto, WorkspaceTypeOK
  <2>3. CASE StartCommand(p)
    BY <2>1, <2>3, NoJobFits DEF StartCommand, Goto, JobOf, WorkspaceTypeOK
  <2>4. CASE FindModpack(p) /\ ~ End(p)
    BY <2>1, <2>4, NoJobFits DEF FindModpack, Goto, JobOf, WorkspaceTypeOK
  <2>5. CASE OtherCommand(p) \/ InitReadme(p) \/ RenameFails(p) \/ KillCommand(p)
    BY <2>2, <2>5 DEF OtherCommand, InitReadme, RenameFails, KillCommand
  <2>6. CASE ConfigSet(p) /\ ~ End(p)
    <3>1. PICK k \in ConfigKeys, v \in Values :
            Save(p, Config, Settings([base[p] EXCEPT ![k] = v]), Settings(Alone(k, v)))
      BY <2>6 DEF ConfigSet, Alone
    <3>2. /\ place'[p] = "open" /\ base' = base
          /\ job'[p] = [path |-> Config, new |-> Settings([base[p] EXCEPT ![k] = v]),
                        change |-> Settings(Alone(k, v)), fd |-> "none"]
      BY <2>6, <3>1 DEF ConfigSet, Save, Goto, WorkspaceTypeOK
    <3>3. SavesSettings(p)'
      BY <3>2 DEF SavesSettings
    <3> QED BY <3>2, <3>3, EmptyGame DEF JobOf, AtSave
  <2>7. CASE ConfigReset(p) /\ ~ End(p)
    <3>1. /\ place'[p] = "open"
          /\ job'[p] = [path |-> Config, new |-> Settings(Defaults),
                        change |-> Settings(Defaults), fd |-> "none"]
      BY <2>7 DEF ConfigReset, Save, Goto, WorkspaceTypeOK
    <3> QED BY <3>1, EmptyGame DEF JobOf, AtSave, SavesSettings
  <2>8. CASE ConfigEdit(p)
    BY <2>1, <2>8, NoJobFits DEF ConfigEdit, Rest, Goto, JobOf, WorkspaceTypeOK
  <2>9. CASE InitDirs(p)
    <3>1. PICK d \in Dirs, info \in InitInfo :
            job' = [job EXCEPT ![p] = [path |-> d, new |-> Manifest(info.game, info.version),
                                       change |-> Manifest(info.game, info.version), fd |-> "none"]]
      BY <2>9 DEF InitDirs
    <3>2. place'[p] = "check"
          /\ job'[p] = [path |-> d, new |-> Manifest(info.game, info.version),
                        change |-> Manifest(info.game, info.version), fd |-> "none"]
      BY <2>9, <3>1 DEF InitDirs, Goto, WorkspaceTypeOK
    <3> QED BY <3>2, InitWrites, EmptyGame DEF JobOf, AtSave, SavesManifest
  <2>10. CASE InitCheck(p)
    <3>1. /\ place[p] = "check" /\ place'[p] \in {"open", "readme"} /\ job' = job
      BY <2>10 DEF InitCheck, Goto, WorkspaceTypeOK
    <3> QED BY <2>1, <3>1, EmptyGame DEF JobOf, AtSave, SavesManifest
  <2>11. CASE OpenTmp(p)
    <3>1. /\ place[p] = "open" /\ place'[p] = "write" /\ base' = base
          /\ job'[p] = [job[p] EXCEPT !.fd = "tmp"]
      BY <2>11 DEF OpenTmp, Goto, WorkspaceTypeOK
    <3>2. job'[p].path = job[p].path /\ job'[p].new = job[p].new /\ job'[p].change = job[p].change
      BY <2>1, <3>1 DEF Jobs
    <3> QED BY <2>1, <3>1, <3>2 DEF JobOf, AtSave, SavesManifest, SavesSettings
  <2>12. CASE WriteTmp(p)
    <3>1. /\ place[p] = "write" /\ place'[p] = "rename" /\ base' = base /\ job' = job
      BY <2>12 DEF WriteTmp, Goto, WorkspaceTypeOK
    <3> QED BY <2>1, <3>1 DEF JobOf, AtSave, SavesManifest, SavesSettings
  <2>13. CASE WriteFails(p)
    <3>1. place'[p] = "idle" /\ job'[p] = NoJob
      BY <2>13 DEF WriteFails, Rest, Goto, Handles, WorkspaceTypeOK
    <3> QED BY <3>1, NoJobFits
  <2>14. CASE RenameTmp(p)
    <3>1. CASE job[p].path = Config
      <4>1. place'[p] = "idle" /\ job'[p] = NoJob
        BY <2>14, <3>1 DEF RenameTmp, Rest, Goto, WorkspaceTypeOK
      <4> QED BY <4>1, NoJobFits
    <3>2. CASE job[p].path # Config
      <4>1. place[p] = "rename" /\ place'[p] = "readme" /\ job'[p] = [job[p] EXCEPT !.fd = "none"]
        BY <2>14, <3>2 DEF RenameTmp, Goto, WorkspaceTypeOK
      <4>2. job'[p].path = job[p].path /\ job'[p].new = job[p].new
            /\ job'[p].change = job[p].change /\ job'[p].fd = "none" /\ job[p].path \in Dirs
        BY <2>1, <3>2, <4>1 DEF Jobs, Paths
      <4> QED BY <2>1, <4>1, <4>2 DEF JobOf, AtSave, SavesManifest
    <3> QED BY <3>1, <3>2
  <2> QED BY <1>2, <2>2, <2>3, <2>4, <2>5, <2>6, <2>7, <2>8, <2>9, <2>10, <2>11, <2>12, <2>13, <2>14
         DEF CommandStep
<1>3. ASSUME NEW f \in Paths, HandEdit(f) PROVE JobFits'
  BY <1>3 DEF HandEdit, JobFits, JobOf, SavesSettings, SavesManifest
<1>4. CASE PowerLoss
  BY <1>4, NoJobFits DEF PowerLoss, JobFits
<1>5. CASE UNCHANGED workspaceVars
  BY <1>5 DEF workspaceVars, JobFits, JobOf, SavesSettings, SavesManifest
<1> QED BY <1>1, <1>2, <1>3, <1>4, <1>5, StepsAre DEF JobFits

-----------------------------------------------------------------------------
\* What was blamed stays blamed.
LEMMA BlameGrows ==
  ASSUME WorkspaceTypeOK, [WorkspaceNext]_workspaceVars, NEW f \in Paths
  PROVE  blame[f] \subseteq blame'[f]
<1> USE DEF WorkspaceTypeOK
<1>1. ASSUME NEW p \in Procs, CommandStep(p) PROVE blame[f] \subseteq blame'[f]
  <2>1. CASE InitCheck(p) \/ OpenTmp(p) \/ RenameTmp(p)
    BY <2>1 DEF InitCheck, OpenTmp, RenameTmp
  <2>2. CASE ~ (InitCheck(p) \/ OpenTmp(p) \/ RenameTmp(p))
    BY <1>1, <2>2 DEF CommandStep, StartCommand, FindModpack, OtherCommand, ConfigSet, ConfigReset,
       ConfigEdit, EditText, InitDirs, InitReadme, WriteTmp, WriteFails, RenameFails, KillCommand, history
  <2> QED BY <2>1, <2>2
<1>2. ASSUME NEW g \in Paths, HandEdit(g) PROVE blame[f] \subseteq blame'[f]
  BY <1>2 DEF HandEdit, EditText
<1>3. CASE PowerLoss
  BY <1>3 DEF PowerLoss
<1>4. CASE UNCHANGED workspaceVars
  BY <1>4 DEF workspaceVars
<1> QED BY <1>1, <1>2, <1>3, <1>4, StepsAre

\* The steps of a process that leave the files, their names and what was asked alone.
Quiet(p) ==
  \/ StartCommand(p) \/ FindModpack(p) \/ OtherCommand(p) \/ ConfigSet(p) \/ ConfigReset(p)
  \/ InitDirs(p) \/ InitCheck(p) \/ InitReadme(p) \/ RenameFails(p) \/ KillCommand(p)

LEMMA QuietSteps ==
  ASSUME WorkspaceTypeOK, NEW p \in Procs, Quiet(p)
  PROVE  /\ file' = file /\ tmp' = tmp /\ asked' = asked
         /\ place'[p] \notin {"write", "rename"}
         /\ left'.hand = left.hand
BY DEF Quiet, StartCommand, FindModpack, OtherCommand, ConfigSet, ConfigReset, InitDirs, InitCheck,
       InitReadme, RenameFails, KillCommand, disk, history, Save, End, Rest, Goto, WorkspaceTypeOK

LEMMA SavingElsewhere ==
  ASSUME WorkspaceTypeOK, JobFits, NEW p \in Procs, CommandStep(p), NEW f \in Paths
  PROVE  Saving(f)' \ {p} = Saving(f) \ {p}
<1>1. \A q \in Procs \ {p} : place'[q] = place[q] /\ job'[q].path = job[q].path
  BY Elsewhere, SameJob DEF JobFits, Same
<1> QED BY <1>1 DEF Saving

WriterOf(f) ==
  /\ \A p, q \in Saving(f) : p = q
  /\ \A p \in Saving(f) : /\ job[p].fd = "tmp"
                          /\ tmp[f] = IF place[p] = "write" THEN Partial ELSE job[p].new

LEMMA WriterStep ==
  ASSUME WorkspaceInv, [WorkspaceNext]_workspaceVars
  PROVE  OneWriter'
<1> USE DEF WorkspaceInv
<1>0. SUFFICES ASSUME NEW f \in Paths, "shared" \notin blame'[f] PROVE WriterOf(f)'
  BY DEF OneWriter, WriterOf
<1>1. WriterOf(f) /\ WorkspaceTypeOK /\ JobFits
  BY <1>0, BlameGrows DEF OneWriter, WriterOf
<1>2. ASSUME NEW p \in Procs, CommandStep(p), Saving(f)' \subseteq Saving(f) \ {p}, tmp'[f] = tmp[f]
      PROVE  WriterOf(f)'
  <2>1. ASSUME NEW q \in Saving(f)' PROVE q \in Saving(f) /\ place'[q] = place[q] /\ job'[q] = job[q]
    <3>1. q \in Procs /\ q # p /\ q \in Saving(f) /\ job[q].path = f
      BY <1>2, <2>1 DEF Saving
    <3>2. p \notin Saving(f)
      BY <1>1, <3>1 DEF WriterOf
    <3> QED BY <1>2, <3>1, <3>2, Elsewhere DEF Same, Saving
  <2> QED BY <1>1, <1>2, <2>1 DEF WriterOf
<1>3. ASSUME NEW p \in Procs, CommandStep(p),
             place'[p] \notin {"write", "rename"} \/ (job[p].path # f /\ job'[p].path # f),
             tmp'[f] = tmp[f]
      PROVE  WriterOf(f)'
  <2>1. Saving(f)' \ {p} = Saving(f) \ {p}
    BY <1>1, <1>3, SavingElsewhere
  <2>2. p \notin Saving(f)'
    BY <1>3 DEF Saving
  <2> QED BY <1>2, <1>3, <2>1, <2>2
<1>4. ASSUME NEW p \in Procs, CommandStep(p), Saving(f)' \subseteq {p},
             p \in Saving(f)' => /\ job'[p].fd = "tmp"
                                 /\ tmp'[f] = IF place'[p] = "write" THEN Partial ELSE job'[p].new
      PROVE  WriterOf(f)'
  BY <1>4 DEF WriterOf
<1>5. ASSUME NEW p \in Procs, CommandStep(p), p \in Saving(f)
      PROVE  Saving(f)' \subseteq {p} /\ job[p].fd = "tmp"
  <2>1. Saving(f) \ {p} = {} /\ job[p].fd = "tmp"
    BY <1>1, <1>5 DEF WriterOf
  <2> QED BY <1>1, <1>5, <2>1, SavingElsewhere
<1>6. ASSUME NEW p \in Procs, Quiet(p) PROVE WriterOf(f)'
  <2>1. CommandStep(p) /\ tmp'[f] = tmp[f] /\ place'[p] \notin {"write", "rename"}
    <3>1. CommandStep(p)
      BY <1>6 DEF Quiet, CommandStep
    <3> QED BY <1>1, <1>6, <3>1, QuietSteps
  <2> QED BY <1>3, <2>1
<1>7. ASSUME NEW p \in Procs, ConfigEdit(p) PROVE WriterOf(f)'
  <2>1. place'[p] = "idle" /\ tmp' = tmp
    BY <1>7 DEF ConfigEdit, EditText, Rest, Goto, WorkspaceTypeOK
  <2>2. CommandStep(p) /\ tmp'[f] = tmp[f] /\ place'[p] \notin {"write", "rename"}
    BY <1>7, <2>1 DEF CommandStep
  <2> QED BY <1>3, <2>2
<1>8. ASSUME NEW p \in Procs, OpenTmp(p) PROVE WriterOf(f)'
  <2>1. /\ place'[p] = "write" /\ job[p].path \in Paths
        /\ job'[p] = [job[p] EXCEPT !.fd = "tmp"] /\ tmp' = [tmp EXCEPT ![job[p].path] = Partial]
        /\ job[p].path = f => Saving(f) = {}
    BY <1>0, <1>8 DEF OpenTmp, Goto, WorkspaceTypeOK, Jobs
  <2>2. job'[p].path = job[p].path /\ job'[p].fd = "tmp"
    BY <2>1 DEF WorkspaceTypeOK, Jobs
  <2>3. CASE job[p].path = f
    <3>1. tmp'[f] = Partial /\ Saving(f)' \subseteq {p}
      BY <1>1, <1>8, <2>1, <2>3, SavingElsewhere DEF CommandStep, WorkspaceTypeOK
    <3> QED BY <1>4, <1>8, <2>1, <2>2, <3>1 DEF CommandStep
  <2>4. CASE job[p].path # f
    <3>1. tmp'[f] = tmp[f]
      BY <2>1, <2>4 DEF WorkspaceTypeOK
    <3> QED BY <1>3, <1>8, <2>2, <2>4, <3>1 DEF CommandStep
  <2> QED BY <2>3, <2>4
<1>9. ASSUME NEW p \in Procs, WriteTmp(p) PROVE WriterOf(f)'
  <2>1. /\ place[p] = "write" /\ place'[p] = "rename" /\ job[p].path \in Paths /\ job' = job
        /\ tmp' = [tmp EXCEPT ![job[p].path] = IF job[p].fd = "tmp" THEN job[p].new ELSE @]
    BY <1>9 DEF WriteTmp, Goto, WorkspaceTypeOK, Jobs
  <2>2. CASE job[p].path = f
    <3>1. p \in Saving(f)
      BY <2>1, <2>2 DEF Saving
    <3>2. Saving(f)' \subseteq {p} /\ job[p].fd = "tmp"
      BY <1>5, <1>9, <3>1 DEF CommandStep
    <3>3. tmp'[f] = job[p].new
      BY <2>1, <2>2, <3>2 DEF WorkspaceTypeOK
    <3> QED BY <1>4, <1>9, <2>1, <3>2, <3>3 DEF CommandStep
  <2>3. CASE job[p].path # f
    <3>1. tmp'[f] = tmp[f]
      BY <2>1, <2>3 DEF WorkspaceTypeOK
    <3> QED BY <1>3, <1>9, <2>1, <2>3, <3>1 DEF CommandStep
  <2> QED BY <2>2, <2>3
<1>10. ASSUME NEW p \in Procs, WriteFails(p) \/ RenameTmp(p) PROVE WriterOf(f)'
  <2>1. /\ place[p] \in {"write", "rename"} /\ place'[p] \notin {"write", "rename"}
        /\ job[p].path # f => tmp'[f] = tmp[f]
    BY <1>10 DEF WriteFails, RenameTmp, Rest, Goto, WorkspaceTypeOK
  <2>2. CASE job[p].path = f
    <3>1. p \in Saving(f) /\ p \notin Saving(f)'
      BY <2>1, <2>2 DEF Saving
    <3> QED BY <1>4, <1>5, <1>10, <3>1 DEF CommandStep
  <2>3. CASE job[p].path # f
    <3>1. CommandStep(p) /\ tmp'[f] = tmp[f] /\ place'[p] \notin {"write", "rename"}
      BY <1>10, <2>1, <2>3 DEF CommandStep
    <3> QED BY <1>3, <3>1
  <2> QED BY <2>2, <2>3
<1>11. ASSUME NEW g \in Paths, HandEdit(g) PROVE WriterOf(f)'
  BY <1>1, <1>11 DEF HandEdit, EditText, WriterOf, Saving
<1>12. CASE PowerLoss
  BY <1>12 DEF PowerLoss, WriterOf, Saving
<1>13. CASE UNCHANGED workspaceVars
  BY <1>1, <1>13 DEF workspaceVars, WriterOf, Saving
<1> QED BY <1>6, <1>7, <1>8, <1>9, <1>10, <1>11, <1>12, <1>13, StepsAre DEF CommandStep, Quiet

-----------------------------------------------------------------------------
\* How a file and what was asked of it change.
HandChange(f) ==
  /\ \E c \in ByHand(f) : file'[f] = c /\ asked'[f] = c
  /\ left'.hand < left.hand
Renamed(p, f) ==
  /\ RenameTmp(p) /\ job[p].path = f
  /\ "shared" \notin blame'[f] => file'[f] = job[p].new
  /\ asked'[f] = Wish(p)

LEMMA HandSteps ==
  ASSUME WorkspaceTypeOK, NEW g \in Paths, EditText(g), NEW f \in Paths
  PROVE  IF f = g THEN HandChange(f) ELSE file'[f] = file[f] /\ asked'[f] = asked[f]
BY DEF EditText, HandChange, WorkspaceTypeOK

LEMMA FileSteps ==
  ASSUME WorkspaceInv, [WorkspaceNext]_workspaceVars, NEW f \in Paths
  PROVE  \/ file'[f] = file[f] /\ asked'[f] = asked[f]
         \/ HandChange(f)
         \/ asked'[f] = asked[f] /\ {"shared", "power"} \cap blame'[f] # {}
         \/ \E p \in Procs : Renamed(p, f)
<1> DEFINE Goal == \/ file'[f] = file[f] /\ asked'[f] = asked[f]
                   \/ HandChange(f)
                   \/ asked'[f] = asked[f] /\ {"shared", "power"} \cap blame'[f] # {}
                   \/ \E p \in Procs : Renamed(p, f)
<1>0. WorkspaceTypeOK /\ blame[f] \subseteq blame'[f] /\ blame'[f] \subseteq blame'[f]
  BY BlameGrows DEF WorkspaceInv
<1>1. ASSUME NEW p \in Procs, CommandStep(p) PROVE Goal
  <2>1. CASE Quiet(p)
    BY <1>0, <2>1, QuietSteps
  <2>2. CASE ConfigEdit(p)
    BY <1>0, <2>2, HandSteps, EmptyGame DEF ConfigEdit
  <2>3. CASE OpenTmp(p) \/ WriteFails(p)
    BY <2>3 DEF OpenTmp, WriteFails, history
  <2>4. CASE WriteTmp(p)
    <3>1. asked' = asked /\ (job[p].path # f \/ job[p].fd # "file" => file'[f] = file[f])
      BY <1>0, <2>4 DEF WriteTmp, history, WorkspaceTypeOK, Jobs
    <3>2. job[p].path = f /\ job[p].fd = "file" => "shared" \in blame[f]
      BY <2>4 DEF WriteTmp, OneWriter, Saving, WorkspaceInv
    <3> QED BY <1>0, <3>1, <3>2
  <2>5. CASE RenameTmp(p)
    <3>1. CASE job[p].path = f
      <4>1. file'[f] = tmp[f] /\ asked'[f] = Wish(p)
        BY <1>0, <2>5, <3>1 DEF RenameTmp, WorkspaceTypeOK
      <4>2. "shared" \notin blame[f] => tmp[f] = job[p].new
        BY <2>5, <3>1 DEF RenameTmp, OneWriter, Saving, WorkspaceInv
      <4> QED BY <1>0, <2>5, <3>1, <4>1, <4>2 DEF Renamed
    <3>2. CASE job[p].path # f
      BY <1>0, <2>5, <3>2 DEF RenameTmp, WorkspaceTypeOK
    <3> QED BY <3>1, <3>2
  <2> QED BY <1>1, <2>1, <2>2, <2>3, <2>4, <2>5 DEF CommandStep, Quiet
<1>2. ASSUME NEW g \in Paths, HandEdit(g) PROVE Goal
  BY <1>0, <1>2, HandSteps DEF HandEdit
<1>3. CASE PowerLoss
  <2>1. PICK gone \in SUBSET unsynced :
          /\ file' = [g \in Paths |-> IF g \in gone THEN Partial ELSE file[g]]
          /\ blame' = [g \in Paths |-> IF g \in gone THEN blame[g] \cup {"power"} ELSE blame[g]]
    BY <1>3 DEF PowerLoss
  <2>2. asked' = asked
    BY <1>3 DEF PowerLoss
  <2> QED BY <2>1, <2>2
<1>4. CASE UNCHANGED workspaceVars
  BY <1>4 DEF workspaceVars
<1> QED BY <1>1, <1>2, <1>3, <1>4, StepsAre

LEMMA LocksStep ==
  ASSUME WorkspaceInv, [WorkspaceNext]_workspaceVars
  PROVE  NeverLockedOut'
<1>0. SUFFICES ASSUME NEW f \in Paths, file'[f] # Absent, ~ Valid(file'[f]), asked'[f] # Broken,
                      {"nogame", "shared", "power"} \cap blame'[f] = {}
               PROVE  FALSE
  BY DEF NeverLockedOut, Valid
<1>1. blame[f] \subseteq blame'[f]
  BY BlameGrows DEF WorkspaceInv
<1>2. CASE file'[f] = file[f] /\ asked'[f] = asked[f]
  BY <1>0, <1>1, <1>2 DEF WorkspaceInv, NeverLockedOut
<1>3. CASE HandChange(f)
  BY <1>0, <1>3, HandWrites DEF HandChange
<1>4. ASSUME NEW p \in Procs, Renamed(p, f) PROVE FALSE
  <2>1. file'[f] = job[p].new /\ Valid(job[p].new)
    BY <1>0, <1>4 DEF Renamed, RenameTmp, WorkspaceInv, WorkspaceTypeOK
  <2> QED BY <1>0, <2>1
<1> QED BY <1>0, <1>2, <1>3, <1>4, FileSteps

LEMMA WishIsNew ==
  ASSUME WorkspaceInv, NEW p \in Procs, place[p] = "rename", NEW f \in Paths, job[p].path = f,
         Clean(f), f \notin since[p]
  PROVE  Wish(p) = job[p].new
<1>1. JobOf(p)
  BY DEF WorkspaceInv, JobFits
<1>2. CASE f # Config
  <2>1. f \in Dirs
    BY <1>2 DEF Paths
  <2>2. asked[f] = Absent /\ job[p].change = job[p].new
    BY <1>1, <2>1 DEF WorkspaceInv, NothingYet, AtSave, JobOf, SavesManifest
  <2> QED BY <1>2, <2>2 DEF Wish
<1>3. CASE f = Config /\ asked[Config].is # "settings"
  BY <1>3 DEF Wish
<1>4. CASE f = Config /\ asked[Config].is = "settings"
  <2>1. base[p] = asked[Config].keys /\ base[p] \in SettingsKept
    BY <1>4 DEF WorkspaceInv, BaseIsAsked, WorkspaceTypeOK
  <2>2. Wish(p) = Settings([k \in ConfigKeys |-> IF k \in DOMAIN job[p].change.keys
                                                 THEN job[p].change.keys[k] ELSE base[p][k]])
    BY <1>4, <2>1 DEF Wish
  <2>3. CASE job[p].new = Settings(Defaults) /\ job[p].change = Settings(Defaults)
    <3>1. job[p].change.keys = Defaults
      BY <2>3, TextKinds
    <3>2. [k \in ConfigKeys |-> IF k \in DOMAIN Defaults THEN Defaults[k] ELSE base[p][k]] = Defaults
      BY DEF Defaults
    <3> QED BY <2>2, <2>3, <3>1, <3>2
  <2>4. ASSUME NEW k \in ConfigKeys, NEW v \in Values,
               job[p].new = Settings([base[p] EXCEPT ![k] = v]),
               job[p].change = Settings(Alone(k, v))
        PROVE  Wish(p) = job[p].new
    <3>1. job[p].change.keys = Alone(k, v)
      BY <2>4, TextKinds
    <3>2. [i \in ConfigKeys |-> IF i \in DOMAIN Alone(k, v) THEN Alone(k, v)[i] ELSE base[p][i]]
            = [base[p] EXCEPT ![k] = v]
      BY <2>1 DEF Alone, SettingsKept
    <3> QED BY <2>2, <2>4, <3>1, <3>2
  <2>5. SavesSettings(p)
    BY <1>1, <1>4 DEF JobOf, AtSave
  <2> QED BY <2>3, <2>4, <2>5 DEF SavesSettings
<1> QED BY <1>2, <1>3, <1>4

LEMMA AskedStep ==
  ASSUME WorkspaceInv, [WorkspaceNext]_workspaceVars
  PROVE  FileIsAsked'
<1>0. SUFFICES ASSUME NEW f \in Paths, {"shared", "late", "power"} \cap blame'[f] = {}
               PROVE  file'[f] = asked'[f]
  BY DEF FileIsAsked, Clean
<1>1. blame[f] \subseteq blame'[f] /\ Clean(f) /\ file[f] = asked[f]
  BY <1>0, BlameGrows DEF WorkspaceInv, Clean, FileIsAsked
<1>2. CASE HandChange(f)
  BY <1>2 DEF HandChange
<1>3. ASSUME NEW p \in Procs, Renamed(p, f) PROVE file'[f] = asked'[f]
  <2>1. f \notin since[p] /\ place[p] = "rename" /\ job[p].path = f
    BY <1>0, <1>3 DEF Renamed, RenameTmp, WorkspaceInv, WorkspaceTypeOK
  <2> QED BY <1>0, <1>1, <1>3, <2>1, WishIsNew DEF Renamed
<1> QED BY <1>0, <1>1, <1>2, <1>3, FileSteps

-----------------------------------------------------------------------------
\* Whoever is at work learns that a file was asked to hold something else.
LEMMA SinceGrows ==
  ASSUME WorkspaceInv, NEW p \in Procs, CommandStep(p), NEW q \in Procs, q # p, place[q] # "idle"
  PROVE  /\ since[q] \subseteq since'[q]
         /\ \A f \in Paths : asked'[f] # asked[f] => f \in since'[q]
<1> USE DEF WorkspaceInv, WorkspaceTypeOK
<1>1. CASE Quiet(p)
  <2>1. asked' = asked
    BY <1>1, QuietSteps
  <2>2. since[q] \subseteq since'[q]
    BY <1>1 DEF Quiet, StartCommand, FindModpack, OtherCommand, ConfigSet, ConfigReset, InitDirs,
         InitCheck, InitReadme, RenameFails, KillCommand, Save, End
  <2> QED BY <2>1, <2>2
<1>2. CASE ConfigEdit(p)
  BY <1>2, HandSteps, EmptyGame DEF ConfigEdit, Missed
<1>3. CASE OpenTmp(p) \/ WriteTmp(p) \/ WriteFails(p)
  BY <1>3 DEF OpenTmp, WriteTmp, WriteFails, history
<1>4. CASE RenameTmp(p)
  BY <1>4 DEF RenameTmp, Missed
<1> QED BY <1>1, <1>2, <1>3, <1>4 DEF CommandStep, Quiet

LEMMA SinceByHand ==
  ASSUME WorkspaceInv, NEW g \in Paths, HandEdit(g), NEW q \in Procs, place[q] # "idle"
  PROVE  /\ since[q] \subseteq since'[q]
         /\ \A f \in Paths : asked'[f] # asked[f] => f \in since'[q]
BY HandSteps DEF HandEdit, Missed, WorkspaceInv, WorkspaceTypeOK

\* The steps after which a process goes on with what it has read.
LEMMA GoesOn ==
  ASSUME WorkspaceInv, NEW p \in Procs, CommandStep(p), place'[p] \notin {"idle", "readme"}
  PROVE  /\ asked' = asked /\ since' = since
         /\ StartCommand(p) \/ (base' = base /\ place[p] \notin {"idle", "readme"})
<1> USE DEF WorkspaceInv, WorkspaceTypeOK, Goto
<1>1. CASE StartCommand(p)
  BY <1>1 DEF StartCommand, history
<1>2. CASE End(p)
  BY <1>2 DEF End, Rest
<1>3. CASE (FindModpack(p) \/ ConfigSet(p) \/ ConfigReset(p)) /\ ~ End(p)
  BY <1>3 DEF FindModpack, ConfigSet, ConfigReset, history
<1>4. CASE OtherCommand(p) \/ InitReadme(p) \/ RenameFails(p) \/ KillCommand(p)
  BY <1>2, <1>4 DEF OtherCommand, InitReadme, RenameFails, KillCommand
<1>5. CASE ConfigEdit(p) \/ WriteFails(p)
  BY <1>5 DEF ConfigEdit, WriteFails, Rest
<1>6. CASE InitDirs(p) \/ InitCheck(p) \/ OpenTmp(p) \/ WriteTmp(p)
  BY <1>6 DEF InitDirs, InitCheck, OpenTmp, WriteTmp, history
<1>7. CASE RenameTmp(p)
  BY <1>7 DEF RenameTmp, Rest
<1> QED BY <1>1, <1>2, <1>3, <1>4, <1>5, <1>6, <1>7 DEF CommandStep

LEMMA BaseStep ==
  ASSUME WorkspaceInv, [WorkspaceNext]_workspaceVars
  PROVE  BaseIsAsked'
<1>0. SUFFICES ASSUME NEW q \in Procs, Clean(Config)', place'[q] \notin {"idle", "readme"},
                      Config \notin since'[q], asked'[Config].is = "settings"
               PROVE  base'[q] = asked'[Config].keys
  BY DEF BaseIsAsked
<1>1. Clean(Config) /\ Config \in Paths /\ file[Config] = asked[Config]
  BY <1>0, BlameGrows, EmptyGame DEF WorkspaceInv, Clean, FileIsAsked
<1>2. ASSUME place[q] \notin {"idle", "readme"}, since[q] \subseteq since'[q],
             asked'[Config] # asked[Config] => Config \in since'[q], base'[q] = base[q]
      PROVE  base'[q] = asked'[Config].keys
  BY <1>0, <1>1, <1>2 DEF WorkspaceInv, BaseIsAsked
<1>3. ASSUME NEW p \in Procs, CommandStep(p), p # q PROVE base'[q] = asked'[Config].keys
  <2>1. place[q] \notin {"idle", "readme"} /\ base'[q] = base[q]
    BY <1>0, <1>3, Elsewhere DEF Same, WorkspaceInv
  <2> QED BY <1>1, <1>2, <1>3, <2>1, SinceGrows
<1>4. CASE StartCommand(q)
  <2>1. asked' = asked /\ base'[q] \in Loaded
    BY <1>4 DEF StartCommand, history, WorkspaceInv, WorkspaceTypeOK
  <2> QED BY <1>0, <1>1, <2>1 DEF Loaded
<1>5. CASE CommandStep(q) /\ ~ StartCommand(q)
  BY <1>0, <1>2, <1>5, GoesOn
<1>6. ASSUME NEW g \in Paths, HandEdit(g) PROVE base'[q] = asked'[Config].keys
  <2>1. place[q] \notin {"idle", "readme"} /\ base'[q] = base[q]
    BY <1>0, <1>6 DEF HandEdit
  <2> QED BY <1>1, <1>2, <1>6, <2>1, SinceByHand
<1>7. CASE PowerLoss
  BY <1>0, <1>7 DEF PowerLoss
<1>8. CASE UNCHANGED workspaceVars
  BY <1>0, <1>2, <1>8 DEF workspaceVars
<1> QED BY <1>3, <1>4, <1>5, <1>6, <1>7, <1>8, StepsAre

LEMMA NothingYetStep ==
  ASSUME WorkspaceInv, [WorkspaceNext]_workspaceVars
  PROVE  NothingYet'
<1>0. SUFFICES ASSUME NEW q \in Procs, NEW d \in Dirs, Clean(d)', place'[q] \in AtSave,
                      job'[q].path = d, d \notin since'[q]
               PROVE  asked'[d] = Absent
  BY DEF NothingYet
<1>1. Clean(d) /\ d \in Paths /\ d # Config /\ file[d] = asked[d]
  BY <1>0, BlameGrows, EmptyGame DEF WorkspaceInv, Clean, FileIsAsked
<1>2. ASSUME place[q] \in AtSave, job[q].path = d, since[q] \subseteq since'[q],
             asked'[d] # asked[d] => d \in since'[q]
      PROVE  asked'[d] = Absent
  BY <1>0, <1>1, <1>2 DEF WorkspaceInv, NothingYet
<1>3. ASSUME NEW p \in Procs, CommandStep(p), p # q PROVE asked'[d] = Absent
  <2>1. place[q] \in AtSave /\ job[q].path = d /\ place[q] # "idle"
    BY <1>0, <1>3, Elsewhere, SameJob DEF Same, WorkspaceInv, JobFits, AtSave
  <2> QED BY <1>1, <1>2, <1>3, <2>1, SinceGrows
<1>4. CASE CommandStep(q)
  <2>1. asked' = asked /\ since' = since
    BY <1>0, <1>4, GoesOn DEF AtSave
  <2>2. CASE InitCheck(q)
    <3>1. file[d] = Absent
      BY <1>0, <2>2 DEF InitCheck, Goto, AtSave, WorkspaceInv, WorkspaceTypeOK
    <3> QED BY <1>1, <2>1, <3>1
  <2>3. CASE OpenTmp(q) \/ WriteTmp(q)
    <3>1. place[q] \in AtSave /\ job[q].path = d
      BY <1>0, <2>3 DEF OpenTmp, WriteTmp, AtSave, WorkspaceInv, WorkspaceTypeOK, Jobs
    <3> QED BY <1>2, <2>1, <3>1
  <2>4. CASE ConfigSet(q) \/ ConfigReset(q)
    <3>1. job'[q].path = Config
      <4>1. ~ End(q)
        BY <1>0 DEF End, Rest, Goto, AtSave, WorkspaceInv, WorkspaceTypeOK
      <4>2. ASSUME NEW new, NEW change, Save(q, Config, new, change) PROVE job'[q].path = Config
        BY <4>2 DEF Save, WorkspaceInv, WorkspaceTypeOK
      <4> QED BY <2>4, <4>1, <4>2 DEF ConfigSet, ConfigReset
    <3> QED BY <1>0, <1>1, <3>1
  <2>5. CASE ~ (InitCheck(q) \/ OpenTmp(q) \/ WriteTmp(q) \/ ConfigSet(q) \/ ConfigReset(q))
    BY <1>0, <1>4, <2>5 DEF CommandStep, StartCommand, FindModpack, OtherCommand, ConfigEdit, InitDirs,
       InitReadme, WriteFails, RenameTmp, RenameFails, KillCommand, End, Rest, Goto, AtSave,
       WorkspaceInv, WorkspaceTypeOK
  <2> QED BY <2>2, <2>3, <2>4, <2>5
<1>5. ASSUME NEW g \in Paths, HandEdit(g) PROVE asked'[d] = Absent
  <2>1. place[q] \in AtSave /\ job[q].path = d /\ place[q] # "idle"
    BY <1>0, <1>5 DEF HandEdit, AtSave
  <2> QED BY <1>1, <1>2, <1>5, <2>1, SinceByHand
<1>6. CASE PowerLoss
  BY <1>0, <1>6 DEF PowerLoss, AtSave
<1>7. CASE UNCHANGED workspaceVars
  BY <1>0, <1>2, <1>7 DEF workspaceVars
<1> QED BY <1>3, <1>4, <1>5, <1>6, <1>7, StepsAre

-----------------------------------------------------------------------------
LEMMA HandsLeft ==
  ASSUME WorkspaceInv, [WorkspaceNext]_workspaceVars
  PROVE  left'.hand <= left.hand /\ left'.hand \in Nat /\ left.hand \in Nat /\ left.hand <= MaxHand
<1>1. left.hand \in Nat /\ left.hand <= MaxHand /\ left'.hand \in Nat
  BY TypeStep DEF WorkspaceInv, WorkspaceTypeOK
<1>2. ASSUME NEW p \in Procs, CommandStep(p) PROVE left'.hand <= left.hand
  <2>1. CASE Quiet(p)
    BY <1>1, <2>1, QuietSteps DEF WorkspaceInv
  <2>2. CASE ConfigEdit(p)
    BY <1>1, <2>2 DEF ConfigEdit, EditText, WorkspaceInv, WorkspaceTypeOK
  <2>3. CASE OpenTmp(p) \/ WriteTmp(p) \/ WriteFails(p) \/ RenameTmp(p)
    BY <1>1, <2>3 DEF OpenTmp, WriteTmp, WriteFails, RenameTmp
  <2> QED BY <1>2, <2>1, <2>2, <2>3 DEF CommandStep, Quiet
<1>3. ASSUME NEW g \in Paths, HandEdit(g) PROVE left'.hand <= left.hand
  BY <1>1, <1>3 DEF HandEdit, EditText, WorkspaceInv, WorkspaceTypeOK
<1>4. CASE PowerLoss
  BY <1>1, <1>4 DEF PowerLoss, WorkspaceInv, WorkspaceTypeOK
<1>5. CASE UNCHANGED workspaceVars
  BY <1>1, <1>5 DEF workspaceVars
<1> QED BY <1>1, <1>2, <1>3, <1>4, <1>5, StepsAre

\* What a step does to a README and to who is about to write it.
LEMMA ReadmeSteps ==
  ASSUME WorkspaceInv, [WorkspaceNext]_workspaceVars, NEW d \in Dirs, blame'[d] = {}
  PROVE  /\ \/ readme'[d] = readme[d]
            \/ \E p \in Procs : /\ place[p] = "readme" /\ job[p].path = d
                                /\ readme'[d] \subseteq {NoGame, job[p].new.game}
                                /\ job[p].new \in Manifests
         /\ \A q \in Procs : place'[q] = "readme" /\ job'[q].path = d =>
              \/ place[q] = "readme" /\ job[q].path = d /\ job'[q].new = job[q].new
              \/ Renamed(q, d) /\ job'[q].new = job[q].new
<1> DEFINE Goal1 == \/ readme'[d] = readme[d]
                    \/ \E p \in Procs : /\ place[p] = "readme" /\ job[p].path = d
                                        /\ readme'[d] \subseteq {NoGame, job[p].new.game}
                                        /\ job[p].new \in Manifests
           Goal2(q) == place'[q] = "readme" /\ job'[q].path = d =>
              \/ place[q] = "readme" /\ job[q].path = d /\ job'[q].new = job[q].new
              \/ Renamed(q, d) /\ job'[q].new = job[q].new
<1>0. WorkspaceTypeOK /\ JobFits
  BY DEF WorkspaceInv
<1>1. ASSUME NEW p \in Procs, CommandStep(p) PROVE Goal1
  <2>1. CASE InitReadme(p)
    <3>1. JobOf(p) /\ place[p] = "readme"
      BY <1>0, <2>1 DEF JobFits, InitReadme
    <3> QED BY <1>0, <2>1, <3>1 DEF InitReadme, JobOf, SavesManifest, WorkspaceTypeOK
  <2>2. CASE ~ InitReadme(p)
    BY <1>1, <2>2 DEF CommandStep, StartCommand, FindModpack, OtherCommand, ConfigSet, ConfigReset,
       ConfigEdit, EditText, InitDirs, InitCheck, OpenTmp, WriteTmp, WriteFails, RenameTmp,
       RenameFails, KillCommand, disk
  <2> QED BY <2>1, <2>2
<1>2. ASSUME NEW p \in Procs, CommandStep(p), NEW q \in Procs PROVE Goal2(q)
  <2>1. CASE q # p
    BY <1>0, <1>2, <2>1, Elsewhere, SameJob DEF Same, JobFits
  <2>2. CASE q = p /\ RenameTmp(p)
    <3>1. SUFFICES ASSUME place'[q] = "readme", job'[q].path = d
                   PROVE  Renamed(q, d) /\ job'[q].new = job[q].new
      OBVIOUS
    <3>2. job[q].path # Config /\ job'[q] = [job[q] EXCEPT !.fd = "none"]
      BY <1>0, <2>2, <3>1 DEF RenameTmp, Rest, Goto, WorkspaceTypeOK
    <3>3. job[q].path = d /\ job'[q].new = job[q].new
      BY <1>0, <3>1, <3>2 DEF WorkspaceTypeOK, Jobs
    <3>4. file'[d] = tmp[d] /\ asked'[d] = Wish(q) /\ place[q] = "rename"
      BY <1>0, <2>2, <3>3, EmptyGame DEF RenameTmp, WorkspaceTypeOK
    <3>5. "shared" \notin blame[d]
      BY <1>0, BlameGrows, EmptyGame
    <3>6. tmp[d] = job[q].new
      BY <3>3, <3>4, <3>5, EmptyGame DEF WorkspaceInv, OneWriter, Saving
    <3> QED BY <2>2, <3>3, <3>4, <3>6 DEF Renamed
  <2>3. CASE q = p /\ InitCheck(p)
    <3>1. CASE file[job[p].path] = Absent
      BY <1>0, <2>3, <3>1 DEF InitCheck, Goto, WorkspaceTypeOK
    <3>2. CASE file[job[p].path] # Absent
      <4>1. job'[p] = job[p] /\ (job[p].path = d => "skipped" \in blame'[d])
        <5>1. job' = job /\ blame' = [blame EXCEPT ![job[p].path] = @ \cup {"skipped"}]
          BY <2>3, <3>2 DEF InitCheck
        <5>2. d \in Paths /\ blame \in [Paths -> SUBSET {"shared", "late", "nogame", "skipped", "power"}]
          BY <1>0, EmptyGame DEF WorkspaceTypeOK
        <5> QED BY <5>1, <5>2
      <4> QED BY <2>3, <4>1
    <3> QED BY <3>1, <3>2
  <2>4. CASE q = p /\ ~ RenameTmp(p) /\ ~ InitCheck(p)
    <3>1. place'[p] # "readme"
      BY <1>0, <1>2, <2>4 DEF CommandStep, StartCommand, FindModpack, OtherCommand, ConfigSet,
         ConfigReset, ConfigEdit, InitDirs, InitReadme, OpenTmp, WriteTmp, WriteFails, RenameFails,
         KillCommand, Save, End, Rest, Goto, WorkspaceTypeOK
    <3> QED BY <2>4, <3>1
  <2> QED BY <2>1, <2>2, <2>3, <2>4
<1>3. ASSUME NEW g \in Paths, HandEdit(g) PROVE Goal1 /\ \A q \in Procs : Goal2(q)
  BY <1>3 DEF HandEdit, EditText
<1>4. CASE PowerLoss
  BY <1>4 DEF PowerLoss
<1>5. CASE UNCHANGED workspaceVars
  BY <1>5 DEF workspaceVars
<1> QED BY <1>1, <1>2, <1>3, <1>4, <1>5, StepsAre

LEMMA ReadmeStep ==
  ASSUME WorkspaceInv, [WorkspaceNext]_workspaceVars
  PROVE  ReadmeFits'
<1> DEFINE Fits(d) ==
      /\ \A game \in readme[d] \ {NoGame} : file[d] \in Manifests /\ file[d].game = game
      /\ \A p \in Procs : place[p] = "readme" /\ job[p].path = d => file[d] = job[p].new
<1>0. SUFFICES ASSUME NEW d \in Dirs, blame'[d] = {}, left'.hand = MaxHand PROVE Fits(d)'
  BY DEF ReadmeFits
<1>1. d \in Paths /\ blame[d] = {} /\ left.hand = MaxHand /\ left'.hand = left.hand
  BY <1>0, BlameGrows, HandsLeft, EmptyGame DEF WorkspaceInv
<1>2. Fits(d)
  BY <1>1 DEF WorkspaceInv, ReadmeFits
<1>3. CASE file'[d] = file[d] /\ ~ \E p \in Procs : Renamed(p, d)
  BY <1>0, <1>2, <1>3, ReadmeSteps, ManifestsAreTexts
<1>4. CASE HandChange(d)
  BY <1>1, <1>4, HandsLeft DEF HandChange
<1>5. ASSUME NEW p \in Procs, Renamed(p, d) PROVE Fits(d)'
  <2>1. /\ d \notin since[p] /\ place[p] = "rename" /\ file'[d] = job[p].new /\ readme' = readme
    BY <1>0, <1>1, <1>5 DEF Renamed, RenameTmp, WorkspaceInv, WorkspaceTypeOK
  <2>2. asked[d] = Absent /\ file[d] = Absent
    BY <1>1, <1>5, <2>1 DEF Renamed, WorkspaceInv, NothingYet, FileIsAsked, Clean, AtSave
  <2>3. readme[d] \subseteq {NoGame}
    BY <1>2, <2>2, ManifestsAreTexts
  <2>4. ASSUME NEW q \in Procs, place[q] = "readme", job[q].path = d PROVE FALSE
    <3>1. job[q].new \in Manifests
      BY <2>4 DEF WorkspaceInv, JobFits, JobOf, SavesManifest
    <3> QED BY <1>2, <2>2, <2>4, <3>1, ManifestsAreTexts
  <2>5. ASSUME NEW q \in Procs, Renamed(q, d), q # p PROVE FALSE
    <3>1. p \in Saving(d) /\ q \in Saving(d)
      BY <1>5, <2>5 DEF Renamed, RenameTmp, Saving
    <3> QED BY <1>1, <2>5, <3>1 DEF WorkspaceInv, OneWriter
  <2> QED BY <1>0, <2>1, <2>3, <2>4, <2>5, ReadmeSteps
<1> QED BY <1>0, <1>1, <1>3, <1>4, <1>5, FileSteps

-----------------------------------------------------------------------------
THEOREM WorkspaceInvariance == WorkspaceSpec => []WorkspaceInv
<1>1. WorkspaceInit => WorkspaceInv
  <2> SUFFICES ASSUME WorkspaceInit PROVE WorkspaceInv
    OBVIOUS
  <2> USE DEF WorkspaceInit
  <2>1. WorkspaceTypeOK
    <3>1. file \in [Paths -> Texts] /\ tmp \in [Paths -> Texts] /\ asked \in [Paths -> Texts]
      BY TextKinds
    <3>2. readme \in [Dirs -> SUBSET GamesGiven] /\ place \in [Procs -> Stages]
      BY EmptyGame DEF Stages
    <3>3. base \in [Procs -> SettingsKept] /\ job \in [Procs -> Jobs]
      BY JobsAre, SettingsAreTexts
    <3>4. since \in [Procs -> SUBSET Paths]
          /\ blame \in [Paths -> SUBSET {"shared", "late", "nogame", "skipped", "power"}]
      OBVIOUS
    <3>5. left \in [commands : Nat, hand : 0 .. MaxHand, stops : Nat]
      BY WorkspaceAssumption DEF WorkspaceAssumption
    <3> QED BY <3>1, <3>2, <3>3, <3>4, <3>5 DEF WorkspaceTypeOK
  <2>2. JobFits
    BY JobsAre DEF JobFits, JobOf, AtSave
  <2>3. OneWriter /\ NeverLockedOut /\ FileIsAsked /\ NothingYet
    BY DEF OneWriter, Saving, NeverLockedOut, FileIsAsked, NothingYet, AtSave
  <2>4. BaseIsAsked /\ ReadmeFits
    BY DEF BaseIsAsked, ReadmeFits
  <2> QED BY <2>1, <2>2, <2>3, <2>4 DEF WorkspaceInv
<1>2. WorkspaceInv /\ [WorkspaceNext]_workspaceVars => WorkspaceInv'
  BY TypeStep, JobStep, WriterStep, LocksStep, AskedStep, BaseStep, NothingYetStep, ReadmeStep
     DEF WorkspaceInv
<1>3. QED BY <1>1, <1>2, PTL DEF WorkspaceSpec

\* No command is refused for a file the program wrote.
THEOREM NobodyLockedOut == WorkspaceSpec => []NeverLockedOut
<1>1. WorkspaceInv => NeverLockedOut
  BY DEF WorkspaceInv
<1>2. QED BY <1>1, WorkspaceInvariance, PTL

\* The last word stands.
THEOREM LastWordStands == WorkspaceSpec => []LastWord
<1>1. WorkspaceInv => LastWord
  <2> SUFFICES ASSUME WorkspaceInv, NEW f \in Paths, blame[f] \subseteq {"skipped", "nogame"}
               PROVE  /\ file[f] = asked[f]
                      /\ f # Config /\ blame[f] = {} /\ left.hand = MaxHand
                           => \A game \in readme[f] \ {NoGame} : game = file[f].game
    BY DEF LastWord
  <2>1. file[f] = asked[f]
    BY DEF WorkspaceInv, FileIsAsked, Clean
  <2>2. f # Config => f \in Dirs
    BY DEF Paths
  <2> QED BY <2>1, <2>2 DEF WorkspaceInv, ReadmeFits
<1>2. QED BY <1>1, WorkspaceInvariance, PTL

-----------------------------------------------------------------------------
(***************************************************************************)
(* The refresh token                                                       *)
(***************************************************************************)

USE AuthAssumption

LEMMA ForgetType ==
  ASSUME AuthTypeOK, NEW p \in Clients, Forget(p)
  PROVE  /\ old' \in [Clients -> 0 .. issued] /\ held' \in [Clients -> 0 .. issued]
         /\ tries' \in [Clients -> 0 .. MaxAttempts + 1]
         /\ poll' \in [Clients -> [left : 0 .. Lifetime, interval : 0 .. MaxInterval]]
         /\ lost' \subseteq 1 .. issued
<1>1. issued \in Nat /\ old[p] \in 0 .. issued
  BY DEF AuthTypeOK
<1>2. old' \in [Clients -> 0 .. issued] /\ held' \in [Clients -> 0 .. issued]
  BY <1>1 DEF Forget, AuthTypeOK, NoToken
<1>3. tries' \in [Clients -> 0 .. MaxAttempts + 1]
  BY DEF Forget, AuthTypeOK
<1>4. NoPoll \in [left : 0 .. Lifetime, interval : 0 .. MaxInterval]
  BY DEF NoPoll
<1>5. poll' \in [Clients -> [left : 0 .. Lifetime, interval : 0 .. MaxInterval]]
  BY <1>4 DEF Forget, AuthTypeOK
<1>6. Refreshing(p) => old[p] \in 1 .. issued
  BY <1>1 DEF Refreshing, NoToken
<1>7. lost' \subseteq 1 .. issued
  BY <1>6 DEF Forget, AuthTypeOK
<1> QED BY <1>2, <1>3, <1>5, <1>7

\* The server issues at most one token more.
LEMMA ServeType ==
  ASSUME AuthTypeOK, NEW p \in Clients, Serve(p) \/ UNCHANGED server
  PROVE  /\ policy' = policy /\ issued' \in {issued, issued + 1} /\ issued' \in 1 .. MaxTokens
         /\ live' \subseteq 1 .. issued'
<1>1. CASE UNCHANGED server
  BY <1>1 DEF server, AuthTypeOK
<1>2. CASE Serve(p)
  <2>1. CASE policy = "same"
    BY <1>2, <2>1 DEF Serve, AuthTypeOK
  <2>2. CASE policy # "same"
    <3>1. /\ policy' = policy /\ issued' = issued + 1 /\ issued < MaxTokens
          /\ live' \subseteq live \cup {issued'}
      BY <1>2, <2>2 DEF Serve
    <3> QED BY <3>1 DEF AuthTypeOK
  <2> QED BY <2>1, <2>2
<1> QED BY <1>1, <1>2

\* Every variable keeps its type.
THEOREM AuthTypeCorrect == AuthSpec => []AuthTypeOK
<1> USE DEF server, client, authBounds, NoToken, NoPoll, Chain, Steps
<1>1. AuthInit => AuthTypeOK
  BY DEF AuthInit, AuthTypeOK
<1>2. AuthTypeOK /\ [AuthNext]_authVars => AuthTypeOK'
  <2> SUFFICES ASSUME AuthTypeOK, [AuthNext]_authVars PROVE AuthTypeOK'
    OBVIOUS
  <2>1. CASE Expire
    BY <2>1 DEF Expire, AuthTypeOK
  <2>2. ASSUME NEW p \in Clients, AuthStart(p) PROVE AuthTypeOK'
    BY <2>2 DEF AuthStart, Enter, AuthTypeOK
  <2>3. ASSUME NEW p \in Clients, AuthKill(p) PROVE AuthTypeOK'
    BY <2>3, ForgetType DEF AuthKill, Enter, AuthTypeOK
  <2>4. ASSUME NEW p \in Clients, Load(p) PROVE AuthTypeOK'
    <3>1. stored.refresh \in 0 .. issued
      BY DEF AuthTypeOK
    <3>2. stage' \in [Clients -> Steps]
      BY <2>4 DEF Load, Enter, AuthTypeOK
    <3>3. old' \in [Clients -> 0 .. issued]
      BY <2>4, <3>1 DEF Load, AuthTypeOK
    <3>4. tries' \in [Clients -> 0 .. MaxAttempts + 1]
      BY <2>4 DEF Load, AuthTypeOK
    <3>5. UNCHANGED <<stored, server, held, poll, lost, authBounds>>
      BY <2>4 DEF Load
    <3> QED BY <3>2, <3>3, <3>4, <3>5 DEF AuthTypeOK
  <2>5. ASSUME NEW p \in Clients, RefreshOk(p) \/ RefreshLost(p) PROVE AuthTypeOK'
    <3>1. /\ policy' = policy /\ issued' \in {issued, issued + 1} /\ issued' \in 1 .. MaxTokens
          /\ live' \subseteq 1 .. issued'
      BY <2>5, ServeType DEF RefreshOk, RefreshLost
    <3>2. /\ 0 .. issued \subseteq 0 .. issued' /\ 1 .. issued \subseteq 1 .. issued'
          /\ issued' \in 0 .. issued'
      BY <3>1 DEF AuthTypeOK
    <3>3. CASE RefreshOk(p)
      <4>1. old[p] \in 0 .. issued'
        BY <3>2 DEF AuthTypeOK
      <4> QED BY <3>1, <3>2, <3>3, <4>1 DEF RefreshOk, Enter, AuthTypeOK
    <3>4. CASE RefreshLost(p)
      BY <3>1, <3>2, <3>4 DEF RefreshLost, AuthTypeOK
    <3> QED BY <2>5, <3>3, <3>4
  <2>6. ASSUME NEW p \in Clients, RefreshFails(p) PROVE AuthTypeOK'
    BY <2>6, ForgetType DEF RefreshFails, Enter, AuthTypeOK
  <2>7. ASSUME NEW p \in Clients, RequestDeviceCode(p) \/ PollTimesOut(p) \/ PollFails(p)
        PROVE  AuthTypeOK'
    <3>1. /\ [left |-> Lifetime, interval |-> 1] \in [left : 0 .. Lifetime, interval : 0 .. MaxInterval]
          /\ NoPoll \in [left : 0 .. Lifetime, interval : 0 .. MaxInterval]
      OBVIOUS
    <3>2. poll' \in [Clients -> [left : 0 .. Lifetime, interval : 0 .. MaxInterval]]
      BY <2>7, <3>1 DEF RequestDeviceCode, PollTimesOut, PollFails, AuthTypeOK
    <3>3. stage' \in [Clients -> Steps] /\ UNCHANGED <<stored, server, old, held, tries, lost, authBounds>>
      BY <2>7 DEF RequestDeviceCode, PollTimesOut, PollFails, Enter, AuthTypeOK
    <3> QED BY <3>2, <3>3 DEF AuthTypeOK
  <2>8. ASSUME NEW p \in Clients, PollAgain(p) PROVE AuthTypeOK'
    BY <2>8 DEF PollAgain, BumpPollInterval, AuthTypeOK
  <2>9. ASSUME NEW p \in Clients, Authorized(p) PROVE AuthTypeOK'
    <3>1. issued' = issued + 1 /\ issued' \in 1 .. MaxTokens
      BY <2>9 DEF Authorized, AuthTypeOK
    <3>2. /\ 0 .. issued \subseteq 0 .. issued' /\ 1 .. issued \subseteq 1 .. issued'
          /\ issued' \in 1 .. issued'
      BY <3>1 DEF AuthTypeOK
    <3> QED BY <2>9, <3>1, <3>2 DEF Authorized, Enter, AuthTypeOK
  <2>10. ASSUME NEW p \in Clients, NEW step \in Steps, NEW next \in Steps, Exchange(p, step, next)
         PROVE  AuthTypeOK'
    BY <2>10, ForgetType DEF Exchange, Enter, AuthTypeOK
  <2>11. ASSUME NEW p \in Clients, SaveToken(p) PROVE AuthTypeOK'
    <3>1. /\ [refresh |-> held[p], expired |-> FALSE] \in [refresh : 0 .. issued, expired : BOOLEAN]
          /\ 0 \in 0 .. issued
      BY DEF AuthTypeOK
    <3>2. stored' \in [refresh : 0 .. issued, expired : BOOLEAN]
      BY <2>11, <3>1 DEF SaveToken, AuthTypeOK
    <3>3. stage' \in [Clients -> Steps] /\ UNCHANGED <<server, authBounds>>
      BY <2>11 DEF SaveToken, Enter, AuthTypeOK
    <3>4. CASE Forget(p)
      BY <3>2, <3>3, <3>4, ForgetType DEF AuthTypeOK
    <3>5. CASE ~Forget(p)
      <4>1. /\ old' = [old EXCEPT ![p] = 0] /\ held' = [held EXCEPT ![p] = 0]
            /\ tries' = [tries EXCEPT ![p] = 0] /\ UNCHANGED <<poll, lost>>
        BY <2>11, <3>5 DEF SaveToken
      <4> QED BY <3>1, <3>2, <3>3, <4>1 DEF AuthTypeOK
    <3> QED BY <3>4, <3>5
  <2>12. ASSUME NEW p \in Clients, DeleteToken(p) PROVE AuthTypeOK'
    <3>1. [refresh |-> 0, expired |-> FALSE] \in [refresh : 0 .. issued, expired : BOOLEAN]
      BY DEF AuthTypeOK
    <3>2. stored' \in [refresh : 0 .. issued, expired : BOOLEAN]
      BY <2>12, <3>1 DEF DeleteToken, AuthTypeOK
    <3> QED BY <2>12, <3>2 DEF DeleteToken, Enter, AuthTypeOK
  <2>13. CASE UNCHANGED authVars
    BY <2>13 DEF authVars, AuthTypeOK
  <2> QED
    BY <2>1, <2>2, <2>3, <2>4, <2>5, <2>6, <2>7, <2>8, <2>9, <2>10, <2>11, <2>12, <2>13
       DEF AuthNext, AuthStep, AuthenticateXbl, AuthenticateXsts, LoginWithXbox, GetProfile
<1> QED BY <1>1, <1>2, PTL DEF AuthSpec
-----------------------------------------------------------------------------
\* A token a process is to save is nobody else's, and the server accepts it.
OwnToken(p) ==
  held[p] # NoToken =>
    /\ held[p] \in live
    /\ held[p] # stored.refresh
    /\ \A q \in Clients : old[q] # held[p] /\ (q # p => held[q] # held[p])

\* A server that does not retire tokens accepts all it has issued.
TokenInv ==
  /\ policy # "retire" => live = 1 .. issued
  /\ policy = "retire" => \A p \in Clients : OwnToken(p)
  /\ TokenKept

\* What a process forgets may leave the stored token dead, but then it is in lost.
LEMMA ForgetKeeps ==
  ASSUME AuthTypeOK, TokenInv, NEW p \in Clients, Forget(p), stored' = stored, UNCHANGED server,
         \A q \in Clients \ {p} : stage'[q] = stage[q]
  PROVE  TokenInv'
<1> USE DEF server
<1>1. \A q \in Clients \ {p} : Refreshing(q)' = Refreshing(q) /\ old'[q] = old[q] /\ held'[q] = held[q]
  BY DEF Forget, Refreshing, AuthTypeOK
<1>2. old'[p] = NoToken /\ held'[p] = NoToken /\ lost \subseteq lost'
  BY DEF Forget, AuthTypeOK
<1>3. policy # "retire" => live' = 1 .. issued'
  BY DEF TokenInv
<1>4. policy = "retire" => \A q \in Clients : OwnToken(q)'
  <2> SUFFICES ASSUME policy = "retire", NEW q \in Clients PROVE OwnToken(q)'
    OBVIOUS
  <2>1. CASE q = p
    BY <1>2, <2>1 DEF OwnToken
  <2>2. CASE q # p
    <3>1. OwnToken(q)
      BY DEF TokenInv
    <3> QED BY <1>1, <1>2, <2>2, <3>1 DEF OwnToken
  <2> QED BY <2>1, <2>2
<1>5. TokenKept'
  <2> SUFFICES ASSUME stored.refresh # NoToken, stored.refresh \notin live, stored.refresh \notin lost'
               PROVE  \E q \in Clients : Refreshing(q)' /\ old'[q] = stored.refresh
    BY DEF TokenKept
  <2>1. PICK q \in Clients : Refreshing(q) /\ old[q] = stored.refresh
    BY <1>2 DEF TokenInv, TokenKept
  <2>2. q # p
    BY <2>1 DEF Forget
  <2> QED BY <1>1, <2>1, <2>2
<1> QED BY <1>3, <1>4, <1>5 DEF TokenInv

\* A step that leaves the tokens alone, and no refresh behind it.
LEMMA OtherSteps ==
  ASSUME TokenInv, UNCHANGED <<server, old, held, lost>>,
         stored'.refresh \in {stored.refresh, NoToken},
         AuthTypeOK, \A q \in Clients : Refreshing(q) => Refreshing(q)'
  PROVE  TokenInv'
<1> USE DEF server
<1>1. policy # "retire" => live' = 1 .. issued'
  BY DEF TokenInv
<1>2. policy = "retire" => \A p \in Clients : OwnToken(p)'
  BY DEF TokenInv, OwnToken
<1>3. TokenKept'
  BY DEF TokenInv, TokenKept
<1> QED BY <1>1, <1>2, <1>3 DEF TokenInv

\* The server's step retires at most the token p has sent, and issues a new one.
LEMMA ServeKeeps ==
  ASSUME AuthTypeOK, TokenInv, NEW p \in Clients, Serve(p), Refreshing(p)',
         UNCHANGED <<stored, old, lost>>,
         \A q \in Clients : Refreshing(q) => Refreshing(q)',
         \A q \in Clients \ {p} : held'[q] = held[q],
         held'[p] = held[p] \/ held'[p] = (IF policy = "same" THEN old[p] ELSE issued')
  PROVE  TokenInv'
<1>1. CASE policy = "same"
  <2>1. UNCHANGED <<policy, live, issued>>
    BY <1>1 DEF Serve
  <2> QED BY <1>1, <2>1 DEF TokenInv, TokenKept
<1>2. CASE policy = "keep"
  <2>1. policy' = policy /\ issued' = issued + 1 /\ live' = live \cup {issued'}
    BY <1>2 DEF Serve
  <2>2. live' = 1 .. issued'
    <3>1. issued \in Nat /\ live = 1 .. issued
      BY <1>2 DEF TokenInv, AuthTypeOK
    <3>2. 1 .. (issued + 1) = (1 .. issued) \cup {issued + 1}
      BY <3>1
    <3> QED BY <2>1, <3>1, <3>2
  <2>3. TokenKept'
    BY <2>1 DEF TokenInv, TokenKept
  <2> QED BY <1>2, <2>1, <2>2, <2>3 DEF TokenInv
<1>3. CASE policy = "retire"
  <2>1. policy' = policy /\ issued' = issued + 1 /\ live' = (live \ {old[p]}) \cup {issued'}
    BY <1>3 DEF Serve
  <2>2. /\ \A q \in Clients : old[q] \in 0 .. issued /\ held[q] \in 0 .. issued
        /\ stored.refresh \in 0 .. issued /\ issued \in Nat
    BY DEF AuthTypeOK
  <2>3. ASSUME NEW q \in Clients PROVE OwnToken(q)'
    <3>1. \A r \in Clients : OwnToken(r)
      BY <1>3 DEF TokenInv
    <3>2. CASE held'[q] = held[q]
      <4>1. held[q] # NoToken => /\ held[q] \in live' /\ held[q] # stored.refresh
                                 /\ \A r \in Clients : old[r] # held[q]
        BY <2>1, <3>1 DEF OwnToken
      <4>2. held[q] # NoToken => \A r \in Clients : r # q => held'[r] # held[q]
        BY <1>3, <2>1, <2>2, <3>1 DEF OwnToken
      <4> QED BY <3>2, <4>1, <4>2 DEF OwnToken
    <3>3. CASE held'[q] # held[q]
      <4>1. q = p /\ held'[q] = issued + 1
        BY <1>3, <2>1, <3>3
      <4>2. \A r \in Clients : r # q => held'[r] # issued + 1
        BY <2>2, <4>1
      <4> QED BY <2>1, <2>2, <4>1, <4>2 DEF OwnToken
    <3> QED BY <3>2, <3>3
  <2>4. TokenKept'
    BY <2>1 DEF TokenInv, TokenKept
  <2> QED BY <1>3, <2>1, <2>3, <2>4 DEF TokenInv
<1> QED BY <1>1, <1>2, <1>3 DEF AuthTypeOK

LEMMA TokenInvHolds == AuthSpec => []TokenInv
<1> USE DEF server, client, authBounds, Chain
<1>1. AuthInit => TokenInv
  BY DEF AuthInit, TokenInv, OwnToken, TokenKept, NoToken
<1>2. AuthTypeOK /\ TokenInv /\ [AuthNext]_authVars => TokenInv'
  <2> SUFFICES ASSUME AuthTypeOK, TokenInv, [AuthNext]_authVars PROVE TokenInv'
    OBVIOUS
  <2>1. CASE Expire
    <3>1. stored'.refresh = stored.refresh
      BY <2>1 DEF Expire, AuthTypeOK
    <3> QED BY <2>1, <3>1, OtherSteps DEF Expire, Refreshing
  <2>2. ASSUME NEW p \in Clients, AuthStart(p) PROVE TokenInv'
    BY <2>2, OtherSteps DEF AuthStart, Enter, Refreshing, AuthTypeOK
  <2>3. ASSUME NEW p \in Clients,
               RequestDeviceCode(p) \/ PollTimesOut(p) \/ PollAgain(p) \/ PollFails(p)
        PROVE  TokenInv'
    <3>1. /\ UNCHANGED <<stored, server, old, held, lost>>
          /\ stage[p] \in {"device", "poll"}
          /\ \A q \in Clients \ {p} : stage'[q] = stage[q]
      BY <2>3 DEF RequestDeviceCode, PollTimesOut, PollAgain, PollFails, Enter, AuthTypeOK
    <3> QED BY <3>1, OtherSteps DEF Refreshing
  <2>4. ASSUME NEW p \in Clients, AuthKill(p) \/ RefreshFails(p) PROVE TokenInv'
    BY <2>4, ForgetKeeps DEF AuthKill, RefreshFails, Enter, AuthTypeOK
  <2>5. ASSUME NEW p \in Clients, Load(p) PROVE TokenInv'
    <3>1. /\ UNCHANGED <<stored, server, held, lost>> /\ stage[p] = "load"
          /\ \A q \in Clients \ {p} : stage'[q] = stage[q] /\ old'[q] = old[q]
          /\ old'[p] \in {old[p], stored.refresh}
      BY <2>5 DEF Load, Enter, AuthTypeOK
    <3>2. \A q \in Clients : Refreshing(q) => Refreshing(q)' /\ old'[q] = old[q]
      BY <3>1 DEF Refreshing
    <3>3. policy = "retire" => \A q \in Clients : OwnToken(q)'
      BY <3>1 DEF TokenInv, OwnToken
    <3>4. TokenKept'
      BY <3>1, <3>2 DEF TokenInv, TokenKept
    <3> QED BY <3>1, <3>3, <3>4 DEF TokenInv
  <2>6. ASSUME NEW p \in Clients, RefreshOk(p) PROVE TokenInv'
    <3>1. old[p] \in live /\ old[p] # NoToken
      BY <2>6 DEF RefreshOk, Serve, NoToken, AuthTypeOK
    <3>2. \A q \in Clients : (Refreshing(q) => Refreshing(q)')
      BY <2>6, <3>1 DEF RefreshOk, Refreshing, Enter, AuthTypeOK
    <3>3. Refreshing(p)'
      BY <2>6, <3>1 DEF RefreshOk, Refreshing, Enter, AuthTypeOK
    <3>4. /\ \A q \in Clients \ {p} : held'[q] = held[q]
          /\ held'[p] = (IF policy = "same" THEN old[p] ELSE issued')
      BY <2>6 DEF RefreshOk, AuthTypeOK
    <3> QED BY <2>6, <3>2, <3>3, <3>4, ServeKeeps DEF RefreshOk
  <2>7. ASSUME NEW p \in Clients, RefreshLost(p) PROVE TokenInv'
    <3>1. UNCHANGED <<stage, stored, old, held, lost>> /\ stage[p] = "refresh"
      BY <2>7 DEF RefreshLost
    <3>2. \A q \in Clients : Refreshing(q) => Refreshing(q)'
      BY <3>1 DEF Refreshing
    <3>3. CASE Serve(p)
      <4>1. old[p] \in live /\ old[p] # NoToken
        BY <3>3 DEF Serve, NoToken, AuthTypeOK
      <4>2. Refreshing(p)'
        BY <3>1, <4>1 DEF Refreshing
      <4> QED BY <3>1, <3>2, <3>3, <4>2, ServeKeeps
    <3>4. CASE UNCHANGED server
      BY <3>1, <3>2, <3>4, OtherSteps
    <3> QED BY <2>7, <3>3, <3>4 DEF RefreshLost
  <2>8. ASSUME NEW p \in Clients, Authorized(p) PROVE TokenInv'
    <3>1. /\ UNCHANGED <<stored, policy, old, lost>> /\ stage[p] = "poll"
          /\ issued' = issued + 1 /\ live' = live \cup {issued'}
          /\ held'[p] = issued + 1
          /\ \A q \in Clients \ {p} : stage'[q] = stage[q] /\ held'[q] = held[q]
      BY <2>8 DEF Authorized, Enter, AuthTypeOK
    <3>2. \A q \in Clients : Refreshing(q) => Refreshing(q)'
      BY <3>1 DEF Refreshing
    <3>3. /\ \A q \in Clients : old[q] \in 0 .. issued /\ held[q] \in 0 .. issued
          /\ stored.refresh \in 0 .. issued /\ issued \in Nat
      BY DEF AuthTypeOK
    <3>4. policy # "retire" => live' = 1 .. issued'
      BY <3>1, <3>3 DEF TokenInv
    <3>5. ASSUME policy = "retire", NEW q \in Clients PROVE OwnToken(q)'
      <4>1. OwnToken(q)
        BY <3>5 DEF TokenInv
      <4>2. CASE q = p
        BY <3>1, <3>3, <4>2 DEF OwnToken
      <4>3. CASE q # p
        BY <3>1, <3>3, <4>1, <4>3 DEF OwnToken
      <4> QED BY <4>2, <4>3
    <3>6. TokenKept'
      BY <3>1, <3>2 DEF TokenInv, TokenKept
    <3> QED BY <3>1, <3>4, <3>5, <3>6 DEF TokenInv
  <2>9. ASSUME NEW p \in Clients, NEW step \in Chain, NEW next \in Chain \cup {"save"},
               Exchange(p, step, next)
        PROVE  TokenInv'
    <3>1. CASE Forget(p)
      BY <2>9, <3>1, ForgetKeeps DEF Exchange, Enter, AuthTypeOK
    <3>2. CASE ~Forget(p)
      <4>1. Enter(p, next) /\ UNCHANGED <<stored, server, old, held, lost>> /\ stage[p] = step
        BY <2>9, <3>2 DEF Exchange
      <4>2. \A q \in Clients : Refreshing(q) => Refreshing(q)'
        BY <2>9, <4>1 DEF Enter, Refreshing, AuthTypeOK
      <4> QED BY <4>1, <4>2, OtherSteps
    <3> QED BY <3>1, <3>2
  <2>10. ASSUME NEW p \in Clients, SaveToken(p) PROVE TokenInv'
    <3>1. CASE Forget(p) /\ UNCHANGED stored
      BY <2>10, <3>1, ForgetKeeps DEF SaveToken, Enter, AuthTypeOK
    <3>2. CASE ~(Forget(p) /\ UNCHANGED stored)
      <4>1. /\ stored'.refresh = held[p] /\ UNCHANGED <<server, lost>>
            /\ old'[p] = NoToken /\ held'[p] = NoToken
            /\ \A q \in Clients \ {p} : old'[q] = old[q] /\ held'[q] = held[q]
        BY <2>10, <3>2 DEF SaveToken, AuthTypeOK
      <4>2. ASSUME policy = "retire", NEW q \in Clients PROVE OwnToken(q)'
        <5>1. OwnToken(q)
          BY <4>2 DEF TokenInv
        <5>2. CASE q = p
          BY <4>1, <5>2 DEF OwnToken
        <5>3. CASE q # p
          BY <4>1, <5>1, <5>3 DEF OwnToken
        <5> QED BY <5>2, <5>3
      <4>3. held[p] # NoToken => held[p] \in live
        <5>1. CASE policy = "retire"
          BY <5>1 DEF TokenInv, OwnToken
        <5>2. CASE policy # "retire"
          <6>1. live = 1 .. issued
            BY <5>2 DEF TokenInv
          <6>2. held[p] \in 0 .. issued /\ issued \in Nat
            BY DEF AuthTypeOK
          <6> QED BY <6>1, <6>2 DEF NoToken
        <5> QED BY <5>1, <5>2
      <4>4. TokenKept'
        BY <4>1, <4>3 DEF TokenKept
      <4> QED BY <4>1, <4>2, <4>4 DEF TokenInv
    <3> QED BY <3>1, <3>2
  <2>11. ASSUME NEW p \in Clients, DeleteToken(p) PROVE TokenInv'
    <3>1. /\ UNCHANGED <<server, old, held, lost>> /\ stage[p] = "logout"
          /\ stored'.refresh \in {stored.refresh, NoToken}
          /\ \A q \in Clients \ {p} : stage'[q] = stage[q]
      BY <2>11 DEF DeleteToken, Enter, AuthTypeOK
    <3>2. \A q \in Clients : Refreshing(q) => Refreshing(q)'
      BY <3>1 DEF Refreshing
    <3> QED BY <3>1, <3>2, OtherSteps
  <2>12. CASE UNCHANGED authVars
    BY <2>12, OtherSteps DEF authVars, Refreshing
  <2> QED
    BY <2>1, <2>2, <2>3, <2>4, <2>5, <2>6, <2>7, <2>8, <2>9, <2>10, <2>11, <2>12
       DEF AuthNext, AuthStep, AuthenticateXbl, AuthenticateXsts, LoginWithXbox, GetProfile
<1> QED BY <1>1, <1>2, AuthTypeCorrect, PTL DEF AuthSpec

\* The stored refresh token is one the server accepts, unless a process is on its way
\* from the refresh that retired it to the save of its successor, or lost it on the way.
THEOREM TokenIsKept == AuthSpec => []TokenKept
<1>1. TokenInv => TokenKept
  BY DEF TokenInv
<1> QED BY <1>1, TokenInvHolds, PTL
=============================================================================
