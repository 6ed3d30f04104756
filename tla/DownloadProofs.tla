--------------------------- MODULE DownloadProofs ---------------------------
(***************************************************************************)
(* What the download service promises, for any mods, hashes, concurrency   *)
(* and number of retries, and across any number of kills.                  *)
(***************************************************************************)
EXTENDS Download, FiniteSetTheorems, TLAPS

USE DownloadAssumption

Places == Running \cup Ended \cup {"none", "joined"}

\* A mod that is downloaded has a hash.
Keyed == \A m \in Mods : m \in todo \/ task[m] # "none" => HashOf[m] \in Hashes

\* A task that has a tmp file owns it, its number has been given out, and a
\* file that is being committed was found to be right.
Files ==
  /\ TmpOwned
  /\ \A m \in Mods : task[m] \in Writing =>
       Tmp(m) \in DOMAIN tmps /\ tmpName[m] < counter
  /\ \A m \in Mods : task[m] \in {"commit", "rename"} => tmps[Tmp(m)] = "right"

\* Where each mod is accounted for, at each place of download_missing_mods.
Account ==
  /\ pc = "partition" =>
       todo = {} /\ failed = {} /\ \A m \in Mods : task[m] = "none"
  /\ pc \in {"join", "done"} => todo = {}
  /\ pc = "done" => \A m \in Mods : task[m] \in {"none", "joined"}
  /\ \A m \in todo : task[m] = "none"
  /\ \A m \in failed : HashOf[m] = NoHash \/ task[m] = "joined"
  /\ \A m \in Mods : task[m] = "ok" => Cached(m)
  /\ \A m \in Mods : task[m] = "joined" => m \in failed \/ Cached(m)
  /\ pc # "partition" => \A m \in Mods :
       task[m] = "none" =>
         \/ m \in failed \cup todo
         \/ HashOf[m] \in Hashes /\ Cached(m)

Brought == {m \in Mods \ failed : At(m, "joined")}

Counted == downloaded = Cardinality(Brought)

IInv ==
  /\ TypeOK
  /\ permits + Cardinality(InFlight) = MaxConcurrent
  /\ Keyed /\ Files /\ JarsVerified /\ Account /\ Counted

-----------------------------------------------------------------------------
(* The steps of a task *)

\* What a step of m's task does to the files.
Rests(m, p) ==
  /\ UNCHANGED <<tmpName, counter, tmps, jars>>
  /\ p \in Writing <=> task[m] \in Writing
  /\ p \in {"commit", "rename"} => tmps[Tmp(m)] = "right"
  /\ p = "ok" => Cached(m)

Creates(m, p) ==
  /\ task[m] \notin Writing /\ p = "stream"
  /\ tmpName' = [tmpName EXCEPT ![m] = counter]
  /\ counter' = counter + 1
  /\ tmps' = Holding(<<HashOf[m], counter>>, "part")
  /\ UNCHANGED jars

Fills(m, p) ==
  /\ task[m] \in Writing /\ p = "hash"
  /\ \E content \in {"right", "wrong"} : tmps' = Holding(Tmp(m), content)
  /\ UNCHANGED <<tmpName, counter, jars>>

Drops(m, p) ==
  /\ task[m] \in Writing /\ p \notin Writing
  /\ Discard(m)
  /\ p = "ok" => Cached(m)
  /\ UNCHANGED <<counter, jars>>

Commits(m, p) ==
  /\ task[m] = "rename" /\ p = "ok"
  /\ Discard(m)
  /\ jars' = [jars EXCEPT ![HashOf[m]] = tmps[Tmp(m)]]
  /\ UNCHANGED counter

\* Every step of a task is one of these five; it keeps its permit until it ends.
LEMMA TaskStep ==
  ASSUME TypeOK, Keyed, Files, NEW m \in Mods, Task(m) \/ Panic(m)
  PROVE  /\ m \in InFlight
         /\ UNCHANGED <<pc, todo, downloaded, failed, kills>>
         /\ attempt' \in [Mods -> 0..MaxRetries]
         /\ \E p \in Running \cup Ended :
              /\ task' = [task EXCEPT ![m] = p]
              /\ permits' = IF p \in Ended THEN permits + 1 ELSE permits
              /\ \/ Rests(m, p) \/ Creates(m, p) \/ Fills(m, p)
                 \/ Drops(m, p) \/ Commits(m, p)
<1> DEFINE Result(p) ==
      /\ task' = [task EXCEPT ![m] = p]
      /\ permits' = IF p \in Ended THEN permits + 1 ELSE permits
      /\ attempt' \in [Mods -> 0..MaxRetries]
<1>0. attempt \in [Mods -> 0..MaxRetries] /\ MaxRetries \in Nat
  BY DEF TypeOK
<1>1. ASSUME NEW retryable \in BOOLEAN, Failed(m, retryable)
      PROVE  \E p \in {"sleep", "err"} : Result(p)
  <2>1. CASE retryable /\ attempt[m] < MaxRetries
    <3>1. Result("sleep")
      BY <1>0, <1>1, <2>1 DEF Failed, Goto, Ended
    <3> QED BY <3>1
  <2>2. CASE ~(retryable /\ attempt[m] < MaxRetries)
    <3>1. Result("err")
      BY <1>0, <1>1, <2>2 DEF Failed, Goto, End, Ended
    <3> QED BY <3>1
  <2> QED BY <2>1, <2>2
<1>2. CASE Check(m)
  <2>1. Cached(m) => Result("ok") /\ Rests(m, "ok")
    BY <1>0, <1>2 DEF Check, At, Goto, End, Ended, Rests, Writing, diskVars
  <2>2. ~Cached(m) => Result("request") /\ Rests(m, "request")
    BY <1>0, <1>2 DEF Check, At, Goto, End, Ended, Rests, Writing, diskVars
  <2> QED BY <1>2, <2>1, <2>2 DEF Check, At, MainRests, InFlight, Running, Ended
<1>3. CASE RequestFails(m)
  <2>1. PICK p \in {"sleep", "err"} : Result(p)
    BY <1>1, <1>3 DEF RequestFails
  <2>2. Rests(m, p)
    BY <1>3 DEF RequestFails, At, Rests, Writing, diskVars
  <2> QED BY <1>3, <2>1, <2>2 DEF RequestFails, At, MainRests, InFlight, Running, Ended
<1>4. CASE Create(m)
  <2>1. Result("stream") /\ Creates(m, "stream")
    BY <1>0, <1>4 DEF Create, At, Goto, Ended, Creates, Writing
  <2> QED BY <1>4, <2>1 DEF Create, At, MainRests, InFlight, Running, Ended
<1>5. CASE StreamEnds(m)
  <2>1. Result("hash") /\ Fills(m, "hash")
    BY <1>0, <1>5 DEF StreamEnds, At, Goto, Ended, Fills, Writing
  <2> QED BY <1>5, <2>1 DEF StreamEnds, At, MainRests, InFlight, Running, Ended
<1>6. CASE StreamFails(m)
  <2>1. PICK p \in {"sleep", "err"} : Result(p)
    BY <1>1, <1>6 DEF StreamFails
  <2>2. Drops(m, p)
    BY <1>6 DEF StreamFails, Drops, Writing
  <2> QED BY <1>6, <2>1, <2>2 DEF StreamFails, MainRests, InFlight, Running, Ended
<1>7. CASE Hash(m)
  <2>1. CASE tmps[Tmp(m)] = "right"
    <3>1. Result("commit") /\ Rests(m, "commit")
      BY <1>0, <1>7, <2>1 DEF Hash, At, Goto, Ended, Rests, Writing
    <3> QED BY <1>7, <3>1 DEF Hash, At, MainRests, InFlight, Running, Ended
  <2>2. CASE tmps[Tmp(m)] # "right"
    <3>1. PICK p \in {"sleep", "err"} : Result(p)
      BY <1>1, <1>7, <2>2 DEF Hash
    <3>2. Drops(m, p)
      BY <1>7, <2>2 DEF Hash, At, Drops, Writing
    <3> QED BY <1>7, <3>1, <3>2 DEF Hash, At, MainRests, InFlight, Running, Ended
  <2> QED BY <2>1, <2>2
<1>8. CASE Commit(m)
  <2>1. Cached(m) => Result("ok") /\ Drops(m, "ok")
    BY <1>0, <1>8 DEF Commit, At, Goto, End, Ended, Drops, Writing
  <2>2. ~Cached(m) => Result("rename") /\ Rests(m, "rename")
    BY <1>0, <1>8 DEF Commit, At, Goto, End, Ended, Rests, Writing, Files
  <2> QED BY <1>8, <2>1, <2>2 DEF Commit, At, MainRests, InFlight, Running, Ended
<1>9. CASE Rename(m)
  <2>1. Result("ok") /\ Commits(m, "ok")
    BY <1>0, <1>9 DEF Rename, At, Goto, End, Ended, Commits
  <2> QED BY <1>9, <2>1 DEF Rename, At, MainRests, InFlight, Running, Ended
<1>10. CASE RenameFails(m)
  <2>1. PICK p \in {"sleep", "err"} : Result(p)
    BY <1>1, <1>10 DEF RenameFails
  <2>2. Drops(m, p)
    BY <1>10 DEF RenameFails, At, Drops, Writing
  <2> QED BY <1>10, <2>1, <2>2 DEF RenameFails, At, MainRests, InFlight, Running, Ended
<1>11. CASE Retry(m)
  <2>1. Result("request") /\ Rests(m, "request")
    BY <1>0, <1>11 DEF Retry, At, Goto, Ended, Rests, Writing, diskVars
  <2> QED BY <1>11, <2>1 DEF Retry, At, MainRests, InFlight, Running, Ended
<1>12. CASE Panic(m)
  <2>1. Result("err")
    BY <1>0, <1>12 DEF Panic, Goto, End, Ended
  <2>2. Rests(m, "err") \/ Drops(m, "err")
    BY <1>12 DEF Panic, Rests, Drops, Writing
  <2> QED BY <1>12, <2>1, <2>2 DEF Panic, MainRests, InFlight, Running, Ended
<1> QED BY <1>2, <1>3, <1>4, <1>5, <1>6, <1>7, <1>8, <1>9, <1>10, <1>11, <1>12 DEF Task

-----------------------------------------------------------------------------
(* The files *)

\* The files change only for the task that moves: the others' names, places and
\* contents stay.
LEMMA FilesStep ==
  ASSUME TypeOK, Keyed, Files, JarsVerified, NEW m \in Mods, NEW p \in Running \cup Ended,
         m \in InFlight, task' = [task EXCEPT ![m] = p],
         Rests(m, p) \/ Creates(m, p) \/ Fills(m, p) \/ Drops(m, p) \/ Commits(m, p)
  PROVE  /\ Files' /\ JarsVerified'
         /\ DOMAIN tmps' \subseteq Hashes \X Nat
         /\ tmps' \in [DOMAIN tmps' -> Content]
         /\ jars' \in [Hashes -> Content \cup {"none"}]
         /\ tmpName' \in [Mods -> Nat] /\ counter' \in Nat
         /\ \A h \in Hashes : jars[h] # "none" => jars'[h] # "none"
         /\ p = "ok" => Cached(m)'
<1>1. /\ task \in [Mods -> Running \cup Ended \cup {"none", "joined"}]
      /\ tmpName \in [Mods -> Nat] /\ counter \in Nat
      /\ DOMAIN tmps \subseteq Hashes \X Nat /\ tmps \in [DOMAIN tmps -> Content]
      /\ jars \in [Hashes -> Content \cup {"none"}]
      /\ HashOf[m] \in Hashes
  <2>1. task[m] # "none"
    BY DEF InFlight, Running
  <2> QED BY <2>1 DEF TypeOK, Keyed
<1>2. /\ \A n \in Mods \ {m} : task'[n] = task[n]
      /\ task'[m] = p
  BY <1>1
<1>3. /\ \A n \in DOMAIN tmps : \E o \in Mods : task[o] \in Writing /\ Tmp(o) = n
      /\ \A n, o \in Mods :
           {task[n], task[o]} \subseteq Writing /\ Tmp(n) = Tmp(o) => n = o
      /\ \A n \in Mods : task[n] \in Writing => Tmp(n) \in DOMAIN tmps /\ tmpName[n] < counter
      /\ \A n \in Mods : task[n] \in {"commit", "rename"} => tmps[Tmp(n)] = "right"
  BY DEF Files, TmpOwned
<1>4. CASE Rests(m, p)
  <2>1. UNCHANGED <<tmpName, counter, tmps, jars>> /\ \A n \in Mods : Tmp(n)' = Tmp(n)
    BY <1>4 DEF Rests, Tmp
  <2>2. /\ \A n \in Mods : task'[n] \in Writing <=> task[n] \in Writing
        /\ \A n \in Mods : task'[n] \in {"commit", "rename"} => tmps[Tmp(n)] = "right"
        /\ p = "ok" => Cached(m)
    BY <1>2, <1>3, <1>4 DEF Rests
  <2>3. TmpOwned'
    BY <1>3, <2>1, <2>2 DEF TmpOwned
  <2>4. Files'
    BY <1>3, <2>1, <2>2, <2>3 DEF Files
  <2> QED BY <1>1, <2>1, <2>2, <2>4 DEF JarsVerified, Cached
<1>5. CASE Creates(m, p)
  <2> DEFINE name == <<HashOf[m], counter>>
  <2>1. /\ p = "stream" /\ task[m] \notin Writing
        /\ tmpName' = [tmpName EXCEPT ![m] = counter] /\ counter' = counter + 1
        /\ tmps' = Holding(name, "part") /\ jars' = jars
    BY <1>5 DEF Creates
  <2>2. Tmp(m)' = name /\ \A n \in Mods \ {m} : Tmp(n)' = Tmp(n)
    BY <1>1, <2>1 DEF Tmp
  <2>3. /\ \A n \in Mods : task[n] \in Writing => n # m /\ Tmp(n) # name
        /\ name \notin DOMAIN tmps
    BY <1>1, <1>3, <2>1 DEF Tmp
  <2>4. /\ DOMAIN tmps' = DOMAIN tmps \cup {name}
        /\ tmps' \in [DOMAIN tmps' -> Content]
        /\ \A n \in DOMAIN tmps : tmps'[n] = tmps[n]
    BY <1>1, <2>1, <2>3 DEF Holding, Content
  <2>5. TmpOwned'
    <3>1. ASSUME NEW n \in DOMAIN tmps'
          PROVE  \E o \in Mods : task'[o] \in Writing /\ Tmp(o)' = n
      <4>1. CASE n = name
        BY <1>2, <2>1, <2>2, <4>1 DEF Writing
      <4>2. CASE n \in DOMAIN tmps
        <5>1. PICK o \in Mods : task[o] \in Writing /\ Tmp(o) = n
          BY <1>3, <4>2
        <5> QED BY <1>2, <2>2, <2>3, <5>1
      <4> QED BY <2>4, <4>1, <4>2
    <3>2. ASSUME NEW n \in Mods, NEW o \in Mods, {task'[n], task'[o]} \subseteq Writing,
                 Tmp(n)' = Tmp(o)'
          PROVE  n = o
      <4>1. CASE n = m \/ o = m
        BY <1>2, <2>2, <2>3, <3>2, <4>1
      <4>2. CASE n # m /\ o # m
        BY <1>2, <1>3, <2>2, <3>2, <4>2
      <4> QED BY <4>1, <4>2
    <3> QED BY <3>1, <3>2 DEF TmpOwned
  <2>6. ASSUME NEW n \in Mods
        PROVE  /\ task'[n] \in Writing => Tmp(n)' \in DOMAIN tmps' /\ tmpName'[n] < counter'
               /\ task'[n] \in {"commit", "rename"} => tmps'[Tmp(n)'] = "right"
    <3>1. CASE n = m
      BY <1>1, <1>2, <2>1, <2>2, <2>4, <3>1
    <3>2. CASE n # m
      <4>1. tmpName'[n] = tmpName[n] /\ Tmp(n)' = Tmp(n) /\ task'[n] = task[n]
        BY <1>1, <1>2, <2>1, <2>2, <3>2
      <4>2. task[n] \in {"commit", "rename"} => task[n] \in Writing
        BY DEF Writing
      <4> QED BY <1>1, <1>3, <2>1, <2>4, <4>1, <4>2
    <3> QED BY <3>1, <3>2
  <2>7. Files'
    BY <2>5, <2>6 DEF Files
  <2>8. DOMAIN tmps' \subseteq Hashes \X Nat
    BY <1>1, <2>4
  <2> QED BY <1>1, <2>1, <2>4, <2>7, <2>8 DEF JarsVerified
<1>6. CASE Fills(m, p)
  <2>1. /\ p = "hash" /\ task[m] \in Writing
        /\ UNCHANGED <<tmpName, counter, jars>>
    BY <1>6 DEF Fills
  <2>2. PICK content \in {"right", "wrong"} : tmps' = Holding(Tmp(m), content)
    BY <1>6 DEF Fills
  <2>3. \A n \in Mods : Tmp(n)' = Tmp(n) /\ (task'[n] \in Writing <=> task[n] \in Writing)
    BY <1>2, <2>1 DEF Tmp, Writing
  <2>4. /\ DOMAIN tmps' = DOMAIN tmps
        /\ tmps' \in [DOMAIN tmps' -> Content]
        /\ \A n \in DOMAIN tmps \ {Tmp(m)} : tmps'[n] = tmps[n]
    BY <1>1, <1>3, <2>1, <2>2 DEF Holding, Content
  <2>5. TmpOwned'
    BY <1>3, <2>3, <2>4 DEF TmpOwned
  <2>6. \A n \in Mods : task'[n] \in {"commit", "rename"} => tmps'[Tmp(n)] = "right"
    <3>1. SUFFICES ASSUME NEW n \in Mods, task'[n] \in {"commit", "rename"}
                   PROVE  tmps'[Tmp(n)] = "right"
      OBVIOUS
    <3>2. n # m /\ task[n] \in {"commit", "rename"}
      BY <1>2, <2>1, <3>1
    <3>3. Tmp(n) # Tmp(m) /\ Tmp(n) \in DOMAIN tmps
      BY <1>3, <2>1, <3>2 DEF Writing
    <3> QED BY <1>3, <2>4, <3>2, <3>3
  <2>7. Files'
    BY <1>3, <2>1, <2>3, <2>4, <2>5, <2>6 DEF Files
  <2> QED BY <1>1, <2>1, <2>4, <2>7 DEF JarsVerified
<1>7. ASSUME task[m] \in Writing, p \notin Writing, Discard(m), counter' = counter
      PROVE  /\ Files'
             /\ DOMAIN tmps' \subseteq Hashes \X Nat
             /\ tmps' \in [DOMAIN tmps' -> Content]
             /\ tmpName' \in [Mods -> Nat]
  <2>1. /\ DOMAIN tmps' = DOMAIN tmps \ {Tmp(m)}
        /\ tmps' \in [DOMAIN tmps' -> Content]
        /\ \A n \in DOMAIN tmps \ {Tmp(m)} : tmps'[n] = tmps[n]
    BY <1>1, <1>7 DEF Discard
  <2>2. /\ tmpName' \in [Mods -> Nat]
        /\ \A n \in Mods \ {m} : tmpName'[n] = tmpName[n] /\ Tmp(n)' = Tmp(n)
    BY <1>1, <1>7 DEF Discard, Tmp
  <2>3. \A n \in Mods : task'[n] \in Writing =>
          n # m /\ task[n] \in Writing /\ Tmp(n)' = Tmp(n) /\ Tmp(n) # Tmp(m)
    BY <1>2, <1>3, <1>7, <2>2
  <2>4. TmpOwned'
    <3>1. ASSUME NEW n \in DOMAIN tmps'
          PROVE  \E o \in Mods : task'[o] \in Writing /\ Tmp(o)' = n
      <4>1. PICK o \in Mods : task[o] \in Writing /\ Tmp(o) = n
        BY <1>3, <2>1
      <4>2. o # m
        BY <2>1, <4>1
      <4> QED BY <1>2, <2>2, <4>1, <4>2
    <3>2. \A n, o \in Mods :
            {task'[n], task'[o]} \subseteq Writing /\ Tmp(n)' = Tmp(o)' => n = o
      BY <1>3, <2>3
    <3> QED BY <3>1, <3>2 DEF TmpOwned
  <2>5. \A n \in Mods : task'[n] \in Writing =>
          Tmp(n)' \in DOMAIN tmps' /\ tmpName'[n] < counter'
    BY <1>3, <1>7, <2>1, <2>2, <2>3
  <2>6. \A n \in Mods : task'[n] \in {"commit", "rename"} => tmps'[Tmp(n)'] = "right"
    <3>1. SUFFICES ASSUME NEW n \in Mods, task'[n] \in {"commit", "rename"}
                   PROVE  tmps'[Tmp(n)'] = "right"
      OBVIOUS
    <3>2. task'[n] \in Writing
      BY <3>1 DEF Writing
    <3>3. task'[n] = task[n] /\ Tmp(n)' = Tmp(n) /\ Tmp(n) \in DOMAIN tmps \ {Tmp(m)}
      BY <1>2, <1>3, <2>3, <3>2
    <3> QED BY <1>3, <2>1, <3>1, <3>3
  <2>7. Files'
    BY <2>4, <2>5, <2>6 DEF Files
  <2> QED BY <1>1, <2>1, <2>2, <2>7
<1>8. CASE Drops(m, p)
  <2>1. jars' = jars /\ counter' = counter /\ (p = "ok" => Cached(m))
    BY <1>8 DEF Drops
  <2> QED BY <1>1, <1>7, <1>8, <2>1 DEF Drops, JarsVerified, Cached
<1>9. CASE Commits(m, p)
  <2>1. /\ task[m] \in Writing /\ p \notin Writing /\ Discard(m) /\ counter' = counter
        /\ tmps[Tmp(m)] = "right" /\ jars' = [jars EXCEPT ![HashOf[m]] = "right"]
    BY <1>3, <1>9 DEF Commits, Writing
  <2> QED BY <1>1, <1>7, <2>1 DEF JarsVerified, Cached, Content
<1> QED BY <1>4, <1>5, <1>6, <1>8, <1>9

-----------------------------------------------------------------------------
(* The permits *)

\* A step of a task keeps it in flight and its permit out, or neither.
LEMMA PermitStep ==
  ASSUME TypeOK, permits + Cardinality(InFlight) = MaxConcurrent,
         NEW m \in Mods, NEW p \in Running \cup Ended, m \in InFlight,
         task' = [task EXCEPT ![m] = p],
         permits' = IF p \in Ended THEN permits + 1 ELSE permits
  PROVE  permits' \in Nat /\ permits' + Cardinality(InFlight') = MaxConcurrent
<1>1. IsFiniteSet(InFlight) /\ Cardinality(InFlight) \in Nat
  BY FS_Subset, FS_CardinalityType DEF InFlight
<1>2. /\ \A n \in Mods \ {m} : task'[n] = task[n]
      /\ task'[m] = p
  BY DEF TypeOK
<1>3. CASE p \in Ended
  <2>1. InFlight' = InFlight \ {m}
    BY <1>2, <1>3 DEF InFlight, Running, Ended
  <2>2. Cardinality(InFlight') = Cardinality(InFlight) - 1
    BY <1>1, <2>1, FS_RemoveElement
  <2> QED BY <1>1, <1>3, <2>2 DEF TypeOK
<1>4. CASE p \notin Ended
  <2>1. InFlight' = InFlight
    BY <1>2, <1>4 DEF InFlight
  <2> QED BY <1>4, <2>1 DEF TypeOK
<1> QED BY <1>3, <1>4

-----------------------------------------------------------------------------
(* The account *)

\* A step of a task changes neither what was counted nor what is missing.
LEMMA AccountStep ==
  ASSUME IInv, NEW m \in Mods, NEW p \in Running \cup Ended,
         m \in InFlight, task' = [task EXCEPT ![m] = p],
         UNCHANGED <<pc, todo, downloaded, failed>>,
         \A h \in Hashes : jars[h] # "none" => jars'[h] # "none",
         p = "ok" => Cached(m)'
  PROVE  Keyed' /\ Account' /\ Counted'
<1>1. /\ \A n \in Mods \ {m} : task'[n] = task[n]
      /\ task'[m] = p
      /\ task[m] \in Running
      /\ p \notin {"none", "joined"} /\ task[m] \notin {"none", "joined", "ok"}
  BY DEF IInv, TypeOK, InFlight, Running, Ended
<1>2. Keyed'
  BY <1>1 DEF IInv, Keyed
<1>3. \A n \in Mods : HashOf[n] \in Hashes /\ Cached(n) => Cached(n)'
  BY DEF Cached
<1>4. Account'
  <2>1. pc = "partition" => task[m] = "none"
    BY DEF IInv, Account
  <2>2. pc = "done" => task[m] \in {"none", "joined"}
    BY DEF IInv, Account
  <2>3. /\ pc' = pc /\ pc \notin {"partition", "done"}
        /\ pc' = "join" => todo' = {}
    BY <1>1, <2>1, <2>2 DEF IInv, Account
  <2>4. \A n \in todo' : task'[n] = "none"
    BY <1>1 DEF IInv, Account, TypeOK
  <2>5. \A n \in failed' : HashOf[n] = NoHash \/ task'[n] = "joined"
    BY <1>1 DEF IInv, Account, TypeOK
  <2>6. \A n \in Mods : task'[n] = "ok" => Cached(n)'
    BY <1>1, <1>3 DEF IInv, Account, Keyed
  <2>7. \A n \in Mods : task'[n] = "joined" => n \in failed' \/ Cached(n)'
    BY <1>1, <1>3 DEF IInv, Account, Keyed
  <2>8. \A n \in Mods : task'[n] = "none" =>
          \/ n \in failed' \cup todo'
          \/ HashOf[n] \in Hashes /\ Cached(n)'
    BY <1>1, <1>3, <2>3 DEF IInv, Account
  <2> QED BY <2>3, <2>4, <2>5, <2>6, <2>7, <2>8 DEF Account
<1>5. Counted'
  <2>1. Brought' = Brought
    BY <1>1 DEF Brought, At
  <2> QED BY <2>1 DEF IInv, Counted
<1> QED BY <1>2, <1>4, <1>5

\* The partition starts the account.
LEMMA PartitionStep ==
  ASSUME IInv, Partition
  PROVE  IInv'
<1>1. /\ pc = "partition" /\ failed' = {m \in Mods : HashOf[m] = NoHash}
      /\ todo' = {m \in Mods \ failed' : ~Cached(m)}
      /\ pc' = IF todo' = {} THEN "done" ELSE "spawn"
      /\ UNCHANGED <<permits, downloaded, task, attempt, tmpName, counter, tmps, jars, kills>>
  BY DEF Partition, taskVars, diskVars
<1>2. \A m \in Mods : task[m] = "none" /\ todo = {} /\ failed = {}
  BY <1>1 DEF IInv, Account
<1>3. InFlight' = InFlight /\ Files' /\ JarsVerified' /\ TypeOK'
  BY <1>1 DEF IInv, InFlight, Files, TmpOwned, Tmp, JarsVerified, TypeOK
<1>4. Keyed'
  BY <1>1, <1>2 DEF Keyed
<1>5. Account'
  BY <1>1, <1>2 DEF Account, Cached
<1>6. Brought' = {} /\ Brought = {}
  BY <1>1, <1>2 DEF Brought, At
<1>7. Counted'
  BY <1>1, <1>6 DEF IInv, Counted
<1> QED BY <1>1, <1>3, <1>4, <1>5, <1>7 DEF IInv

LEMMA SpawnStep ==
  ASSUME IInv, NEW m \in Mods, Spawn(m)
  PROVE  IInv'
<1>1. /\ pc = "spawn" /\ m \in todo /\ permits > 0 /\ todo' = todo \ {m}
      /\ pc' = IF todo' = {} THEN "join" ELSE "spawn"
      /\ permits' = permits - 1
      /\ task' = [task EXCEPT ![m] = "check"]
      /\ UNCHANGED <<downloaded, failed, attempt, tmpName, counter, tmps, jars, kills>>
  BY DEF Spawn, Goto, diskVars
<1>2. /\ \A n \in Mods \ {m} : task'[n] = task[n]
      /\ task'[m] = "check" /\ task[m] = "none"
  BY <1>1 DEF IInv, TypeOK, Account
<1>3. TypeOK'
  BY <1>1 DEF IInv, TypeOK, Running
<1>4. permits' + Cardinality(InFlight') = MaxConcurrent
  <2>1. InFlight' = InFlight \cup {m} /\ m \notin InFlight
    BY <1>2 DEF InFlight, Running
  <2>2. IsFiniteSet(InFlight) /\ Cardinality(InFlight) \in Nat
    BY FS_Subset, FS_CardinalityType DEF InFlight
  <2>3. Cardinality(InFlight') = Cardinality(InFlight) + 1
    BY <2>1, <2>2, FS_AddElement
  <2> QED BY <1>1, <2>2, <2>3 DEF IInv, TypeOK
<1>5. Keyed'
  BY <1>1, <1>2 DEF IInv, Keyed
<1>6. Files'
  <2>1. \A n \in Mods : Tmp(n)' = Tmp(n) /\ (task'[n] \in Writing <=> task[n] \in Writing)
    BY <1>1, <1>2 DEF Tmp, Writing
  <2>2. \A n \in Mods : task'[n] \in {"commit", "rename"} => task[n] = task'[n]
    BY <1>2
  <2>3. TmpOwned'
    BY <1>1, <2>1 DEF IInv, Files, TmpOwned
  <2> QED BY <1>1, <2>1, <2>2, <2>3 DEF IInv, Files
<1>7. JarsVerified'
  BY <1>1 DEF IInv, JarsVerified
<1>8. Account'
  BY <1>1, <1>2 DEF IInv, Account, Cached
<1>9. Counted'
  <2>1. Brought' = Brought
    BY <1>1, <1>2 DEF Brought, At
  <2> QED BY <1>1, <2>1 DEF IInv, Counted
<1> QED BY <1>3, <1>4, <1>5, <1>6, <1>7, <1>8, <1>9 DEF IInv

\* A task that is joined is counted once, as brought or as failed.
LEMMA JoinStep ==
  ASSUME IInv, NEW m \in Mods, Join(m)
  PROVE  IInv'
<1>1. /\ pc = "join" /\ task[m] \in Ended
      /\ IF task[m] = "ok"
           THEN downloaded' = downloaded + 1 /\ failed' = failed
           ELSE failed' = failed \cup {m} /\ downloaded' = downloaded
      /\ task' = [task EXCEPT ![m] = "joined"]
      /\ pc' = IF \E n \in Mods \ {m} : task[n] \in Running \cup Ended
                 THEN "join" ELSE "done"
      /\ UNCHANGED <<todo, permits, attempt, tmpName, counter, tmps, jars, kills>>
  BY DEF Join, At, Goto, diskVars
<1>2. /\ \A n \in Mods \ {m} : task'[n] = task[n]
      /\ task'[m] = "joined"
      /\ task[m] \notin Running \cup {"none", "joined"}
      /\ m \notin failed
  <2>1. HashOf[m] # NoHash
    BY <1>1 DEF IInv, Keyed, Ended
  <2> QED BY <1>1, <2>1 DEF IInv, TypeOK, Account, Ended, Running
<1>3. TypeOK'
  BY <1>1 DEF IInv, TypeOK
<1>4. InFlight' = InFlight
  BY <1>2 DEF InFlight, Running
<1>5. Keyed'
  BY <1>1, <1>2 DEF IInv, Keyed
<1>6. Files'
  <2>1. \A n \in Mods : Tmp(n)' = Tmp(n) /\ (task'[n] \in Writing <=> task[n] \in Writing)
    BY <1>1, <1>2 DEF Tmp, Writing, Running
  <2>2. \A n \in Mods : task'[n] \in {"commit", "rename"} => task[n] = task'[n]
    BY <1>2
  <2>3. TmpOwned'
    BY <1>1, <2>1 DEF IInv, Files, TmpOwned
  <2> QED BY <1>1, <2>1, <2>2, <2>3 DEF IInv, Files
<1>7. JarsVerified'
  BY <1>1 DEF IInv, JarsVerified
<1>8. Account'
  <2>1. todo = {} /\ failed \subseteq failed' /\ failed' \subseteq failed \cup {m}
    BY <1>1 DEF IInv, Account
  <2>2. \A n \in Mods : Cached(n)' = Cached(n)
    BY <1>1 DEF Cached
  <2>3. pc' = "done" => \A n \in Mods : task'[n] \in {"none", "joined"}
    BY <1>1, <1>2 DEF IInv, TypeOK
  <2>4. m \in failed' \/ Cached(m)
    BY <1>1 DEF IInv, Account
  <2>5. \A n \in failed' : HashOf[n] = NoHash \/ task'[n] = "joined"
    BY <1>2, <2>1 DEF IInv, Account, TypeOK
  <2>6. \A n \in Mods : task'[n] = "none" =>
          \/ n \in failed' \cup todo'
          \/ HashOf[n] \in Hashes /\ Cached(n)'
    BY <1>1, <1>2, <2>1, <2>2 DEF IInv, Account
  <2>7. /\ \A n \in Mods : task'[n] = "ok" => Cached(n)'
        /\ \A n \in Mods : task'[n] = "joined" => n \in failed' \/ Cached(n)'
    BY <1>2, <2>1, <2>2, <2>4 DEF IInv, Account
  <2>8. pc' \in {"join", "done"} /\ todo' = {}
    BY <1>1, <2>1
  <2> QED BY <2>3, <2>5, <2>6, <2>7, <2>8 DEF Account
<1>9. Counted'
  <2>1. IsFiniteSet(Brought) /\ Cardinality(Brought) \in Nat /\ m \notin Brought
    BY <1>2, FS_Subset, FS_CardinalityType DEF Brought, At
  <2>2. CASE task[m] = "ok"
    <3>1. Brought' = Brought \cup {m}
      BY <1>1, <1>2, <2>2 DEF Brought, At
    <3> QED BY <1>1, <2>1, <2>2, <3>1, FS_AddElement DEF IInv, Counted
  <2>3. CASE task[m] # "ok"
    <3>1. Brought' = Brought
      BY <1>1, <1>2, <2>3 DEF Brought, At
    <3> QED BY <1>1, <2>3, <3>1 DEF IInv, Counted
  <2> QED BY <2>2, <2>3
<1> QED BY <1>1, <1>3, <1>4, <1>5, <1>6, <1>7, <1>8, <1>9 DEF IInv

\* A kill leaves the JARs and starts again.
LEMMA KillStep ==
  ASSUME IInv, Kill
  PROVE  IInv'
<1>1. /\ pc' = "partition" /\ todo' = {} /\ permits' = MaxConcurrent
      /\ downloaded' = 0 /\ failed' = {}
      /\ task' = [m \in Mods |-> "none"] /\ attempt' = [m \in Mods |-> 0]
      /\ tmpName' = [m \in Mods |-> 0] /\ counter' = 0
      /\ tmps' = [n \in {} |-> "part"] /\ jars' = jars
      /\ kills < MaxKills /\ kills' = kills + 1
  BY DEF Kill
<1>2. TypeOK'
  BY <1>1 DEF IInv, TypeOK
<1>3. InFlight' = {} /\ Brought' = {}
  BY <1>1 DEF InFlight, Brought, At, Running
<1>4. Keyed' /\ Files' /\ JarsVerified' /\ Account'
  BY <1>1 DEF IInv, Keyed, Files, TmpOwned, JarsVerified, Account, Writing
<1> QED BY <1>1, <1>2, <1>3, <1>4, FS_EmptySet DEF IInv, Counted

-----------------------------------------------------------------------------
(* The invariant and what follows from it *)

LEMMA IInvHolds == Spec => []IInv
<1>1. Init => IInv
  <2> SUFFICES ASSUME Init PROVE IInv
    OBVIOUS
  <2>1. InFlight = {} /\ Brought = {}
    BY DEF Init, InFlight, Brought, At, Running
  <2>2. TypeOK
    BY DEF Init, TypeOK, Content
  <2>3. Keyed /\ Files /\ JarsVerified /\ Account
    BY DEF Init, Keyed, Files, TmpOwned, JarsVerified, Account, Writing
  <2> QED BY <2>1, <2>2, <2>3, FS_EmptySet DEF Init, IInv, Counted
<1>2. IInv /\ [Next]_vars => IInv'
  <2> SUFFICES ASSUME IInv, [Next]_vars PROVE IInv'
    OBVIOUS
  <2>1. ASSUME NEW m \in Mods, Task(m) \/ Panic(m) PROVE IInv'
    <3>1. /\ m \in InFlight
          /\ UNCHANGED <<pc, todo, downloaded, failed, kills>>
          /\ attempt' \in [Mods -> 0..MaxRetries]
      BY <2>1, TaskStep DEF IInv
    <3>2. PICK p \in Running \cup Ended :
            /\ task' = [task EXCEPT ![m] = p]
            /\ permits' = IF p \in Ended THEN permits + 1 ELSE permits
            /\ \/ Rests(m, p) \/ Creates(m, p) \/ Fills(m, p)
               \/ Drops(m, p) \/ Commits(m, p)
      BY <2>1, TaskStep DEF IInv
    <3>3. /\ Files' /\ JarsVerified'
          /\ DOMAIN tmps' \subseteq Hashes \X Nat
          /\ tmps' \in [DOMAIN tmps' -> Content]
          /\ jars' \in [Hashes -> Content \cup {"none"}]
          /\ tmpName' \in [Mods -> Nat] /\ counter' \in Nat
          /\ \A h \in Hashes : jars[h] # "none" => jars'[h] # "none"
          /\ p = "ok" => Cached(m)'
      BY <3>1, <3>2, FilesStep DEF IInv
    <3>4. Keyed' /\ Account' /\ Counted'
      BY <3>1, <3>2, <3>3, AccountStep
    <3>5. permits' \in Nat /\ permits' + Cardinality(InFlight') = MaxConcurrent
      BY <3>1, <3>2, PermitStep DEF IInv
    <3>6. permits' \in 0..MaxConcurrent
      <4>1. Cardinality(InFlight') \in Nat
        <5>1. IsFiniteSet(InFlight')
          BY FS_Subset DEF InFlight
        <5> QED BY <5>1, FS_CardinalityType
      <4> QED BY <3>5, <4>1
    <3>7. TypeOK'
      BY <3>1, <3>2, <3>3, <3>6 DEF IInv, TypeOK
    <3> QED BY <3>3, <3>4, <3>5, <3>7 DEF IInv
  <2>2. CASE UNCHANGED vars
    <3>1. /\ UNCHANGED <<pc, todo, permits, downloaded, failed, task, attempt,
                         tmpName, counter, tmps, jars, kills>>
      BY <2>2 DEF vars, mainVars, taskVars, diskVars
    <3>2. InFlight' = InFlight /\ Brought' = Brought
      BY <3>1 DEF InFlight, Brought, At
    <3>3. TypeOK' /\ Keyed' /\ JarsVerified'
      BY <3>1 DEF IInv, TypeOK, Keyed, JarsVerified
    <3>4. Files'
      BY <3>1 DEF IInv, Files, TmpOwned, Tmp
    <3>5. Account' /\ Counted'
      BY <3>1, <3>2 DEF IInv, Account, Counted, Cached
    <3> QED BY <3>1, <3>2, <3>3, <3>4, <3>5 DEF IInv
  <2> QED
    BY <2>1, <2>2, PartitionStep, SpawnStep, JoinStep, KillStep DEF Next, Work, Done
<1> QED BY <1>1, <1>2, PTL DEF Spec

\* Every variable keeps its type; in particular no more permits are given back
\* than were taken, and no task is tried more than MaxRetries + 1 times.
THEOREM TypeCorrect == Spec => []TypeOK
<1>1. IInv => TypeOK
  BY DEF IInv
<1> QED BY <1>1, IInvHolds, PTL

\* A final path never shows a partial or unverified JAR, for any number of
\* tasks that download one JAR and across kills (download_once, commit_tmp).
THEOREM JarsAreVerified == Spec => []JarsVerified
<1>1. IInv => JarsVerified
  BY DEF IInv
<1> QED BY <1>1, IInvHolds, PTL

\* No two tasks share a tmp file, and a failed attempt leaves none
\* (unique_tmp_path, TmpFileGuard).
THEOREM TmpFilesOwned == Spec => []TmpOwned
<1>1. IInv => TmpOwned
  BY DEF IInv, Files
<1> QED BY <1>1, IInvHolds, PTL

\* The semaphore bounds the tasks in flight, and the summary is returned when
\* none is left.
THEOREM ConcurrencyBounded == Spec => []Bounded
<1>1. IInv => Bounded
  BY DEF IInv, Account, Bounded, InFlight, Running
<1> QED BY <1>1, IInvHolds, PTL

\* A mod the summary does not list as failed is in the cache, and each task was
\* counted once (download_missing_mods).
THEOREM SummaryIsHonest == Spec => []SummaryHonest
<1>1. IInv => SummaryHonest
  <2> SUFFICES ASSUME IInv, pc = "done"
               PROVE  /\ \A m \in Mods \ failed : HashOf[m] # NoHash /\ Cached(m)
                      /\ downloaded = Cardinality(Brought)
    BY DEF SummaryHonest, Brought
  <2>1. ASSUME NEW m \in Mods \ failed PROVE HashOf[m] # NoHash /\ Cached(m)
    <3>1. task[m] \in {"none", "joined"} /\ todo = {}
      BY DEF IInv, Account
    <3>2. CASE task[m] = "none"
      BY <3>1, <3>2 DEF IInv, Account
    <3>3. CASE task[m] = "joined"
      BY <3>3 DEF IInv, Account, Keyed
    <3> QED BY <3>1, <3>2, <3>3
  <2> QED BY <2>1 DEF IInv, Counted
<1> QED BY <1>1, IInvHolds, PTL
=============================================================================
