------------------------ MODULE ManifestWriterProofs ------------------------
(***************************************************************************)
(* What holds of the manifest writer for every number of tasks, changes    *)
(* and sync calls: type correctness, no change forgotten, what an          *)
(* acknowledged sync and a clean exit guarantee, and that the file never   *)
(* goes back to an older manifest.                                         *)
(***************************************************************************)
EXTENDS ManifestWriter, FiniteSetTheorems, TLAPS

USE WriterAssumption

LEMMA TailElements ==
  ASSUME NEW S, NEW s \in Seq(S), s # <<>>
  PROVE  /\ Tail(s) \in Seq(S)
         /\ \A i \in DOMAIN Tail(s) : i + 1 \in DOMAIN s /\ Tail(s)[i] = s[i + 1]
         /\ 1 \in DOMAIN s
         /\ Head(s) = s[1]
         /\ Head(s) \in S
  OBVIOUS

LEMMA AppendElements ==
  ASSUME NEW S, NEW s \in Seq(S), NEW e \in S
  PROVE  /\ Append(s, e) \in Seq(S)
         /\ DOMAIN Append(s, e) = DOMAIN s \cup {Len(s) + 1}
         /\ \A i \in DOMAIN s : Append(s, e)[i] = s[i]
         /\ Append(s, e)[Len(s) + 1] = e
  OBVIOUS

\* A send leaves the channel as it was or puts the message at its end.
LEMMA SendStep ==
  ASSUME TypeOK, NEW m \in WriterMsg, Send(m)
  PROVE  /\ channel' \in Seq(WriterMsg)
         /\ \A i \in DOMAIN channel' :
              channel'[i] = m \/ \E j \in DOMAIN channel : channel'[i] = channel[j]
<1>1. channel \in Seq(WriterMsg)
  BY DEF TypeOK
<1>2. CASE channel' = channel
  BY <1>1, <1>2
<1>3. CASE channel' = Append(channel, m)
  BY <1>1, <1>3, AppendElements
<1> QED BY <1>2, <1>3 DEF Send

LEMMA Messages ==
  /\ Flush \in WriterMsg
  /\ Shutdown \in WriterMsg
  /\ \A u \in Users, n \in Nat : Sync(u, n) \in WriterMsg
BY DEF Flush, Shutdown, Sync, WriterMsg

\* Receiving takes the head off the channel; only a Sync joins the acks.
LEMMA TakeStep ==
  ASSUME TypeOK, channel # <<>>, Take(Head(channel))
  PROVE  /\ Head(channel) \in WriterMsg
         /\ \E j \in DOMAIN channel : Head(channel) = channel[j]
         /\ channel' \in Seq(WriterMsg)
         /\ \A i \in DOMAIN channel' : \E j \in DOMAIN channel : channel'[i] = channel[j]
         /\ acks' \in Seq(WriterMsg)
         /\ \A i \in DOMAIN acks' :
              \/ acks'[i] = Head(channel) /\ Head(channel).kind = "sync"
              \/ \E j \in DOMAIN acks : acks'[i] = acks[j]
         /\ wpc' = "debounce" => acks' = acks
         /\ wpc' \in {"debounce", "snapshot"}
         /\ stop' = (stop \/ Head(channel).kind = "shutdown")
         /\ Head(channel).kind = "shutdown" => wpc' = "snapshot"
<1>1. /\ channel \in Seq(WriterMsg)
      /\ acks \in Seq(WriterMsg)
  BY DEF TypeOK
<1>2. /\ Head(channel) \in WriterMsg
      /\ channel' \in Seq(WriterMsg)
      /\ \A i \in DOMAIN channel' : \E j \in DOMAIN channel : channel'[i] = channel[j]
      /\ \E j \in DOMAIN channel : Head(channel) = channel[j]
  <2>1. channel' = Tail(channel)
    BY DEF Take
  <2> QED BY <1>1, <2>1, TailElements
<1>3. /\ acks' \in Seq(WriterMsg)
      /\ \A i \in DOMAIN acks' :
           \/ acks'[i] = Head(channel) /\ Head(channel).kind = "sync"
           \/ \E j \in DOMAIN acks : acks'[i] = acks[j]
  <2>1. CASE Head(channel).kind = "sync"
    <3>1. acks' = Append(acks, Head(channel))
      BY <2>1 DEF Take
    <3> QED BY <1>1, <1>2, <2>1, <3>1, AppendElements
  <2>2. CASE Head(channel).kind # "sync"
    BY <1>1, <2>2 DEF Take
  <2> QED BY <2>1, <2>2
<1>4. /\ wpc' = "debounce" => acks' = acks
      /\ wpc' \in {"debounce", "snapshot"}
      /\ stop' = (stop \/ Head(channel).kind = "shutdown")
      /\ Head(channel).kind = "shutdown" => wpc' = "snapshot"
  BY DEF Take
<1> QED BY <1>2, <1>3, <1>4


\* Every variable keeps its type; the file and the snapshot being written are never
\* ahead of the manifest in memory.
THEOREM TypeCorrect == Spec => []TypeOK
<1>1. Init => TypeOK
  <2>1. <<>> \in Seq(WriterMsg)
    OBVIOUS
  <2>2. Init => /\ saved \in 0..version /\ snapshot \in 0..version /\ version \in Nat
    BY DEF Init
  <2>2a. Init => from \in 0..snapshot /\ savedFrom \in 0..saved
    BY DEF Init
  <2>2b. Init => unread \in BOOLEAN
    BY DEF Init
  <2>3. Init => upc \in [Users -> {"unborn", "run", "signal", "send", "wait", "join", "release", "gone"}]
    BY DEF Init
  <2>4. Init => call \in [Users -> Nat] /\ mark \in [Users -> Nat]
    BY DEF Init
  <2>5. Init => channel \in Seq(WriterMsg) /\ acks \in Seq(WriterMsg)
    BY <2>1 DEF Init
  <2>6. Init => /\ dirty \in BOOLEAN /\ stop \in BOOLEAN /\ failed \in BOOLEAN
                /\ wpc \in {"recv", "debounce", "snapshot", "write", "remark", "ack", "exited"}
                /\ proc \in {"up", "exited"} /\ confirmed \in SUBSET Users
    BY DEF Init
  <2> QED BY <2>2, <2>2a, <2>2b, <2>3, <2>4, <2>5, <2>6, Zenon DEF TypeOK
<1>2. TypeOK /\ [Next]_vars => TypeOK'
  <2> SUFFICES ASSUME TypeOK, [Next]_vars PROVE TypeOK'
    OBVIOUS
  <2> USE DEF memory, origin, file, writer, users, history
  <2>1. ASSUME NEW t \in Tasks, Clone(t) PROVE TypeOK'
    BY <2>1 DEF Clone, Goto, TypeOK, Tasks
  <2>2. ASSUME NEW u \in Users, Touch(u) PROVE TypeOK'
    BY <2>2 DEF Touch, Goto, TypeOK
  <2>3. ASSUME NEW u \in Users, SignalDirty(u) PROVE TypeOK'
    <3>1. channel' \in Seq(WriterMsg)
      BY <2>3, SendStep, Messages DEF SignalDirty
    <3> QED BY <2>3, <3>1 DEF SignalDirty, Goto, TypeOK
  <2>4. ASSUME NEW u \in Users, Evict(u) PROVE TypeOK'
    <3>1. upc' \in [Users -> {"unborn", "run", "signal", "send", "wait", "join", "release", "gone"}]
      BY <2>4 DEF Evict, Goto, TypeOK
    <3>2. version' \in Nat /\ version' >= version /\ dirty' \in BOOLEAN
      <4>1. CASE version' = version + 1 /\ dirty' = TRUE
        BY <4>1 DEF TypeOK
      <4>2. CASE version' = version /\ dirty' = dirty
        BY <4>2 DEF TypeOK
      <4> QED BY <2>4, <4>1, <4>2 DEF Evict
    <3>3. saved' \in 0..version' /\ snapshot' \in 0..version'
      BY <2>4, <3>2 DEF Evict, TypeOK
    <3> QED BY <2>4, <3>1, <3>2, <3>3 DEF Evict, TypeOK
  <2>4a. ASSUME NEW u \in Users, EvictFails(u) PROVE TypeOK'
    BY <2>4a DEF EvictFails, TypeOK
  <2>5. ASSUME NEW u \in Users, SendSync(u) PROVE TypeOK'
    <3>1. call[u] + 1 \in Nat
      BY DEF TypeOK
    <3>2. channel' \in Seq(WriterMsg)
      BY <2>5, <3>1, SendStep, Messages DEF SendSync
    <3> QED BY <2>5, <3>1, <3>2 DEF SendSync, Goto, TypeOK
  <2>6. ASSUME NEW u \in Users, SyncTimeout(u) PROVE TypeOK'
    BY <2>6 DEF SyncTimeout, Goto, TypeOK
  <2>7. ASSUME NEW u \in Users, Drop(u) PROVE TypeOK'
    <3>1. channel' \in Seq(WriterMsg)
      <4>1. Send(Shutdown) \/ UNCHANGED channel
        BY <2>7 DEF Drop
      <4>2. channel \in Seq(WriterMsg)
        BY DEF TypeOK
      <4> QED BY <4>1, <4>2, SendStep, Messages
    <3>2. upc' \in [Users -> {"unborn", "run", "signal", "send", "wait", "join", "release", "gone"}]
      BY <2>7 DEF Drop, Goto, TypeOK
    <3> QED BY <2>7, <3>1, <3>2 DEF Drop, TypeOK
  <2>8. ASSUME NEW u \in Users, Join(u) PROVE TypeOK'
    BY <2>8 DEF Join, Goto, TypeOK
  <2>9. ASSUME NEW u \in Users, Release(u) PROVE TypeOK'
    BY <2>9 DEF Release, Goto, TypeOK
  <2>10. CASE Receive
    <3>1. /\ channel' \in Seq(WriterMsg)
          /\ acks' \in Seq(WriterMsg)
          /\ stop' \in BOOLEAN
          /\ wpc' \in {"debounce", "snapshot"}
      BY <2>10, TakeStep DEF Receive
    <3> QED BY <2>10, <3>1 DEF Receive, TypeOK
  <2>11. CASE Disconnected
    BY <2>11 DEF Disconnected, TypeOK
  <2>12. CASE DebounceEnds
    BY <2>12 DEF DebounceEnds, TypeOK
  <2>13. CASE Snapshot
    <3>1. CASE dirty
      <4>1. snapshot' = version /\ version' = version /\ saved' = saved /\ dirty' = FALSE
            /\ from' = from /\ savedFrom' = savedFrom /\ unread' = unread
        BY <2>13, <3>1 DEF Snapshot
      <4>2. snapshot' \in 0..version' /\ saved' \in 0..version' /\ version' \in Nat
            /\ from' \in 0..snapshot' /\ savedFrom' \in 0..saved'
        BY <4>1 DEF TypeOK
      <4> QED BY <2>13, <3>1, <4>1, <4>2 DEF Snapshot, TypeOK
    <3>2. CASE ~dirty
      BY <2>13, <3>2 DEF Snapshot, TypeOK
    <3> QED BY <3>1, <3>2
  <2>14. CASE WriteOk
    <3>1. /\ saved' = snapshot /\ savedFrom' = from /\ from \in 0..snapshot
          /\ UNCHANGED <<version, dirty, from, unread, snapshot>>
      BY <2>14 DEF WriteOk, TypeOK
    <3>2. saved' \in 0..version' /\ from' \in 0..snapshot' /\ savedFrom' \in 0..saved'
      BY <3>1 DEF TypeOK
    <3> QED BY <2>14, <3>1, <3>2 DEF WriteOk, TypeOK
  <2>15. CASE WriteErr
    BY <2>15 DEF WriteErr, TypeOK
  <2>16. CASE Remark
    BY <2>16 DEF Remark, TypeOK
  <2>17. CASE Ack
    <3>1. acks' \in Seq(WriterMsg) /\ Head(acks) \in WriterMsg
      <4>1. acks \in Seq(WriterMsg) /\ acks # <<>> /\ acks' = Tail(acks)
        BY <2>17 DEF Ack, TypeOK
      <4> QED BY <4>1, TailElements
    <3>2. Head(acks).user \in Users
      BY <3>1 DEF WriterMsg
    <3> QED BY <2>17, <3>1, <3>2 DEF Ack, TypeOK
  <2>18. CASE RoundEnds
    BY <2>18 DEF RoundEnds, TypeOK
  <2>19. CASE Exit
    BY <2>19 DEF Exit, TypeOK
  <2>20. CASE Reload
    <3>1. <<>> \in Seq(WriterMsg)
      OBVIOUS
    <3>2. /\ saved' \in 0..version' /\ snapshot' \in 0..version' /\ version' \in Nat
      BY <2>20 DEF Reload, Fresh, TypeOK
    <3>2a. from' \in 0..snapshot' /\ savedFrom' \in 0..saved'
      BY <2>20 DEF Reload, Fresh, file, TypeOK
    <3>2b. unread' \in BOOLEAN
      BY <2>20 DEF Reload
    <3>3. upc' \in [Users -> {"unborn", "run", "signal", "send", "wait", "join", "release", "gone"}]
      BY <2>20 DEF Reload, Fresh
    <3>4. call' \in [Users -> Nat] /\ mark' \in [Users -> Nat]
      BY <2>20 DEF Reload, Fresh
    <3>5. channel' \in Seq(WriterMsg) /\ acks' \in Seq(WriterMsg)
      BY <2>20, <3>1 DEF Reload, Fresh
    <3>6. /\ dirty' \in BOOLEAN /\ stop' \in BOOLEAN /\ failed' \in BOOLEAN
          /\ wpc' \in {"recv", "debounce", "snapshot", "write", "remark", "ack", "exited"}
          /\ proc' \in {"up", "exited"} /\ confirmed' \in SUBSET Users
      BY <2>20 DEF Reload, Fresh
    <3> QED BY <3>2, <3>2a, <3>2b, <3>3, <3>4, <3>5, <3>6, Zenon DEF TypeOK
  <2>21. CASE UNCHANGED vars
    BY <2>21 DEF vars, TypeOK
  <2> QED
    BY <2>1, <2>2, <2>3, <2>4, <2>4a, <2>5, <2>6, <2>7, <2>8, <2>9, <2>10, <2>11, <2>12, <2>13,
       <2>14, <2>15, <2>16, <2>17, <2>18, <2>19, <2>20, <2>21
    DEF Next, Running, UserStep, WriterStep, Kill, Restart
<1> QED BY <1>1, <1>2, PTL DEF Spec

\* Clearing the dirty bit before the write loses no change.
THEOREM ChangesAreKept == Spec => []NothingForgotten
<1>1. Init => NothingForgotten
  BY DEF Init, NothingForgotten
<1>2. TypeOK /\ NothingForgotten /\ [Next]_vars => NothingForgotten'
  <2> SUFFICES ASSUME TypeOK, NothingForgotten, [Next]_vars PROVE NothingForgotten'
    OBVIOUS
  <2> USE DEF NothingForgotten, memory, origin, file, writer, users, history
  <2>1. ASSUME NEW t \in Tasks, Clone(t) PROVE NothingForgotten'
    BY <2>1 DEF Clone
  <2>2. ASSUME NEW u \in Users, UserStep(u) PROVE NothingForgotten'
    <3>1. CASE Touch(u)
      BY <3>1 DEF Touch
    <3>2. CASE Evict(u) \/ EvictFails(u)
      BY <3>2 DEF Evict, EvictFails
    <3>3. CASE UNCHANGED <<memory, saved, wpc, snapshot, proc>>
      BY <3>3
    <3> QED
      BY <2>2, <3>1, <3>2, <3>3
      DEF UserStep, SignalDirty, SendSync, SyncTimeout, Drop, Join, Release
  <2>3. CASE Receive
    BY <2>3, TakeStep DEF Receive
  <2>4. CASE Disconnected \/ DebounceEnds \/ RoundEnds \/ Ack
    BY <2>4 DEF Disconnected, DebounceEnds, RoundEnds, Ack
  <2>5. CASE Snapshot
    BY <2>5 DEF Snapshot
  <2>6. CASE WriteOk
    BY <2>6 DEF WriteOk
  <2>7. CASE WriteErr \/ Remark
    BY <2>7 DEF WriteErr, Remark
  <2>8. CASE Exit \/ Reload
    BY <2>8 DEF Exit, Reload, Fresh
  <2>9. CASE UNCHANGED vars
    BY <2>9 DEF vars
  <2> QED
    BY <2>1, <2>2, <2>3, <2>4, <2>5, <2>6, <2>7, <2>8, <2>9
    DEF Next, Running, WriterStep, Kill, Restart
<1> QED BY <1>1, <1>2, TypeCorrect, PTL DEF Spec
-----------------------------------------------------------------------------
\* What a round of the writer owes the callers whose acks it holds: until the write
\* the snapshot covers their changes, after it the file does or the write failed.
OwedAcks ==
  /\ wpc \in {"recv", "debounce"} => acks = <<>>
  /\ \A i \in DOMAIN channel : channel[i].call <= call[channel[i].user]
  /\ \A i \in DOMAIN acks : acks[i].call <= call[acks[i].user]
  /\ \A i \in DOMAIN acks :
       LET u == acks[i].user
       IN  acks[i].call = call[u] =>
             /\ wpc = "write" => mark[u] <= snapshot
             /\ wpc = "ack" => mark[u] <= saved \/ failed

\* What was confirmed stays true while later rounds are written.
ConfirmedKept ==
  /\ \A u \in Users : mark[u] <= version
  /\ \A u \in confirmed : mark[u] <= saved \/ failed
  /\ wpc = "write" => saved <= snapshot /\ \A u \in confirmed : mark[u] <= snapshot
  /\ wpc = "remark" => failed

SyncInv == OwedAcks /\ ConfirmedKept

LEMMA MessageFields ==
  ASSUME NEW q \in Seq(WriterMsg), NEW i \in DOMAIN q
  PROVE  q[i] \in WriterMsg /\ q[i].user \in Users /\ q[i].call \in Nat
<1>1. q[i] \in WriterMsg
  OBVIOUS
<1> QED BY <1>1 DEF WriterMsg

\* A step that leaves the round alone and sends nothing new keeps both.
LEMMA SyncInvUntouched ==
  ASSUME SyncInv, UNCHANGED <<saved, channel, wpc, snapshot, acks, call, mark, confirmed, failed>>,
         TypeOK, TypeOK', version' >= version
  PROVE  SyncInv'
<1>1. \A u \in Users : mark[u] \in Nat
  BY DEF TypeOK
<1>2. version \in Nat /\ version' \in Nat
  BY DEF TypeOK
<1> QED BY <1>1, <1>2 DEF SyncInv, OwedAcks, ConfirmedKept

LEMMA SyncInvHolds == Spec => []SyncInv
<1>1. Init => SyncInv
  BY DEF Init, SyncInv, OwedAcks, ConfirmedKept
<1>2. TypeOK /\ TypeOK' /\ NothingForgotten /\ proc = "up" /\ SyncInv /\ Running => SyncInv'
  <2> SUFFICES ASSUME TypeOK, TypeOK', NothingForgotten, proc = "up", SyncInv, Running
               PROVE  SyncInv'
    OBVIOUS
  <2> USE DEF memory, origin, file, writer, users, history
  <2>a. /\ channel \in Seq(WriterMsg) /\ channel' \in Seq(WriterMsg)
        /\ acks \in Seq(WriterMsg) /\ acks' \in Seq(WriterMsg)
    BY DEF TypeOK
  <2>b. /\ \A i \in DOMAIN channel : channel[i].user \in Users /\ channel[i].call \in Nat
        /\ \A i \in DOMAIN channel' : channel'[i].user \in Users /\ channel'[i].call \in Nat
        /\ \A i \in DOMAIN acks : acks[i].user \in Users /\ acks[i].call \in Nat
        /\ \A i \in DOMAIN acks' : acks'[i].user \in Users /\ acks'[i].call \in Nat
    BY <2>a, MessageFields
  <2>c. /\ \A u \in Users : mark[u] \in Nat /\ call[u] \in Nat
        /\ version \in Nat /\ saved \in 0..version /\ snapshot \in 0..version
        /\ confirmed \subseteq Users
    BY DEF TypeOK
  <2>1. ASSUME NEW t \in Tasks, Clone(t) PROVE SyncInv'
    BY <2>1, <2>c, SyncInvUntouched DEF Clone
  <2>2. ASSUME NEW u \in Users, UserStep(u) PROVE SyncInv'
    <3>1. CASE Touch(u) \/ Evict(u) \/ EvictFails(u)
      BY <2>c, <3>1, SyncInvUntouched DEF Touch, Evict, EvictFails
    <3>2. CASE SyncTimeout(u) \/ Join(u) \/ Release(u)
      BY <2>c, <3>2, SyncInvUntouched DEF SyncTimeout, Join, Release
    <3>3. CASE SignalDirty(u) \/ Drop(u)
      <4>1. \A i \in DOMAIN channel' :
              \/ channel'[i].call = 0
              \/ \E j \in DOMAIN channel : channel'[i] = channel[j]
        <5>1. Send(Flush) \/ Send(Shutdown) \/ UNCHANGED channel
          BY <3>3 DEF SignalDirty, Drop
        <5> QED BY <5>1, SendStep, Messages DEF Flush, Shutdown
      <4>2. \A i \in DOMAIN channel' : channel'[i].call <= call[channel'[i].user]
        BY <4>1, <2>b, <2>c DEF SyncInv, OwedAcks
      <4>3. UNCHANGED <<version, saved, wpc, snapshot, acks, call, mark, confirmed, failed>>
        BY <3>3 DEF SignalDirty, Drop
      <4> QED BY <4>2, <4>3 DEF SyncInv, OwedAcks, ConfirmedKept
    <3>4. CASE SendSync(u)
      <4>1. /\ call' = [call EXCEPT ![u] = @ + 1]
            /\ mark' = [mark EXCEPT ![u] = version]
            /\ confirmed' = confirmed \ {u}
            /\ Send(Sync(u, call[u] + 1))
            /\ UNCHANGED <<version, saved, wpc, snapshot, acks, failed>>
        BY <3>4 DEF SendSync
      <4>2. /\ \A v \in Users : v # u => call'[v] = call[v] /\ mark'[v] = mark[v]
            /\ call'[u] = call[u] + 1
            /\ mark'[u] = version
        BY <4>1 DEF TypeOK
      <4>3. \A i \in DOMAIN channel' : channel'[i].call <= call'[channel'[i].user]
        <5>1. \A i \in DOMAIN channel' :
                \/ channel'[i] = Sync(u, call[u] + 1)
                \/ \E j \in DOMAIN channel : channel'[i] = channel[j]
          BY <2>c, <4>1, SendStep, Messages
        <5>2. TAKE i \in DOMAIN channel'
        <5>3. CASE channel'[i] = Sync(u, call[u] + 1)
          BY <2>c, <4>2, <5>3 DEF Sync
        <5>4. ASSUME NEW j \in DOMAIN channel, channel'[i] = channel[j]
              PROVE  channel'[i].call <= call'[channel'[i].user]
          <6>1. channel[j].call <= call[channel[j].user]
            BY DEF SyncInv, OwedAcks
          <6> QED BY <2>b, <2>c, <4>2, <5>4, <6>1
        <5> QED BY <5>1, <5>3, <5>4
      <4>4. \A i \in DOMAIN acks : acks[i].call <= call'[acks[i].user]
        BY <2>b, <2>c, <4>2 DEF SyncInv, OwedAcks
      <4>5. \A i \in DOMAIN acks :
              acks[i].call = call'[acks[i].user] =>
                /\ acks[i].user # u
                /\ acks[i].call = call[acks[i].user]
                /\ mark'[acks[i].user] = mark[acks[i].user]
        BY <2>b, <2>c, <4>2 DEF SyncInv, OwedAcks
      <4>6. OwedAcks'
        BY <4>1, <4>3, <4>4, <4>5 DEF SyncInv, OwedAcks
      <4>7. ConfirmedKept'
        BY <2>c, <4>1, <4>2 DEF SyncInv, ConfirmedKept
      <4> QED BY <4>6, <4>7 DEF SyncInv
    <3> QED BY <2>2, <3>1, <3>2, <3>3, <3>4 DEF UserStep
  <2>3. CASE Receive
    <3>1. /\ \A i \in DOMAIN channel' : \E j \in DOMAIN channel : channel'[i] = channel[j]
          /\ \A i \in DOMAIN acks' :
               \/ \E j \in DOMAIN channel : acks'[i] = channel[j]
               \/ \E j \in DOMAIN acks : acks'[i] = acks[j]
          /\ wpc' = "debounce" => acks' = acks
          /\ wpc' \in {"debounce", "snapshot"}
          /\ wpc \in {"recv", "debounce"}
          /\ UNCHANGED <<version, saved, snapshot, call, mark, confirmed, failed>>
      BY <2>3, TakeStep DEF Receive
    <3>2. /\ \A i \in DOMAIN channel' : channel'[i].call <= call[channel'[i].user]
          /\ \A i \in DOMAIN acks' : acks'[i].call <= call[acks'[i].user]
      BY <3>1 DEF SyncInv, OwedAcks
    <3> QED BY <3>1, <3>2 DEF SyncInv, OwedAcks, ConfirmedKept
  <2>4. CASE Disconnected \/ DebounceEnds
    BY <2>4 DEF Disconnected, DebounceEnds, SyncInv, OwedAcks, ConfirmedKept
  <2>5. CASE Snapshot
    <3>1. CASE dirty
      <4>1. /\ snapshot' = version /\ wpc' = "write"
            /\ UNCHANGED <<version, saved, channel, acks, call, mark, confirmed, failed>>
        BY <2>5, <3>1 DEF Snapshot
      <4> QED BY <2>b, <2>c, <4>1 DEF SyncInv, OwedAcks, ConfirmedKept
    <3>2. CASE ~dirty
      <4>1. /\ wpc' = "ack" /\ wpc = "snapshot"
            /\ UNCHANGED <<version, saved, channel, snapshot, acks, call, mark, confirmed, failed>>
        BY <2>5, <3>2 DEF Snapshot
      <4>2. saved = version
        BY <3>2, <4>1 DEF NothingForgotten
      <4> QED BY <2>b, <2>c, <4>1, <4>2 DEF SyncInv, OwedAcks, ConfirmedKept
    <3> QED BY <3>1, <3>2
  <2>6. CASE WriteOk
    BY <2>6, <2>b, <2>c DEF WriteOk, SyncInv, OwedAcks, ConfirmedKept
  <2>7. CASE WriteErr \/ Remark
    BY <2>7, <2>b, <2>c DEF WriteErr, Remark, SyncInv, OwedAcks, ConfirmedKept
  <2>8. CASE Ack
    <3>1. /\ wpc = "ack" /\ acks # <<>> /\ acks' = Tail(acks)
          /\ \/ confirmed' = confirmed
             \/ /\ call[Head(acks).user] = Head(acks).call
                /\ confirmed' = confirmed \cup {Head(acks).user}
          /\ UNCHANGED <<version, saved, channel, wpc, snapshot, call, mark, failed>>
      BY <2>8 DEF Ack
    <3>2. /\ \A i \in DOMAIN acks' : \E j \in DOMAIN acks : acks'[i] = acks[j]
          /\ \E j \in DOMAIN acks : Head(acks) = acks[j]
      BY <2>a, <3>1, TailElements
    <3>3. OwedAcks'
      BY <3>1, <3>2 DEF SyncInv, OwedAcks
    <3>4. \A u \in confirmed' : mark[u] <= saved \/ failed
      BY <3>1, <3>2 DEF SyncInv, OwedAcks, ConfirmedKept
    <3> QED BY <3>1, <3>3, <3>4 DEF SyncInv, ConfirmedKept
  <2>9. CASE RoundEnds
    BY <2>9 DEF RoundEnds, SyncInv, OwedAcks, ConfirmedKept
  <2>10. CASE Exit
    BY <2>10 DEF Exit, SyncInv, OwedAcks, ConfirmedKept
  <2> QED
    BY <2>1, <2>2, <2>3, <2>4, <2>5, <2>6, <2>7, <2>8, <2>9, <2>10 DEF Running, WriterStep
<1>3. TypeOK /\ Reload => SyncInv'
  BY DEF Reload, Fresh, TypeOK, SyncInv, OwedAcks, ConfirmedKept
<1>4. SyncInv /\ UNCHANGED vars => SyncInv'
  BY DEF vars, memory, origin, file, writer, users, history, SyncInv, OwedAcks, ConfirmedKept
<1>5. TypeOK /\ TypeOK' /\ NothingForgotten /\ SyncInv /\ [Next]_vars => SyncInv'
  BY <1>2, <1>3, <1>4 DEF Next, Kill, Restart
<1> QED BY <1>1, <1>5, TypeCorrect, ChangesAreKept, PTL DEF Spec

\* An acknowledged sync means the file holds every change made before the call, or
\* writing it failed.
THEOREM SyncIsHonest == Spec => []SyncMeansSaved
<1>1. TypeOK /\ SyncInv => SyncMeansSaved
  BY DEF TypeOK, SyncInv, ConfirmedKept, SyncMeansSaved
<1> QED BY <1>1, TypeCorrect, SyncInvHolds, PTL

\* A manifest that was read holds what the file holds.
OriginInv == ~unread => from = savedFrom

LEMMA OnlyWriteOk ==
  ASSUME [Next]_vars, ~WriteOk
  PROVE  UNCHANGED file /\ (Reload \/ UNCHANGED origin)
<1>1. CASE Reload
  BY <1>1 DEF Reload
<1>2. CASE UNCHANGED vars
  BY <1>2 DEF vars
<1>3. CASE Running
  BY <1>3
  DEF Running, UserStep, WriterStep, Clone, Touch, SignalDirty, Evict, EvictFails, SendSync,
      SyncTimeout, Drop, Join, Release, Receive, Disconnected, DebounceEnds, Snapshot, WriteErr,
      Remark, Ack, RoundEnds, Exit
<1> QED BY <1>1, <1>2, <1>3 DEF Next, Kill, Restart

LEMMA OriginInvHolds == Spec => []OriginInv
<1>1. Init => OriginInv
  BY DEF Init, OriginInv
<1>2. OriginInv /\ [Next]_vars => OriginInv'
  <2> SUFFICES ASSUME OriginInv, [Next]_vars PROVE OriginInv'
    OBVIOUS
  <2>1. CASE WriteOk
    BY <2>1 DEF WriteOk, origin, OriginInv
  <2>2. CASE ~WriteOk
    BY <2>2, OnlyWriteOk DEF Reload, origin, file, OriginInv
  <2> QED BY <2>1, <2>2
<1> QED BY <1>1, <1>2, PTL DEF Spec

\* The file never goes back to an older manifest, over crashes and restarts, and
\* what earlier commands have put into it goes only with the first write of one
\* that could not read it.
THEOREM FileGoesForward == Spec => SavedNeverGoesBack
<1>1. TypeOK /\ SyncInv /\ OriginInv /\ [Next]_vars
        => [saved' >= saved /\ (savedFrom' # savedFrom => unread)]_file
  <2> SUFFICES ASSUME TypeOK, SyncInv, OriginInv, [Next]_vars
               PROVE  [saved' >= saved /\ (savedFrom' # savedFrom => unread)]_file
    OBVIOUS
  <2>1. CASE WriteOk
    BY <2>1 DEF WriteOk, TypeOK, SyncInv, ConfirmedKept, OriginInv
  <2>2. CASE ~WriteOk
    BY <2>2, OnlyWriteOk
  <2> QED BY <2>1, <2>2
<1> QED BY <1>1, TypeCorrect, SyncInvHolds, OriginInvHolds, PTL DEF Spec, SavedNeverGoesBack
-----------------------------------------------------------------------------
Leaving == upc[Main] \in {"join", "release", "gone"}

ShutdownSent == \E i \in DOMAIN channel : channel[i].kind = "shutdown"

\* The file is up to date and nothing is dirty, or the last write failed.
Settled == (~dirty /\ saved = version) \/ failed

\* Main's handle is the last one, so the writer is told to stop by it alone, when
\* nobody is left who could change the manifest; the round that stops the writer
\* then leaves everything in the file.
LastHandle ==
  /\ upc[Main] # "unborn"
  /\ \A t \in Tasks : upc[t] # "join"
  /\ Leaving => \A t \in Tasks : upc[t] \in {"unborn", "gone"}
  /\ stop \/ ShutdownSent \/ wpc = "exited" => Leaving
  /\ upc[Main] \in {"release", "gone"} => wpc = "exited"
  /\ stop => wpc \notin {"recv", "debounce"}
  /\ stop /\ wpc = "write" => ~dirty
  /\ wpc = "remark" => failed
  /\ stop /\ wpc = "ack" => Settled
  /\ wpc = "exited" => Settled

LEMMA HandleCount ==
  ASSUME TypeOK, LastHandle, NEW u \in Users, upc[u] = "run", u = Main => Handles = {Main}
  PROVE  Cardinality(Handles) = 1 <=> u = Main
<1>1. CASE u = Main
  <2>1. Cardinality({Main}) = 1
    BY FS_Singleton
  <2> QED BY <1>1, <2>1
<1>2. CASE u # Main
  <2>1. u \in Handles /\ Main \in Handles
    BY <1>2 DEF Handles, LastHandle, Leaving, Tasks
  <2>2. IsFiniteSet(Handles)
    BY FS_Subset DEF Handles
  <2>3. Cardinality(Handles) # 1
    <3>1. Cardinality(Handles) = 1 => \E x \in Handles : Handles = {x}
      BY <2>2, FS_Singleton
    <3> QED BY <1>2, <2>1, <3>1
  <2> QED BY <1>2, <2>3
<1> QED BY <1>1, <1>2

LEMMA LastHandleHolds == Spec => []LastHandle
<1>1. Init => LastHandle
  BY DEF Init, LastHandle, Leaving, ShutdownSent, Tasks
<1>2. TypeOK /\ TypeOK' /\ NothingForgotten /\ proc = "up" /\ LastHandle /\ Running => LastHandle'
  <2> SUFFICES ASSUME TypeOK, TypeOK', NothingForgotten, proc = "up", LastHandle, Running
               PROVE  LastHandle'
    OBVIOUS
  <2> USE DEF memory, origin, file, writer, users, history
  <2>a. /\ channel \in Seq(WriterMsg)
        /\ upc \in [Users -> {"unborn", "run", "signal", "send", "wait", "join", "release", "gone"}]
    BY DEF TypeOK
  <2>1. ASSUME NEW t \in Tasks, Clone(t) PROVE LastHandle'
    <3>1. upc' = [upc EXCEPT ![t] = "run"] /\ upc[Main] = "run" /\ t # Main
      BY <2>1 DEF Clone, Goto, Tasks
    <3>2. ~Leaving /\ ~stop /\ ~ShutdownSent /\ wpc # "exited"
      BY <3>1 DEF LastHandle, Leaving
    <3>3. UNCHANGED <<version, dirty, saved, channel, wpc, stop, failed>>
      BY <2>1 DEF Clone
    <3> QED BY <2>a, <3>1, <3>2, <3>3 DEF LastHandle, Leaving, ShutdownSent, Settled, Tasks
  <2>2. ASSUME NEW u \in Users, upc[u] \in {"run", "signal", "send", "wait"} PROVE ~Leaving
    BY <2>2 DEF LastHandle, Leaving, Tasks
  <2>3. ASSUME NEW u \in Users, Touch(u) \/ Evict(u) \/ EvictFails(u) \/ SyncTimeout(u) \/ SignalDirty(u)
                               \/ SendSync(u)
        PROVE  LastHandle'
    <3>1. ~Leaving /\ ~stop /\ ~ShutdownSent /\ wpc # "exited"
      BY <2>2, <2>3 DEF Touch, Evict, EvictFails, SyncTimeout, SignalDirty, SendSync, LastHandle
    <3>2. \E place \in {"run", "signal", "send", "wait"} : upc' = [upc EXCEPT ![u] = place]
      <4>1. CASE EvictFails(u)
        <5>1. upc' = upc /\ upc[u] = "run" /\ upc = [upc EXCEPT ![u] = "run"]
          BY <4>1 DEF EvictFails, TypeOK
        <5> QED BY <5>1
      <4>2. CASE ~EvictFails(u)
        BY <2>3, <4>2 DEF Touch, Evict, SyncTimeout, SignalDirty, SendSync, Goto
      <4> QED BY <4>1, <4>2
    <3>3. ~ShutdownSent'
      <4>1. CASE UNCHANGED channel
        BY <3>1, <4>1 DEF ShutdownSent
      <4>2. CASE SignalDirty(u)
        BY <3>1, <4>2, SendStep, Messages DEF SignalDirty, ShutdownSent, Flush
      <4>3. CASE SendSync(u)
        <5>1. call[u] + 1 \in Nat
          BY DEF TypeOK
        <5> QED BY <3>1, <4>3, <5>1, SendStep, Messages DEF SendSync, ShutdownSent, Sync
      <4> QED BY <2>3, <4>1, <4>2, <4>3 DEF Touch, Evict, EvictFails, SyncTimeout
    <3>4. UNCHANGED <<wpc, stop, failed>>
      BY <2>3 DEF Touch, Evict, EvictFails, SyncTimeout, SignalDirty, SendSync
    <3> QED BY <2>a, <3>1, <3>2, <3>3, <3>4 DEF LastHandle, Leaving, Tasks
  <2>4. ASSUME NEW u \in Users, Drop(u) PROVE LastHandle'
    <3>1. /\ upc[u] = "run" /\ (u = Main => Handles = {Main})
          /\ UNCHANGED <<version, dirty, saved, wpc, stop, failed>>
      BY <2>4 DEF Drop
    <3>2. ~Leaving /\ ~stop /\ ~ShutdownSent /\ wpc # "exited"
      BY <2>2, <3>1 DEF LastHandle
    <3>3. CASE u = Main
      <4>1. upc' = [upc EXCEPT ![Main] = "join"]
        BY <2>4, <3>1, <3>2, <3>3, HandleCount DEF Drop, Goto
      <4>2. \A t \in Tasks : upc[t] \in {"unborn", "gone"}
        BY <3>1, <3>3 DEF Handles, Tasks
      <4> QED BY <2>a, <3>1, <3>2, <4>1, <4>2 DEF LastHandle, Leaving, Tasks
    <3>4. CASE u # Main
      <4>1. upc' = [upc EXCEPT ![u] = "release"] /\ UNCHANGED channel
        BY <2>4, <3>1, <3>2, <3>4, HandleCount DEF Drop, Goto
      <4> QED BY <2>a, <3>1, <3>2, <3>4, <4>1 DEF LastHandle, Leaving, ShutdownSent, Tasks
    <3> QED BY <3>3, <3>4
  <2>5. ASSUME NEW u \in Users, Join(u) PROVE LastHandle'
    BY <2>5, <2>a DEF Join, Goto, LastHandle, Leaving, ShutdownSent, Settled, Tasks
  <2>6. ASSUME NEW u \in Users, Release(u) PROVE LastHandle'
    BY <2>6, <2>a DEF Release, Goto, LastHandle, Leaving, ShutdownSent, Settled, Tasks
  <2>7. CASE Receive
    <3>1. /\ Head(channel).kind = "shutdown" => ShutdownSent
          /\ ShutdownSent' => ShutdownSent
          /\ stop' = (stop \/ Head(channel).kind = "shutdown")
          /\ wpc' \in {"debounce", "snapshot"}
          /\ Head(channel).kind = "shutdown" => wpc' = "snapshot"
          /\ wpc \in {"recv", "debounce"}
          /\ UNCHANGED upc
      BY <2>7, TakeStep DEF Receive, ShutdownSent
    <3>2. ~stop
      BY <3>1 DEF LastHandle
    <3> QED BY <3>1, <3>2 DEF LastHandle, Leaving
  <2>8. CASE Disconnected
    <3>1. Handles = {} /\ wpc = "recv"
      BY <2>8 DEF Disconnected
    <3>2. upc[Main] = "gone"
      BY <3>1 DEF Handles, LastHandle
    <3> QED BY <3>1, <3>2 DEF LastHandle
  <2>9. CASE DebounceEnds
    BY <2>9 DEF DebounceEnds, LastHandle, Leaving, ShutdownSent
  <2>10. CASE Snapshot
    <3>1. CASE dirty
      BY <2>10, <3>1 DEF Snapshot, LastHandle, Leaving, ShutdownSent
    <3>2. CASE ~dirty
      <4>1. saved = version
        BY <2>10, <3>2 DEF Snapshot, NothingForgotten
      <4> QED BY <2>10, <3>2, <4>1 DEF Snapshot, LastHandle, Leaving, ShutdownSent, Settled
    <3> QED BY <3>1, <3>2
  <2>11. CASE WriteOk
    BY <2>11 DEF WriteOk, NothingForgotten, LastHandle, Leaving, ShutdownSent, Settled
  <2>12. CASE WriteErr \/ Remark
    BY <2>12 DEF WriteErr, Remark, LastHandle, Leaving, ShutdownSent, Settled
  <2>13. CASE Ack
    <3>1. /\ UNCHANGED <<version, dirty, saved, channel, wpc, stop, failed>>
          /\ \/ UNCHANGED upc
             \/ \E u \in Users : upc[u] = "wait" /\ upc' = [upc EXCEPT ![u] = "run"]
      <4>1. acks \in Seq(WriterMsg) /\ acks # <<>>
        BY <2>13 DEF Ack, TypeOK
      <4>2. Head(acks) \in WriterMsg
        BY <4>1, TailElements
      <4>3. Head(acks).user \in Users
        BY <4>2 DEF WriterMsg
      <4> QED BY <2>13, <4>3 DEF Ack
    <3>2. CASE UNCHANGED upc
      BY <3>1, <3>2 DEF LastHandle, Leaving, ShutdownSent, Settled
    <3>3. ASSUME NEW u \in Users, upc[u] = "wait", upc' = [upc EXCEPT ![u] = "run"]
          PROVE  LastHandle'
      <4>1. ~Leaving
        BY <2>2, <3>3
      <4> QED BY <2>a, <3>1, <3>3, <4>1 DEF LastHandle, Leaving, ShutdownSent, Settled, Tasks
    <3> QED BY <3>1, <3>2, <3>3
  <2>14. CASE RoundEnds
    BY <2>14 DEF RoundEnds, LastHandle, Leaving, ShutdownSent, Settled
  <2>15. CASE Exit
    BY <2>15 DEF Exit, LastHandle, Leaving, ShutdownSent, Settled
  <2> QED
    BY <2>1, <2>3, <2>4, <2>5, <2>6, <2>7, <2>8, <2>9, <2>10, <2>11, <2>12, <2>13, <2>14, <2>15
    DEF Running, WriterStep, UserStep
<1>3. Reload => LastHandle'
  BY DEF Reload, Fresh, LastHandle, Leaving, ShutdownSent, Tasks
<1>4. LastHandle /\ UNCHANGED vars => LastHandle'
  BY DEF vars, memory, origin, file, writer, users, history, LastHandle, Leaving, ShutdownSent, Settled
<1>5. TypeOK /\ TypeOK' /\ NothingForgotten /\ LastHandle /\ [Next]_vars => LastHandle'
  BY <1>2, <1>3, <1>4 DEF Next, Kill, Restart
<1> QED BY <1>1, <1>5, TypeCorrect, ChangesAreKept, PTL DEF Spec

\* A command that returns normally leaves every change in the file, unless the last
\* write failed.
THEOREM ExitIsClean == Spec => []CleanExitSaved
<1>1. Init => CleanExitSaved
  BY DEF Init, CleanExitSaved
<1>2. LastHandle /\ CleanExitSaved /\ [Next]_vars => CleanExitSaved'
  <2> SUFFICES ASSUME LastHandle, CleanExitSaved, [Next]_vars PROVE CleanExitSaved'
    OBVIOUS
  <2> USE DEF memory, origin, file, writer, users, history
  <2>1. CASE Exit
    <3>1. upc[Main] = "gone"
      BY <2>1 DEF Exit, Handles, LastHandle
    <3> QED BY <2>1, <3>1 DEF Exit, LastHandle, Settled, CleanExitSaved
  <2>2. CASE Reload
    BY <2>2 DEF Reload, Fresh, CleanExitSaved
  <2>3. CASE UNCHANGED vars
    BY <2>3 DEF vars, CleanExitSaved
  <2>4. CASE proc = "up" /\ Running /\ ~Exit
    <3>1. UNCHANGED proc
      BY <2>4
      DEF Running, UserStep, WriterStep, Clone, Touch, SignalDirty, Evict, EvictFails, SendSync,
          SyncTimeout, Drop, Join, Release, Receive, Disconnected, DebounceEnds, Snapshot, WriteOk, WriteErr,
          Remark, Ack, RoundEnds
    <3> QED BY <2>4, <3>1 DEF CleanExitSaved
  <2> QED BY <2>1, <2>2, <2>3, <2>4 DEF Next, Kill, Restart
<1> QED BY <1>1, <1>2, LastHandleHolds, PTL DEF Spec
=============================================================================
