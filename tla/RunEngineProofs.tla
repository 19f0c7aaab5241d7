-------------------------- MODULE RunEngineProofs --------------------------
(***************************************************************************)
(* Proofs about RunEngine, for any plans, runs, devices and streams, and   *)
(* any number of calls, messages, pauses, interrupts and failures, unless  *)
(* a theorem says otherwise.                                               *)
(***************************************************************************)
EXTENDS RunEngine, TLAPS, SequenceTheorems

-----------------------------------------------------------------------------
(* The loop and its two queues.  Replayed messages are not cached again,   *)
(* so one of the queues is empty at any time; both are in the order of the *)
(* plan, and what is in hand comes before what is still to be replayed.    *)

Messages == {[op |-> m.op, key |-> m.key, arg |-> m.arg, plan |-> c, id |-> i] :
               m \in Alphabet, c \in Nat, i \in Nat}

Working == {"handle", "staging", "waiting"}

Ascending(s) == \A i, j \in 1..Len(s) : i < j => s[i].id < s[j].id

Queued(s) ==
    /\ s \in Seq(Messages) /\ Ascending(s)
    /\ \A i \in 1..Len(s) : s[i].op \notin Uncacheable /\ s[i].id \in 1..pulled

(* The message that a pause cut short: cached until the resume, then       *)
(* replayed.                                                               *)
CutKept ==
    \/ cutCached = 0
    \/ /\ pc \in {"parked", "take", "cleanup", "idle"} \/ (pc = "top" /\ pauseReq)
       /\ \E i \in 1..Len(cache) : cache[i].id = cutCached
    \/ \E i \in 1..Len(replay) : replay[i].id = cutCached

LoopInv ==
    /\ pc \in PCs /\ pulled \in 0..MaxMsgs /\ calls \in Nat /\ cutCached \in Nat
    /\ pc \in Working => /\ cur \in Messages /\ cur.id \in 1..pulled
                         /\ \A i \in 1..Len(replay) : cur.id < replay[i].id
    /\ pc = "staging" => cur.op = "stage"
    /\ Queued(cache) /\ Queued(replay)
    /\ cache = <<>> \/ replay = <<>>
    /\ CutKept

(* What the handlers do to the loop. *)
HandlerEnds ==
    /\ pc \in Working /\ pc' \in {"top", "failed"} /\ cur' = NoMsg
    /\ cache' \in {cache, <<>>}
    /\ UNCHANGED <<replay, pulled, calls, cutCached>>
HandlerWaits ==
    /\ pc = "handle" /\ pc' \in {"waiting", "staging"}
    /\ pc' = "staging" => cur.op = "stage"
    /\ UNCHANGED <<cur, cache, replay, pulled, calls, cutCached>>

LEMMA HandleLoop == Handle => HandlerEnds \/ HandlerWaits \/ WaitCutShort
<1> SUFFICES ASSUME Handle PROVE HandlerEnds \/ HandlerWaits \/ WaitCutShort
  OBVIOUS
<1> USE DEF HandlerEnds, HandlerWaits, Working, Done, Begin, Handling, loopVars, cacheVars, boundVars, histVars
<1>1. CASE Rejected \/ DeviceFails
  BY <1>1 DEF Rejected, DeviceFails
<1>2. CASE HandleOpenRun \/ HandleCreate \/ HandleSave \/ HandleDrop \/ HandleDeclareStream \/ HandleCollect
  BY <1>2 DEF HandleOpenRun, HandleCreate, HandleSave, HandleDrop, HandleDeclareStream, HandleCollect, SlotStep
<1>3. CASE HandleCloseRun \/ SaveFails \/ HandleKickoff
  BY <1>3 DEF HandleCloseRun, SaveFails, HandleKickoff
<1>4. CASE HandleRead
  BY <1>4 DEF HandleRead, SlotStep
<1>5. CASE HandleMonitor \/ HandleUnmonitor \/ HandleUnstage \/ HandleHook \/ HandleCheckpoint
  BY <1>5 DEF HandleMonitor, HandleUnmonitor, HandleUnstage, HandleHook, HandleCheckpoint, ResetCheckpointState
<1>6. CASE HandleStage \/ StageDone
  BY <1>6 DEF HandleStage, StageDone, ResetCheckpointState
<1>7. CASE HandleClearCheckpoint \/ HandleRewindable(TRUE) \/ HandleRewindable(FALSE)
  BY <1>7 DEF HandleClearCheckpoint, HandleRewindable, ResetCheckpointState
<1>8. CASE HandleSet \/ HandleMove \/ HandleWait \/ HandleSleep
  BY <1>8 DEF HandleSet, HandleMove, HandleWait, HandleSleep
<1>9. CASE WaitDone \/ WaitFails \/ WaitMovesOn
  BY <1>9 DEF WaitDone, WaitFails, WaitMovesOn
<1>10. CASE HandlePause \/ HandlePushContingency \/ HandlePopContingency
  BY <1>10 DEF HandlePause, HandlePushContingency, HandlePopContingency
<1> QED
  BY <1>1, <1>2, <1>3, <1>4, <1>5, <1>6, <1>7, <1>8, <1>9, <1>10 DEF Handle

LEMMA EmptyQueued == Queued(<<>>)
BY DEF Queued, Ascending

LEMMA QueuedGrows ==
    ASSUME NEW s, Queued(s), pulled \in Nat, pulled' \in Nat, pulled <= pulled'
    PROVE  \A i \in 1..Len(s) : s[i].op \notin Uncacheable /\ s[i].id \in 1..pulled'
BY DEF Queued

LEMMA LoopHandles ==
    ASSUME LoopInv, HandlerEnds \/ HandlerWaits
    PROVE  LoopInv'
<1>1. Queued(cache)' /\ Queued(replay)'
  BY EmptyQueued DEF LoopInv, HandlerEnds, HandlerWaits, Queued, Ascending
<1>2. CutKept'
  BY DEF LoopInv, HandlerEnds, HandlerWaits, CutKept, Working
<1> QED
  BY <1>1, <1>2 DEF LoopInv, HandlerEnds, HandlerWaits, Working, PCs

(* Steps that leave the message in hand and the queues. *)
LEMMA LoopKept ==
    ASSUME LoopInv, UNCHANGED <<cur, cache, replay, pulled, calls, cutCached>>,
           \/ pc' = pc /\ (pauseReq => pauseReq')
           \/ pc = "top" /\ pauseReq /\ pc' = "parked"
           \/ pc = "parked" /\ pc' = "take"
           \/ pc' = "cleanup"
           \/ pc = "cleanup" /\ pc' = "idle"
    PROVE  LoopInv'
<1>1. Queued(cache)' /\ Queued(replay)'
  BY DEF LoopInv, Queued, Ascending
<1>2. CutKept'
  BY DEF LoopInv, CutKept, Working, PCs
<1> QED
  BY <1>1, <1>2 DEF LoopInv, Working, PCs

LEMMA LoopCutShort ==
    ASSUME LoopInv, WaitCutShort
    PROVE  LoopInv'
<1> USE DEF WaitCutShort, Done, pauseVars, cacheVars, boundVars
<1>1. Queued(cache)' /\ Queued(replay)'
  BY DEF LoopInv, Queued, Ascending
<1>2. cutCached' \in Nat
  BY DEF LoopInv, Working
<1>3. CutKept'
  <2>1. DOMAIN cache = 1..Len(cache)
    BY DEF LoopInv, Queued
  <2> QED
    BY <2>1 DEF LoopInv, CutKept
<1> QED
  BY <1>1, <1>2, <1>3 DEF LoopInv, Working, PCs

LEMMA LoopResumes ==
    ASSUME LoopInv, OnResume
    PROVE  LoopInv'
<1> USE DEF OnResume, loopVars, boundVars, histVars, Replayed
<1>1. cache \in Seq(Messages) /\ replay \in Seq(Messages)
  BY DEF LoopInv, Queued
<1>2. replay' = cache \/ (replay' = replay /\ cache = <<>>)
  <2>1. cache = <<>> => replay \o cache = replay
    BY <1>1
  <2>2. replay = <<>> => replay \o cache = cache
    BY <1>1
  <2> QED
    BY <2>1, <2>2 DEF LoopInv
<1>3. Queued(replay)' /\ Queued(cache)'
  BY <1>2, EmptyQueued DEF LoopInv, Queued, Ascending
<1>4. CutKept'
  BY <1>1, <1>2 DEF LoopInv, CutKept
<1> QED
  BY <1>3, <1>4 DEF LoopInv, Working, PCs

LEMMA LoopPulls ==
    ASSUME LoopInv, PullReplay \/ \E m \in Alphabet : PullPlan(m)
    PROVE  LoopInv'
<1>1. CASE PullReplay
  <2> USE DEF PullReplay, boundVars, Pulling
  <2>1. replay \in Seq(Messages) /\ replay # <<>> /\ cache = <<>> /\ cache' = cache
    BY <1>1 DEF LoopInv, Queued
  <2>2. /\ cur' = replay[1] /\ cur' \in Messages /\ replay' \in Seq(Messages)
        /\ Len(replay') = Len(replay) - 1
        /\ \A i \in 1..Len(replay') : replay'[i] = replay[i + 1]
    BY <1>1, <2>1
  <2>3. Queued(replay)' /\ Queued(cache)'
    BY <1>1, <2>1, <2>2, EmptyQueued DEF LoopInv, Queued, Ascending
  <2>4. \A i \in 1..Len(replay') : cur'.id < replay'[i].id
    BY <1>1, <2>1, <2>2 DEF LoopInv, Queued, Ascending
  <2>5. cur'.id \in 1..pulled
    BY <1>1, <2>1, <2>2 DEF LoopInv, Queued
  <2>6. CutKept'
    <3>1. cutCached = 0 \/ \E i \in 1..Len(replay) : replay[i].id = cutCached
      BY <1>1, <2>1 DEF LoopInv, CutKept
    <3>2. ASSUME cutCached' # 0, NEW i \in 1..Len(replay), replay[i].id = cutCached
          PROVE  \E j \in 1..Len(replay') : replay'[j].id = cutCached'
      <4>1. i # 1 /\ cutCached' = cutCached
        BY <1>1, <2>1, <2>2, <3>2 DEF Redone
      <4>2. i - 1 \in 1..Len(replay') /\ replay'[i - 1] = replay[i]
        BY <2>1, <2>2, <4>1
      <4> QED
        BY <3>2, <4>1, <4>2
    <3> QED
      BY <1>1, <3>1, <3>2 DEF CutKept, Redone
  <2> QED
    BY <1>1, <2>1, <2>2, <2>3, <2>4, <2>5, <2>6 DEF LoopInv, Working, PCs, Redone
<1>2. ASSUME NEW m \in Alphabet, PullPlan(m) PROVE LoopInv'
  <2> USE DEF PullPlan, Pulling, histVars
  <2>1. cache \in Seq(Messages) /\ replay = <<>> /\ replay' = <<>> /\ pulled \in Nat /\ pulled' = pulled + 1
        /\ pulled' \in 0..MaxMsgs /\ cutCached = 0 /\ calls \in Nat
    BY <1>2, EngineAssumption DEF LoopInv, Queued, CutKept
  <2> DEFINE n == Numbered(m)
  <2>2. n \in Messages /\ n.id = pulled + 1 /\ n.op = m.op /\ cur' = n
    BY <1>2, <2>1 DEF Numbered, Messages
  <2> HIDE DEF n
  <2>3. \A i \in 1..Len(cache) : cache[i].op \notin Uncacheable /\ cache[i].id \in 1..pulled /\ cache[i].id \in 1..pulled'
    BY <2>1 DEF LoopInv, Queued
  <2>4. CASE cache' = Append(cache, n) /\ m.op \notin Uncacheable
    <3>1. /\ cache' \in Seq(Messages) /\ Len(cache') = Len(cache) + 1
          /\ \A i \in 1..Len(cache) : cache'[i] = cache[i]
          /\ cache'[Len(cache) + 1] = n
      BY <2>1, <2>2, <2>4
    <3>2. Queued(cache)'
      BY <2>1, <2>2, <2>3, <2>4, <3>1 DEF LoopInv, Queued, Ascending
    <3> QED
      BY <1>2, <2>1, <2>2, <3>2, EmptyQueued DEF LoopInv, Working, PCs, CutKept, Queued, Ascending
  <2>5. CASE cache' = cache
    <3>1. Queued(cache)'
      BY <2>1, <2>3, <2>5 DEF LoopInv, Queued, Ascending
    <3> QED
      BY <1>2, <2>1, <2>2, <3>1, EmptyQueued DEF LoopInv, Working, PCs, CutKept, Queued, Ascending
  <2> QED
    BY <1>2, <2>4, <2>5 DEF n
<1> QED
  BY <1>1, <1>2

LEMMA LoopInterrupted ==
    ASSUME LoopInv, TakeInterrupt \/ ThrowError \/ PlanEnds
    PROVE  LoopInv'
<1>1. /\ pc' \in {"top", "cleanup"} /\ replay' \in {replay, <<>>} /\ UNCHANGED <<cache, pulled, calls>>
      /\ cutCached' = 0 \/ (replay' = <<>> /\ cutCached' = cutCached /\ pc = "top" /\ ~pauseReq /\ replay = <<>>)
  BY DEF TakeInterrupt, ThrowError, PlanEnds, Pulling, Throw, NothingCatches, EndLoop, boundVars, cacheVars, histVars
<1>2. Queued(cache)' /\ Queued(replay)'
  BY <1>1, EmptyQueued DEF LoopInv, Queued, Ascending
<1>3. cutCached' = 0
  BY <1>1 DEF LoopInv, CutKept
<1> QED
  BY <1>1, <1>2, <1>3 DEF LoopInv, Working, PCs, CutKept

LEMMA LoopInit == Init => LoopInv
BY EmptyQueued, EngineAssumption DEF Init, LoopInv, PCs, Working, CutKept

LEMMA LoopStep == LoopInv /\ [Next]_vars => LoopInv'
<1> SUFFICES ASSUME LoopInv, [Next]_vars PROVE LoopInv'
  OBVIOUS
<1> USE DEF loopVars, pauseVars, cacheVars, boundVars, histVars
<1>1. CASE Handle
  BY <1>1, HandleLoop, LoopHandles, LoopCutShort
<1>2. CASE Environment
  <2>1. UNCHANGED <<pc, cur, cache, replay, pulled, calls, cutCached>> /\ (pauseReq => pauseReq')
    <3>1. CASE RequestPause
      BY <3>1, SMT DEF RequestPause
    <3>2. CASE Resume
      BY <3>2, Zenon DEF Resume
    <3>3. ASSUME NEW kind, RequestInterrupt(kind) PROVE <2>1!1 /\ <2>1!2
      BY <3>3, Zenon DEF RequestInterrupt
    <3>4. ASSUME NEW d, Arrive(d) PROVE <2>1!1 /\ <2>1!2
      BY <3>4, Zenon DEF Arrive
    <3> QED
      BY <1>2, <3>1, <3>2, <3>3, <3>4 DEF Environment
  <2> QED
    BY <2>1, LoopKept
<1>3. CASE LoopTimeout
  BY <1>3, LoopKept DEF LoopTimeout
<1>4. CASE EnterPause \/ LeaveInterrupted
  BY <1>4, LoopKept DEF EnterPause, LeaveInterrupted
<1>5. CASE OnResume
  BY <1>5, LoopResumes
<1>6. CASE TakeInterrupt \/ ThrowError \/ PlanEnds
  BY <1>6, LoopInterrupted
<1>7. CASE PullReplay \/ \E m \in Alphabet : PullPlan(m)
  BY <1>7, LoopPulls
<1>8. CASE RunAsync
  <2>1. Queued(cache)' /\ Queued(replay)'
    BY <1>8 DEF RunAsync, LoopInv, Queued, Ascending
  <2> QED
    BY <1>8, <2>1 DEF RunAsync, LoopInv, Working, PCs, CutKept
<1>9. CASE Cleanup
  <2>1. Queued(cache)' /\ Queued(replay)'
    BY <1>9 DEF Cleanup, LoopInv, Queued, Ascending
  <2> QED
    BY <1>9, <2>1 DEF Cleanup, LoopInv, Working, PCs, CutKept
<1>10. CASE UNCHANGED vars
  BY <1>10, LoopKept DEF vars
<1> QED
  BY <1>1, <1>2, <1>3, <1>4, <1>5, <1>6, <1>7, <1>8, <1>9, <1>10 DEF Next, Loop

(* A message that a pause cut short inside a rewindable region is redone   *)
(* before the plan goes on, over any number of pauses, interrupts and      *)
(* calls (the rewind of on_resume, pull_msg).                              *)
THEOREM CutIsReplayed == Spec => []CachedCutReplayed
<1>1. LoopInv => CachedCutReplayed
  <2> SUFFICES ASSUME LoopInv, cutCached # 0, pc \in Working PROVE cur.id <= cutCached
    BY DEF CachedCutReplayed, Working
  <2>1. PICK i \in 1..Len(replay) : replay[i].id = cutCached
    BY DEF LoopInv, CutKept, Working
  <2>2. cur.id < replay[i].id /\ cur.id \in Int /\ replay[i].id \in Int
    BY DEF LoopInv, Queued
  <2> QED
    BY <2>1, <2>2
<1> QED
  BY <1>1, LoopInit, LoopStep, PTL DEF Spec

-----------------------------------------------------------------------------
(* The open runs and their slots.                                          *)

Bundles == [stream : Streams \cup {Interruptions}, objs : SUBSET Devices]

Slots == [uid : Nat, open : Bundles,
          declared : SUBSET AllStreams, seq : [AllStreams -> Nat],
          snap : [AllStreams -> Nat] \cup {NoSnapshot},
          monitored : SUBSET Devices, pumps : SUBSET Devices,
          uncollected : SUBSET Flyers]

(* "open" is never cached, so each run that is opened was pulled from the  *)
(* plan; a run that is open has no RunStop.                                *)
RunInv ==
    /\ DOMAIN runs \subseteq RunKeys /\ runs \in [DOMAIN runs -> Slots]
    /\ \A k \in DOMAIN runs : runs[k].uid \in 1..uids /\ stops[runs[k].uid] = 0
    /\ \A j, k \in DOMAIN runs : runs[j].uid = runs[k].uid => j = k
    /\ uids \in 0..pulled /\ (Handling("open") => uids < pulled)
    /\ stops \in [Uids -> Nat] /\ \A u \in Uids : u > uids => stops[u] = 0

LEMMA CurArgs ==
    ASSUME LoopInv, pc \in Working
    PROVE  /\ cur.key \in RunKeys
           /\ cur.op \in DeviceOps => cur.arg \in Devices
           /\ cur.op \in FlyerOps => cur.arg \in Flyers
           /\ cur.op \in StreamOps => cur.arg \in Streams
<1>1. PICK m \in Alphabet : cur.op = m.op /\ cur.key = m.key /\ cur.arg = m.arg
  BY DEF LoopInv, Messages
<1> QED
  BY <1>1, EngineAssumption DEF DeviceOps, FlyerOps, StreamOps, PlainOps

(* rs2 is rs with its slots changed, not their uids. *)
Maps(rs, rs2) ==
    /\ DOMAIN rs2 = DOMAIN rs /\ rs2 \in [DOMAIN rs -> Slots]
    /\ \A k \in DOMAIN rs : rs2[k].uid = rs[k].uid

LEMMA SlotOps ==
    ASSUME NEW s \in Slots
    PROVE  /\ \A n \in Streams : Create(s, n) \in Slots /\ Create(s, n).uid = s.uid
           /\ \A d \in Devices : AddRead(s, d) \in Slots /\ AddRead(s, d).uid = s.uid
           /\ DropBundle(s) \in Slots /\ DropBundle(s).uid = s.uid
           /\ \A n \in AllStreams : DeclareStream(s, n) \in Slots /\ DeclareStream(s, n).uid = s.uid
           /\ \A n \in AllStreams : ComposeEvent(s, n) \in Slots /\ ComposeEvent(s, n).uid = s.uid
           /\ ResetCheckpoint(s) \in Slots /\ ResetCheckpoint(s).uid = s.uid
           /\ ClearSnapshot(s) \in Slots /\ ClearSnapshot(s).uid = s.uid
           /\ Rewind(s) \in Slots /\ Rewind(s).uid = s.uid
<1>0. Interruptions \in AllStreams /\ NoBundle \in Bundles
  BY DEF AllStreams, NoBundle, Bundles
<1>1. ASSUME NEW n \in Streams PROVE Create(s, n) \in Slots /\ Create(s, n).uid = s.uid
  BY DEF Create, Slots, Bundles
<1>2. ASSUME NEW d \in Devices PROVE AddRead(s, d) \in Slots /\ AddRead(s, d).uid = s.uid
  BY DEF AddRead, Slots, Bundles
<1>3. DropBundle(s) \in Slots /\ DropBundle(s).uid = s.uid
  BY <1>0 DEF DropBundle, Slots
<1>4. ASSUME NEW n \in AllStreams PROVE DeclareStream(s, n) \in Slots /\ DeclareStream(s, n).uid = s.uid
  BY DEF DeclareStream, Slots
<1>5. ASSUME NEW n \in AllStreams PROVE ComposeEvent(s, n) \in Slots /\ ComposeEvent(s, n).uid = s.uid
  <2> DEFINE c == [s.seq EXCEPT ![n] = @ + 1]
             t == [s EXCEPT !.declared = @ \cup {n}, !.seq = c]
  <2>1. c \in [AllStreams -> Nat]
    BY DEF Slots
  <2>2. ComposeEvent(s, n) = t
    BY DEF ComposeEvent, Slots
  <2>3. t \in Slots /\ t.uid = s.uid
    <3> HIDE DEF c
    <3> QED
      BY <2>1 DEF Slots
  <2> QED
    BY <2>2, <2>3
<1>6. ResetCheckpoint(s) \in Slots /\ ResetCheckpoint(s).uid = s.uid
  BY DEF ResetCheckpoint, Slots
<1>7. ClearSnapshot(s) \in Slots /\ ClearSnapshot(s).uid = s.uid
  BY DEF ClearSnapshot, Slots
<1>8. Rewind(s) \in Slots /\ Rewind(s).uid = s.uid
  BY <1>0 DEF Rewind, Slots
<1> QED
  BY <1>1, <1>2, <1>3, <1>4, <1>5, <1>6, <1>7, <1>8

LEMMA SaveOp ==
    ASSUME NEW s \in Slots
    PROVE  Save(s) \in Slots /\ Save(s).uid = s.uid
<1>1. s.open.stream \in AllStreams
  BY DEF Slots, Bundles, AllStreams
<1>2. ComposeEvent(s, s.open.stream) \in Slots /\ ComposeEvent(s, s.open.stream).uid = s.uid
  BY <1>1, SlotOps
<1> QED
  BY <1>2, SlotOps DEF Save

LEMMA PutMaps ==
    ASSUME runs \in [DOMAIN runs -> Slots], NEW k \in DOMAIN runs, NEW s \in Slots, s.uid = runs[k].uid
    PROVE  Maps(runs, PutSlot(k, s))
BY DEF Maps, PutSlot

LEMMA RestoreMaps ==
    ASSUME NEW rs, NEW dead, rs \in [DOMAIN rs -> Slots]
    PROVE  Maps(rs, RestoreMonitors(rs, dead))
BY DEF Maps, RestoreMonitors, Slots

LEMMA RecordedMaps ==
    ASSUME NEW rs, rs \in [DOMAIN rs -> Slots]
    PROVE  Maps(rs, Recorded(rs))
<1>1. Interruptions \in AllStreams
  BY DEF AllStreams
<1>2. ASSUME NEW k \in DOMAIN rs
      PROVE  Recorded(rs)[k] \in Slots /\ Recorded(rs)[k].uid = rs[k].uid
  <2>1. rs[k] \in Slots
    OBVIOUS
  <2> QED
    BY <1>1, <2>1, SlotOps DEF Recorded
<1> QED
  BY <1>2 DEF Maps, Recorded

LEMMA ResetMaps ==
    ASSUME NEW rs, rs \in [DOMAIN rs -> Slots], ResetCheckpointState(rs)
    PROVE  Maps(rs, runs')
<1>1. ASSUME NEW k \in DOMAIN rs PROVE runs'[k] \in Slots /\ runs'[k].uid = rs[k].uid
  <2>1. rs[k] \in Slots
    OBVIOUS
  <2> QED
    BY <2>1, SlotOps DEF ResetCheckpointState
<1> QED
  BY <1>1 DEF Maps, ResetCheckpointState

LEMMA MapsTwice ==
    ASSUME NEW r1, NEW r2, NEW r3, Maps(r1, r2), Maps(r2, r3)
    PROVE  Maps(r1, r3)
BY DEF Maps

(* What a step does to the set of open runs. *)
RunsMapped == Maps(runs, runs') /\ UNCHANGED <<uids, stops>>
RunsEnded == CloseAll /\ UNCHANGED uids

LEMMA HandleRuns ==
    ASSUME LoopInv, RunInv, Handle
    PROVE  RunsMapped \/ HandleOpenRun \/ HandleCloseRun
<1> USE DEF docVars
<1>t. runs \in [DOMAIN runs -> Slots] /\ \A k \in DOMAIN runs : runs[k] \in Slots
  BY DEF RunInv
<1>m. runs' = runs => Maps(runs, runs')
  BY <1>t DEF Maps
<1>o. ASSUME NEW op \in NeedsRun, Begin(op) PROVE cur.key \in DOMAIN runs /\ Slot \in Slots
  BY <1>o, <1>t DEF Begin, Handling, Illegal, IsOpen, Slot
<1>p. ASSUME cur.key \in DOMAIN runs, NEW s \in Slots, s.uid = Slot.uid
      PROVE  Maps(runs, PutSlot(cur.key, s)) /\ DOMAIN PutSlot(cur.key, s) = DOMAIN runs
  BY <1>t, <1>p, PutMaps DEF Slot, Maps
<1>a. ASSUME NEW op, Begin(op)
      PROVE  /\ op \in DeviceOps => cur.arg \in Devices /\ cur.arg \in AllStreams
             /\ op \in FlyerOps => cur.arg \in Flyers /\ cur.arg \in AllStreams
             /\ op \in StreamOps => cur.arg \in Streams /\ cur.arg \in AllStreams
  BY <1>a, CurArgs DEF Begin, Handling, Working, AllStreams
<1>r. ResetCheckpointState(runs) => Maps(runs, runs')
  BY <1>t, ResetMaps
<1>1. CASE Rejected \/ DeviceFails
  BY <1>1, <1>m DEF Rejected, DeviceFails, RunsMapped
<1>2. CASE HandleCreate
  BY <1>2, <1>o, <1>p, <1>a, SlotOps DEF HandleCreate, SlotStep, NeedsRun, StreamOps, RunsMapped
<1>3. CASE HandleRead
  <2>1. IsOpen(cur.key) => cur.key \in DOMAIN runs /\ Slot \in Slots
    BY <1>t DEF IsOpen, Slot
  <2> QED
    BY <1>3, <1>m, <1>p, <1>a, <2>1, SlotOps DEF HandleRead, SlotStep, DeviceOps, RunsMapped
<1>4. CASE HandleSave \/ SaveFails
  BY <1>4, <1>o, <1>p, SaveOp DEF HandleSave, SaveFails, SlotStep, NeedsRun, RunsMapped
<1>5. CASE HandleDrop
  BY <1>5, <1>o, <1>p, SlotOps DEF HandleDrop, SlotStep, NeedsRun, RunsMapped
<1>6. CASE HandleDeclareStream
  BY <1>6, <1>o, <1>p, <1>a, SlotOps DEF HandleDeclareStream, SlotStep, NeedsRun, StreamOps, RunsMapped
<1>7. CASE HandleKickoff
  <2> DEFINE t == [Slot EXCEPT !.uncollected = @ \cup {cur.arg}]
  <2>1. cur.key \in DOMAIN runs /\ Slot \in Slots /\ cur.arg \in Flyers
    BY <1>7, <1>o, <1>a DEF HandleKickoff, NeedsRun, FlyerOps
  <2>2. t \in Slots /\ t.uid = Slot.uid
    BY <2>1 DEF Slots
  <2> QED
    BY <1>7, <1>p, <2>1, <2>2 DEF HandleKickoff, RunsMapped
<1>8. CASE HandleCollect
  <2> DEFINE c == ComposeEvent(Slot, cur.arg)
             t == [c EXCEPT !.uncollected = @ \ {cur.arg}]
  <2>1. cur.key \in DOMAIN runs /\ Slot \in Slots /\ cur.arg \in AllStreams
    BY <1>8, <1>o, <1>a DEF HandleCollect, NeedsRun, FlyerOps
  <2>2. c \in Slots /\ c.uid = Slot.uid
    BY <2>1, SlotOps
  <2>3. t \in Slots /\ t.uid = Slot.uid
    <3> HIDE DEF c
    <3> QED
      BY <2>2 DEF Slots
  <2> QED
    BY <1>8, <1>p, <2>1, <2>3 DEF HandleCollect, SlotStep, RunsMapped
<1>9. CASE HandleMonitor
  <2> DEFINE c == DeclareStream(Slot, cur.arg)
             t == [c EXCEPT !.monitored = @ \cup {cur.arg}, !.pumps = @ \cup {cur.arg}]
  <2>1. cur.key \in DOMAIN runs /\ Slot \in Slots /\ cur.arg \in AllStreams /\ cur.arg \in Devices
    BY <1>9, <1>o, <1>a DEF HandleMonitor, NeedsRun, DeviceOps
  <2>2. c \in Slots /\ c.uid = Slot.uid
    BY <2>1, SlotOps
  <2>3. t \in Slots /\ t.uid = Slot.uid
    <3> HIDE DEF c
    <3> QED
      BY <2>1, <2>2 DEF Slots
  <2>4. Maps(runs, PutSlot(cur.key, t))
    BY <1>p, <2>1, <2>3
  <2>5. Maps(PutSlot(cur.key, t), runs')
    BY <1>9, <2>4, ResetMaps DEF HandleMonitor, Maps
  <2> QED
    BY <1>9, <2>4, <2>5, MapsTwice DEF HandleMonitor, RunsMapped
<1>10. CASE HandleUnmonitor
  <2> DEFINE t == [Slot EXCEPT !.monitored = @ \ {cur.arg}, !.pumps = @ \ {cur.arg}]
  <2>1. cur.key \in DOMAIN runs /\ Slot \in Slots
    BY <1>10, <1>o DEF HandleUnmonitor, NeedsRun
  <2>3. t \in Slots /\ t.uid = Slot.uid
    BY <2>1 DEF Slots
  <2>4. Maps(runs, PutSlot(cur.key, t))
    BY <1>p, <2>1, <2>3
  <2>5. Maps(PutSlot(cur.key, t), runs')
    BY <1>10, <2>4, ResetMaps DEF HandleUnmonitor, Maps
  <2> QED
    BY <1>10, <2>4, <2>5, MapsTwice DEF HandleUnmonitor, RunsMapped
<1>11. CASE HandleStage
  BY <1>11, <1>m DEF HandleStage, RunsMapped
<1>12. CASE StageDone \/ HandleUnstage \/ HandleHook \/ HandleCheckpoint
  BY <1>12, <1>r DEF StageDone, HandleUnstage, HandleHook, HandleCheckpoint, RunsMapped
<1>13. CASE HandleClearCheckpoint
  <2>1. ASSUME NEW k \in DOMAIN runs PROVE ClearSnapshot(runs[k]) \in Slots /\ ClearSnapshot(runs[k]).uid = runs[k].uid
    BY <1>t, SlotOps
  <2> QED
    BY <1>13, <2>1 DEF HandleClearCheckpoint, RunsMapped, Maps
<1>14. CASE HandleRewindable(TRUE) \/ HandleRewindable(FALSE)
  BY <1>14, <1>r, <1>m DEF HandleRewindable, RunsMapped
<1>15. CASE HandleSet \/ HandleMove \/ HandleWait \/ HandleSleep
  BY <1>15, <1>m DEF HandleSet, HandleMove, HandleWait, HandleSleep, RunsMapped
<1>16. CASE WaitDone \/ WaitFails \/ WaitMovesOn \/ WaitCutShort
  BY <1>16, <1>m DEF WaitDone, WaitFails, WaitMovesOn, WaitCutShort, RunsMapped
<1>17. CASE HandlePause \/ HandlePushContingency \/ HandlePopContingency
  BY <1>17, <1>m DEF HandlePause, HandlePushContingency, HandlePopContingency, RunsMapped
<1> QED
  BY <1>1, <1>2, <1>3, <1>4, <1>5, <1>6, <1>7, <1>8, <1>9, <1>10, <1>11, <1>12, <1>13, <1>14, <1>15,
     <1>16, <1>17 DEF Handle

LEMMA LoopRuns ==
    ASSUME RunInv, Loop
    PROVE  RunsMapped \/ RunsEnded
<1> USE DEF docVars
<1>t. runs \in [DOMAIN runs -> Slots] /\ \A k \in DOMAIN runs : runs[k] \in Slots
  BY DEF RunInv
<1>m. runs' = runs => Maps(runs, runs')
  BY <1>t DEF Maps
<1>1. CASE EnterPause
  <2> DEFINE quiet == [k \in DOMAIN runs |-> [runs[k] EXCEPT !.pumps = {}]]
  <2>1. Maps(runs, quiet)
    BY <1>t DEF Maps, Slots
  <2>2. runs' = Recorded(quiet)
    BY <1>1 DEF EnterPause
  <2> HIDE DEF quiet
  <2>3. Maps(quiet, runs')
    BY <2>1, <2>2, RecordedMaps DEF Maps
  <2> QED
    BY <1>1, <2>1, <2>3, MapsTwice DEF EnterPause, RunsMapped
<1>2. CASE OnResume
  <2> DEFINE rewound == [k \in DOMAIN runs |-> IF cache = <<>> THEN runs[k] ELSE Rewind(runs[k])]
  <2>0. ASSUME NEW k \in DOMAIN runs PROVE Rewind(runs[k]) \in Slots /\ Rewind(runs[k]).uid = runs[k].uid
    BY <1>t, SlotOps
  <2>1. Maps(runs, rewound)
    BY <1>t, <2>0 DEF Maps
  <2>d. PICK dead \in Failing(Registrations) : runs' = Recorded(RestoreMonitors(rewound, dead))
    BY <1>2 DEF OnResume
  <2> DEFINE restored == RestoreMonitors(rewound, dead)
  <2>2. runs' = Recorded(restored)
    BY <2>d
  <2> HIDE DEF rewound
  <2>3. Maps(rewound, restored)
    BY <2>1, RestoreMaps DEF Maps
  <2> HIDE DEF restored
  <2>4. Maps(restored, runs')
    BY <2>2, <2>3, RecordedMaps DEF Maps
  <2>5. Maps(runs, runs')
    BY <2>1, <2>3, <2>4, MapsTwice
  <2> QED
    BY <1>2, <2>5 DEF OnResume, RunsMapped
<1>3. CASE LeaveInterrupted
  <2>1. PICK dead \in Failing(Registrations) : runs' = RestoreMonitors(runs, dead)
    BY <1>3 DEF LeaveInterrupted
  <2> QED
    BY <1>3, <1>t, <2>1, RestoreMaps DEF LeaveInterrupted, RunsMapped
<1>4. CASE TakeInterrupt
  BY <1>4, <1>m DEF TakeInterrupt, Throw, NothingCatches, EndLoop, RunsMapped, RunsEnded
<1>5. CASE ThrowError
  BY <1>5, <1>m DEF ThrowError, Throw, NothingCatches, EndLoop, RunsMapped, RunsEnded
<1>6. CASE PlanEnds
  BY <1>6 DEF PlanEnds, EndLoop, RunsEnded
<1>7. CASE PullReplay \/ \E m \in Alphabet : PullPlan(m)
  BY <1>7, <1>m DEF PullReplay, PullPlan, RunsMapped
<1> QED
  BY <1>1, <1>2, <1>3, <1>4, <1>5, <1>6, <1>7 DEF Loop

LEMMA RunKept ==
    ASSUME RunInv, RunsMapped, pulled \in Nat, pulled' \in Nat, pulled <= pulled',
           Handling("open")' => uids < pulled'
    PROVE  RunInv'
<1>1. DOMAIN runs' = DOMAIN runs /\ runs' \in [DOMAIN runs' -> Slots]
      /\ \A k \in DOMAIN runs : runs'[k].uid = runs[k].uid
  BY DEF RunsMapped, Maps
<1> QED
  BY <1>1 DEF RunInv, RunsMapped

LEMMA RunOpened ==
    ASSUME LoopInv, RunInv, HandleOpenRun
    PROVE  RunInv'
<1> USE DEF HandleOpenRun, SlotStep, Begin, Handling
<1> DEFINE t == NewSlot(uids + 1, Recording)
<1>1. uids \in Nat /\ pulled \in 0..MaxMsgs /\ MaxMsgs \in Nat /\ uids < pulled
  BY EngineAssumption DEF LoopInv, RunInv
<1>2. cur.key \in RunKeys /\ cur.key \notin DOMAIN runs
  BY CurArgs DEF Working, Illegal, IsOpen, IllegalIn
<1>3. t \in Slots /\ t.uid = uids + 1
  <2>1. Interruptions \in AllStreams /\ NoBundle \in Bundles
    BY DEF AllStreams, NoBundle, Bundles
  <2>2. [n \in AllStreams |-> 0] \in [AllStreams -> Nat]
    OBVIOUS
  <2> QED
    BY <1>1, <2>1, <2>2 DEF NewSlot, Slots
<1>4. runs' = PutSlot(cur.key, t) /\ uids' = uids + 1 /\ stops' = stops /\ pulled' = pulled /\ pc' = "top"
  BY DEF Done, boundVars
<1> HIDE DEF t
<1>5. DOMAIN runs' = DOMAIN runs \cup {cur.key} /\ runs'[cur.key] = t
      /\ \A k \in DOMAIN runs : runs'[k] = runs[k]
  BY <1>2, <1>4 DEF PutSlot
<1>6. runs' \in [DOMAIN runs' -> Slots] /\ DOMAIN runs' \subseteq RunKeys
  BY <1>2, <1>3, <1>4, <1>5 DEF RunInv, PutSlot
<1>7. \A k \in DOMAIN runs' : runs'[k].uid \in 1..uids' /\ stops'[runs'[k].uid] = 0
  BY <1>1, <1>3, <1>4, <1>5 DEF RunInv, Uids
<1>8. \A j, k \in DOMAIN runs' : runs'[j].uid = runs'[k].uid => j = k
  BY <1>1, <1>3, <1>4, <1>5 DEF RunInv
<1>9. uids' \in 0..pulled' /\ \A u \in Uids : u > uids' => stops'[u] = 0
  BY <1>1, <1>4 DEF RunInv, Uids
<1> QED
  BY <1>4, <1>6, <1>7, <1>8, <1>9 DEF RunInv

LEMMA RunRemoved ==
    ASSUME LoopInv, RunInv, HandleCloseRun
    PROVE  RunInv'
<1> USE DEF HandleCloseRun, Begin, Handling, Done, boundVars
<1>1. cur.key \in DOMAIN runs
  BY DEF Illegal, IsOpen, NeedsRun
<1>2. /\ DOMAIN runs' = DOMAIN runs \ {cur.key}
      /\ \A k \in DOMAIN runs' : k \in DOMAIN runs /\ k # cur.key /\ runs'[k] = runs[k]
      /\ runs' \in [DOMAIN runs' -> Slots]
  BY DEF RemoveSlot, RunInv
<1>3. /\ Slot.uid \in 1..uids /\ uids \in 0..pulled /\ pulled \in 0..MaxMsgs /\ MaxMsgs \in Nat
  BY <1>1, EngineAssumption DEF RunInv, Slot, LoopInv
<1>4. /\ stops' \in [Uids -> Nat]
      /\ \A u \in Uids : u # Slot.uid => stops'[u] = stops[u]
  BY <1>3 DEF RunInv, Uids
<1>5. \A k \in DOMAIN runs' : runs'[k].uid \in 1..uids /\ stops'[runs'[k].uid] = 0
  <2> SUFFICES ASSUME NEW k \in DOMAIN runs' PROVE runs'[k].uid \in 1..uids /\ stops'[runs'[k].uid] = 0
    OBVIOUS
  <2>1. k \in DOMAIN runs /\ runs'[k] = runs[k] /\ runs[k].uid # Slot.uid
    BY <1>1, <1>2 DEF RunInv, Slot
  <2> QED
    BY <1>3, <1>4, <2>1 DEF RunInv, Uids
<1>6. \A u \in Uids : u > uids' => stops'[u] = 0
  BY <1>3, <1>4 DEF RunInv, Uids
<1>7. \A j, k \in DOMAIN runs' : runs'[j].uid = runs'[k].uid => j = k
  BY <1>2 DEF RunInv
<1>8. DOMAIN runs' \subseteq RunKeys /\ uids' = uids /\ pulled' = pulled /\ pc' = "top"
  BY <1>2 DEF RunInv
<1> QED
  BY <1>2, <1>3, <1>4, <1>5, <1>6, <1>7, <1>8 DEF RunInv

LEMMA RunsAllClosed ==
    ASSUME LoopInv, RunInv, RunsEnded, pulled' = pulled, pc' # "handle"
    PROVE  RunInv'
<1>1. \A u \in Uids : u > uids => ~ \E k \in DOMAIN runs : runs[k].uid = u
  BY DEF RunInv, LoopInv
<1>2. stops' \in [Uids -> Nat] /\ \A u \in Uids : u > uids => stops'[u] = 0
  BY <1>1 DEF RunsEnded, CloseAll, RunInv
<1>3. runs' = NoRuns /\ uids' = uids
  BY DEF RunsEnded, CloseAll
<1>4. DOMAIN NoRuns = {} /\ NoRuns \in [{} -> Slots]
  BY DEF NoRuns
<1> QED
  BY <1>2, <1>3, <1>4 DEF RunInv, Handling

LEMMA RunInit == Init => RunInv
<1>1. DOMAIN NoRuns = {} /\ NoRuns \in [{} -> Slots]
  BY DEF NoRuns
<1> QED
  BY <1>1 DEF Init, RunInv, Handling, NoMsg

(* The environment and the loop timeout leave the runs; a request leaves   *)
(* the loop too.                                                           *)
LEMMA Requests ==
    ASSUME Environment
    PROVE  UNCHANGED <<pc, cur, runs, uids, stops, events, pulled, waitOn, group, staged, touched, devStaged,
                       regions, unlanded, exit, failures, swallowed>>
<1> USE DEF loopVars, objVars, boundVars, faultVars, docVars
<1> DEFINE Same == UNCHANGED <<pc, cur, runs, uids, stops, events, pulled, waitOn, group, staged, touched,
                               devStaged, regions, unlanded, exit, failures, swallowed>>
<1>1. CASE RequestPause
  BY <1>1, Zenon DEF RequestPause
<1>2. CASE Resume
  BY <1>2, Zenon DEF Resume
<1>3. ASSUME NEW kind, RequestInterrupt(kind) PROVE Same
  BY <1>3, Zenon DEF RequestInterrupt
<1>4. ASSUME NEW d, Arrive(d) PROVE Same
  BY <1>4, Zenon DEF Arrive
<1> QED
  BY <1>1, <1>2, <1>3, <1>4 DEF Environment

LEMMA RunStep == LoopInv /\ RunInv /\ [Next]_vars => RunInv'
<1> SUFFICES ASSUME LoopInv, RunInv, [Next]_vars PROVE RunInv'
  OBVIOUS
<1> USE DEF boundVars
<1>n. pulled \in Nat /\ uids \in Nat /\ uids <= pulled
  BY DEF LoopInv, RunInv
<1>m. runs' = runs => Maps(runs, runs')
  BY DEF RunInv, Maps
<1>1. CASE Handle
  <2>1. pc' # "handle" /\ pulled' = pulled
    BY <1>1, HandleLoop DEF HandlerEnds, HandlerWaits, WaitCutShort, Done
  <2> QED
    BY <1>1, <1>n, <2>1, HandleRuns, RunKept, RunOpened, RunRemoved DEF Handling
<1>2. CASE Loop
  <2>1. CASE PullReplay
    <3>1. replay \in Seq(Messages) /\ replay # <<>> /\ \A i \in 1..Len(replay) : replay[i].op \notin Uncacheable
      BY <2>1 DEF LoopInv, Queued, PullReplay
    <3>2. Head(replay).op # "open"
      BY <3>1 DEF Uncacheable
    <3> QED
      BY <2>1, <1>n, <1>m, <3>2, RunKept DEF PullReplay, RunsMapped, Handling, docVars
  <2>2. ASSUME NEW m \in Alphabet, PullPlan(m) PROVE RunInv'
    BY <2>2, <1>n, <1>m, RunKept DEF PullPlan, RunsMapped, Handling, docVars
  <2>3. CASE ~PullReplay /\ ~ \E m \in Alphabet : PullPlan(m)
    <3>1. pc' # "handle" /\ pulled' = pulled
      BY <1>2, <2>3 DEF Loop, EnterPause, OnResume, LeaveInterrupted, TakeInterrupt, ThrowError, PlanEnds,
         Throw, NothingCatches, EndLoop
    <3> QED
      BY <1>2, <1>n, <3>1, LoopRuns, RunKept, RunsAllClosed DEF Handling
  <2> QED
    BY <2>1, <2>2, <2>3
<1>3. CASE Environment
  BY <1>3, <1>n, <1>m, Requests, RunKept DEF RunsMapped, Handling, RunInv
<1>4. CASE RunAsync \/ LoopTimeout
  BY <1>4, <1>n, <1>m, RunKept DEF RunAsync, LoopTimeout, RunsMapped, Handling
<1>5. CASE Cleanup
  <2>1. DOMAIN NoRuns = {} /\ NoRuns \in [{} -> Slots]
    BY DEF NoRuns
  <2> QED
    BY <1>5, <2>1 DEF Cleanup, RunInv, Handling, docVars
<1>6. CASE UNCHANGED vars
  BY <1>6, <1>n, <1>m, RunKept DEF vars, docVars, RunsMapped, Handling, RunInv, loopVars
<1> QED
  BY <1>1, <1>2, <1>3, <1>4, <1>5, <1>6 DEF Next

-----------------------------------------------------------------------------
(* One RunStop for each RunStart.  The loop timeout drops run_loop with    *)
(* its runs open and skips drain_and_close, so without it only.            *)

LEMMA NoRunsMapped ==
    ASSUME Maps(NoRuns, runs')
    PROVE  runs' = NoRuns
BY DEF Maps, NoRuns

LEMMA ClosedMapped ==
    ASSUME RunInv, RunsClosed, RunsMapped, pc' \in {"idle", "cleanup"} => pc \in {"idle", "cleanup"}
    PROVE  RunsClosed'
<1>1. OpenUids' = OpenUids
  BY DEF RunsMapped, Maps, OpenUids
<1>2. runs = NoRuns => runs' = NoRuns
  BY NoRunsMapped DEF RunsMapped
<1>3. uids' = uids /\ stops' = stops
  BY DEF RunsMapped
<1>4. \A u \in 1..uids : stops[u] = IF u \in OpenUids THEN 0 ELSE 1
  BY DEF RunsClosed
<1>5. \A u \in 1..uids' : stops'[u] = IF u \in OpenUids' THEN 0 ELSE 1
  BY <1>1, <1>3, <1>4
<1> QED
  BY <1>2, <1>5 DEF RunsClosed

LEMMA ClosedOpened ==
    ASSUME LoopInv, RunInv, RunsClosed, HandleOpenRun
    PROVE  RunsClosed'
<1>1. uids \in Nat /\ uids < pulled /\ pulled \in 0..MaxMsgs /\ MaxMsgs \in Nat
  BY EngineAssumption DEF LoopInv, RunInv, HandleOpenRun, Begin
<1>2. cur.key \notin DOMAIN runs
  BY DEF HandleOpenRun, Begin, Handling, Illegal, IsOpen, IllegalIn
<1>3. uids' = uids + 1 /\ stops' = stops /\ pc' = "top" /\ runs' = PutSlot(cur.key, NewSlot(uids + 1, Recording))
  BY DEF HandleOpenRun, SlotStep, Done
<1>4. NewSlot(uids + 1, Recording).uid = uids + 1
  BY DEF NewSlot
<1>5. /\ DOMAIN runs' = DOMAIN runs \cup {cur.key} /\ runs'[cur.key].uid = uids + 1
      /\ \A k \in DOMAIN runs : runs'[k] = runs[k]
  BY <1>2, <1>3, <1>4 DEF PutSlot
<1>6. OpenUids' = OpenUids \cup {uids + 1}
  BY <1>5 DEF OpenUids
<1>7. uids + 1 \in Uids /\ stops[uids + 1] = 0
  BY <1>1 DEF RunInv, Uids
<1>8. \A u \in 1..uids' : stops'[u] = IF u \in OpenUids' THEN 0 ELSE 1
  BY <1>1, <1>3, <1>6, <1>7 DEF RunsClosed
<1> QED
  BY <1>3, <1>8 DEF RunsClosed

LEMMA ClosedRemoved ==
    ASSUME LoopInv, RunInv, RunsClosed, HandleCloseRun
    PROVE  RunsClosed'
<1>1. cur.key \in DOMAIN runs
  BY DEF HandleCloseRun, Begin, Handling, Illegal, IsOpen, NeedsRun
<1>2. /\ uids' = uids /\ pc' = "top" /\ runs' = RemoveSlot(cur.key)
      /\ stops' = [stops EXCEPT ![Slot.uid] = @ + 1]
  BY DEF HandleCloseRun, Done
<1>3. DOMAIN runs' = DOMAIN runs \ {cur.key} /\ \A k \in DOMAIN runs' : runs'[k] = runs[k]
  BY <1>2 DEF RemoveSlot
<1>4. OpenUids' = OpenUids \ {Slot.uid}
  BY <1>1, <1>3 DEF OpenUids, RunInv, Slot
<1>5. Slot.uid \in 1..uids /\ Slot.uid \in Uids /\ stops[Slot.uid] = 0 /\ 1..uids \subseteq Uids
  BY <1>1, EngineAssumption DEF RunInv, Slot, Uids, LoopInv
<1>6. \A u \in 1..uids' : stops'[u] = IF u \in OpenUids' THEN 0 ELSE 1
  BY <1>2, <1>4, <1>5 DEF RunsClosed, RunInv
<1> QED
  BY <1>2, <1>6 DEF RunsClosed

LEMMA ClosedAll ==
    ASSUME LoopInv, RunInv, RunsClosed, RunsEnded
    PROVE  RunsClosed'
<1>1. runs' = NoRuns /\ uids' = uids /\ OpenUids' = {}
  BY DEF RunsEnded, CloseAll, OpenUids, NoRuns
<1>2. 1..uids \subseteq Uids
  BY EngineAssumption DEF RunInv, Uids, LoopInv
<1>3. \A u \in 1..uids : stops'[u] = 1
  BY <1>2 DEF RunsEnded, CloseAll, RunsClosed, OpenUids, RunInv
<1> QED
  BY <1>1, <1>3 DEF RunsClosed

LEMMA ClosedStep == ~HasLoopTimeout /\ LoopInv /\ RunInv /\ RunsClosed /\ [Next]_vars => RunsClosed'
<1> SUFFICES ASSUME ~HasLoopTimeout, LoopInv, RunInv, RunsClosed, [Next]_vars PROVE RunsClosed'
  OBVIOUS
<1>m. runs' = runs => Maps(runs, runs')
  BY DEF RunInv, Maps
<1>1. CASE Handle
  <2>1. pc' \notin {"idle", "cleanup"}
    BY <1>1, HandleLoop DEF HandlerEnds, HandlerWaits, WaitCutShort, Done
  <2> QED
    BY <1>1, <2>1, HandleRuns, ClosedMapped, ClosedOpened, ClosedRemoved
<1>2. CASE Loop
  <2>1. RunsEnded \/ (RunsMapped /\ pc' \notin {"idle", "cleanup"})
    <3>1. CASE EnterPause \/ OnResume \/ LeaveInterrupted \/ PullReplay \/ \E m \in Alphabet : PullPlan(m)
      BY <1>2, <3>1, LoopRuns DEF EnterPause, OnResume, LeaveInterrupted, PullReplay, PullPlan, RunsEnded
    <3>2. CASE TakeInterrupt
      BY <3>2, <1>m DEF TakeInterrupt, Throw, NothingCatches, EndLoop, RunsMapped, RunsEnded
    <3>3. CASE ThrowError
      BY <3>3, <1>m DEF ThrowError, Throw, NothingCatches, EndLoop, RunsMapped, RunsEnded
    <3>4. CASE PlanEnds
      BY <3>4 DEF PlanEnds, EndLoop, RunsEnded
    <3> QED
      BY <1>2, <3>1, <3>2, <3>3, <3>4 DEF Loop
  <2> QED
    BY <2>1, ClosedMapped, ClosedAll
<1>3. CASE Environment
  BY <1>3, <1>m, Requests, ClosedMapped DEF RunsMapped
<1>4. CASE RunAsync \/ LoopTimeout
  BY <1>4, <1>m, ClosedMapped DEF RunAsync, LoopTimeout, RunsMapped
<1>5. CASE Cleanup
  <2>1. runs' = runs
    BY <1>5 DEF Cleanup, RunsClosed
  <2> QED
    BY <1>5, <1>m, <2>1, ClosedMapped DEF Cleanup, docVars, RunsMapped
<1>6. CASE UNCHANGED vars
  BY <1>6, <1>m, ClosedMapped DEF vars, docVars, RunsMapped
<1> QED
  BY <1>1, <1>2, <1>3, <1>4, <1>5, <1>6 DEF Next

(* Every RunStart gets exactly one RunStop, and no run outlives the loop,  *)
(* over any number of calls (drain_and_close, CloseRun).                   *)
THEOREM EveryRunIsClosed == ~HasLoopTimeout /\ Spec => []RunsClosed
<1>1. Init => RunsClosed
  BY DEF Init, RunsClosed
<1>2. ~HasLoopTimeout => ~HasLoopTimeout'
  OBVIOUS
<1> QED
  BY <1>1, <1>2, LoopInit, LoopStep, RunInit, RunStep, ClosedStep, PTL DEF Spec

-----------------------------------------------------------------------------
(* Who emits events, and of which run.                                     *)

LEMMA HandleEvents ==
    Handle => UNCHANGED <<events, unlanded>> \/ HandleSave \/ HandleCollect \/ HandleKickoff
<1> USE DEF docVars
<1>1. CASE HandleOpenRun \/ HandleCreate \/ HandleDrop \/ HandleDeclareStream \/ HandleRead
           \/ HandleCloseRun
  BY <1>1 DEF HandleOpenRun, HandleCreate, HandleDrop, HandleDeclareStream, HandleRead, HandleCloseRun
<1>2. CASE Rejected \/ DeviceFails \/ SaveFails \/ HandleMonitor \/ HandleUnmonitor \/ HandleStage \/ StageDone
           \/ HandleUnstage \/ HandleHook \/ HandleCheckpoint \/ HandleClearCheckpoint
  BY <1>2 DEF Rejected, DeviceFails, SaveFails, HandleMonitor, HandleUnmonitor, HandleStage, StageDone,
     HandleUnstage, HandleHook, HandleCheckpoint, HandleClearCheckpoint
<1>3. CASE HandleRewindable(TRUE) \/ HandleRewindable(FALSE)
  BY <1>3 DEF HandleRewindable
<1>4. CASE HandleSet \/ HandleMove \/ HandleWait \/ HandleSleep \/ WaitDone \/ WaitFails \/ WaitMovesOn
           \/ WaitCutShort \/ HandlePause \/ HandlePushContingency \/ HandlePopContingency
  BY <1>4 DEF HandleSet, HandleMove, HandleWait, HandleSleep, WaitDone, WaitFails, WaitMovesOn,
     WaitCutShort, HandlePause, HandlePushContingency, HandlePopContingency
<1> QED
  BY <1>1, <1>2, <1>3, <1>4 DEF Handle

LEMMA LoopEvents ==
    Loop => UNCHANGED <<events, unlanded>> \/ EnterPause \/ OnResume \/ BackstopCollect
<1> USE DEF docVars
<1>1. CASE LeaveInterrupted \/ PullReplay \/ \E m \in Alphabet : PullPlan(m)
  BY <1>1 DEF LeaveInterrupted, PullReplay, PullPlan
<1>2. CASE TakeInterrupt \/ ThrowError \/ PlanEnds
  BY <1>2 DEF TakeInterrupt, ThrowError, PlanEnds, Throw, NothingCatches, EndLoop
<1> QED
  BY <1>1, <1>2 DEF Loop

LEMMA BackstopEvents ==
    ASSUME BackstopCollect, NEW e \in events' \ events
    PROVE  \E k \in DOMAIN runs : \E f \in runs[k].uncollected : e = EventOf(runs[k], f, <<"backstop", 0>>)
<1> DEFINE Of(lost, k) == {g \in runs[k].uncollected : <<runs[k].uid, g>> \in Collected(lost)}
           Landed(lost, k) == {EventOf(runs[k], f, <<"backstop", 0>>) : f \in Of(lost, k)}
<1>1. PICK lost \in Failing(Uncollected) : events' = events \cup UNION {Landed(lost, k) : k \in DOMAIN runs}
  BY Zenon DEF BackstopCollect
<1> HIDE DEF Landed
<1>2. PICK k \in DOMAIN runs : e \in Landed(lost, k)
  BY <1>1
<1>3. Landed(lost, k) = {EventOf(runs[k], f, <<"backstop", 0>>) : f \in Of(lost, k)}
  BY DEF Landed
<1> HIDE DEF Of
<1>4. PICK f \in Of(lost, k) : e = EventOf(runs[k], f, <<"backstop", 0>>)
  BY <1>2, <1>3
<1>5. f \in runs[k].uncollected
  BY <1>4 DEF Of
<1> QED
  BY <1>4, <1>5

LEMMA EventsOfOpenRuns ==
    ASSUME LoopInv, RunInv, [Next]_vars, NEW e \in events' \ events
    PROVE  (\E k \in DOMAIN runs : e.run = runs[k].uid) /\ e.seq \in Nat
<1>i. \A s \in Slots : s.seq \in [AllStreams -> Nat] /\ s.uncollected \subseteq Flyers
  BY DEF Slots
<1>j. Interruptions \in AllStreams /\ Flyers \subseteq AllStreams /\ \A k \in DOMAIN runs : runs[k] \in Slots
  BY DEF AllStreams, RunInv
<1>1. CASE Handle
  <2>1. HandleSave \/ HandleCollect
    BY <1>1, HandleEvents DEF HandleKickoff
  <2>2. cur.key \in DOMAIN runs /\ Slot = runs[cur.key]
    BY <2>1 DEF HandleSave, HandleCollect, Begin, Handling, Illegal, IsOpen, NeedsRun, Slot
  <2>3. PICK n \in AllStreams : \E p : e = EventOf(Slot, n, p)
    <3>1. CASE HandleSave
      <4>1. Slot.open.stream \in AllStreams
        BY <1>j, <2>2 DEF Slots, Bundles, AllStreams
      <4> QED
        BY <3>1, <4>1 DEF HandleSave
    <3>2. CASE HandleCollect
      <4>1. cur.arg \in AllStreams
        BY <1>j, <3>2, CurArgs DEF HandleCollect, Begin, Handling, Working, FlyerOps
      <4> QED
        BY <3>2, <4>1 DEF HandleCollect
    <3> QED
      BY <2>1, <3>1, <3>2
  <2> QED
    BY <1>i, <1>j, <2>2, <2>3 DEF EventOf
<1>2. CASE Loop
  <2>1. CASE EnterPause
    <3> DEFINE quiet == [k \in DOMAIN runs |-> [runs[k] EXCEPT !.pumps = {}]]
    <3>1. DOMAIN quiet = DOMAIN runs /\ \A k \in DOMAIN runs : quiet[k].uid = runs[k].uid /\ quiet[k] \in Slots
      <4>1. ASSUME NEW s \in Slots PROVE [s EXCEPT !.pumps = {}] \in Slots /\ [s EXCEPT !.pumps = {}].uid = s.uid
        BY DEF Slots
      <4>2. \A k \in DOMAIN runs : runs[k] \in Slots
        BY DEF RunInv
      <4> QED
        BY <4>1, <4>2
    <3>2. e \in RecordingOf(quiet, "pause")
      BY <2>1 DEF EnterPause
    <3> HIDE DEF quiet
    <3> QED
      BY <1>i, <1>j, <3>1, <3>2 DEF RecordingOf, EventOf
  <2>2. CASE OnResume
    <3> DEFINE rewound == [k \in DOMAIN runs |-> IF cache = <<>> THEN runs[k] ELSE Rewind(runs[k])]
    <3>d. PICK dead \in Failing(Registrations) :
              events' = events \cup RecordingOf(RestoreMonitors(rewound, dead), "resume")
      BY <2>2 DEF OnResume
    <3> DEFINE restored == RestoreMonitors(rewound, dead)
    <3>1. \A k \in DOMAIN runs : rewound[k] \in Slots /\ rewound[k].uid = runs[k].uid
      BY SlotOps DEF RunInv
    <3>2. DOMAIN rewound = DOMAIN runs /\ rewound \in [DOMAIN rewound -> Slots]
      BY <3>1
    <3>3. e \in RecordingOf(restored, "resume")
      BY <3>d
    <3> HIDE DEF rewound
    <3>4. Maps(rewound, restored)
      BY <3>2, RestoreMaps
    <3>5. DOMAIN restored = DOMAIN runs /\ \A k \in DOMAIN runs : restored[k].uid = runs[k].uid /\ restored[k] \in Slots
      BY <3>1, <3>2, <3>4 DEF Maps
    <3> HIDE DEF restored
    <3> QED
      BY <1>i, <1>j, <3>3, <3>5 DEF RecordingOf, EventOf
  <2>3. CASE BackstopCollect
    <3>1. PICK k \in DOMAIN runs : \E f \in runs[k].uncollected : e = EventOf(runs[k], f, <<"backstop", 0>>)
      BY <2>3, BackstopEvents
    <3>2. PICK f \in runs[k].uncollected : e = EventOf(runs[k], f, <<"backstop", 0>>)
      BY <3>1
    <3> QED
      BY <1>i, <1>j, <3>2 DEF EventOf
  <2> QED
    BY <1>2, <2>1, <2>2, <2>3, LoopEvents
<1>3. CASE Environment
  BY <1>3, Requests
<1>4. CASE RunAsync \/ LoopTimeout \/ Cleanup
  BY <1>4 DEF RunAsync, LoopTimeout, Cleanup, docVars
<1>5. CASE UNCHANGED vars
  BY <1>5 DEF vars, docVars
<1> QED
  BY <1>1, <1>2, <1>3, <1>4, <1>5 DEF Next

(* No event of a run follows its RunStop, whatever is replayed, recorded   *)
(* or collected late and however many runs are open.                       *)
THEOREM NothingAfterStop == Spec => NoEventAfterStop
<1>1. ASSUME LoopInv, RunInv, [Next]_vars, NEW e \in events' \ events PROVE stops[e.run] = 0
  BY <1>1, EventsOfOpenRuns DEF RunInv
<1>2. LoopInv /\ RunInv /\ [Next]_vars => [\A e \in events' \ events : stops[e.run] = 0]_vars
  BY <1>1
<1> QED
  BY <1>2, LoopInit, LoopStep, RunInit, RunStep, PTL DEF Spec, NoEventAfterStop

-----------------------------------------------------------------------------
(* The failures that are only logged: each walk of the engine writes down  *)
(* its own, no handler does.                                               *)

FourWalks == DOMAIN swallowed = {"monitor", "stop", "unstage", "collect"}

LEMMA HandleFaults ==
    Handle => /\ swallowed' = swallowed
              /\ failures' = failures \/ (failures < MaxFailures /\ failures' = failures + 1)
<1> USE DEF boundVars, faultVars
<1>1. CASE DeviceFails \/ SaveFails \/ WaitFails
  BY <1>1 DEF DeviceFails, SaveFails, WaitFails
<1>2. CASE Rejected \/ HandleOpenRun \/ HandleCreate \/ HandleSave \/ HandleDrop \/ HandleDeclareStream
           \/ HandleRead \/ HandleCollect \/ HandleCloseRun \/ HandleKickoff
  BY <1>2 DEF Rejected, HandleOpenRun, HandleCreate, HandleSave, HandleDrop, HandleDeclareStream, HandleRead,
     HandleCollect, HandleCloseRun, HandleKickoff, SlotStep
<1>3. CASE HandleMonitor \/ HandleUnmonitor \/ HandleStage \/ StageDone \/ HandleUnstage \/ HandleHook
           \/ HandleCheckpoint \/ HandleClearCheckpoint \/ HandleRewindable(TRUE) \/ HandleRewindable(FALSE)
  BY <1>3 DEF HandleMonitor, HandleUnmonitor, HandleStage, StageDone, HandleUnstage, HandleHook,
     HandleCheckpoint, HandleClearCheckpoint, HandleRewindable
<1>4. CASE HandleSet \/ HandleMove \/ HandleWait \/ HandleSleep \/ WaitDone \/ WaitMovesOn \/ WaitCutShort
           \/ HandlePause \/ HandlePushContingency \/ HandlePopContingency
  BY <1>4 DEF HandleSet, HandleMove, HandleWait, HandleSleep, WaitDone, WaitMovesOn, WaitCutShort, HandlePause,
     HandlePushContingency, HandlePopContingency
<1> QED
  BY <1>1, <1>2, <1>3, <1>4 DEF Handle

(* Where the loop does: the walks of a pause, of a resume and of the end.  *)
LEMMA LoopFaults ==
    Loop => \/ UNCHANGED faultVars
            \/ EnterPause \/ OnResume \/ LeaveInterrupted \/ BackstopCollect
<1> USE DEF boundVars, faultVars
<1>1. CASE PullReplay \/ \E m \in Alphabet : PullPlan(m)
  BY <1>1 DEF PullReplay, PullPlan
<1>2. CASE TakeInterrupt \/ ThrowError \/ PlanEnds
  BY <1>2 DEF TakeInterrupt, ThrowError, PlanEnds, Throw, NothingCatches, EndLoop
<1> QED
  BY <1>1, <1>2 DEF Loop

LEMMA FourWalksStep == FourWalks /\ [Next]_vars => FourWalks'
<1> SUFFICES ASSUME FourWalks, [Next]_vars PROVE FourWalks'
  OBVIOUS
<1> USE DEF FourWalks
<1>1. CASE Handle
  BY <1>1, HandleFaults
<1>2. CASE Loop
  <2>1. CASE EnterPause \/ OnResume \/ LeaveInterrupted
    BY <2>1 DEF EnterPause, OnResume, LeaveInterrupted, RestoreWalk
  <2>2. CASE BackstopCollect
    BY <2>2 DEF BackstopCollect
  <2> QED
    BY <1>2, <2>1, <2>2, LoopFaults DEF faultVars
<1>3. CASE Environment
  BY <1>3, Requests
<1>4. CASE RunAsync \/ LoopTimeout
  BY <1>4 DEF RunAsync, LoopTimeout, boundVars, faultVars
<1>5. CASE Cleanup
  BY <1>5 DEF Cleanup
<1>6. CASE UNCHANGED vars
  BY <1>6 DEF vars, boundVars, faultVars
<1> QED
  BY <1>1, <1>2, <1>3, <1>4, <1>5, <1>6 DEF Next

LEMMA FourWalksInit == Init => FourWalks
BY DEF Init, NoneSwallowed, FourWalks

-----------------------------------------------------------------------------
(* The registries beside a run's bundler: monitors, their pumps, flyers.   *)

Keeps(s, t) ==
    t.uid = s.uid /\ t.pumps = s.pumps /\ t.monitored = s.monitored /\ t.uncollected = s.uncollected

RegistriesKept == DOMAIN runs' = DOMAIN runs /\ \A k \in DOMAIN runs : Keeps(runs[k], runs'[k])

LEMMA RegistryOps ==
    ASSUME NEW s \in Slots
    PROVE  /\ \A n : Keeps(s, Create(s, n)) /\ Keeps(s, AddRead(s, n)) /\ Keeps(s, DeclareStream(s, n))
           /\ \A n : Keeps(s, ComposeEvent(s, n))
           /\ Keeps(s, DropBundle(s)) /\ Keeps(s, ResetCheckpoint(s)) /\ Keeps(s, ClearSnapshot(s))
           /\ Keeps(s, Rewind(s)) /\ Keeps(s, Save(s))
<1> USE DEF Keeps, Slots
<1>1. ASSUME NEW n PROVE Keeps(s, Create(s, n)) /\ Keeps(s, AddRead(s, n)) /\ Keeps(s, DeclareStream(s, n))
  BY DEF Create, AddRead, DeclareStream
<1>2. ASSUME NEW n PROVE Keeps(s, ComposeEvent(s, n)) /\ Keeps(s, DropBundle(ComposeEvent(s, n)))
  BY DEF ComposeEvent, DropBundle
<1>3. Keeps(s, DropBundle(s)) /\ Keeps(s, ResetCheckpoint(s)) /\ Keeps(s, ClearSnapshot(s))
  BY DEF DropBundle, ResetCheckpoint, ClearSnapshot
<1>4. Keeps(s, Rewind(s))
  BY DEF Rewind
<1>5. Keeps(s, Save(s))
  BY <1>2, <1>3 DEF Save
<1> QED
  BY <1>1, <1>2, <1>3, <1>4, <1>5

LEMMA HandleRegistries ==
    ASSUME LoopInv, RunInv, Handle
    PROVE  \/ RegistriesKept
           \/ HandleOpenRun \/ HandleCloseRun \/ HandleMonitor \/ HandleUnmonitor \/ HandleKickoff \/ HandleCollect
<1>t. \A k \in DOMAIN runs : runs[k] \in Slots
  BY DEF RunInv
<1>m. runs' = runs => RegistriesKept
  BY DEF RegistriesKept, Keeps
<1>o. ASSUME NEW op \in NeedsRun, Begin(op) PROVE cur.key \in DOMAIN runs /\ Slot \in Slots
  BY <1>o, <1>t DEF Begin, Handling, Illegal, IsOpen, Slot
<1>p. ASSUME cur.key \in DOMAIN runs, NEW s, Keeps(Slot, s), runs' = PutSlot(cur.key, s)
      PROVE  RegistriesKept
  BY <1>p DEF Slot, PutSlot, RegistriesKept, Keeps
<1>r. ResetCheckpointState(runs) => RegistriesKept
  BY <1>t, RegistryOps DEF ResetCheckpointState, RegistriesKept
<1>1. CASE Rejected \/ DeviceFails \/ HandleStage
  BY <1>1, <1>m DEF Rejected, DeviceFails, HandleStage
<1>2. CASE HandleCreate
  BY <1>2, <1>o, <1>p, RegistryOps DEF HandleCreate, SlotStep, NeedsRun
<1>3. CASE HandleRead
  <2>1. IsOpen(cur.key) => cur.key \in DOMAIN runs /\ Slot \in Slots
    BY <1>t DEF IsOpen, Slot
  <2> QED
    BY <1>3, <1>m, <1>p, <2>1, RegistryOps DEF HandleRead, SlotStep
<1>4. CASE HandleSave \/ SaveFails
  BY <1>4, <1>o, <1>p, RegistryOps DEF HandleSave, SaveFails, SlotStep, NeedsRun
<1>5. CASE HandleDrop
  BY <1>5, <1>o, <1>p, RegistryOps DEF HandleDrop, SlotStep, NeedsRun
<1>6. CASE HandleDeclareStream
  BY <1>6, <1>o, <1>p, RegistryOps DEF HandleDeclareStream, SlotStep, NeedsRun
<1>7. CASE StageDone \/ HandleUnstage \/ HandleHook \/ HandleCheckpoint
  BY <1>7, <1>r DEF StageDone, HandleUnstage, HandleHook, HandleCheckpoint
<1>8. CASE HandleClearCheckpoint
  BY <1>8, <1>t, RegistryOps DEF HandleClearCheckpoint, RegistriesKept
<1>9. CASE HandleRewindable(TRUE) \/ HandleRewindable(FALSE)
  BY <1>9, <1>r, <1>m DEF HandleRewindable
<1>10. CASE HandleSet \/ HandleMove \/ HandleWait \/ HandleSleep
  BY <1>10, <1>m DEF HandleSet, HandleMove, HandleWait, HandleSleep
<1>11. CASE WaitDone \/ WaitFails \/ WaitMovesOn \/ WaitCutShort
  BY <1>11, <1>m DEF WaitDone, WaitFails, WaitMovesOn, WaitCutShort
<1>12. CASE HandlePause \/ HandlePushContingency \/ HandlePopContingency
  BY <1>12, <1>m DEF HandlePause, HandlePushContingency, HandlePopContingency
<1> QED
  BY <1>1, <1>2, <1>3, <1>4, <1>5, <1>6, <1>7, <1>8, <1>9, <1>10, <1>11, <1>12 DEF Handle

LEMMA ResetPut ==
    ASSUME \A k \in DOMAIN runs : runs[k] \in Slots, cur.key \in DOMAIN runs, NEW s \in Slots,
           ResetCheckpointState(PutSlot(cur.key, s))
    PROVE  /\ DOMAIN runs' = DOMAIN runs /\ Keeps(s, runs'[cur.key])
           /\ \A k \in DOMAIN runs : k # cur.key => Keeps(runs[k], runs'[k])
<1>1. DOMAIN PutSlot(cur.key, s) = DOMAIN runs
      /\ \A k \in DOMAIN runs : PutSlot(cur.key, s)[k] = IF k = cur.key THEN s ELSE runs[k]
  BY DEF PutSlot
<1>2. DOMAIN runs' = DOMAIN runs /\ \A k \in DOMAIN runs : runs'[k] = ResetCheckpoint(PutSlot(cur.key, s)[k])
  BY <1>1 DEF ResetCheckpointState
<1> QED
  BY <1>1, <1>2, RegistryOps

LEMMA RecordedKeeps ==
    ASSUME NEW rs, rs \in [DOMAIN rs -> Slots]
    PROVE  DOMAIN Recorded(rs) = DOMAIN rs /\ \A k \in DOMAIN rs : Keeps(rs[k], Recorded(rs)[k])
<1>1. ASSUME NEW k \in DOMAIN rs PROVE Keeps(rs[k], Recorded(rs)[k])
  <2>1. rs[k] \in Slots /\ Keeps(rs[k], rs[k])
    BY DEF Keeps
  <2> QED
    BY <2>1, RegistryOps DEF Recorded
<1> QED
  BY <1>1 DEF Recorded

(* A pause takes the pumps of every run, and each way out of it brings     *)
(* those of the registrations back, but for the failures it logs.          *)
Restored(s, dead) == {d \in s.monitored : <<s.uid, d>> \notin dead}

LEMMA GateRegistries ==
    ASSUME RunInv, FourWalks, EnterPause \/ OnResume \/ LeaveInterrupted
    PROVE  /\ DOMAIN runs' = DOMAIN runs
           /\ \A k \in DOMAIN runs : /\ runs'[k].uid = runs[k].uid
                                     /\ runs'[k].monitored = runs[k].monitored
                                     /\ runs'[k].uncollected = runs[k].uncollected
                                     /\ runs'[k].pumps = IF pc' = "parked" THEN {} ELSE Restored(runs[k], swallowed'.monitor)
<1>t. runs \in [DOMAIN runs -> Slots] /\ \A k \in DOMAIN runs : runs[k] \in Slots
  BY DEF RunInv
<1>1. CASE EnterPause
  <2> DEFINE quiet == [k \in DOMAIN runs |-> [runs[k] EXCEPT !.pumps = {}]]
  <2>1. /\ DOMAIN quiet = DOMAIN runs /\ quiet \in [DOMAIN quiet -> Slots]
        /\ \A k \in DOMAIN runs : /\ quiet[k].monitored = runs[k].monitored /\ quiet[k].pumps = {}
                                  /\ quiet[k].uncollected = runs[k].uncollected /\ quiet[k].uid = runs[k].uid
    BY <1>t DEF Slots
  <2>2. runs' = Recorded(quiet) /\ pc' = "parked"
    BY <1>1 DEF EnterPause
  <2> HIDE DEF quiet
  <2> QED
    BY <2>1, <2>2, RecordedKeeps DEF Keeps
<1>r. ASSUME NEW rs, NEW dead, DOMAIN rs = DOMAIN runs, rs \in [DOMAIN rs -> Slots],
             \A k \in DOMAIN runs : Keeps(runs[k], rs[k])
      PROVE  /\ DOMAIN RestoreMonitors(rs, dead) = DOMAIN runs /\ RestoreMonitors(rs, dead) \in [DOMAIN runs -> Slots]
             /\ \A k \in DOMAIN runs : /\ RestoreMonitors(rs, dead)[k].uid = runs[k].uid
                                       /\ RestoreMonitors(rs, dead)[k].monitored = runs[k].monitored
                                       /\ RestoreMonitors(rs, dead)[k].pumps = Restored(runs[k], dead)
                                       /\ RestoreMonitors(rs, dead)[k].uncollected = runs[k].uncollected
  <2>1. ASSUME NEW k \in DOMAIN runs
        PROVE  /\ RestoreMonitors(rs, dead)[k] \in Slots /\ RestoreMonitors(rs, dead)[k].uid = rs[k].uid
               /\ RestoreMonitors(rs, dead)[k].monitored = rs[k].monitored
               /\ RestoreMonitors(rs, dead)[k].pumps = Restored(rs[k], dead)
               /\ RestoreMonitors(rs, dead)[k].uncollected = rs[k].uncollected
    <3>1. rs[k] \in Slots /\ RestoreMonitors(rs, dead)[k] = [rs[k] EXCEPT !.pumps = Restored(rs[k], dead)]
      BY <1>r DEF RestoreMonitors, Restored
    <3>2. Restored(rs[k], dead) \subseteq Devices
      BY <3>1 DEF Restored, Slots
    <3> QED
      BY <3>1, <3>2 DEF Slots
  <2>2. ASSUME NEW k \in DOMAIN runs PROVE Restored(rs[k], dead) = Restored(runs[k], dead)
    BY <1>r DEF Keeps, Restored
  <2> QED
    BY <1>r, <2>1, <2>2 DEF RestoreMonitors, Keeps
<1>2. CASE OnResume
  <2> DEFINE rewound == [k \in DOMAIN runs |-> IF cache = <<>> THEN runs[k] ELSE Rewind(runs[k])]
  <2>1. \A k \in DOMAIN runs : rewound[k] \in Slots /\ Keeps(runs[k], rewound[k])
    BY <1>t, SlotOps, RegistryOps DEF Keeps
  <2>2. DOMAIN rewound = DOMAIN runs /\ rewound \in [DOMAIN rewound -> Slots]
    BY <2>1
  <2>d. PICK dead \in Failing(Registrations) : runs' = Recorded(RestoreMonitors(rewound, dead)) /\ RestoreWalk(dead)
    BY <1>2 DEF OnResume
  <2> DEFINE restored == RestoreMonitors(rewound, dead)
  <2>3. runs' = Recorded(restored) /\ pc' = "top" /\ swallowed'.monitor = dead
    BY <1>2, <2>d DEF OnResume, RestoreWalk, FourWalks
  <2> HIDE DEF rewound
  <2>4. /\ DOMAIN restored = DOMAIN runs /\ restored \in [DOMAIN restored -> Slots]
        /\ \A k \in DOMAIN runs : /\ restored[k].uid = runs[k].uid
                                  /\ restored[k].monitored = runs[k].monitored
                                  /\ restored[k].pumps = Restored(runs[k], dead)
                                  /\ restored[k].uncollected = runs[k].uncollected
    BY <1>r, <2>1, <2>2
  <2> HIDE DEF restored
  <2> QED
    BY <2>3, <2>4, RecordedKeeps DEF Keeps
<1>3. CASE LeaveInterrupted
  <2>1. PICK dead \in Failing(Registrations) : runs' = RestoreMonitors(runs, dead) /\ RestoreWalk(dead)
    BY <1>3 DEF LeaveInterrupted
  <2>2. pc' = "take" /\ swallowed'.monitor = dead
    BY <1>3, <2>1 DEF LeaveInterrupted, RestoreWalk, FourWalks
  <2> QED
    BY <1>r, <1>t, <2>1, <2>2 DEF Keeps
<1> QED
  BY <1>1, <1>2, <1>3

(* A run's monitors run, but for those that the last restore_monitors      *)
(* failed to start.                                                        *)
Pumped(s, dead) ==
    s.pumps \subseteq s.monitored /\ \A d \in s.monitored \ s.pumps : <<s.uid, d>> \in dead
AllPumped == \A k \in DOMAIN runs : Pumped(runs[k], swallowed.monitor)

LEMMA MonitorsStep ==
    ~HasLoopTimeout /\ LoopInv /\ RunInv /\ FourWalks /\ MonitorsLive /\ [Next]_vars => MonitorsLive'
<1> SUFFICES ASSUME ~HasLoopTimeout, LoopInv, RunInv, FourWalks, MonitorsLive, [Next]_vars PROVE MonitorsLive'
  OBVIOUS
<1>p. /\ pc # "parked" => AllPumped
      /\ pc' # "parked" /\ AllPumped' => MonitorsLive'
  BY DEF MonitorsLive, AllPumped, Pumped
<1>t. \A k \in DOMAIN runs : runs[k] \in Slots
  BY DEF RunInv
<1>m. runs' = runs /\ swallowed' = swallowed /\ (pc = "parked" <=> pc' = "parked") => MonitorsLive'
  BY DEF MonitorsLive
<1>1. CASE Handle
  <2>1. pc # "parked" /\ pc' # "parked" /\ swallowed' = swallowed
    BY <1>1, HandleLoop, HandleFaults DEF HandlerEnds, HandlerWaits, WaitCutShort, Done, Working
  <2>k. ASSUME NEW s, NEW u, Pumped(s, swallowed.monitor), Keeps(s, u) PROVE Pumped(u, swallowed.monitor)
    BY <2>k DEF Pumped, Keeps
  <2>p. ASSUME cur.key \in DOMAIN runs, NEW s, Pumped(s, swallowed.monitor),
               \/ runs' = PutSlot(cur.key, s)
               \/ /\ DOMAIN runs' = DOMAIN runs /\ Keeps(s, runs'[cur.key])
                  /\ \A k \in DOMAIN runs : k # cur.key => Keeps(runs[k], runs'[k])
        PROVE  AllPumped'
    <3>1. DOMAIN runs' = DOMAIN runs
      BY <2>p DEF PutSlot
    <3>2. ASSUME NEW k \in DOMAIN runs PROVE \E v : Pumped(v, swallowed.monitor) /\ Keeps(v, runs'[k])
      <4>1. CASE k = cur.key
        BY <2>p, <4>1 DEF PutSlot, Keeps
      <4>2. CASE k # cur.key
        BY <1>p, <2>1, <2>p, <4>2 DEF PutSlot, Keeps, AllPumped
      <4> QED
        BY <4>1, <4>2
    <3>3. ASSUME NEW k \in DOMAIN runs PROVE Pumped(runs'[k], swallowed.monitor)
      BY <2>k, <3>2
    <3> QED
      BY <2>1, <3>1, <3>3 DEF AllPumped
  <2>2. CASE HandleOpenRun
    <3>1. \A k \in DOMAIN runs' : runs'[k] = NewSlot(uids + 1, Recording) \/ (k \in DOMAIN runs /\ runs'[k] = runs[k])
      BY <2>2 DEF HandleOpenRun, SlotStep, PutSlot
    <3>2. NewSlot(uids + 1, Recording).pumps = {} /\ NewSlot(uids + 1, Recording).monitored = {}
      BY DEF NewSlot
    <3>3. AllPumped'
      BY <1>p, <2>1, <3>1, <3>2 DEF AllPumped, Pumped
    <3> QED
      BY <1>p, <2>1, <3>3
  <2>3. CASE HandleCloseRun
    <3>1. AllPumped'
      BY <1>p, <2>1, <2>3 DEF HandleCloseRun, RemoveSlot, AllPumped, Pumped
    <3> QED
      BY <1>p, <2>1, <3>1
  <2>s. ASSUME NEW op \in NeedsRun, Begin(op)
        PROVE  cur.key \in DOMAIN runs /\ Slot = runs[cur.key] /\ Slot \in Slots /\ Pumped(Slot, swallowed.monitor)
    BY <1>p, <1>t, <2>1, <2>s DEF Begin, Handling, Illegal, IsOpen, Slot, AllPumped
  <2>4. CASE HandleMonitor
    <3> DEFINE c == DeclareStream(Slot, cur.arg)
               s == [c EXCEPT !.monitored = @ \cup {cur.arg}, !.pumps = @ \cup {cur.arg}]
    <3>1. cur.key \in DOMAIN runs /\ Slot \in Slots /\ Pumped(Slot, swallowed.monitor) /\ cur.arg \in Devices /\ cur.arg \in AllStreams
      BY <2>4, <2>s, CurArgs DEF HandleMonitor, Begin, Handling, NeedsRun, Working, DeviceOps, AllStreams
    <3>2. c \in Slots /\ Pumped(c, swallowed.monitor)
      <4>1. c \in Slots /\ Keeps(Slot, c)
        BY <3>1, SlotOps, RegistryOps
      <4> QED
        BY <3>1, <4>1 DEF Keeps, Pumped
    <3>3. s \in Slots /\ Pumped(s, swallowed.monitor)
      <4> HIDE DEF c
      <4>1. /\ s \in Slots /\ s.uid = c.uid
            /\ s.monitored = c.monitored \cup {cur.arg} /\ s.pumps = c.pumps \cup {cur.arg}
        BY <3>1, <3>2 DEF Slots
      <4> QED
        BY <3>2, <4>1 DEF Pumped
    <3>4. ResetCheckpointState(PutSlot(cur.key, s))
      BY <2>4 DEF HandleMonitor
    <3> HIDE DEF s
    <3> QED
      BY <1>p, <1>t, <2>1, <2>p, <3>1, <3>3, <3>4, ResetPut
  <2>5. CASE HandleUnmonitor
    <3> DEFINE s == [Slot EXCEPT !.monitored = @ \ {cur.arg}, !.pumps = @ \ {cur.arg}]
    <3>1. cur.key \in DOMAIN runs /\ Slot \in Slots /\ Pumped(Slot, swallowed.monitor)
      BY <2>5, <2>s DEF HandleUnmonitor, NeedsRun
    <3>2. /\ s \in Slots /\ s.uid = Slot.uid
          /\ s.monitored = Slot.monitored \ {cur.arg} /\ s.pumps = Slot.pumps \ {cur.arg}
      BY <3>1 DEF Slots
    <3>3. Pumped(s, swallowed.monitor)
      BY <3>1, <3>2 DEF Pumped
    <3>4. ResetCheckpointState(PutSlot(cur.key, s))
      BY <2>5 DEF HandleUnmonitor
    <3> HIDE DEF s
    <3> QED
      BY <1>p, <1>t, <2>1, <2>p, <3>1, <3>2, <3>3, <3>4, ResetPut
  <2>6. CASE HandleKickoff
    <3> DEFINE s == [Slot EXCEPT !.uncollected = @ \cup {cur.arg}]
    <3>1. cur.key \in DOMAIN runs /\ Slot \in Slots /\ Pumped(Slot, swallowed.monitor)
      BY <2>6, <2>s DEF HandleKickoff, NeedsRun
    <3>2. Pumped(s, swallowed.monitor)
      BY <3>1 DEF Slots, Pumped
    <3>3. runs' = PutSlot(cur.key, s)
      BY <2>6 DEF HandleKickoff
    <3> HIDE DEF s
    <3> QED
      BY <1>p, <2>1, <2>p, <3>1, <3>2, <3>3
  <2>7. CASE HandleCollect
    <3> DEFINE c == ComposeEvent(Slot, cur.arg)
               s == [c EXCEPT !.uncollected = @ \ {cur.arg}]
    <3>1. cur.key \in DOMAIN runs /\ Slot \in Slots /\ Pumped(Slot, swallowed.monitor) /\ cur.arg \in AllStreams
      BY <2>7, <2>s, CurArgs DEF HandleCollect, Begin, Handling, NeedsRun, Working, FlyerOps, AllStreams
    <3>2. c \in Slots /\ Pumped(c, swallowed.monitor)
      <4>1. c \in Slots /\ Keeps(Slot, c)
        BY <3>1, SlotOps, RegistryOps
      <4> QED
        BY <3>1, <4>1 DEF Keeps, Pumped
    <3>3. Pumped(s, swallowed.monitor)
      <4> HIDE DEF c
      <4> QED
        BY <3>2 DEF Slots, Pumped
    <3>4. runs' = PutSlot(cur.key, s)
      BY <2>7 DEF HandleCollect, SlotStep
    <3> HIDE DEF s
    <3> QED
      BY <1>p, <2>1, <2>p, <3>1, <3>3, <3>4
  <2>8. CASE RegistriesKept
    <3>1. AllPumped'
      BY <1>p, <2>1, <2>8 DEF RegistriesKept, Keeps, AllPumped, Pumped
    <3> QED
      BY <1>p, <2>1, <3>1
  <2> QED
    BY <1>1, <2>2, <2>3, <2>4, <2>5, <2>6, <2>7, <2>8, HandleRegistries
<1>2. CASE Loop
  <2>1. CASE EnterPause \/ OnResume \/ LeaveInterrupted
    BY <2>1, GateRegistries DEF MonitorsLive, Restored
  <2>2. CASE PullReplay \/ \E m \in Alphabet : PullPlan(m)
    BY <1>m, <2>2 DEF PullReplay, PullPlan, Pulling, boundVars, faultVars
  <2>3. CASE TakeInterrupt \/ ThrowError \/ PlanEnds
    <3>1. pc # "parked" /\ pc' # "parked" /\ (UNCHANGED <<runs, swallowed>> \/ runs' = NoRuns)
      BY <2>3 DEF TakeInterrupt, ThrowError, PlanEnds, Throw, NothingCatches, EndLoop, CloseAll, Pulling, faultVars
    <3>2. runs' = NoRuns => MonitorsLive'
      BY DEF NoRuns, MonitorsLive
    <3> QED
      BY <1>m, <3>1, <3>2
  <2> QED
    BY <1>2, <2>1, <2>2, <2>3 DEF Loop
<1>3. CASE Environment
  BY <1>3, <1>m, Requests
<1>4. CASE RunAsync \/ LoopTimeout
  BY <1>4, <1>m DEF RunAsync, LoopTimeout, boundVars, faultVars
<1>5. CASE Cleanup
  BY <1>5 DEF Cleanup, NoRuns, MonitorsLive
<1>6. CASE UNCHANGED vars
  BY <1>6, <1>m DEF vars, boundVars, faultVars
<1> QED
  BY <1>1, <1>2, <1>3, <1>4, <1>5, <1>6 DEF Next

(* Monitors come back on every way out of a pause, each of them whose own  *)
(* restart did not fail, and none runs during one (on_pause_enter,         *)
(* restore_monitors).                                                      *)
THEOREM MonitorsComeBack == ~HasLoopTimeout /\ Spec => []MonitorsLive
<1>1. Init => MonitorsLive
  BY DEF Init, MonitorsLive, NoRuns
<1>2. ~HasLoopTimeout => ~HasLoopTimeout'
  OBVIOUS
<1> QED
  BY <1>1, <1>2, LoopInit, LoopStep, RunInit, RunStep, FourWalksInit, FourWalksStep, MonitorsStep, PTL DEF Spec

-----------------------------------------------------------------------------
(* Flyer data: what a run has kicked off and not collected is on its list, *)
(* so that the end of the loop finds it.                                   *)

Listed ==
    /\ \A k \in DOMAIN runs, f \in Flyers : <<runs[k].uid, f>> \in unlanded => f \in runs[k].uncollected
    /\ \A u \in Nat, f \in Flyers : <<u, f>> \in unlanded => u <= uids

LEMMA ListedKept ==
    ASSUME RunInv, Listed, RegistriesKept, RunsMapped, unlanded' \subseteq unlanded
    PROVE  Listed'
BY DEF Listed, RegistriesKept, RunsMapped, Maps, Keeps

LEMMA ListedStep == LoopInv /\ RunInv /\ FourWalks /\ Listed /\ [Next]_vars => Listed'
<1> SUFFICES ASSUME LoopInv, RunInv, FourWalks, Listed, [Next]_vars PROVE Listed'
  OBVIOUS
<1>t. \A k \in DOMAIN runs : runs[k] \in Slots /\ runs[k].uid \in Nat
  BY DEF RunInv, Slots
<1>n. runs' = NoRuns /\ uids' = uids /\ unlanded' \subseteq unlanded => Listed'
  BY DEF NoRuns, Listed
<1>m. UNCHANGED <<runs, uids, unlanded>> => Listed'
  BY DEF Listed
<1>u. uids \in Nat
  BY DEF RunInv
<1>1. CASE Handle
  <2>1. CASE HandleOpenRun
    <3>1. /\ uids' = uids + 1 /\ unlanded' = unlanded
          /\ runs' = PutSlot(cur.key, NewSlot(uids + 1, Recording)) /\ NewSlot(uids + 1, Recording).uid = uids + 1
      BY <2>1 DEF HandleOpenRun, SlotStep, NewSlot
    <3>2. \A k \in DOMAIN runs' : runs'[k].uid = uids + 1 \/ (k \in DOMAIN runs /\ runs'[k] = runs[k])
      BY <3>1 DEF PutSlot
    <3>3. \A f \in Flyers : <<uids + 1, f>> \notin unlanded
      BY <1>u DEF Listed
    <3> QED
      BY <1>u, <3>1, <3>2, <3>3 DEF Listed
  <2>2. CASE HandleCloseRun
    BY <2>2 DEF HandleCloseRun, RemoveSlot, Listed
  <2>3. CASE HandleMonitor
    <3> DEFINE c == DeclareStream(Slot, cur.arg)
               s == [c EXCEPT !.monitored = @ \cup {cur.arg}, !.pumps = @ \cup {cur.arg}]
    <3>1. cur.key \in DOMAIN runs /\ Slot = runs[cur.key] /\ Slot \in Slots /\ cur.arg \in Devices /\ cur.arg \in AllStreams
      BY <1>t, <2>3, CurArgs DEF HandleMonitor, Begin, Handling, Illegal, IsOpen, NeedsRun, Slot, Working, DeviceOps, AllStreams
    <3>2. c \in Slots /\ Keeps(Slot, c)
      BY <3>1, SlotOps, RegistryOps
    <3>3. s \in Slots /\ s.uncollected = Slot.uncollected
      <4> HIDE DEF c
      <4> QED
        BY <3>1, <3>2 DEF Slots, Keeps
    <3>4. ResetCheckpointState(PutSlot(cur.key, s)) /\ unlanded' = unlanded
      BY <2>3 DEF HandleMonitor, docVars
    <3>5. RunsMapped
      BY <1>1, <2>3, HandleRuns DEF HandleMonitor, HandleOpenRun, HandleCloseRun, Begin, Handling
    <3> HIDE DEF s
    <3>6. \A k \in DOMAIN runs : runs'[k].uncollected = runs[k].uncollected
      BY <1>t, <3>1, <3>3, <3>4, ResetPut DEF Keeps
    <3> QED
      BY <3>4, <3>5, <3>6 DEF Listed, RunsMapped, Maps
  <2>4. CASE HandleUnmonitor
    <3> DEFINE s == [Slot EXCEPT !.monitored = @ \ {cur.arg}, !.pumps = @ \ {cur.arg}]
    <3>1. cur.key \in DOMAIN runs /\ Slot = runs[cur.key] /\ Slot \in Slots
      BY <1>t, <2>4 DEF HandleUnmonitor, Begin, Handling, Illegal, IsOpen, NeedsRun, Slot
    <3>3. s \in Slots /\ s.uncollected = Slot.uncollected
      BY <3>1 DEF Slots
    <3>4. ResetCheckpointState(PutSlot(cur.key, s)) /\ unlanded' = unlanded
      BY <2>4 DEF HandleUnmonitor, docVars
    <3>5. RunsMapped
      BY <1>1, <2>4, HandleRuns DEF HandleUnmonitor, HandleOpenRun, HandleCloseRun, Begin, Handling
    <3> HIDE DEF s
    <3>6. \A k \in DOMAIN runs : runs'[k].uncollected = runs[k].uncollected
      BY <1>t, <3>1, <3>3, <3>4, ResetPut DEF Keeps
    <3> QED
      BY <3>4, <3>5, <3>6 DEF Listed, RunsMapped, Maps
  <2>5. CASE HandleKickoff
    <3> DEFINE s == [Slot EXCEPT !.uncollected = @ \cup {cur.arg}]
    <3>1. cur.key \in DOMAIN runs /\ Slot = runs[cur.key] /\ Slot \in Slots
      BY <1>t, <2>5 DEF HandleKickoff, Begin, Handling, Illegal, IsOpen, NeedsRun, Slot
    <3>2. s.uid = Slot.uid /\ s.uncollected = Slot.uncollected \cup {cur.arg}
      BY <3>1 DEF Slots
    <3>3. runs' = PutSlot(cur.key, s) /\ unlanded' = unlanded \cup {<<Slot.uid, cur.arg>>} /\ uids' = uids
      BY <2>5 DEF HandleKickoff
    <3> HIDE DEF s
    <3>4. DOMAIN runs' = DOMAIN runs /\ runs'[cur.key] = s /\ \A k \in DOMAIN runs : k # cur.key => runs'[k] = runs[k]
      BY <3>1, <3>3 DEF PutSlot
    <3>5. ASSUME NEW k \in DOMAIN runs', NEW f \in Flyers, <<runs'[k].uid, f>> \in unlanded'
          PROVE  f \in runs'[k].uncollected
      <4>1. CASE k = cur.key
        BY <3>1, <3>2, <3>3, <3>4, <3>5, <4>1 DEF Listed
      <4>2. CASE k # cur.key
        <5>1. runs[k].uid # Slot.uid
          BY <3>1, <3>4, <4>2 DEF RunInv
        <5> QED
          BY <3>3, <3>4, <3>5, <4>2, <5>1 DEF Listed
      <4> QED
        BY <4>1, <4>2
    <3>6. \A u \in Nat, f \in Flyers : <<u, f>> \in unlanded' => u <= uids'
      BY <3>1, <3>3 DEF Listed, RunInv
    <3> QED
      BY <3>5, <3>6 DEF Listed
  <2>6. CASE HandleCollect
    <3> DEFINE c == ComposeEvent(Slot, cur.arg)
               s == [c EXCEPT !.uncollected = @ \ {cur.arg}]
    <3>1. cur.key \in DOMAIN runs /\ Slot = runs[cur.key] /\ Slot \in Slots /\ cur.arg \in AllStreams
      BY <1>t, <2>6, CurArgs DEF HandleCollect, Begin, Handling, Illegal, IsOpen, NeedsRun, Slot, Working, FlyerOps, AllStreams
    <3>2. c \in Slots /\ c.uid = Slot.uid /\ Keeps(Slot, c)
      BY <3>1, SlotOps, RegistryOps
    <3>3. s.uid = Slot.uid /\ s.uncollected = Slot.uncollected \ {cur.arg}
      <4> HIDE DEF c
      <4> QED
        BY <3>2 DEF Slots, Keeps
    <3>4. runs' = PutSlot(cur.key, s) /\ unlanded' = unlanded \ {<<Slot.uid, cur.arg>>} /\ uids' = uids
      BY <2>6 DEF HandleCollect, SlotStep
    <3> HIDE DEF s
    <3>5. DOMAIN runs' = DOMAIN runs /\ runs'[cur.key] = s /\ \A k \in DOMAIN runs : k # cur.key => runs'[k] = runs[k]
      BY <3>1, <3>4 DEF PutSlot
    <3> QED
      BY <3>1, <3>3, <3>4, <3>5 DEF Listed
  <2>7. CASE RegistriesKept /\ ~(HandleOpenRun \/ HandleCloseRun \/ HandleKickoff \/ HandleCollect)
    <3>1. RunsMapped /\ unlanded' = unlanded
      BY <1>1, <2>7, HandleRuns, HandleEvents DEF HandleSave
    <3> QED
      BY <2>7, <3>1, ListedKept
  <2> QED
    BY <1>1, <2>1, <2>2, <2>3, <2>4, <2>5, <2>6, <2>7, HandleRegistries
<1>2. CASE Loop
  <2>1. CASE EnterPause \/ OnResume \/ LeaveInterrupted
    <3>1. RunsMapped \/ (runs' = NoRuns /\ uids' = uids)
      BY <1>2, LoopRuns DEF RunsEnded, CloseAll
    <3>2. unlanded' = unlanded
      BY <2>1 DEF EnterPause, OnResume, LeaveInterrupted, docVars
    <3>3. RunsMapped => Listed'
      BY <2>1, <3>2, GateRegistries DEF Listed, RunsMapped, Maps
    <3> QED
      BY <1>n, <3>1, <3>2, <3>3
  <2>2. CASE PullReplay \/ \E m \in Alphabet : PullPlan(m)
    BY <1>m, <2>2 DEF PullReplay, PullPlan, docVars
  <2>3. CASE TakeInterrupt \/ ThrowError \/ PlanEnds
    <3>1. \/ UNCHANGED <<runs, uids, unlanded>>
          \/ runs' = NoRuns /\ uids' = uids /\ unlanded' \subseteq unlanded
      BY <2>3 DEF TakeInterrupt, ThrowError, PlanEnds, Throw, NothingCatches, EndLoop, CloseAll, BackstopCollect
    <3> QED
      BY <1>m, <1>n, <3>1
  <2> QED
    BY <1>2, <2>1, <2>2, <2>3 DEF Loop
<1>3. CASE Environment
  BY <1>3, <1>m, Requests
<1>4. CASE RunAsync \/ LoopTimeout
  BY <1>4, <1>m DEF RunAsync, LoopTimeout
<1>5. CASE Cleanup
  BY <1>5, <1>n DEF Cleanup, docVars
<1>6. CASE UNCHANGED vars
  BY <1>6, <1>m DEF vars, docVars
<1> QED
  BY <1>1, <1>2, <1>3, <1>4, <1>5, <1>6 DEF Next

(* The runs that the end of the loop closes have their flyer data: what    *)
(* was kicked off into them and not collected is drained before the        *)
(* RunStop, except what itself failed to be collected (drain_and_close,    *)
(* backstop_collect).                                                      *)
THEOREM BackstopIsDrained == ~HasLoopTimeout /\ Spec => BackstopDrains
<1>1. Init => Listed
  BY DEF Init, Listed, NoRuns
<1>2. ~HasLoopTimeout => ~HasLoopTimeout'
  OBVIOUS
<1>3. ASSUME ~HasLoopTimeout, LoopInv, RunInv, FourWalks, Listed, [Next]_vars, pc # "cleanup", pc' = "cleanup",
             NEW k \in DOMAIN runs, NEW f \in Flyers, <<runs[k].uid, f>> \in unlanded'
      PROVE  <<runs[k].uid, f>> \in swallowed'.collect
  <2>1. BackstopCollect
    <3>1. CASE Handle
      BY <1>3, <3>1, HandleLoop DEF HandlerEnds, HandlerWaits, WaitCutShort, Done
    <3>2. CASE Loop
      BY <1>3, <3>2 DEF Loop, EnterPause, OnResume, LeaveInterrupted, PullReplay, PullPlan, TakeInterrupt, ThrowError,
         PlanEnds, Throw, NothingCatches, EndLoop
    <3>3. CASE Environment
      BY <1>3, <3>3, Requests
    <3>4. CASE RunAsync \/ LoopTimeout \/ Cleanup \/ UNCHANGED vars
      BY <1>3, <3>4 DEF RunAsync, LoopTimeout, Cleanup, vars
    <3> QED
      BY <1>3, <3>1, <3>2, <3>3, <3>4 DEF Next
  <2>2. PICK lost \in Failing(Uncollected) :
            unlanded' = unlanded \ Collected(lost) /\ swallowed' = [swallowed EXCEPT !.collect = lost]
    BY <2>1 DEF BackstopCollect
  <2>3. f \in runs[k].uncollected
    BY <1>3, <2>2 DEF Listed
  <2>4. <<runs[k].uid, f>> \in Uncollected
    BY <2>3 DEF Uncollected
  <2> QED
    BY <1>3, <2>2, <2>4 DEF Collected, FourWalks
<1>4. ~HasLoopTimeout /\ LoopInv /\ RunInv /\ FourWalks /\ Listed /\ [Next]_vars
      => [pc # "cleanup" /\ pc' = "cleanup"
             => \A k \in DOMAIN runs, f \in Flyers :
                    <<runs[k].uid, f>> \in unlanded' => <<runs[k].uid, f>> \in swallowed'.collect]_vars
  BY <1>3
<1> QED
  BY <1>1, <1>2, <1>4, LoopInit, LoopStep, RunInit, RunStep, FourWalksInit, FourWalksStep, ListedStep, PTL DEF Spec, BackstopDrains

-----------------------------------------------------------------------------
(* The objects: what moves was touched, and so is stopped by the walks at  *)
(* a pause and at the end, unless it has no stop or its stop failed.       *)

ObjInv ==
    /\ waitOn \subseteq Devices /\ group \subseteq Devices
    /\ staged \subseteq Devices /\ devStaged \subseteq Devices
    /\ touched \subseteq Objects /\ moving \subseteq Objects
    /\ moving \subseteq touched \cup Unstoppable \cup swallowed.stop
    /\ regions \in Nat
    /\ exit \in {"none", "success", "abort", "halt", "fail", "timeout"}
    /\ pc \in {"parked", "idle"} => moving \subseteq Unstoppable \cup swallowed.stop

LEMMA ObjectsKept ==
    ASSUME ObjInv, UNCHANGED <<staged, devStaged, touched, group, exit>>, waitOn' \in {waitOn, {}},
           moving' \subseteq moving, regions' \in Nat, swallowed'.stop = swallowed.stop,
           pc' \in {"parked", "idle"} => moving' \subseteq Unstoppable \cup swallowed.stop
    PROVE  ObjInv'
BY DEF ObjInv, Objects

LEMMA HandleObjects ==
    ASSUME LoopInv, ObjInv, Handle
    PROVE  ObjInv'
<1> USE DEF loopVars, objVars, docVars
<1>0. pc \in Working /\ pc' \notin {"parked", "idle"} /\ swallowed' = swallowed
  BY HandleLoop, HandleFaults DEF HandlerEnds, HandlerWaits, WaitCutShort, Done, Working
<1>r. regions \in Nat
  BY DEF ObjInv
<1>k. UNCHANGED <<staged, devStaged, touched, moving, group, exit>> /\ waitOn' \in {waitOn, {}} /\ regions' \in Nat
      => ObjInv'
  BY <1>0, ObjectsKept
<1>1. CASE Rejected \/ DeviceFails \/ HandleOpenRun \/ HandleCreate \/ HandleSave \/ SaveFails \/ HandleDrop
           \/ HandleDeclareStream \/ HandleCollect \/ HandleCloseRun
  BY <1>1, <1>r, <1>k DEF Rejected, DeviceFails, HandleOpenRun, HandleCreate, HandleSave, SaveFails, HandleDrop,
     HandleDeclareStream, HandleCollect, HandleCloseRun, SlotStep
<1>2. CASE HandleRead
  BY <1>2, <1>r, <1>k DEF HandleRead, SlotStep
<1>3. CASE HandleMonitor \/ HandleUnmonitor \/ HandleHook \/ HandleCheckpoint \/ HandleClearCheckpoint
           \/ HandleSleep \/ HandlePause
  BY <1>3, <1>r, <1>k DEF HandleMonitor, HandleUnmonitor, HandleHook, HandleCheckpoint, HandleClearCheckpoint,
     HandleSleep, HandlePause
<1>4. CASE HandleRewindable(TRUE) \/ HandleRewindable(FALSE)
  BY <1>4, <1>r, <1>k DEF HandleRewindable
<1>5. CASE HandlePushContingency \/ HandlePopContingency
  <2>1. regions' \in Nat
    BY <1>5, <1>r DEF HandlePushContingency, HandlePopContingency
  <2> QED
    BY <1>5, <1>k, <2>1 DEF HandlePushContingency, HandlePopContingency
<1>6. CASE HandleKickoff \/ HandleSet \/ HandleMove
  <2>1. cur.arg \in Objects
    BY <1>0, <1>6, CurArgs DEF HandleKickoff, HandleSet, HandleMove, Begin, Handling, DeviceOps, FlyerOps, Objects
  <2>2. HandleSet \/ HandleMove => cur.arg \in Devices
    BY <1>0, CurArgs DEF HandleSet, HandleMove, Begin, Handling, DeviceOps
  <2> QED
    BY <1>0, <1>6, <2>1, <2>2 DEF HandleKickoff, HandleSet, HandleMove, ObjInv
<1>7. CASE HandleStage \/ StageDone \/ HandleUnstage
  <2>1. cur.arg \in Devices
    BY <1>0, <1>7, CurArgs DEF HandleStage, StageDone, HandleUnstage, Begin, Handling, DeviceOps, LoopInv
  <2> QED
    BY <1>0, <1>7, <2>1 DEF HandleStage, StageDone, HandleUnstage, ObjInv
<1>8. CASE HandleWait \/ WaitMovesOn
  BY <1>0, <1>8 DEF HandleWait, WaitMovesOn, ObjInv
<1>9. CASE WaitDone \/ WaitFails \/ WaitCutShort
  BY <1>9, <1>r, <1>k DEF WaitDone, WaitFails, WaitCutShort
<1> QED
  BY <1>1, <1>2, <1>3, <1>4, <1>5, <1>6, <1>7, <1>8, <1>9 DEF Handle

(* The stop walk leaves in motion what it cannot stop or failed to stop.   *)
LEMMA StopWalk ==
    ASSUME FourWalks, ObjInv, NEW stuck \in Failing(Stopping), moving' = StillMoving(stuck),
           swallowed'.stop = StopsSwallowed(stuck)
    PROVE  moving' \subseteq moving /\ moving' \subseteq Unstoppable \cup swallowed'.stop
BY DEF ObjInv, StillMoving, Stopping, StopsSwallowed

LEMMA ObjStep == LoopInv /\ FourWalks /\ ObjInv /\ [Next]_vars => ObjInv'
<1> SUFFICES ASSUME LoopInv, FourWalks, ObjInv, [Next]_vars PROVE ObjInv'
  OBVIOUS
<1> USE DEF loopVars, objVars, docVars
<1>r. regions \in Nat
  BY DEF ObjInv
<1>1. CASE Handle
  BY <1>1, HandleObjects
<1>2. CASE Loop
  <2>1. CASE EnterPause
    <3>1. PICK stuck \in Failing(Stopping) :
              moving' = StillMoving(stuck) /\ swallowed' = [swallowed EXCEPT !.stop = StopsSwallowed(stuck)]
      BY <2>1 DEF EnterPause
    <3>2. moving' \subseteq moving /\ moving' \subseteq Unstoppable \cup swallowed'.stop
      BY <3>1, StopWalk DEF FourWalks
    <3> QED
      BY <1>r, <2>1, <3>2 DEF EnterPause, ObjInv
  <2>2. CASE OnResume \/ LeaveInterrupted
    <3>1. PICK dead : swallowed' = [swallowed EXCEPT !.monitor = dead]
      BY <2>2 DEF OnResume, LeaveInterrupted, RestoreWalk
    <3>2. swallowed'.stop = swallowed.stop
      BY <3>1 DEF FourWalks
    <3> QED
      BY <1>r, <2>2, <3>2, ObjectsKept DEF OnResume, LeaveInterrupted
  <2>4. CASE PullReplay \/ \E m \in Alphabet : PullPlan(m)
    BY <1>r, <2>4, ObjectsKept DEF PullReplay, PullPlan, boundVars, faultVars
  <2>3. CASE TakeInterrupt \/ ThrowError \/ PlanEnds
    <3>1. /\ UNCHANGED <<staged, devStaged, touched, moving, group, regions>> /\ waitOn' \in {waitOn, {}}
          /\ pc' \in {"top", "cleanup"}
      BY <2>3 DEF TakeInterrupt, ThrowError, PlanEnds, Throw, NothingCatches, EndLoop
    <3>2. exit' \in {exit, "success", "abort", "halt", "fail"}
      BY <2>3 DEF TakeInterrupt, ThrowError, PlanEnds, Throw, NothingCatches, EndLoop
    <3>3. swallowed'.stop = swallowed.stop
      <4>1. swallowed' = swallowed \/ \E lost : swallowed' = [swallowed EXCEPT !.collect = lost]
        BY <2>3 DEF TakeInterrupt, ThrowError, PlanEnds, Throw, NothingCatches, EndLoop, BackstopCollect, faultVars
      <4> QED
        BY <4>1 DEF FourWalks
    <3> QED
      BY <3>1, <3>2, <3>3 DEF ObjInv
  <2> QED
    BY <1>2, <2>1, <2>2, <2>3, <2>4 DEF Loop
<1>3. CASE Environment
  <2>1. moving' \subseteq moving
    BY <1>3, Zenon DEF Environment, RequestPause, Resume, RequestInterrupt, Arrive
  <2>2. pc' \in {"parked", "idle"} => moving' \subseteq Unstoppable \cup swallowed.stop
    BY <1>3, <2>1, Requests DEF ObjInv
  <2> QED
    BY <1>3, <1>r, <2>1, <2>2, Requests, ObjectsKept
<1>4. CASE RunAsync \/ LoopTimeout
  BY <1>4 DEF RunAsync, LoopTimeout, ObjInv, boundVars, faultVars
<1>5. CASE Cleanup
  <2>1. PICK stuck \in Failing(Stopping), kept \in Failing(staged) :
            /\ moving' = StillMoving(stuck) /\ devStaged' = StillStaged(stuck, kept)
            /\ swallowed' = [swallowed EXCEPT !.stop = StopsSwallowed(stuck), !.unstage = (@ \ staged) \cup kept]
    BY <1>5 DEF Cleanup
  <2>2. moving' \subseteq moving /\ moving' \subseteq Unstoppable \cup swallowed'.stop
    BY <2>1, StopWalk DEF FourWalks
  <2>3. devStaged' \subseteq Devices
    BY <2>1 DEF StillStaged, ObjInv
  <2> QED
    BY <1>5, <2>2, <2>3 DEF Cleanup, ObjInv
<1>6. CASE UNCHANGED vars
  BY <1>6 DEF vars, ObjInv, boundVars, faultVars
<1> QED
  BY <1>1, <1>2, <1>3, <1>4, <1>5, <1>6 DEF Next

LEMMA ObjInit == Init => ObjInv
BY DEF Init, ObjInv

(* What the walks write down are objects they walked over, and each of     *)
(* them counts at most one failure.                                        *)
Journals == [monitor : SUBSET (Uids \X Devices), stop : SUBSET Objects,
             unstage : SUBSET Devices, collect : SUBSET (Uids \X Flyers)]
FaultInv == swallowed \in Journals /\ failures \in 0..MaxFailures

LEMMA WalkCounts ==
    ASSUME FaultInv, NEW W, NEW S \in Failing(W), CountFailure(S)
    PROVE  failures' \in 0..MaxFailures
<1>1. CASE S = {}
  BY <1>1 DEF FaultInv, CountFailure
<1>2. CASE S # {}
  <2>1. failures < MaxFailures /\ failures' = failures + 1
    BY <1>2 DEF Failing, CountFailure
  <2> QED
    BY <2>1, EngineAssumption DEF FaultInv
<1> QED
  BY <1>1, <1>2

LEMMA FaultStep == LoopInv /\ RunInv /\ ObjInv /\ FaultInv /\ [Next]_vars => FaultInv'
<1> SUFFICES ASSUME LoopInv, RunInv, ObjInv, FaultInv, [Next]_vars PROVE FaultInv'
  OBVIOUS
<1>u. \A k \in DOMAIN runs : runs[k].uid \in Uids /\ runs[k].monitored \subseteq Devices /\ runs[k].uncollected \subseteq Flyers
  BY EngineAssumption DEF LoopInv, RunInv, Slots, Uids
<1>m. UNCHANGED <<failures, swallowed>> => FaultInv'
  BY DEF FaultInv
<1>1. CASE Handle
  <2>1. swallowed' = swallowed /\ failures' \in 0..MaxFailures
    BY <1>1, HandleFaults, EngineAssumption DEF FaultInv
  <2> QED
    BY <2>1 DEF FaultInv
<1>2. CASE Loop
  <2>1. CASE EnterPause
    <3>1. PICK stuck \in Failing(Stopping) :
              swallowed' = [swallowed EXCEPT !.stop = StopsSwallowed(stuck)] /\ CountFailure(stuck)
      BY <2>1 DEF EnterPause
    <3>2. StopsSwallowed(stuck) \subseteq Objects
      BY DEF Failing, Stopping, StopsSwallowed, ObjInv, FaultInv, Journals
    <3>3. swallowed' \in Journals
      BY <3>1, <3>2 DEF FaultInv, Journals
    <3> QED
      BY <3>1, <3>3, WalkCounts DEF FaultInv
  <2>2. CASE OnResume \/ LeaveInterrupted
    <3>1. PICK dead \in Failing(Registrations) : RestoreWalk(dead)
      BY <2>2 DEF OnResume, LeaveInterrupted
    <3>2. dead \subseteq Uids \X Devices
      BY <1>u DEF Failing, Registrations
    <3>3. swallowed' \in Journals
      BY <3>1, <3>2 DEF RestoreWalk, FaultInv, Journals
    <3> QED
      BY <3>1, <3>3, WalkCounts DEF FaultInv, RestoreWalk
  <2>3. CASE BackstopCollect
    <3>1. PICK lost \in Failing(Uncollected) : swallowed' = [swallowed EXCEPT !.collect = lost] /\ CountFailure(lost)
      BY <2>3 DEF BackstopCollect
    <3>2. lost \subseteq Uids \X Flyers
      BY <1>u DEF Failing, Uncollected
    <3>3. swallowed' \in Journals
      BY <3>1, <3>2 DEF FaultInv, Journals
    <3> QED
      BY <3>1, <3>3, WalkCounts DEF FaultInv
  <2> QED
    BY <1>2, <1>m, <2>1, <2>2, <2>3, LoopFaults DEF faultVars
<1>3. CASE Environment
  BY <1>3, <1>m, Requests
<1>4. CASE RunAsync \/ LoopTimeout
  BY <1>4, <1>m DEF RunAsync, LoopTimeout, boundVars, faultVars
<1>5. CASE Cleanup
  <2>1. PICK stuck \in Failing(Stopping), kept \in Failing(staged) :
            /\ swallowed' = [swallowed EXCEPT !.stop = StopsSwallowed(stuck), !.unstage = (@ \ staged) \cup kept]
            /\ CountFailure(stuck \cup kept)
    BY <1>5 DEF Cleanup
  <2>2. StopsSwallowed(stuck) \subseteq Objects /\ (swallowed.unstage \ staged) \cup kept \subseteq Devices
    BY DEF Failing, Stopping, StopsSwallowed, ObjInv, FaultInv, Journals
  <2>3. swallowed' \in Journals
    BY <2>1, <2>2 DEF FaultInv, Journals
  <2>4. stuck \cup kept \in Failing(Stopping \cup staged)
    BY DEF Failing
  <2> QED
    BY <2>1, <2>3, <2>4, WalkCounts DEF FaultInv
<1>6. CASE UNCHANGED vars
  BY <1>6, <1>m DEF vars, boundVars, faultVars
<1> QED
  BY <1>1, <1>2, <1>3, <1>4, <1>5, <1>6 DEF Next

LEMMA FaultInit == Init => FaultInv
BY EngineAssumption DEF Init, FaultInv, Journals, NoneSwallowed

(* Every variable of the engine has its type, and every open run a uid of  *)
(* its own.                                                                *)
THEOREM TypeCorrect == Spec => []TypeOK
<1>1. LoopInv /\ RunInv /\ ObjInv /\ FaultInv => TypeOK
  BY DEF LoopInv, RunInv, ObjInv, FaultInv, Journals, TypeOK, Slots
<1> QED
  BY <1>1, LoopInit, LoopStep, RunInit, RunStep, FourWalksInit, FourWalksStep, ObjInit, ObjStep, FaultInit, FaultStep,
     PTL DEF Spec

(* A device that is staged is tracked, or is being staged, or failed to be *)
(* unstaged at the end of an earlier call: only the loop timeout can drop  *)
(* run_loop in between.                                                    *)
Tracked ==
    /\ devStaged \subseteq staged \cup swallowed.unstage \cup (IF pc = "staging" THEN {cur.arg} ELSE {})
    /\ pc = "idle" => devStaged \subseteq swallowed.unstage

LEMMA TrackedKept ==
    ASSUME Tracked, UNCHANGED <<staged, devStaged>>, swallowed'.unstage = swallowed.unstage, pc # "staging",
           pc' = "idle" => pc = "idle"
    PROVE  Tracked'
BY DEF Tracked

LEMMA TrackedStep == ~HasLoopTimeout /\ LoopInv /\ FourWalks /\ Tracked /\ [Next]_vars => Tracked'
<1> SUFFICES ASSUME ~HasLoopTimeout, LoopInv, FourWalks, Tracked, [Next]_vars PROVE Tracked'
  OBVIOUS
<1> USE DEF loopVars, objVars, docVars
<1>1. CASE Handle
  <2>0. pc' # "idle" /\ swallowed' = swallowed
    BY <1>1, HandleLoop, HandleFaults DEF HandlerEnds, HandlerWaits, WaitCutShort, Done
  <2>k. UNCHANGED <<staged, devStaged>> /\ pc # "staging" => Tracked'
    BY <2>0, TrackedKept
  <2>1. CASE Rejected \/ DeviceFails \/ HandleOpenRun \/ HandleCreate \/ HandleSave \/ SaveFails \/ HandleDrop
             \/ HandleDeclareStream \/ HandleCollect \/ HandleCloseRun \/ HandleKickoff
    BY <2>1, <2>k DEF Rejected, DeviceFails, HandleOpenRun, HandleCreate, HandleSave, SaveFails, HandleDrop,
       HandleDeclareStream, HandleCollect, HandleCloseRun, HandleKickoff, SlotStep, Begin, Handling
  <2>2. CASE HandleRead
    BY <2>2, <2>k DEF HandleRead, SlotStep, Begin, Handling
  <2>3. CASE HandleMonitor \/ HandleUnmonitor \/ HandleHook \/ HandleCheckpoint \/ HandleClearCheckpoint
             \/ HandlePause \/ HandlePushContingency \/ HandlePopContingency
    BY <2>3, <2>k DEF HandleMonitor, HandleUnmonitor, HandleHook, HandleCheckpoint, HandleClearCheckpoint,
       HandlePause, HandlePushContingency, HandlePopContingency, Begin, Handling
  <2>4. CASE HandleRewindable(TRUE) \/ HandleRewindable(FALSE)
    BY <2>4, <2>k DEF HandleRewindable, Begin, Handling
  <2>5. CASE HandleStage
    BY <2>0, <2>5 DEF HandleStage, Begin, Handling, Tracked
  <2>6. CASE StageDone
    BY <2>0, <2>6 DEF StageDone, Done, Tracked
  <2>7. CASE HandleUnstage
    BY <2>0, <2>7 DEF HandleUnstage, Begin, Handling, Done, Tracked
  <2>8. CASE HandleSet \/ HandleMove \/ HandleWait \/ HandleSleep \/ WaitDone \/ WaitFails \/ WaitMovesOn \/ WaitCutShort
    BY <2>8, <2>k DEF HandleSet, HandleMove, HandleWait, HandleSleep, WaitDone, WaitFails, WaitMovesOn,
       WaitCutShort, Begin, Handling
  <2> QED
    BY <1>1, <2>1, <2>2, <2>3, <2>4, <2>5, <2>6, <2>7, <2>8 DEF Handle
<1>2. CASE Loop
  <2>1. CASE EnterPause \/ OnResume \/ LeaveInterrupted \/ PullReplay \/ \E m \in Alphabet : PullPlan(m)
    <3>1. \/ swallowed' = swallowed
          \/ \E x : swallowed' = [swallowed EXCEPT !.stop = x]
          \/ \E x : swallowed' = [swallowed EXCEPT !.monitor = x]
      BY <2>1 DEF EnterPause, OnResume, LeaveInterrupted, RestoreWalk, PullReplay, PullPlan, boundVars, faultVars
    <3>2. swallowed'.unstage = swallowed.unstage
      BY <3>1 DEF FourWalks
    <3> QED
      BY <2>1, <3>2, TrackedKept DEF EnterPause, OnResume, LeaveInterrupted, PullReplay, PullPlan, Pulling
  <2>2. CASE TakeInterrupt \/ ThrowError \/ PlanEnds
    <3>1. swallowed' = swallowed \/ \E x : swallowed' = [swallowed EXCEPT !.collect = x]
      BY <2>2 DEF TakeInterrupt, ThrowError, PlanEnds, Throw, NothingCatches, EndLoop, BackstopCollect, faultVars
    <3>2. swallowed'.unstage = swallowed.unstage
      BY <3>1 DEF FourWalks
    <3> QED
      BY <2>2, <3>2, TrackedKept DEF TakeInterrupt, ThrowError, PlanEnds, Throw, NothingCatches, EndLoop, Pulling
  <2> QED
    BY <1>2, <2>1, <2>2 DEF Loop
<1>3. CASE Environment
  BY <1>3, Requests DEF Tracked
<1>4. CASE RunAsync \/ LoopTimeout
  <2>1. swallowed' = swallowed
    BY <1>4 DEF RunAsync, LoopTimeout, boundVars, faultVars
  <2> QED
    BY <1>4, <2>1, TrackedKept DEF RunAsync, LoopTimeout
<1>5. CASE Cleanup
  <2>1. PICK stuck \in Failing(Stopping), kept \in Failing(staged) :
            /\ devStaged' = StillStaged(stuck, kept)
            /\ swallowed' = [swallowed EXCEPT !.stop = StopsSwallowed(stuck), !.unstage = (@ \ staged) \cup kept]
    BY <1>5 DEF Cleanup
  <2>2. swallowed'.unstage = (swallowed.unstage \ staged) \cup kept
    BY <2>1 DEF FourWalks
  <2>3. devStaged' \subseteq swallowed'.unstage
    BY <1>5, <2>1, <2>2 DEF Cleanup, StillStaged, Tracked
  <2> QED
    BY <1>5, <2>3 DEF Cleanup, Tracked
<1>6. CASE UNCHANGED vars
  BY <1>6 DEF vars, Tracked, boundVars, faultVars
<1> QED
  BY <1>1, <1>2, <1>3, <1>4, <1>5, <1>6 DEF Next

(* Whatever a plan set in motion is at rest while the loop is parked and   *)
(* after the run, and whatever it staged is unstaged after the run,        *)
(* however it ended, but for what has no stop and for what itself failed   *)
(* to stop or to unstage (on_pause_enter, the walk at the end of           *)
(* run_async).                                                             *)
THEOREM AtRest == ~HasLoopTimeout /\ Spec => []QuietAtRest
<1>1. Init => Tracked
  BY DEF Init, Tracked
<1>2. ~HasLoopTimeout => ~HasLoopTimeout'
  OBVIOUS
<1>3. ObjInv /\ Tracked => QuietAtRest
  BY DEF ObjInv, Tracked, QuietAtRest
<1> QED
  BY <1>1, <1>2, <1>3, LoopInit, LoopStep, FourWalksInit, FourWalksStep, ObjInit, ObjStep, TrackedStep, PTL DEF Spec

-----------------------------------------------------------------------------
(* Sequence numbers.  Every number up to a run's counter, and up to the    *)
(* counter a rewind would return to, has been emitted.  A save that fails  *)
(* after its event was composed leaves a gap: it shows if a contingency    *)
(* region goes on with the run, or if a flyer writes to the same stream.   *)

NoGapShown ==
    \/ MaxFailures = 0
    \/ (\A m \in Alphabet : m.op # "push") /\ Streams \cap Flyers = {}

Emitted(E, u, n, c) ==
    \A i \in 1..c : \E e \in E : e.run = u /\ e.stream = n /\ e.seq = i

Filled(E, s, N) ==
    /\ \A n \in N : Emitted(E, s.uid, n, s.seq[n])
    /\ s.snap # NoSnapshot => \A n \in N : Emitted(E, s.uid, n, s.snap[n])

(* After a save that failed nothing but the end of the run follows, and    *)
(* that emits events of flyers only.                                       *)
SeqInv ==
    /\ DenseSeq
    /\ MaxFailures = 0 \/ pc \notin {"failed", "cleanup"} => \A k \in DOMAIN runs : Filled(events, runs[k], AllStreams)
    /\ pc = "failed" => \A k \in DOMAIN runs : Filled(events, runs[k], Flyers)
    /\ MaxFailures = 0 \/ regions = 0
    /\ failures \in Nat

SameCounters(s, t) ==
    /\ t.uid = s.uid /\ t.seq = s.seq
    /\ t.snap \in {s.snap, s.seq, NoSnapshot}

CountersKept == DOMAIN runs' = DOMAIN runs /\ \A k \in DOMAIN runs : SameCounters(runs[k], runs'[k])

LEMMA CounterOps ==
    ASSUME NEW s \in Slots
    PROVE  /\ \A n : SameCounters(s, Create(s, n)) /\ SameCounters(s, AddRead(s, n)) /\ SameCounters(s, DeclareStream(s, n))
           /\ SameCounters(s, DropBundle(s)) /\ SameCounters(s, ResetCheckpoint(s)) /\ SameCounters(s, ClearSnapshot(s))
<1> USE DEF SameCounters, Slots
<1>1. ASSUME NEW n
      PROVE  SameCounters(s, Create(s, n)) /\ SameCounters(s, AddRead(s, n)) /\ SameCounters(s, DeclareStream(s, n))
  BY DEF Create, AddRead, DeclareStream
<1>2. SameCounters(s, DropBundle(s)) /\ SameCounters(s, ResetCheckpoint(s)) /\ SameCounters(s, ClearSnapshot(s))
  BY DEF DropBundle, ResetCheckpoint, ClearSnapshot
<1> QED
  BY <1>1, <1>2

LEMMA ResetCounters ==
    ASSUME \A k \in DOMAIN runs : runs[k] \in Slots, cur.key \in DOMAIN runs, NEW s \in Slots,
           SameCounters(Slot, s), s.snap = Slot.snap, ResetCheckpointState(PutSlot(cur.key, s))
    PROVE  CountersKept
<1>1. DOMAIN PutSlot(cur.key, s) = DOMAIN runs
      /\ \A k \in DOMAIN runs : PutSlot(cur.key, s)[k] = IF k = cur.key THEN s ELSE runs[k]
  BY DEF PutSlot
<1>2. DOMAIN runs' = DOMAIN runs /\ \A k \in DOMAIN runs : runs'[k] = ResetCheckpoint(PutSlot(cur.key, s)[k])
  BY <1>1 DEF ResetCheckpointState
<1>3. SameCounters(s, ResetCheckpoint(s)) /\ \A k \in DOMAIN runs : SameCounters(runs[k], ResetCheckpoint(runs[k]))
  BY CounterOps
<1> QED
  BY <1>1, <1>2, <1>3 DEF CountersKept, SameCounters, Slot

LEMMA HandleCounters ==
    ASSUME LoopInv, RunInv, Handle
    PROVE  \/ CountersKept
           \/ HandleOpenRun \/ HandleCloseRun \/ HandleSave \/ SaveFails \/ HandleCollect
<1>t. \A k \in DOMAIN runs : runs[k] \in Slots
  BY DEF RunInv
<1>m. runs' = runs => CountersKept
  BY DEF CountersKept, SameCounters
<1>o. ASSUME NEW op \in NeedsRun, Begin(op) PROVE cur.key \in DOMAIN runs /\ Slot \in Slots
  BY <1>o, <1>t DEF Begin, Handling, Illegal, IsOpen, Slot
<1>p. ASSUME cur.key \in DOMAIN runs, NEW s, SameCounters(Slot, s), runs' = PutSlot(cur.key, s)
      PROVE  CountersKept
  BY <1>p DEF Slot, PutSlot, CountersKept, SameCounters
<1>r. ResetCheckpointState(runs) => CountersKept
  BY <1>t, CounterOps DEF ResetCheckpointState, CountersKept
<1>1. CASE Rejected \/ DeviceFails \/ HandleStage
  BY <1>1, <1>m DEF Rejected, DeviceFails, HandleStage
<1>2. CASE HandleCreate
  BY <1>2, <1>o, <1>p, CounterOps DEF HandleCreate, SlotStep, NeedsRun
<1>3. CASE HandleRead
  <2>1. IsOpen(cur.key) => cur.key \in DOMAIN runs /\ Slot \in Slots
    BY <1>t DEF IsOpen, Slot
  <2> QED
    BY <1>3, <1>m, <1>p, <2>1, CounterOps DEF HandleRead, SlotStep
<1>4. CASE HandleDrop
  BY <1>4, <1>o, <1>p, CounterOps DEF HandleDrop, SlotStep, NeedsRun
<1>5. CASE HandleDeclareStream
  BY <1>5, <1>o, <1>p, CounterOps DEF HandleDeclareStream, SlotStep, NeedsRun
<1>6. CASE HandleKickoff
  <2> DEFINE s == [Slot EXCEPT !.uncollected = @ \cup {cur.arg}]
  <2>1. cur.key \in DOMAIN runs /\ Slot \in Slots /\ runs' = PutSlot(cur.key, s)
    BY <1>6, <1>o DEF HandleKickoff, NeedsRun
  <2>2. SameCounters(Slot, s)
    BY <2>1 DEF Slots, SameCounters
  <2> QED
    BY <1>p, <2>1, <2>2
<1>7. CASE HandleMonitor
  <2> DEFINE c == DeclareStream(Slot, cur.arg)
             s == [c EXCEPT !.monitored = @ \cup {cur.arg}, !.pumps = @ \cup {cur.arg}]
  <2>1. cur.key \in DOMAIN runs /\ Slot \in Slots
    BY <1>7, <1>o DEF HandleMonitor, NeedsRun
  <2>2. cur.arg \in Devices /\ cur.arg \in AllStreams
    BY <1>7, CurArgs DEF HandleMonitor, Begin, Handling, Working, DeviceOps, AllStreams
  <2>3. c \in Slots /\ SameCounters(Slot, c) /\ c.snap = Slot.snap
    <3>1. c \in Slots /\ SameCounters(Slot, c)
      BY <2>1, <2>2, SlotOps, CounterOps
    <3>2. c.snap = Slot.snap
      BY <2>1 DEF DeclareStream, Slots
    <3> QED
      BY <3>1, <3>2
  <2>4. s \in Slots /\ SameCounters(Slot, s) /\ s.snap = Slot.snap
    <3> HIDE DEF c
    <3> QED
      BY <2>2, <2>3 DEF Slots, SameCounters
  <2>5. ResetCheckpointState(PutSlot(cur.key, s))
    BY <1>7 DEF HandleMonitor
  <2> HIDE DEF s
  <2> QED
    BY <1>t, <2>1, <2>4, <2>5, ResetCounters
<1>8. CASE HandleUnmonitor
  <2> DEFINE s == [Slot EXCEPT !.monitored = @ \ {cur.arg}, !.pumps = @ \ {cur.arg}]
  <2>1. cur.key \in DOMAIN runs /\ Slot \in Slots
    BY <1>8, <1>o DEF HandleUnmonitor, NeedsRun
  <2>2. s \in Slots /\ SameCounters(Slot, s) /\ s.snap = Slot.snap
    BY <2>1 DEF Slots, SameCounters
  <2>3. ResetCheckpointState(PutSlot(cur.key, s))
    BY <1>8 DEF HandleUnmonitor
  <2> HIDE DEF s
  <2> QED
    BY <1>t, <2>1, <2>2, <2>3, ResetCounters
<1>9. CASE StageDone \/ HandleUnstage \/ HandleHook \/ HandleCheckpoint
  BY <1>9, <1>r DEF StageDone, HandleUnstage, HandleHook, HandleCheckpoint
<1>10. CASE HandleClearCheckpoint
  BY <1>10, <1>t, CounterOps DEF HandleClearCheckpoint, CountersKept
<1>11. CASE HandleRewindable(TRUE) \/ HandleRewindable(FALSE)
  BY <1>11, <1>r, <1>m DEF HandleRewindable
<1>12. CASE HandleSet \/ HandleMove \/ HandleWait \/ HandleSleep
  BY <1>12, <1>m DEF HandleSet, HandleMove, HandleWait, HandleSleep
<1>13. CASE WaitDone \/ WaitFails \/ WaitMovesOn \/ WaitCutShort
  BY <1>13, <1>m DEF WaitDone, WaitFails, WaitMovesOn, WaitCutShort
<1>14. CASE HandlePause \/ HandlePushContingency \/ HandlePopContingency
  BY <1>14, <1>m DEF HandlePause, HandlePushContingency, HandlePopContingency
<1> QED
  BY <1>1, <1>2, <1>3, <1>4, <1>5, <1>6, <1>7, <1>8, <1>9, <1>10, <1>11, <1>12, <1>13, <1>14 DEF Handle

LEMMA FilledSame ==
    ASSUME NEW s, NEW t, NEW E, NEW F, NEW N, SameCounters(s, t), Filled(E, s, N), E \subseteq F
    PROVE  Filled(F, t, N)
BY DEF SameCounters, Filled, Emitted

(* t is s with one more event of stream n. *)
Counted(s, t, n) == t.uid = s.uid /\ t.seq = [s.seq EXCEPT ![n] = @ + 1] /\ t.snap = s.snap

EventIn(E, s, n) == \E e \in E : e.run = s.uid /\ e.stream = n /\ e.seq = s.seq[n] + 1

LEMMA EmittedNext ==
    ASSUME NEW E, NEW F, NEW u, NEW n, NEW c \in Nat, Emitted(E, u, n, c), E \subseteq F,
           \E e \in F : e.run = u /\ e.stream = n /\ e.seq = c + 1
    PROVE  Emitted(F, u, n, c + 1)
<1> SUFFICES ASSUME NEW i \in 1..(c + 1) PROVE \E e \in F : e.run = u /\ e.stream = n /\ e.seq = i
  BY DEF Emitted
<1>1. CASE i = c + 1
  BY <1>1
<1>2. CASE i \in 1..c
  BY <1>2 DEF Emitted
<1> QED
  BY <1>1, <1>2

LEMMA FilledEvent ==
    ASSUME NEW s \in Slots, NEW t, NEW n \in AllStreams, NEW E, NEW F, E \subseteq F,
           Filled(E, s, AllStreams), Counted(s, t, n), EventIn(F, s, n)
    PROVE  Filled(F, t, AllStreams)
<1>1. s.seq \in [AllStreams -> Nat]
  BY DEF Slots
<1>2. ASSUME NEW m \in AllStreams PROVE Emitted(F, t.uid, m, t.seq[m])
  <2>1. CASE m = n
    <3>1. s.seq[n] \in Nat /\ t.seq[m] = s.seq[n] + 1 /\ t.uid = s.uid
      BY <1>1, <2>1 DEF Counted
    <3>2. Emitted(E, s.uid, n, s.seq[n])
      BY DEF Filled
    <3>3. \E e \in F : e.run = s.uid /\ e.stream = n /\ e.seq = s.seq[n] + 1
      BY DEF EventIn
    <3>4. Emitted(F, s.uid, n, s.seq[n] + 1)
      BY <3>1, <3>2, <3>3, EmittedNext
    <3> QED
      BY <2>1, <3>1, <3>4
  <2>2. CASE m # n
    BY <1>1, <2>2 DEF Counted, Filled, Emitted
  <2> QED
    BY <2>1, <2>2
<1>3. t.snap # NoSnapshot => \A m \in AllStreams : Emitted(F, t.uid, m, t.snap[m])
  BY DEF Counted, Filled, Emitted
<1> QED
  BY <1>2, <1>3 DEF Filled

LEMMA FilledOther ==
    ASSUME NEW s \in Slots, NEW t, NEW n, NEW N, N \subseteq AllStreams, n \notin N, NEW E,
           Filled(E, s, N), Counted(s, t, n)
    PROVE  Filled(E, t, N)
<1>1. s.seq \in [AllStreams -> Nat]
  BY DEF Slots
<1>2. \A m \in N : t.seq[m] = s.seq[m]
  BY <1>1 DEF Counted
<1> QED
  BY <1>2 DEF Counted, Filled

(* A new event follows one of the number before it. *)
LEMMA DenseGrows ==
    ASSUME DenseSeq, events \subseteq events',
           \A e \in events' \ events : \E s \in Slots, n \in AllStreams :
               e.run = s.uid /\ e.stream = n /\ e.seq = s.seq[n] + 1 /\ Emitted(events, s.uid, n, s.seq[n])
    PROVE  DenseSeq'
<1> SUFFICES ASSUME NEW e \in events', e.seq > 1
             PROVE  \E f \in events' : f.run = e.run /\ f.stream = e.stream /\ f.seq = e.seq - 1
  BY DEF DenseSeq
<1>1. CASE e \in events
  BY <1>1 DEF DenseSeq
<1>2. CASE e \notin events
  <2>1. PICK s \in Slots, n \in AllStreams :
          e.run = s.uid /\ e.stream = n /\ e.seq = s.seq[n] + 1 /\ Emitted(events, s.uid, n, s.seq[n])
    BY <1>2
  <2>2. s.seq[n] \in Nat
    BY DEF Slots
  <2>3. s.seq[n] \in 1..s.seq[n]
    BY <2>1, <2>2
  <2>4. PICK f \in events : f.run = s.uid /\ f.stream = n /\ f.seq = s.seq[n]
    BY <2>1, <2>3 DEF Emitted
  <2> QED
    BY <2>1, <2>2, <2>4
<1> QED
  BY <1>1, <1>2

LEMMA ComposeCounts ==
    ASSUME NEW s \in Slots, NEW n \in AllStreams
    PROVE  /\ Counted(s, ComposeEvent(s, n), n)
           /\ Counted(s, DropBundle(ComposeEvent(s, n)), n)
           /\ \A U : Counted(s, [ComposeEvent(s, n) EXCEPT !.uncollected = U], n)
BY DEF ComposeEvent, DropBundle, Counted, Slots

LEMMA RecordedFilled ==
    ASSUME NEW rs, NEW what, rs \in [DOMAIN rs -> Slots], \A k \in DOMAIN rs : Filled(events, rs[k], AllStreams),
           DenseSeq, events' = events \cup RecordingOf(rs, what)
    PROVE  DenseSeq' /\ \A k \in DOMAIN rs : Filled(events', Recorded(rs)[k], AllStreams)
<1>i. Interruptions \in AllStreams
  BY DEF AllStreams
<1>1. ASSUME NEW e \in events' \ events
      PROVE  \E s \in Slots, n \in AllStreams :
               e.run = s.uid /\ e.stream = n /\ e.seq = s.seq[n] + 1 /\ Emitted(events, s.uid, n, s.seq[n])
  <2>1. PICK k \in DOMAIN rs : e = EventOf(rs[k], Interruptions, <<what, pauses>>)
    BY DEF RecordingOf
  <2>2. rs[k] \in Slots /\ Emitted(events, rs[k].uid, Interruptions, rs[k].seq[Interruptions])
    BY <1>i DEF Filled
  <2> QED
    BY <1>i, <2>1, <2>2 DEF EventOf
<1>2. ASSUME NEW k \in DOMAIN rs PROVE Filled(events', Recorded(rs)[k], AllStreams)
  <2>1. rs[k] \in Slots /\ Filled(events, rs[k], AllStreams) /\ events \subseteq events'
    OBVIOUS
  <2>2. CASE Interruptions \in rs[k].declared
    <3>1. Recorded(rs)[k] = ComposeEvent(rs[k], Interruptions)
      BY <2>2 DEF Recorded
    <3>2. EventIn(events', rs[k], Interruptions)
      <4>1. EventOf(rs[k], Interruptions, <<what, pauses>>) \in events'
        BY <2>2 DEF RecordingOf
      <4> QED
        BY <4>1 DEF EventIn, EventOf
    <3>3. Counted(rs[k], ComposeEvent(rs[k], Interruptions), Interruptions)
      BY <1>i, <2>1, ComposeCounts
    <3> QED
      BY <1>i, <2>1, <3>1, <3>2, <3>3, FilledEvent
  <2>3. CASE Interruptions \notin rs[k].declared
    <3>1. Recorded(rs)[k] = rs[k] /\ SameCounters(rs[k], rs[k])
      BY <2>3 DEF Recorded, SameCounters
    <3> QED
      BY <2>1, <3>1, FilledSame
  <2> QED
    BY <2>2, <2>3
<1> QED
  BY <1>1, <1>2, DenseGrows

LEMMA GateSeq ==
    ASSUME RunInv, SeqInv, EnterPause \/ OnResume \/ LeaveInterrupted
    PROVE  DenseSeq' /\ \A k \in DOMAIN runs' : Filled(events', runs'[k], AllStreams)
<1>0. pc \notin {"failed", "cleanup"}
  BY DEF EnterPause, OnResume, LeaveInterrupted
<1>t. \A k \in DOMAIN runs : runs[k] \in Slots /\ Filled(events, runs[k], AllStreams)
  BY <1>0 DEF RunInv, SeqInv
<1>1. CASE EnterPause
  <2> DEFINE quiet == [k \in DOMAIN runs |-> [runs[k] EXCEPT !.pumps = {}]]
  <2>1. DOMAIN quiet = DOMAIN runs
    OBVIOUS
  <2>2. ASSUME NEW k \in DOMAIN runs PROVE quiet[k] \in Slots /\ Filled(events, quiet[k], AllStreams)
    <3>1. quiet[k] \in Slots /\ SameCounters(runs[k], quiet[k])
      BY <1>t DEF Slots, SameCounters
    <3> HIDE DEF quiet
    <3> QED
      BY <1>t, <3>1, FilledSame
  <2>3. quiet \in [DOMAIN quiet -> Slots] /\ \A k \in DOMAIN quiet : Filled(events, quiet[k], AllStreams)
    BY <2>2
  <2>4. runs' = Recorded(quiet) /\ events' = events \cup RecordingOf(quiet, "pause")
    BY <1>1 DEF EnterPause
  <2> HIDE DEF quiet
  <2>5. DenseSeq
    BY DEF SeqInv
  <2> QED
    BY <2>1, <2>3, <2>4, <2>5, RecordedFilled, RecordedKeeps
<1>r. ASSUME NEW rs, NEW dead, DOMAIN rs = DOMAIN runs,
             \A k \in DOMAIN runs : rs[k] \in Slots /\ Filled(events, rs[k], AllStreams)
      PROVE  /\ DOMAIN RestoreMonitors(rs, dead) = DOMAIN runs /\ RestoreMonitors(rs, dead) \in [DOMAIN runs -> Slots]
             /\ \A k \in DOMAIN runs : Filled(events, RestoreMonitors(rs, dead)[k], AllStreams)
  <2>1. ASSUME NEW k \in DOMAIN runs PROVE RestoreMonitors(rs, dead)[k] \in Slots /\ SameCounters(rs[k], RestoreMonitors(rs, dead)[k])
    BY <1>r DEF RestoreMonitors, Slots, SameCounters
  <2>2. \A k \in DOMAIN runs : Filled(events, RestoreMonitors(rs, dead)[k], AllStreams)
    BY <1>r, <2>1, FilledSame
  <2> QED
    BY <1>r, <2>1, <2>2 DEF RestoreMonitors
<1>2. CASE OnResume
  <2> DEFINE rewound == [k \in DOMAIN runs |-> IF cache = <<>> THEN runs[k] ELSE Rewind(runs[k])]
  <2>d. PICK dead \in Failing(Registrations) :
            /\ runs' = Recorded(RestoreMonitors(rewound, dead))
            /\ events' = events \cup RecordingOf(RestoreMonitors(rewound, dead), "resume")
    BY <1>2 DEF OnResume
  <2> DEFINE restored == RestoreMonitors(rewound, dead)
  <2>1. ASSUME NEW k \in DOMAIN runs PROVE Rewind(runs[k]) \in Slots /\ Filled(events, Rewind(runs[k]), AllStreams)
    <3>1. /\ runs[k] \in Slots /\ Rewind(runs[k]) \in Slots /\ Rewind(runs[k]).uid = runs[k].uid
          /\ Filled(events, runs[k], AllStreams)
      BY <1>t, SlotOps
    <3>2. /\ Rewind(runs[k]).snap = runs[k].snap
          /\ Rewind(runs[k]).seq = IF runs[k].snap = NoSnapshot THEN runs[k].seq ELSE runs[k].snap
      BY <3>1 DEF Rewind, Slots
    <3> QED
      BY <3>1, <3>2 DEF Filled
  <2>2. DOMAIN rewound = DOMAIN runs /\ \A k \in DOMAIN runs : rewound[k] \in Slots /\ Filled(events, rewound[k], AllStreams)
    BY <1>t, <2>1
  <2>3. runs' = Recorded(restored) /\ events' = events \cup RecordingOf(restored, "resume")
    BY <2>d
  <2> HIDE DEF rewound
  <2>4. /\ DOMAIN restored = DOMAIN runs /\ restored \in [DOMAIN runs -> Slots]
        /\ \A k \in DOMAIN runs : Filled(events, restored[k], AllStreams)
    BY <1>r, <2>2
  <2> HIDE DEF restored
  <2>5. DenseSeq
    BY DEF SeqInv
  <2> QED
    BY <2>3, <2>4, <2>5, RecordedFilled, RecordedKeeps
<1>3. CASE LeaveInterrupted
  <2>1. PICK dead \in Failing(Registrations) : runs' = RestoreMonitors(runs, dead) /\ events' = events
    BY <1>3 DEF LeaveInterrupted, docVars
  <2>2. DenseSeq'
    BY <2>1 DEF SeqInv, DenseSeq
  <2> QED
    BY <1>r, <1>t, <2>1, <2>2
<1> QED
  BY <1>1, <1>2, <1>3

(* The end of the loop: the flyers' streams are filled, and these are the  *)
(* ones it writes to.                                                      *)
LEMMA BackstopSeq ==
    ASSUME RunInv, SeqInv, pc # "cleanup", BackstopCollect
    PROVE  DenseSeq'
<1>1. \A k \in DOMAIN runs : Filled(events, runs[k], Flyers)
  BY DEF SeqInv, Filled, AllStreams
<1>2. ASSUME NEW e \in events' \ events
      PROVE  \E s \in Slots, n \in AllStreams :
               e.run = s.uid /\ e.stream = n /\ e.seq = s.seq[n] + 1 /\ Emitted(events, s.uid, n, s.seq[n])
  <2>0. PICK k \in DOMAIN runs : \E f \in runs[k].uncollected : e = EventOf(runs[k], f, <<"backstop", 0>>)
    BY BackstopEvents
  <2>1. PICK f \in runs[k].uncollected : e = EventOf(runs[k], f, <<"backstop", 0>>)
    BY <2>0
  <2>2. runs[k] \in Slots /\ f \in Flyers /\ f \in AllStreams
    BY DEF RunInv, Slots, AllStreams
  <2>3. Emitted(events, runs[k].uid, f, runs[k].seq[f])
    BY <1>1, <2>2 DEF Filled
  <2> QED
    BY <2>1, <2>2, <2>3 DEF EventOf
<1>3. events \subseteq events' /\ DenseSeq
  BY DEF BackstopCollect, SeqInv
<1> QED
  BY <1>2, <1>3, DenseGrows

LEMMA EmitSeq ==
    ASSUME RunInv, SeqInv, pc \in Working, cur.key \in DOMAIN runs, NEW t, NEW n \in AllStreams, NEW p,
           runs' = PutSlot(cur.key, t), Counted(Slot, t, n), events' = events \cup {EventOf(Slot, n, p)}
    PROVE  DenseSeq' /\ \A k \in DOMAIN runs' : Filled(events', runs'[k], AllStreams)
<1>t. \A k \in DOMAIN runs : runs[k] \in Slots /\ Filled(events, runs[k], AllStreams)
  BY DEF RunInv, SeqInv, Working
<1>1. Slot \in Slots /\ Filled(events, Slot, AllStreams)
  BY <1>t DEF Slot
<1>2. EventIn(events', Slot, n)
  <2>1. EventOf(Slot, n, p) \in events'
    OBVIOUS
  <2> QED
    BY <2>1 DEF EventIn, EventOf
<1>3. Filled(events', t, AllStreams)
  BY <1>1, <1>2, FilledEvent
<1>4. DOMAIN runs' = DOMAIN runs /\ \A k \in DOMAIN runs : runs'[k] = IF k = cur.key THEN t ELSE runs[k]
  BY DEF PutSlot
<1>5. ASSUME NEW k \in DOMAIN runs PROVE Filled(events', runs'[k], AllStreams)
  <2>1. SameCounters(runs[k], runs[k])
    BY DEF SameCounters
  <2>2. Filled(events', runs[k], AllStreams)
    BY <1>t, <2>1, FilledSame
  <2> QED
    BY <1>3, <1>4, <2>2
<1>6. Emitted(events, Slot.uid, n, Slot.seq[n])
  BY <1>1 DEF Filled
<1>7. DenseSeq'
  <2>1. \A e \in events' \ events : \E s \in Slots, m \in AllStreams :
           e.run = s.uid /\ e.stream = m /\ e.seq = s.seq[m] + 1 /\ Emitted(events, s.uid, m, s.seq[m])
    BY <1>1, <1>6 DEF EventOf
  <2> QED
    BY <2>1, DenseGrows DEF SeqInv
<1> QED
  BY <1>4, <1>5, <1>7

LEMMA HandleSeq ==
    ASSUME NoGapShown, LoopInv, RunInv, SeqInv, Handle
    PROVE  SeqInv'
<1>0. pc \in Working /\ pc \notin {"failed", "cleanup"}
  BY HandleLoop DEF HandlerEnds, HandlerWaits, WaitCutShort, Working
<1>t. \A k \in DOMAIN runs : runs[k] \in Slots /\ Filled(events, runs[k], AllStreams)
  BY <1>0 DEF RunInv, SeqInv
<1>f. failures' \in Nat
  BY HandleFaults DEF SeqInv
<1>g. MaxFailures = 0 \/ regions' = 0
  <2>1. CASE HandlePushContingency
    <3>1. PICK m \in Alphabet : cur.op = m.op
      BY <1>0 DEF LoopInv, Messages
    <3> QED
      BY <2>1, <3>1 DEF NoGapShown, HandlePushContingency, Begin, Handling
  <2>2. CASE HandlePopContingency
    BY <2>2 DEF HandlePopContingency, SeqInv
  <2>3. CASE ~HandlePushContingency /\ ~HandlePopContingency
    <3>1. regions' = regions
      BY <2>3 DEF Handle, Rejected, DeviceFails, HandleOpenRun, HandleCloseRun, HandleCreate, HandleRead, HandleSave, SaveFails,
         HandleDrop, HandleDeclareStream, HandleKickoff, HandleCollect, HandleMonitor, HandleUnmonitor, HandleStage,
         StageDone, HandleUnstage, HandleHook, HandleCheckpoint, HandleClearCheckpoint, HandleRewindable, HandleSet,
         HandleMove, HandleWait, HandleSleep, WaitDone, WaitFails, WaitMovesOn, WaitCutShort, HandlePause, SlotStep
    <3> QED
      BY <3>1 DEF SeqInv
  <2> QED
    BY <2>1, <2>2, <2>3
<1>q. DenseSeq' /\ (\A k \in DOMAIN runs' : Filled(events', runs'[k], AllStreams)) => SeqInv'
  BY <1>f, <1>g DEF SeqInv, Filled, AllStreams
<1>d. UNCHANGED events => DenseSeq'
  BY DEF SeqInv, DenseSeq
<1>1. CASE HandleOpenRun
  <2>1. runs' = PutSlot(cur.key, NewSlot(uids + 1, Recording)) /\ events' = events
    BY <1>1 DEF HandleOpenRun, SlotStep
  <2>2. Filled(events, NewSlot(uids + 1, Recording), AllStreams)
    BY DEF NewSlot, Filled, Emitted
  <2>3. \A k \in DOMAIN runs' : runs'[k] = NewSlot(uids + 1, Recording) \/ (k \in DOMAIN runs /\ runs'[k] = runs[k])
    BY <2>1 DEF PutSlot
  <2>4. \A k \in DOMAIN runs' : Filled(events, runs'[k], AllStreams)
    BY <1>t, <2>2, <2>3
  <2> QED
    BY <1>q, <1>d, <2>1, <2>4
<1>2. CASE HandleCloseRun
  <2>1. \A k \in DOMAIN runs' : k \in DOMAIN runs /\ runs'[k] = runs[k]
    BY <1>2 DEF HandleCloseRun, RemoveSlot
  <2>2. events' = events
    BY <1>2 DEF HandleCloseRun
  <2> QED
    BY <1>q, <1>d, <1>t, <2>1, <2>2
<1>3. CASE HandleCollect
  <2> DEFINE s == [ComposeEvent(Slot, cur.arg) EXCEPT !.uncollected = @ \ {cur.arg}]
  <2>1. cur.key \in DOMAIN runs /\ Slot \in Slots /\ cur.arg \in AllStreams
    BY <1>0, <1>3, <1>t, CurArgs DEF HandleCollect, Begin, Handling, Illegal, IsOpen, NeedsRun, Slot, FlyerOps, AllStreams
  <2>2. runs' = PutSlot(cur.key, s) /\ events' = events \cup {EventOf(Slot, cur.arg, <<"collect", cur.id>>)}
    BY <1>3 DEF HandleCollect, SlotStep
  <2>3. Counted(Slot, s, cur.arg)
    BY <2>1, ComposeCounts
  <2> HIDE DEF s
  <2> QED
    BY <1>0, <1>q, <2>1, <2>2, <2>3, EmitSeq
<1>s. ASSUME HandleSave \/ SaveFails
      PROVE  cur.key \in DOMAIN runs /\ Slot \in Slots /\ Slot.open.stream \in AllStreams
             /\ Slot.open.stream \in Streams \cup {Interruptions} /\ Slot = runs[cur.key]
  <2>1. cur.key \in DOMAIN runs /\ Slot \in Slots /\ Slot = runs[cur.key]
    BY <1>s, <1>t DEF HandleSave, SaveFails, Begin, Handling, Illegal, IsOpen, NeedsRun, Slot
  <2> QED
    BY <2>1 DEF Slots, Bundles, AllStreams
<1>4. CASE HandleSave /\ HasEvent(Slot)
  <2> DEFINE s == DropBundle(ComposeEvent(Slot, Slot.open.stream))
  <2>1. runs' = PutSlot(cur.key, s) /\ events' = events \cup {EventOf(Slot, Slot.open.stream, <<"save", cur.id>>)}
    BY <1>4 DEF HandleSave, SlotStep, Save
  <2>2. Counted(Slot, s, Slot.open.stream)
    BY <1>4, <1>s, ComposeCounts
  <2> HIDE DEF s
  <2> QED
    BY <1>0, <1>4, <1>q, <1>s, <2>1, <2>2, EmitSeq
<1>k. CountersKept /\ UNCHANGED events => SeqInv'
  <2> SUFFICES ASSUME CountersKept, UNCHANGED events, NEW k \in DOMAIN runs PROVE Filled(events, runs'[k], AllStreams)
    BY <1>q, <1>d DEF CountersKept
  <2> QED
    BY <1>t, FilledSame DEF CountersKept
<1>5. CASE HandleSave /\ ~HasEvent(Slot)
  <2>1. runs' = PutSlot(cur.key, DropBundle(Slot)) /\ events' = events
    BY <1>5 DEF HandleSave, SlotStep, Save
  <2>2. SameCounters(Slot, DropBundle(Slot)) /\ cur.key \in DOMAIN runs /\ Slot = runs[cur.key]
    BY <1>5, <1>s, CounterOps
  <2>3. CountersKept
    BY <2>1, <2>2 DEF CountersKept, PutSlot, SameCounters
  <2> QED
    BY <1>k, <2>1, <2>3
<1>6. CASE SaveFails
  <2> DEFINE s == DropBundle(ComposeEvent(Slot, Slot.open.stream))
  <2>1. runs' = PutSlot(cur.key, s) /\ events' = events /\ pc' = "failed" /\ failures < MaxFailures
    BY <1>6 DEF SaveFails, Save, docVars
  <2>2. Counted(Slot, s, Slot.open.stream)
    BY <1>6, <1>s, ComposeCounts
  <2> HIDE DEF s
  <2>3. MaxFailures # 0
    BY <2>1, EngineAssumption DEF SeqInv
  <2>4. Slot.open.stream \notin Flyers
    BY <1>6, <1>s, <2>3, EngineAssumption DEF NoGapShown
  <2>5. Filled(events, s, Flyers)
    <3>1. Filled(events, Slot, Flyers) /\ Flyers \subseteq AllStreams
      BY <1>6, <1>s, <1>t DEF Filled, AllStreams
    <3> QED
      BY <1>6, <1>s, <2>2, <2>4, <3>1, FilledOther
  <2>6. DOMAIN runs' = DOMAIN runs /\ \A k \in DOMAIN runs : runs'[k] = IF k = cur.key THEN s ELSE runs[k]
    BY <1>6, <1>s, <2>1 DEF PutSlot
  <2>7. \A k \in DOMAIN runs : Filled(events, runs[k], Flyers)
    BY <1>t DEF Filled, AllStreams
  <2>8. \A k \in DOMAIN runs' : Filled(events', runs'[k], Flyers)
    BY <2>1, <2>5, <2>6, <2>7
  <2> QED
    BY <1>d, <1>f, <1>g, <2>1, <2>3, <2>8 DEF SeqInv
<1>7. CASE CountersKept /\ ~HandleSave /\ ~HandleCollect
  <2>1. UNCHANGED events
    BY <1>7, HandleEvents DEF HandleKickoff
  <2> QED
    BY <1>7, <1>k, <2>1
<1> QED
  BY <1>1, <1>2, <1>3, <1>4, <1>5, <1>6, <1>7, HandleCounters

LEMMA SeqStep == NoGapShown /\ LoopInv /\ RunInv /\ SeqInv /\ [Next]_vars => SeqInv'
<1> SUFFICES ASSUME NoGapShown, LoopInv, RunInv, SeqInv, [Next]_vars PROVE SeqInv'
  OBVIOUS
<1> USE DEF boundVars, faultVars, docVars
<1>m. /\ UNCHANGED <<runs, events, regions, failures>>
      /\ pc' = pc \/ pc' = "cleanup" \/ (pc \notin {"failed", "cleanup"} /\ pc' # "failed")
      => SeqInv'
  <2> SUFFICES ASSUME UNCHANGED <<runs, events, regions, failures>>,
                      pc' = pc \/ pc' = "cleanup" \/ (pc \notin {"failed", "cleanup"} /\ pc' # "failed")
               PROVE  SeqInv'
    OBVIOUS
  <2>1. DenseSeq' /\ (MaxFailures = 0 \/ regions' = 0) /\ failures' \in Nat
    BY DEF SeqInv, DenseSeq
  <2>2. pc' = "failed" => \A k \in DOMAIN runs : Filled(events, runs[k], Flyers)
    BY DEF SeqInv
  <2>3. MaxFailures = 0 \/ pc' \notin {"failed", "cleanup"} => \A k \in DOMAIN runs : Filled(events, runs[k], AllStreams)
    BY DEF SeqInv
  <2> QED
    BY <2>1, <2>2, <2>3 DEF SeqInv
<1>n. runs' = NoRuns /\ DenseSeq' /\ regions' \in {regions, 0} /\ failures' \in Nat => SeqInv'
  BY DEF SeqInv, NoRuns
<1>c. ASSUME NEW S, CountFailure(S) PROVE failures' \in Nat
  BY <1>c DEF CountFailure, SeqInv
<1>1. CASE Handle
  BY <1>1, HandleSeq
<1>2. CASE Loop
  <2>1. CASE EnterPause \/ OnResume \/ LeaveInterrupted
    <3>1. pc' \notin {"failed", "cleanup"} /\ UNCHANGED regions /\ \E S : CountFailure(S)
      BY <2>1 DEF EnterPause, OnResume, LeaveInterrupted, RestoreWalk
    <3>2. DenseSeq' /\ \A k \in DOMAIN runs' : Filled(events', runs'[k], AllStreams)
      BY <2>1, GateSeq
    <3> QED
      BY <1>c, <3>1, <3>2 DEF SeqInv
  <2>2. CASE PullReplay \/ \E m \in Alphabet : PullPlan(m)
    BY <1>m, <2>2 DEF PullReplay, PullPlan, Pulling
  <2>3. CASE TakeInterrupt \/ ThrowError \/ PlanEnds
    <3>1. UNCHANGED regions /\ pc # "cleanup"
      BY <2>3 DEF TakeInterrupt, ThrowError, PlanEnds, Pulling
    <3>2. \/ BackstopCollect /\ runs' = NoRuns
          \/ Throw
      BY <2>3 DEF TakeInterrupt, ThrowError, PlanEnds, NothingCatches, EndLoop, CloseAll
    <3>3. CASE BackstopCollect /\ runs' = NoRuns
      <4>1. failures' \in Nat
        BY <1>c, <3>3 DEF BackstopCollect
      <4> QED
        BY <1>n, <3>1, <3>3, <4>1, BackstopSeq
    <3>4. CASE Throw
      <4>1. MaxFailures = 0 /\ UNCHANGED <<runs, events, failures>> /\ pc' = "top"
        BY <3>4, EngineAssumption DEF Throw, SeqInv
      <4>2. DenseSeq' /\ \A k \in DOMAIN runs' : Filled(events', runs'[k], AllStreams)
        BY <4>1 DEF SeqInv, DenseSeq
      <4> QED
        BY <3>1, <4>1, <4>2 DEF SeqInv
    <3> QED
      BY <3>2, <3>3, <3>4
  <2> QED
    BY <1>2, <2>1, <2>2, <2>3 DEF Loop
<1>3. CASE Environment
  <2>1. failures' = failures
    BY <1>3, Zenon DEF Environment, RequestPause, Resume, RequestInterrupt, Arrive
  <2> QED
    BY <1>3, <1>m, <2>1, Requests
<1>4. CASE RunAsync \/ LoopTimeout
  BY <1>4, <1>m DEF RunAsync, LoopTimeout
<1>5. CASE Cleanup
  <2>1. DenseSeq' /\ failures' \in Nat
    BY <1>5, <1>c DEF Cleanup, SeqInv, DenseSeq
  <2> QED
    BY <1>5, <1>n, <2>1 DEF Cleanup
<1>6. CASE UNCHANGED vars
  BY <1>6, <1>m DEF vars
<1> QED
  BY <1>1, <1>2, <1>3, <1>4, <1>5, <1>6 DEF Next

(* The sequence numbers of a stream leave no gap, although rewinds move    *)
(* its counter back and a replay repeats numbers (RunBundle::event,        *)
(* rewind, reset_checkpoint_state).                                        *)
THEOREM NumbersAreDense == NoGapShown /\ Spec => []DenseSeq
<1>1. Init => SeqInv
  BY DEF Init, SeqInv, DenseSeq, NoRuns
<1>2. NoGapShown => NoGapShown'
  BY DEF NoGapShown
<1>3. SeqInv => DenseSeq
  BY DEF SeqInv
<1> QED
  BY <1>1, <1>2, <1>3, LoopInit, LoopStep, RunInit, RunStep, SeqStep, PTL DEF Spec

-----------------------------------------------------------------------------
(* What a number stands for.  A rewind takes the counters of a stream back *)
(* to the checkpoint and the messages since are worked through again: the  *)
(* same saves must come to the same numbers.  It holds for one pause, when *)
(* no region goes on in the middle of a replay, and flyers have streams of *)
(* their own.                                                              *)

OneRewind ==
    /\ MaxPauses <= 1
    /\ \A m \in Alphabet : m.op # "push"
    /\ Streams \cap Flyers = {}

(* What a message that is not refused makes of the open bundle b of run k, *)
(* and whether it takes a number of stream n.                              *)
Worked(m, k, b) ==
    CASE m.op = "create" /\ m.key = k -> [stream |-> m.arg, objs |-> {}]
      [] m.op = "read" /\ m.key = k /\ b # NoBundle -> [b EXCEPT !.objs = @ \cup {m.arg}]
      [] m.op \in {"save", "drop"} /\ m.key = k -> NoBundle
      [] OTHER -> b
IsPoint(m, k, b, n) == m.op = "save" /\ m.key = k /\ b.stream = n /\ b.objs # {}

(* Run k works through the first L messages of q: its bundle and the       *)
(* counters of its streams after each of them, from place 0 on.            *)
Works(o, c, q, L, k) ==
    /\ \A i \in 1..L : o[i] = Worked(q[i], k, o[i - 1])
    /\ \A n \in Streams : \A i \in 0..L : c[i][n] \in Nat
    /\ \A n \in Streams : \A i \in 1..L :
          c[i][n] = IF IsPoint(q[i], k, o[i - 1], n) THEN c[i - 1][n] + 1 ELSE c[i - 1][n]
    /\ \A n \in Streams : \A i, j \in 0..L : i <= j => c[i][n] <= c[j][n]

(* The events of a run beyond some counters; each is the point of a save.  *)
Beyond(E, u, s) == {e \in E : e.run = u /\ e.stream \in Streams /\ e.seq > s[e.stream]}
Named(E, o, c, q, L, k) ==
    \A e \in E : \E i \in 1..L :
        /\ IsPoint(q[i], k, o[i - 1], e.stream)
        /\ e.seq = c[i - 1][e.stream] + 1 /\ e.point = <<"save", q[i].id>>

(* A bundle that is ended before any is begun was begun before the         *)
(* checkpoint: the rewind cancels it, and the message that ends it is then *)
(* refused.                                                                *)
Turns(m, k) == m.key = k /\ m.op \in {"create", "save", "drop"}
Torn(q, L, k) ==
    \E j \in 1..L : /\ q[j].key = k /\ q[j].op \in {"save", "drop"}
                    /\ \A i \in 1..(j - 1) : ~Turns(q[i], k)

(* At most one pause is asked for; once it is over no rewind is to come.   *)
PauseInv ==
    /\ pauses \in 0..1
    /\ pauses = 0 => ~pauseReq /\ ~deferred /\ pc # "parked"
    /\ ~(pauseReq /\ deferred) /\ (pc = "parked" => ~pauseReq /\ ~deferred)
Resumed == pauses = 1 /\ ~pauseReq /\ ~deferred /\ pc # "parked"
Live == pc \in {"top", "parked", "handle", "staging", "waiting"}
Caught(k) == Beyond(events, runs[k].uid, runs[k].seq) = {}

(* Before the rewind no event is beyond the counters, and the part of the  *)
(* cache that has been handled leads from the checkpoint to what is now.   *)
InHand == pc = "handle" /\ rewindable /\ cur.op \notin Uncacheable
Seen == IF InHand THEN Len(cache) - 1 ELSE Len(cache)
Leads(k, o, c) ==
    /\ Works(o, c, cache, Seen, k)
    /\ \A n \in Streams : c[0][n] = runs[k].snap[n] /\ c[Seen][n] = runs[k].seq[n]
    /\ o[Seen] = runs[k].open
    /\ Named(Beyond(events, runs[k].uid, runs[k].snap), o, c, cache, Seen, k)
    /\ \/ o[0] = NoBundle \/ Torn(cache, Seen, k)
       \/ runs[k].open # NoBundle /\ \A i \in 1..Seen : ~Turns(cache[i], k)
BeforeInv ==
    /\ replay = <<>> /\ (~rewindable => cache = <<>>)
    /\ InHand => Len(cache) > 0 /\ cache[Len(cache)] = cur
    /\ Live => \A k \in DOMAIN runs :
          /\ Caught(k)
          /\ rewindable /\ runs[k].snap # NoSnapshot => \E o, c : Leads(k, o, c)

(* After it the events beyond the counters are points of the saves still   *)
(* to be redone, at the numbers these will take; or the run is about to    *)
(* fail at the end of a bundle that the rewind cancelled.                  *)
Todo == IF pc = "handle" THEN <<cur>> \o replay ELSE replay
Redoes(k, o, c) ==
    /\ Works(o, c, Todo, Len(Todo), k)
    /\ o[0] = runs[k].open /\ \A n \in Streams : c[0][n] = runs[k].seq[n]
    /\ Named(Beyond(events, runs[k].uid, runs[k].seq), o, c, Todo, Len(Todo), k)
Ahead(k) ==
    \/ Caught(k)
    \/ runs[k].open = NoBundle /\ Torn(Todo, Len(Todo), k)
    \/ \E o, c : Redoes(k, o, c)
AfterInv == Live => \A k \in DOMAIN runs : Ahead(k)

Dated == \A e \in events : e.run \in 1..uids /\ e.seq \in Nat
RewindInv ==
    /\ SeqNamesPoint /\ Dated
    /\ regions = 0 /\ (pc = "idle" => runs = NoRuns)
    /\ PauseInv
    /\ IF Resumed THEN AfterInv ELSE BeforeInv

LEMMA WorksOn ==
    ASSUME NEW o, NEW c, NEW q, NEW r, NEW L \in Nat, NEW k, Works(o, c, q, L, k), \A i \in 1..L : r[i] = q[i]
    PROVE  Works(o, c, r, L, k)
BY DEF Works

(* o2 and c2 go on from o and c, one message further in q or, from the     *)
(* second message on, in r.                                                *)
Further(o, c, o2, c2, q, L, k) == Works(o2, c2, q, L + 1, k) /\ \A i \in 0..L : o2[i] = o[i] /\ c2[i] = c[i]
Later(o, c, o2, c2, r, L, k) == Works(o2, c2, r, L, k) /\ \A i \in 0..L : o2[i] = o[i + 1] /\ c2[i] = c[i + 1]

LEMMA WorksNext ==
    ASSUME NEW o, NEW c, NEW q, NEW L \in Nat, NEW k, Works(o, c, q, L, k)
    PROVE  \E o2, c2 : Further(o, c, o2, c2, q, L, k)
<1> DEFINE last == [n \in Streams |-> IF IsPoint(q[L + 1], k, o[L], n) THEN c[L][n] + 1 ELSE c[L][n]]
           o2 == [i \in 0..(L + 1) |-> IF i <= L THEN o[i] ELSE Worked(q[L + 1], k, o[L])]
           c2 == [i \in 0..(L + 1) |-> IF i <= L THEN c[i] ELSE last]
<1>2. \A n \in Streams : last[n] = IF IsPoint(q[L + 1], k, o[L], n) THEN c[L][n] + 1 ELSE c[L][n]
  OBVIOUS
<1> HIDE DEF last
<1>1. /\ \A i \in 0..L : o2[i] = o[i] /\ c2[i] = c[i]
      /\ o2[L + 1] = Worked(q[L + 1], k, o[L]) /\ c2[L + 1] = last
  OBVIOUS
<1> HIDE DEF o2, c2
<1>3. ASSUME NEW n \in Streams PROVE c[L][n] \in Nat /\ last[n] \in Nat /\ c[L][n] <= last[n]
  <2>1. c[L][n] \in Nat
    BY DEF Works
  <2>2. last[n] = c[L][n] \/ last[n] = c[L][n] + 1
    BY <1>2
  <2> QED
    BY <2>1, <2>2
<1>4. \A i \in 1..(L + 1) : o2[i] = Worked(q[i], k, o2[i - 1])
  <2> SUFFICES ASSUME NEW i \in 1..(L + 1) PROVE o2[i] = Worked(q[i], k, o2[i - 1])
    OBVIOUS
  <2>1. CASE i = L + 1
    BY <1>1, <2>1
  <2>2. CASE i \in 1..L
    <3>1. o2[i] = o[i] /\ o2[i - 1] = o[i - 1]
      BY <1>1, <2>2
    <3> QED
      BY <2>2, <3>1 DEF Works
  <2> QED
    BY <2>1, <2>2
<1>5. \A n \in Streams : \A i \in 0..(L + 1) : c2[i][n] \in Nat
  <2> SUFFICES ASSUME NEW n \in Streams, NEW i \in 0..(L + 1) PROVE c2[i][n] \in Nat
    OBVIOUS
  <2>1. i \in 0..L \/ i = L + 1
    OBVIOUS
  <2> QED
    BY <1>1, <1>3, <2>1 DEF Works
<1>6. \A n \in Streams : \A i \in 1..(L + 1) :
         c2[i][n] = IF IsPoint(q[i], k, o2[i - 1], n) THEN c2[i - 1][n] + 1 ELSE c2[i - 1][n]
  <2> SUFFICES ASSUME NEW n \in Streams, NEW i \in 1..(L + 1)
               PROVE  c2[i][n] = IF IsPoint(q[i], k, o2[i - 1], n) THEN c2[i - 1][n] + 1 ELSE c2[i - 1][n]
    OBVIOUS
  <2>1. CASE i = L + 1
    BY <1>1, <1>2, <2>1
  <2>2. CASE i \in 1..L
    <3>1. c2[i] = c[i] /\ o2[i - 1] = o[i - 1] /\ c2[i - 1] = c[i - 1]
      BY <1>1, <2>2
    <3> QED
      BY <2>2, <3>1 DEF Works
  <2> QED
    BY <2>1, <2>2
<1>7. \A n \in Streams : \A i, j \in 0..(L + 1) : i <= j => c2[i][n] <= c2[j][n]
  <2> SUFFICES ASSUME NEW n \in Streams, NEW i \in 0..(L + 1), NEW j \in 0..(L + 1), i <= j
               PROVE  c2[i][n] <= c2[j][n]
    OBVIOUS
  <2>1. CASE j \in 0..L
    BY <1>1, <2>1 DEF Works
  <2>2. CASE j = L + 1 /\ i = L + 1
    BY <1>5, <2>2
  <2>3. CASE j = L + 1 /\ i \in 0..L
    <3>1. c2[i][n] = c[i][n] /\ c2[j][n] = last[n] /\ c[i][n] \in Nat /\ c[i][n] <= c[L][n]
      BY <1>1, <2>3 DEF Works
    <3> QED
      BY <1>3, <3>1
  <2> QED
    BY <2>1, <2>2, <2>3
<1>8. Works(o2, c2, q, L + 1, k)
  BY <1>4, <1>5, <1>6, <1>7 DEF Works
<1> QED
  BY <1>1, <1>8 DEF Further

LEMMA WorksTail ==
    ASSUME NEW o, NEW c, NEW q, NEW r, NEW L \in Nat, NEW k, Works(o, c, q, L + 1, k), \A i \in 1..L : r[i] = q[i + 1]
    PROVE  \E o2, c2 : Later(o, c, o2, c2, r, L, k)
<1> DEFINE o2 == [i \in 0..L |-> o[i + 1]]
           c2 == [i \in 0..L |-> c[i + 1]]
<1>1. \A i \in 0..L : o2[i] = o[i + 1] /\ c2[i] = c[i + 1]
  OBVIOUS
<1> HIDE DEF o2, c2
<1>2. \A i \in 1..L : o2[i] = Worked(r[i], k, o2[i - 1])
  <2> SUFFICES ASSUME NEW i \in 1..L PROVE o2[i] = Worked(r[i], k, o2[i - 1])
    OBVIOUS
  <2>1. o2[i] = o[i + 1] /\ o2[i - 1] = o[i] /\ r[i] = q[i + 1]
    BY <1>1
  <2>2. o[i + 1] = Worked(q[i + 1], k, o[(i + 1) - 1])
    BY DEF Works
  <2> QED
    BY <2>1, <2>2
<1>3. \A n \in Streams : \A i \in 0..L : c2[i][n] \in Nat
  BY <1>1 DEF Works
<1>4. \A n \in Streams : \A i \in 1..L :
         c2[i][n] = IF IsPoint(r[i], k, o2[i - 1], n) THEN c2[i - 1][n] + 1 ELSE c2[i - 1][n]
  <2> SUFFICES ASSUME NEW n \in Streams, NEW i \in 1..L
               PROVE  c2[i][n] = IF IsPoint(r[i], k, o2[i - 1], n) THEN c2[i - 1][n] + 1 ELSE c2[i - 1][n]
    OBVIOUS
  <2>1. c2[i] = c[i + 1] /\ c2[i - 1] = c[i] /\ o2[i - 1] = o[i] /\ r[i] = q[i + 1]
    BY <1>1
  <2>2. c[i + 1][n] = IF IsPoint(q[i + 1], k, o[(i + 1) - 1], n) THEN c[(i + 1) - 1][n] + 1 ELSE c[(i + 1) - 1][n]
    BY DEF Works
  <2> QED
    BY <2>1, <2>2
<1>5. \A n \in Streams : \A i, j \in 0..L : i <= j => c2[i][n] <= c2[j][n]
  BY <1>1 DEF Works
<1>6. Works(o2, c2, r, L, k)
  BY <1>2, <1>3, <1>4, <1>5 DEF Works
<1> QED
  BY <1>1, <1>6 DEF Later

(* The events beyond the first message's number are of the rest. *)
LEMMA NamedTail ==
    ASSUME NEW E, NEW F, NEW o, NEW c, NEW o2, NEW c2, NEW q, NEW r, NEW L \in Nat, NEW k,
           Works(o, c, q, L + 1, k), Named(E, o, c, q, L + 1, k), F \subseteq E,
           \A e \in F : e.stream \in Streams /\ e.seq > c[1][e.stream],
           \A i \in 1..L : r[i] = q[i + 1], Later(o, c, o2, c2, r, L, k)
    PROVE  Named(F, o2, c2, r, L, k)
<1>0. \A i \in 0..L : o2[i] = o[i + 1] /\ c2[i] = c[i + 1]
  BY DEF Later
<1> SUFFICES ASSUME NEW e \in F
             PROVE  \E i \in 1..L : /\ IsPoint(r[i], k, o2[i - 1], e.stream)
                                    /\ e.seq = c2[i - 1][e.stream] + 1 /\ e.point = <<"save", r[i].id>>
  BY DEF Named
<1>1. PICK i \in 1..(L + 1) : /\ IsPoint(q[i], k, o[i - 1], e.stream)
                              /\ e.seq = c[i - 1][e.stream] + 1 /\ e.point = <<"save", q[i].id>>
  BY DEF Named
<1>2. i # 1
  <2> SUFFICES ASSUME i = 1 PROVE FALSE
    OBVIOUS
  <2>1. c[1][e.stream] = c[0][e.stream] + 1 /\ c[1][e.stream] \in Nat
    <3>1. 1 \in 1..(L + 1) /\ 1 \in 0..(L + 1) /\ 1 - 1 = 0
      OBVIOUS
    <3> QED
      BY <1>1, <3>1 DEF Works
  <2> QED
    BY <1>1, <2>1
<1>3. /\ i - 1 \in 1..L /\ r[i - 1] = q[i] /\ (i - 1) - 1 \in 0..L
      /\ o2[(i - 1) - 1] = o[i - 1] /\ c2[(i - 1) - 1] = c[i - 1]
  <2>1. i - 1 \in 1..L /\ (i - 1) - 1 \in 0..L
    BY <1>2
  <2> QED
    BY <1>0, <2>1
<1> QED
  BY <1>1, <1>3

(* What a step makes of a run: nothing that matters here, or what the      *)
(* message m does.                                                         *)
Stays(s, t) == t.uid = s.uid /\ t.open = s.open /\ \A n \in Streams : t.seq[n] = s.seq[n]
Follows(s, t, m, k) ==
    /\ t.uid = s.uid /\ t.open = Worked(m, k, s.open)
    /\ \A n \in Streams : t.seq[n] = IF IsPoint(m, k, s.open, n) THEN s.seq[n] + 1 ELSE s.seq[n]
Follow(k) == IF pc = "handle" THEN ~Illegal(cur) /\ Follows(runs[k], runs'[k], cur, k) ELSE Stays(runs[k], runs'[k])

Leaves(m, k, b) == m.key # k \/ m.op \notin {"create", "read", "save", "drop"} \/ (m.op = "read" /\ b = NoBundle)

LEMMA LeftWorked ==
    ASSUME NEW m, NEW k, NEW b, Leaves(m, k, b)
    PROVE  Worked(m, k, b) = b /\ \A n : ~IsPoint(m, k, b, n)
<1>1. \A n : ~IsPoint(m, k, b, n)
  BY DEF Leaves, IsPoint
<1>2. Worked(m, k, b) = b
  BY DEF Leaves, Worked
<1> QED
  BY <1>1, <1>2

LEMMA StaysFollows ==
    ASSUME NEW s, NEW t, NEW m, NEW k, Stays(s, t), Leaves(m, k, s.open)
    PROVE  Follows(s, t, m, k)
BY LeftWorked DEF Stays, Follows

LEMMA StaysOps ==
    ASSUME NEW s \in Slots
    PROVE  /\ Stays(s, ResetCheckpoint(s)) /\ ResetCheckpoint(s).snap = ResetCheckpoint(s).seq
           /\ Stays(s, ClearSnapshot(s))
           /\ \A n : Stays(s, DeclareStream(s, n)) /\ DeclareStream(s, n).snap = s.snap
BY DEF Slots, Stays, ResetCheckpoint, ClearSnapshot, DeclareStream

LEMMA ComposeStays ==
    ASSUME NEW s \in Slots, NEW f \in AllStreams, f \notin Streams
    PROVE  /\ Stays(s, ComposeEvent(s, f)) /\ ComposeEvent(s, f).snap = s.snap
           /\ \A U : LET t == [ComposeEvent(s, f) EXCEPT !.uncollected = U] IN Stays(s, t) /\ t.snap = s.snap
<1> DEFINE c == [s.seq EXCEPT ![f] = @ + 1]
<1>1. \A n \in Streams : c[n] = s.seq[n]
  BY DEF Slots, AllStreams
<1>2. ComposeEvent(s, f) = [s EXCEPT !.declared = @ \cup {f}, !.seq = c]
  BY DEF ComposeEvent, Slots
<1> HIDE DEF c
<1> QED
  BY <1>1, <1>2 DEF Stays, Slots

(* The handlers that work on a bundle. *)
LEMMA BundleOps ==
    ASSUME NEW s \in Slots, NEW m, ~IllegalIn(s, m)
    PROVE  /\ m.op = "create" => Follows(s, Create(s, m.arg), m, m.key) /\ Create(s, m.arg).snap = s.snap
           /\ m.op = "read" /\ IsBundling(s) => Follows(s, AddRead(s, m.arg), m, m.key) /\ AddRead(s, m.arg).snap = s.snap
           /\ m.op = "drop" => Follows(s, DropBundle(s), m, m.key) /\ DropBundle(s).snap = s.snap
           /\ m.op = "save" => Follows(s, Save(s), m, m.key) /\ Save(s).snap = s.snap
<1> USE DEF Follows
<1>1. m.op = "create" => Follows(s, Create(s, m.arg), m, m.key) /\ Create(s, m.arg).snap = s.snap
  BY DEF Create, Slots, Worked, IsPoint
<1>2. m.op = "read" /\ IsBundling(s) => Follows(s, AddRead(s, m.arg), m, m.key) /\ AddRead(s, m.arg).snap = s.snap
  BY DEF AddRead, Slots, Worked, IsPoint, IsBundling
<1>3. m.op = "drop" => Follows(s, DropBundle(s), m, m.key) /\ DropBundle(s).snap = s.snap
  BY DEF DropBundle, Slots, Worked, IsPoint
<1>4. ASSUME m.op = "save", ~HasEvent(s) PROVE Follows(s, Save(s), m, m.key) /\ Save(s).snap = s.snap
  BY <1>4 DEF Save, HasEvent, DropBundle, Slots, Worked, IsPoint
<1>5. ASSUME m.op = "save", HasEvent(s) PROVE Follows(s, Save(s), m, m.key) /\ Save(s).snap = s.snap
  <2> DEFINE c == [s.seq EXCEPT ![s.open.stream] = @ + 1]
  <2>1. \A n \in Streams : c[n] = IF s.open.stream = n THEN s.seq[n] + 1 ELSE s.seq[n]
    BY DEF Slots, AllStreams
  <2>2. Save(s) = [s EXCEPT !.declared = @ \cup {s.open.stream}, !.seq = c, !.open = NoBundle]
    BY <1>5 DEF Save, DropBundle, ComposeEvent, Slots
  <2> HIDE DEF c
  <2>3. Worked(m, m.key, s.open) = NoBundle /\ \A n : IsPoint(m, m.key, s.open, n) <=> s.open.stream = n
    BY <1>5 DEF Worked, IsPoint, HasEvent
  <2> QED
    BY <2>1, <2>2, <2>3 DEF Slots
<1> QED
  BY <1>1, <1>2, <1>3, <1>4, <1>5

LEMMA HandleFollows ==
    ASSUME LoopInv, RunInv, Streams \cap Flyers = {}, Handle, pc' # "failed",
           NEW k \in DOMAIN runs, k \in DOMAIN runs'
    PROVE  Follow(k)
<1>t. \A j \in DOMAIN runs : runs[j] \in Slots
  BY DEF RunInv
<1>h. pc \in Working
  BY HandleLoop DEF HandlerEnds, HandlerWaits, WaitCutShort, Working
<1>q. ASSUME Stays(runs[k], runs'[k]), pc = "handle" => ~Illegal(cur) /\ Leaves(cur, k, runs[k].open) PROVE Follow(k)
  BY <1>q, StaysFollows DEF Follow
<1>s. ASSUME runs' = runs PROVE Stays(runs[k], runs'[k])
  BY <1>s DEF Stays
<1>o. ASSUME NEW op \in NeedsRun, Begin(op)
      PROVE  /\ pc = "handle" /\ cur.op = op /\ ~Illegal(cur) /\ ~IllegalIn(Slot, cur)
             /\ cur.key \in DOMAIN runs /\ Slot \in Slots /\ Slot = runs[cur.key]
  BY <1>o, <1>t DEF Begin, Handling, Illegal, IsOpen, Slot
<1>p. ASSUME NEW s, runs' = PutSlot(cur.key, s), pc = "handle", ~Illegal(cur), cur.key \in DOMAIN runs,
             Follows(runs[cur.key], s, cur, cur.key)
      PROVE  Follow(k)
  <2>1. CASE k = cur.key
    BY <1>p, <2>1 DEF PutSlot, Follow
  <2>2. CASE k # cur.key
    <3>1. runs'[k] = runs[k]
      BY <1>p, <2>2 DEF PutSlot
    <3> QED
      BY <1>p, <1>q, <2>2, <3>1 DEF Stays, Leaves
  <2> QED
    BY <2>1, <2>2
<1>r. ASSUME NEW rs, k \in DOMAIN rs, rs[k] \in Slots, Stays(runs[k], rs[k]), ResetCheckpointState(rs)
      PROVE  Stays(runs[k], runs'[k])
  <2>1. runs'[k] = ResetCheckpoint(rs[k]) /\ Stays(rs[k], ResetCheckpoint(rs[k]))
    BY <1>r, StaysOps DEF ResetCheckpointState
  <2> QED
    BY <1>r, <2>1 DEF Stays
<1>n. Stays(runs[k], runs[k])
  BY DEF Stays
<1>1. CASE Rejected \/ DeviceFails \/ SaveFails \/ WaitFails
  BY <1>1 DEF Rejected, DeviceFails, SaveFails, WaitFails
<1>2. CASE HandleStage \/ HandleSet \/ HandleMove \/ HandleWait \/ HandleSleep
  BY <1>2, <1>q, <1>s DEF HandleStage, HandleSet, HandleMove, HandleWait, HandleSleep, Begin, Handling, Leaves
<1>3. CASE HandlePause \/ HandlePushContingency \/ HandlePopContingency
  BY <1>3, <1>q, <1>s DEF HandlePause, HandlePushContingency, HandlePopContingency, Begin, Handling, Leaves
<1>4. CASE WaitDone \/ WaitMovesOn \/ WaitCutShort
  BY <1>4, <1>q, <1>s DEF WaitDone, WaitMovesOn, WaitCutShort
<1>5. CASE HandleOpenRun
  <2>1. cur.key \notin DOMAIN runs /\ pc = "handle" /\ cur.op = "open" /\ ~Illegal(cur)
    BY <1>5 DEF HandleOpenRun, Begin, Handling, Illegal, IsOpen, IllegalIn
  <2>2. runs'[k] = runs[k]
    BY <1>5, <2>1 DEF HandleOpenRun, SlotStep, PutSlot
  <2> QED
    BY <1>q, <2>1, <2>2 DEF Leaves, Stays
<1>6. CASE HandleCloseRun
  <2>1. runs'[k] = runs[k]
    BY <1>6 DEF HandleCloseRun, RemoveSlot
  <2> QED
    BY <1>6, <1>q, <2>1 DEF HandleCloseRun, Begin, Handling, Leaves, Stays
<1>7. CASE HandleCreate
  <2>1. Begin("create") /\ runs' = PutSlot(cur.key, Create(Slot, cur.arg))
    BY <1>7 DEF HandleCreate, SlotStep
  <2> QED
    BY <1>o, <1>p, <2>1, BundleOps DEF NeedsRun
<1>8. CASE HandleDrop
  <2>1. Begin("drop") /\ runs' = PutSlot(cur.key, DropBundle(Slot))
    BY <1>8 DEF HandleDrop, SlotStep
  <2> QED
    BY <1>o, <1>p, <2>1, BundleOps DEF NeedsRun
<1>9. CASE HandleSave
  <2>1. Begin("save") /\ runs' = PutSlot(cur.key, Save(Slot))
    BY <1>9 DEF HandleSave, SlotStep
  <2> QED
    BY <1>o, <1>p, <2>1, BundleOps DEF NeedsRun
<1>10. CASE HandleRead
  <2>1. pc = "handle" /\ cur.op = "read" /\ ~Illegal(cur)
    BY <1>10 DEF HandleRead, Begin, Handling
  <2>2. CASE cur.key \in DOMAIN runs /\ IsBundling(Slot)
    <3>1. Slot \in Slots /\ Slot = runs[cur.key] /\ ~IllegalIn(Slot, cur)
      BY <1>t, <2>1, <2>2 DEF Slot, Illegal, IsOpen
    <3>2. runs' = PutSlot(cur.key, AddRead(Slot, cur.arg))
      BY <1>10, <2>2 DEF HandleRead, IsOpen, SlotStep
    <3> QED
      BY <1>p, <2>1, <2>2, <3>1, <3>2, BundleOps
  <2>3. CASE ~(cur.key \in DOMAIN runs /\ IsBundling(Slot))
    <3>1. runs' = runs
      BY <1>10, <2>3 DEF HandleRead, IsOpen
    <3>2. Leaves(cur, k, runs[k].open)
      BY <2>1, <2>3 DEF Leaves, IsBundling, Slot
    <3> QED
      BY <1>q, <1>s, <2>1, <3>1, <3>2
  <2> QED
    BY <2>2, <2>3
<1>11. CASE HandleDeclareStream
  <2>1. Begin("declare") /\ runs' = PutSlot(cur.key, DeclareStream(Slot, cur.arg))
    BY <1>11 DEF HandleDeclareStream, SlotStep
  <2>2. Follows(Slot, DeclareStream(Slot, cur.arg), cur, cur.key)
    BY <1>o, <2>1, StaysOps, StaysFollows DEF NeedsRun, Leaves
  <2> QED
    BY <1>o, <1>p, <2>1, <2>2 DEF NeedsRun
<1>12. CASE HandleKickoff
  <2> DEFINE s == [Slot EXCEPT !.uncollected = @ \cup {cur.arg}]
  <2>1. Begin("kickoff") /\ runs' = PutSlot(cur.key, s)
    BY <1>12 DEF HandleKickoff
  <2>2. Slot \in Slots /\ cur.op = "kickoff"
    BY <1>o, <2>1 DEF NeedsRun
  <2>3. Stays(Slot, s)
    BY <2>2 DEF Slots, Stays
  <2> HIDE DEF s
  <2>4. Follows(Slot, s, cur, cur.key)
    BY <2>2, <2>3, StaysFollows DEF Leaves
  <2> QED
    BY <1>o, <1>p, <2>1, <2>4 DEF NeedsRun
<1>13. CASE HandleCollect
  <2> DEFINE c == ComposeEvent(Slot, cur.arg)
             s == [c EXCEPT !.uncollected = @ \ {cur.arg}]
  <2>1. Begin("collect") /\ runs' = PutSlot(cur.key, s)
    BY <1>13 DEF HandleCollect, SlotStep
  <2>2. cur.op = "collect" /\ cur.arg \in AllStreams /\ cur.arg \notin Streams /\ Slot \in Slots
    BY <1>h, <1>o, <2>1, CurArgs DEF NeedsRun, FlyerOps, AllStreams
  <2>3. s = [c EXCEPT !.uncollected = c.uncollected \ {cur.arg}]
    OBVIOUS
  <2>4. Stays(Slot, s)
    BY <2>2, <2>3, ComposeStays
  <2> HIDE DEF s
  <2>5. Follows(Slot, s, cur, cur.key)
    BY <2>2, <2>4, StaysFollows DEF Leaves
  <2> QED
    BY <1>o, <1>p, <2>1, <2>5 DEF NeedsRun
<1>14. CASE HandleMonitor
  <2> DEFINE c == DeclareStream(Slot, cur.arg)
             s == [c EXCEPT !.monitored = @ \cup {cur.arg}, !.pumps = @ \cup {cur.arg}]
  <2>1. Begin("monitor") /\ ResetCheckpointState(PutSlot(cur.key, s))
    BY <1>14 DEF HandleMonitor
  <2>2. cur.key \in DOMAIN runs /\ cur.op = "monitor" /\ ~Illegal(cur) /\ Slot \in Slots /\ Slot = runs[cur.key]
    BY <1>o, <2>1 DEF NeedsRun
  <2>3. cur.arg \in Devices /\ cur.arg \in AllStreams
    BY <1>h, <2>2, CurArgs DEF DeviceOps, AllStreams
  <2>4. c \in Slots /\ Stays(Slot, c)
    BY <2>2, <2>3, SlotOps, StaysOps
  <2>5. s \in Slots /\ Stays(Slot, s)
    <3> HIDE DEF c
    <3> QED
      BY <2>3, <2>4 DEF Slots, Stays
  <2> HIDE DEF s
  <2>6. LET rs == PutSlot(cur.key, s) IN k \in DOMAIN rs /\ rs[k] \in Slots /\ Stays(runs[k], rs[k])
    BY <1>n, <1>t, <2>2, <2>5 DEF PutSlot
  <2> QED
    BY <1>q, <1>r, <2>1, <2>2, <2>6 DEF Leaves
<1>15. CASE HandleUnmonitor
  <2> DEFINE s == [Slot EXCEPT !.monitored = @ \ {cur.arg}, !.pumps = @ \ {cur.arg}]
  <2>1. Begin("unmonitor") /\ ResetCheckpointState(PutSlot(cur.key, s))
    BY <1>15 DEF HandleUnmonitor
  <2>2. cur.key \in DOMAIN runs /\ cur.op = "unmonitor" /\ ~Illegal(cur) /\ Slot \in Slots /\ Slot = runs[cur.key]
    BY <1>o, <2>1 DEF NeedsRun
  <2>3. s \in Slots /\ Stays(Slot, s)
    BY <2>2 DEF Slots, Stays
  <2> HIDE DEF s
  <2>4. LET rs == PutSlot(cur.key, s) IN k \in DOMAIN rs /\ rs[k] \in Slots /\ Stays(runs[k], rs[k])
    BY <1>n, <1>t, <2>2, <2>3 DEF PutSlot
  <2> QED
    BY <1>q, <1>r, <2>1, <2>2, <2>4 DEF Leaves
<1>16. CASE StageDone \/ HandleUnstage \/ HandleHook \/ HandleCheckpoint
  <2>1. ResetCheckpointState(runs) /\ (pc = "handle" => ~Illegal(cur) /\ cur.op \in {"unstage", "hook", "checkpoint"})
    BY <1>16 DEF StageDone, HandleUnstage, HandleHook, HandleCheckpoint, Begin, Handling
  <2> QED
    BY <1>n, <1>q, <1>r, <1>t, <2>1 DEF Leaves
<1>17. CASE HandleClearCheckpoint
  <2>1. runs'[k] = ClearSnapshot(runs[k]) /\ ~Illegal(cur) /\ cur.op = "clear"
    BY <1>17 DEF HandleClearCheckpoint, Begin, Handling
  <2> QED
    BY <1>q, <1>t, <2>1, StaysOps DEF Leaves
<1>18. CASE HandleRewindable(TRUE) \/ HandleRewindable(FALSE)
  <2>1. (runs' = runs \/ ResetCheckpointState(runs)) /\ ~Illegal(cur) /\ cur.op \in {"rewindable", "unrewindable"}
    BY <1>18 DEF HandleRewindable, Begin, Handling
  <2> QED
    BY <1>n, <1>q, <1>r, <1>s, <1>t, <2>1 DEF Leaves
<1> QED
  BY <1>1, <1>2, <1>3, <1>4, <1>5, <1>6, <1>7, <1>8, <1>9, <1>10, <1>11, <1>12, <1>13, <1>14, <1>15, <1>16,
     <1>17, <1>18 DEF Handle

(* What a step makes of the checkpoint. *)
Checkpoints ==
    \/ UNCHANGED <<cache, rewindable>> /\ \A k \in DOMAIN runs' : k \in DOMAIN runs => runs'[k].snap = runs[k].snap
    \/ cache' = <<>> /\ DOMAIN runs' = DOMAIN runs /\ \A k \in DOMAIN runs' : runs'[k].snap = runs'[k].seq
    \/ cache' = <<>> /\ ~rewindable' /\ DOMAIN runs' = DOMAIN runs

LEMMA HandleCheckpoints ==
    ASSUME LoopInv, RunInv, Streams \cap Flyers = {}, Handle
    PROVE  Checkpoints
<1> USE DEF cacheVars
<1>t. \A j \in DOMAIN runs : runs[j] \in Slots
  BY DEF RunInv
<1>h. pc \in Working
  BY HandleLoop DEF HandlerEnds, HandlerWaits, WaitCutShort, Working
<1>s. ASSUME runs' = runs, UNCHANGED <<cache, rewindable>> PROVE Checkpoints
  BY <1>s DEF Checkpoints
<1>o. ASSUME NEW op \in NeedsRun, Begin(op)
      PROVE  /\ pc = "handle" /\ cur.op = op /\ ~IllegalIn(Slot, cur)
             /\ cur.key \in DOMAIN runs /\ Slot \in Slots /\ Slot = runs[cur.key]
  BY <1>o, <1>t DEF Begin, Handling, Illegal, IsOpen, Slot
<1>p. ASSUME NEW s, runs' = PutSlot(cur.key, s), UNCHANGED <<cache, rewindable>>,
             cur.key \in DOMAIN runs => s.snap = runs[cur.key].snap
      PROVE  Checkpoints
  BY <1>p DEF PutSlot, Checkpoints
<1>r. ASSUME NEW rs, DOMAIN rs = DOMAIN runs, \A k \in DOMAIN rs : rs[k] \in Slots, ResetCheckpointState(rs)
      PROVE  Checkpoints
  <2>1. ASSUME NEW k \in DOMAIN rs PROVE runs'[k].snap = runs'[k].seq
    <3>1. rs[k] \in Slots /\ runs'[k] = ResetCheckpoint(rs[k])
      BY <1>r DEF ResetCheckpointState
    <3> QED
      BY <3>1, StaysOps
  <2> QED
    BY <1>r, <2>1 DEF ResetCheckpointState, Checkpoints
<1>1. CASE Rejected \/ DeviceFails \/ WaitFails
  BY <1>1, <1>s DEF Rejected, DeviceFails, WaitFails
<1>2. CASE HandleStage \/ HandleSet \/ HandleMove \/ HandleWait \/ HandleSleep
  BY <1>2, <1>s DEF HandleStage, HandleSet, HandleMove, HandleWait, HandleSleep
<1>3. CASE HandlePause \/ HandlePushContingency \/ HandlePopContingency
  BY <1>3, <1>s DEF HandlePause, HandlePushContingency, HandlePopContingency
<1>4. CASE WaitDone \/ WaitMovesOn \/ WaitCutShort
  BY <1>4, <1>s DEF WaitDone, WaitMovesOn, WaitCutShort
<1>5. CASE HandleOpenRun
  <2>1. cur.key \notin DOMAIN runs
    BY <1>5 DEF HandleOpenRun, Begin, Handling, Illegal, IsOpen, IllegalIn
  <2> QED
    BY <1>5, <1>p, <2>1 DEF HandleOpenRun, SlotStep
<1>6. CASE HandleCloseRun
  BY <1>6 DEF HandleCloseRun, RemoveSlot, Checkpoints
<1>7. CASE HandleCreate
  <2>1. Begin("create") /\ runs' = PutSlot(cur.key, Create(Slot, cur.arg)) /\ UNCHANGED <<cache, rewindable>>
    BY <1>7 DEF HandleCreate, SlotStep
  <2> QED
    BY <1>o, <1>p, <2>1, BundleOps DEF NeedsRun
<1>8. CASE HandleDrop
  <2>1. Begin("drop") /\ runs' = PutSlot(cur.key, DropBundle(Slot)) /\ UNCHANGED <<cache, rewindable>>
    BY <1>8 DEF HandleDrop, SlotStep
  <2> QED
    BY <1>o, <1>p, <2>1, BundleOps DEF NeedsRun
<1>9. CASE HandleSave \/ SaveFails
  <2>1. Begin("save") /\ runs' = PutSlot(cur.key, Save(Slot)) /\ UNCHANGED <<cache, rewindable>>
    BY <1>9 DEF HandleSave, SaveFails, SlotStep
  <2> QED
    BY <1>o, <1>p, <2>1, BundleOps DEF NeedsRun
<1>10. CASE HandleRead
  <2>1. pc = "handle" /\ cur.op = "read" /\ ~Illegal(cur) /\ UNCHANGED <<cache, rewindable>>
    BY <1>10 DEF HandleRead, SlotStep, Begin, Handling
  <2>2. CASE cur.key \in DOMAIN runs /\ IsBundling(Slot)
    <3>1. Slot \in Slots /\ Slot = runs[cur.key] /\ ~IllegalIn(Slot, cur)
      BY <1>t, <2>1, <2>2 DEF Slot, Illegal, IsOpen
    <3>2. runs' = PutSlot(cur.key, AddRead(Slot, cur.arg))
      BY <1>10, <2>2 DEF HandleRead, IsOpen, SlotStep
    <3> QED
      BY <1>p, <2>1, <2>2, <3>1, <3>2, BundleOps
  <2>3. CASE ~(cur.key \in DOMAIN runs /\ IsBundling(Slot))
    BY <1>10, <1>s, <2>1, <2>3 DEF HandleRead, IsOpen
  <2> QED
    BY <2>2, <2>3
<1>11. CASE HandleDeclareStream
  <2>1. Begin("declare") /\ runs' = PutSlot(cur.key, DeclareStream(Slot, cur.arg)) /\ UNCHANGED <<cache, rewindable>>
    BY <1>11 DEF HandleDeclareStream, SlotStep
  <2> QED
    BY <1>o, <1>p, <2>1, StaysOps DEF NeedsRun
<1>12. CASE HandleKickoff
  <2> DEFINE s == [Slot EXCEPT !.uncollected = @ \cup {cur.arg}]
  <2>1. Begin("kickoff") /\ runs' = PutSlot(cur.key, s) /\ UNCHANGED <<cache, rewindable>>
    BY <1>12 DEF HandleKickoff
  <2>2. s.snap = Slot.snap /\ Slot = runs[cur.key]
    BY <1>o, <2>1 DEF NeedsRun, Slots
  <2> HIDE DEF s
  <2> QED
    BY <1>p, <2>1, <2>2
<1>13. CASE HandleCollect
  <2> DEFINE c == ComposeEvent(Slot, cur.arg)
             s == [c EXCEPT !.uncollected = @ \ {cur.arg}]
  <2>1. Begin("collect") /\ runs' = PutSlot(cur.key, s) /\ UNCHANGED <<cache, rewindable>>
    BY <1>13 DEF HandleCollect, SlotStep
  <2>2. cur.arg \in AllStreams /\ cur.arg \notin Streams /\ Slot \in Slots /\ Slot = runs[cur.key]
    BY <1>h, <1>o, <2>1, CurArgs DEF NeedsRun, FlyerOps, AllStreams
  <2>3. s = [c EXCEPT !.uncollected = c.uncollected \ {cur.arg}]
    OBVIOUS
  <2>4. s.snap = Slot.snap
    BY <2>2, <2>3, ComposeStays
  <2> HIDE DEF s
  <2> QED
    BY <1>p, <2>1, <2>2, <2>4
<1>14. CASE HandleMonitor
  <2> DEFINE c == DeclareStream(Slot, cur.arg)
             s == [c EXCEPT !.monitored = @ \cup {cur.arg}, !.pumps = @ \cup {cur.arg}]
  <2>1. Begin("monitor") /\ ResetCheckpointState(PutSlot(cur.key, s))
    BY <1>14 DEF HandleMonitor
  <2>2. cur.key \in DOMAIN runs /\ cur.op = "monitor" /\ Slot \in Slots
    BY <1>o, <2>1 DEF NeedsRun
  <2>3. cur.arg \in Devices /\ cur.arg \in AllStreams
    BY <1>h, <2>2, CurArgs DEF DeviceOps, AllStreams
  <2>4. c \in Slots
    BY <2>2, <2>3, SlotOps
  <2>5. s \in Slots
    <3> HIDE DEF c
    <3> QED
      BY <2>3, <2>4 DEF Slots
  <2> HIDE DEF s
  <2>6. LET rs == PutSlot(cur.key, s) IN DOMAIN rs = DOMAIN runs /\ \A k \in DOMAIN rs : rs[k] \in Slots
    BY <1>t, <2>2, <2>5 DEF PutSlot
  <2> QED
    BY <1>r, <2>1, <2>6
<1>15. CASE HandleUnmonitor
  <2> DEFINE s == [Slot EXCEPT !.monitored = @ \ {cur.arg}, !.pumps = @ \ {cur.arg}]
  <2>1. Begin("unmonitor") /\ ResetCheckpointState(PutSlot(cur.key, s))
    BY <1>15 DEF HandleUnmonitor
  <2>2. cur.key \in DOMAIN runs /\ Slot \in Slots
    BY <1>o, <2>1 DEF NeedsRun
  <2>3. s \in Slots
    BY <2>2 DEF Slots
  <2> HIDE DEF s
  <2>4. LET rs == PutSlot(cur.key, s) IN DOMAIN rs = DOMAIN runs /\ \A k \in DOMAIN rs : rs[k] \in Slots
    BY <1>t, <2>2, <2>3 DEF PutSlot
  <2> QED
    BY <1>r, <2>1, <2>4
<1>16. CASE StageDone \/ HandleUnstage \/ HandleHook \/ HandleCheckpoint
  BY <1>16, <1>r, <1>t DEF StageDone, HandleUnstage, HandleHook, HandleCheckpoint
<1>17. CASE HandleClearCheckpoint
  BY <1>17 DEF HandleClearCheckpoint, Checkpoints
<1>18. CASE HandleRewindable(TRUE) \/ HandleRewindable(FALSE)
  BY <1>18, <1>r, <1>s, <1>t DEF HandleRewindable
<1> QED
  BY <1>1, <1>2, <1>3, <1>4, <1>5, <1>6, <1>7, <1>8, <1>9, <1>10, <1>11, <1>12, <1>13, <1>14, <1>15, <1>16,
     <1>17, <1>18 DEF Handle

(* A run that is opened has a uid that no event has, and no checkpoint. *)
LEMMA NewRuns ==
    ASSUME LoopInv, RunInv, Handle, NEW k \in DOMAIN runs', k \notin DOMAIN runs
    PROVE  runs'[k].uid = uids + 1 /\ runs'[k].snap = NoSnapshot
<1>1. HandleOpenRun
  BY HandleRuns DEF RunsMapped, Maps, HandleCloseRun, RemoveSlot
<1>2. runs' = PutSlot(cur.key, NewSlot(uids + 1, Recording))
  BY <1>1 DEF HandleOpenRun, SlotStep
<1>3. runs'[k] = NewSlot(uids + 1, Recording)
  BY <1>2 DEF PutSlot
<1> QED
  BY <1>3 DEF NewSlot

(* An event of a created stream is the point of the save in hand. *)
LEMMA HandlePoints ==
    ASSUME LoopInv, RunInv, Streams \cap Flyers = {}, Handle
    PROVE  /\ events \subseteq events'
           /\ \A e \in events' \ events : e.stream \in Streams =>
                 /\ pc = "handle" /\ pc' = "top" /\ cur.op = "save" /\ cur.key \in DOMAIN runs
                 /\ IsPoint(cur, cur.key, runs[cur.key].open, e.stream)
                 /\ e.run = runs[cur.key].uid /\ e.seq = runs[cur.key].seq[e.stream] + 1
                 /\ e.point = <<"save", cur.id>>
<1>1. CASE UNCHANGED events
  BY <1>1
<1>2. CASE HandleSave
  <2>1. cur.key \in DOMAIN runs /\ pc = "handle" /\ pc' = "top" /\ cur.op = "save"
    BY <1>2 DEF HandleSave, SlotStep, Done, Begin, Handling, Illegal, IsOpen, NeedsRun
  <2>2. events' = IF HasEvent(Slot) THEN events \cup {EventOf(Slot, Slot.open.stream, <<"save", cur.id>>)} ELSE events
    BY <1>2 DEF HandleSave
  <2> QED
    BY <2>1, <2>2 DEF EventOf, HasEvent, Slot, IsPoint
<1>3. CASE HandleCollect
  <2>1. cur.arg \in Flyers
    BY <1>3, CurArgs DEF HandleCollect, Begin, Handling, Working, FlyerOps
  <2> QED
    BY <1>3, <2>1 DEF HandleCollect, EventOf
<1> QED
  BY <1>1, <1>2, <1>3, HandleEvents DEF HandleKickoff

Counters(k) == \A n \in Streams : runs[k].seq[n] \in Nat
NothingNew == events \subseteq events' /\ \A e \in events' \ events : e.stream \notin Streams

LEMMA BeyondSame ==
    ASSUME NothingNew, NEW u, NEW s, NEW t, \A n \in Streams : t[n] = s[n]
    PROVE  Beyond(events', u, t) = Beyond(events, u, s)
BY DEF NothingNew, Beyond

LEMMA CountersTyped == RunInv => \A k \in DOMAIN runs : Counters(k)
BY DEF RunInv, Slots, Counters, AllStreams

(* The point of the save in hand is of the run in hand. *)
LEMMA PointOf ==
    ASSUME LoopInv, RunInv, Streams \cap Flyers = {}, Handle, NEW k \in DOMAIN runs,
           NEW e \in events' \ events, e.stream \in Streams, e.run = runs[k].uid
    PROVE  /\ pc = "handle" /\ cur.op = "save" /\ cur.key = k /\ IsPoint(cur, k, runs[k].open, e.stream)
           /\ e.seq = runs[k].seq[e.stream] + 1 /\ e.point = <<"save", cur.id>>
<1>1. cur.key = k
  BY HandlePoints DEF RunInv
<1> QED
  BY <1>1, HandlePoints

LEMMA HandleCaught ==
    ASSUME LoopInv, RunInv, Dated, Streams \cap Flyers = {}, Handle, pc' # "failed",
           NEW k \in DOMAIN runs', k \in DOMAIN runs => Caught(k)
    PROVE  Caught(k)'
<1> SUFFICES ASSUME NEW e \in events', e.run = runs'[k].uid, e.stream \in Streams, e.seq > runs'[k].seq[e.stream]
             PROVE  FALSE
  BY DEF Caught, Beyond
<1>1. CASE k \in DOMAIN runs
  <2>1. Follow(k) /\ Counters(k)
    BY <1>1, HandleFollows, CountersTyped
  <2>2. runs'[k].uid = runs[k].uid
    BY <2>1 DEF Follow, Stays, Follows
  <2>3. CASE e \in events
    <3>1. e.seq > runs[k].seq[e.stream]
      BY <2>1, <2>3 DEF Follow, Stays, Follows, Counters, Dated
    <3> QED
      BY <1>1, <2>2, <2>3, <3>1 DEF Caught, Beyond
  <2>4. CASE e \notin events
    <3>1. pc = "handle" /\ IsPoint(cur, k, runs[k].open, e.stream) /\ e.seq = runs[k].seq[e.stream] + 1
      BY <1>1, <2>2, <2>4, PointOf
    <3> QED
      BY <2>1, <3>1 DEF Follow, Follows, Counters
  <2> QED
    BY <2>3, <2>4
<1>2. CASE k \notin DOMAIN runs
  <2>1. e.run = uids + 1 /\ uids \in Nat
    BY <1>2, NewRuns DEF RunInv, LoopInv
  <2>2. e.run \in 1..uids
    BY HandlePoints DEF Dated, RunInv
  <2> QED
    BY <2>1, <2>2
<1> QED
  BY <1>1, <1>2

LEMMA CaughtSame ==
    ASSUME NEW k, Caught(k), Stays(runs[k], runs'[k]), NothingNew
    PROVE  Caught(k)'
BY BeyondSame DEF Caught, Stays

LEMMA LeadsSame ==
    ASSUME NEW k, NEW o, NEW c, Leads(k, o, c), Stays(runs[k], runs'[k]), runs'[k].snap = runs[k].snap, NothingNew,
           cache' = cache, Seen' = Seen
    PROVE  Leads(k, o, c)'
<1>1. Beyond(events', runs'[k].uid, runs'[k].snap) = Beyond(events, runs[k].uid, runs[k].snap)
  BY BeyondSame DEF Stays
<1> QED
  BY <1>1 DEF Leads, Stays

(* After a checkpoint nothing leads up to now yet. *)
LEMMA LeadsAnew ==
    ASSUME NEW k, cache' = <<>>, ~InHand', Caught(k)', Counters(k)', runs'[k].snap = runs'[k].seq
    PROVE  \E o, c : Leads(k, o, c)'
<1>o. PICK o : o[0] = runs'[k].open
  <2>1. [i \in {0} |-> runs'[k].open][0] = runs'[k].open
    OBVIOUS
  <2> QED
    BY <2>1
<1>c. PICK c : c[0] = runs'[k].seq
  <2>1. [i \in {0} |-> runs'[k].seq][0] = runs'[k].seq
    OBVIOUS
  <2> QED
    BY <2>1
<1>1. Seen' = 0 /\ o[0] = runs'[k].open /\ c[0] = runs'[k].seq
  BY <1>o, <1>c DEF Seen
<1>2. Works(o, c, cache', Seen', k)
  <2>1. 1..Seen' = {} /\ 0..Seen' = {0}
    BY <1>1
  <2> QED
    BY <1>1, <2>1 DEF Works, Counters
<1>3. Named(Beyond(events', runs'[k].uid, runs'[k].snap), o, c, cache', Seen', k)
  BY DEF Caught, Named
<1>4. \/ o[0] = NoBundle
      \/ runs'[k].open # NoBundle /\ \A i \in 1..Seen' : ~Turns(cache'[i], k)
  BY <1>1
<1>5. o[Seen'] = runs'[k].open /\ \A n \in Streams : c[0][n] = runs'[k].snap[n] /\ c[Seen'][n] = runs'[k].seq[n]
  BY <1>1
<1>6. Leads(k, o, c)'
  BY <1>2, <1>3, <1>4, <1>5 DEF Leads
<1> QED
  BY <1>6

(* The message in hand is cached: it leads one place further. *)
LEMMA LeadsOn ==
    ASSUME LoopInv, RunInv, Streams \cap Flyers = {}, Handle, NEW k \in DOMAIN runs, NEW o, NEW c, Leads(k, o, c),
           Follow(k), InHand, Len(cache) > 0, cache[Len(cache)] = cur, ~InHand', cache' = cache,
           runs'[k].snap = runs[k].snap
    PROVE  \E o2, c2 : Leads(k, o2, c2)'
<1> DEFINE L == Seen
<1>1. L \in Nat /\ Seen' = L + 1 /\ L + 1 = Len(cache) /\ cache[L + 1] = cur
  <2>1. Len(cache) \in Nat
    BY DEF LoopInv, Queued
  <2> QED
    BY <2>1 DEF Seen
<1> HIDE DEF L
<1>2. /\ Works(o, c, cache, L, k) /\ o[L] = runs[k].open
      /\ \A n \in Streams : c[0][n] = runs[k].snap[n] /\ c[L][n] = runs[k].seq[n]
      /\ Named(Beyond(events, runs[k].uid, runs[k].snap), o, c, cache, L, k)
      /\ \/ o[0] = NoBundle \/ Torn(cache, L, k)
         \/ runs[k].open # NoBundle /\ \A i \in 1..L : ~Turns(cache[i], k)
  BY DEF Leads, L
<1>f. PICK o2, c2 : Further(o, c, o2, c2, cache, L, k)
  <2>1. L \in Nat
    BY <1>1
  <2>2. Works(o, c, cache, L, k)
    BY <1>2
  <2> QED
    BY <2>1, <2>2, WorksNext
<1>3. Works(o2, c2, cache, L + 1, k) /\ \A i \in 0..L : o2[i] = o[i] /\ c2[i] = c[i]
  BY <1>f DEF Further
<1>4. pc = "handle" /\ ~Illegal(cur) /\ Follows(runs[k], runs'[k], cur, k)
  BY DEF Follow, InHand
<1>5. 0 \in 0..L /\ L \in 0..L /\ L + 1 \in 1..(L + 1) /\ (L + 1) - 1 = L
  BY <1>1
<1>6. o2[0] = o[0] /\ o2[L] = runs[k].open /\ o2[L + 1] = runs'[k].open
  BY <1>1, <1>2, <1>3, <1>4, <1>5 DEF Works, Follows
<1>7. \A n \in Streams : c2[0][n] = runs'[k].snap[n] /\ c2[L][n] = runs[k].seq[n] /\ c2[L + 1][n] = runs'[k].seq[n]
  BY <1>1, <1>2, <1>3, <1>4, <1>5, <1>6 DEF Works, Follows
<1>8. Named(Beyond(events', runs'[k].uid, runs'[k].snap), o2, c2, cache, L + 1, k)
  <2> SUFFICES ASSUME NEW e \in events', e.run = runs[k].uid, e.stream \in Streams, e.seq > runs[k].snap[e.stream]
               PROVE  \E i \in 1..(L + 1) : /\ IsPoint(cache[i], k, o2[i - 1], e.stream)
                                            /\ e.seq = c2[i - 1][e.stream] + 1 /\ e.point = <<"save", cache[i].id>>
    BY <1>4 DEF Named, Beyond, Follows
  <2>1. CASE e \in events
    <3>1. PICK i \in 1..L : /\ IsPoint(cache[i], k, o[i - 1], e.stream)
                            /\ e.seq = c[i - 1][e.stream] + 1 /\ e.point = <<"save", cache[i].id>>
      BY <1>2, <2>1 DEF Named, Beyond
    <3>2. i \in 1..(L + 1) /\ i - 1 \in 0..L
      BY <1>1
    <3> QED
      BY <1>3, <3>1, <3>2
  <2>2. CASE e \notin events
    <3>1. IsPoint(cur, k, runs[k].open, e.stream) /\ e.seq = runs[k].seq[e.stream] + 1 /\ e.point = <<"save", cur.id>>
      BY <2>2, PointOf
    <3> DEFINE j == L + 1
    <3>2. j \in 1..(L + 1) /\ cache[j] = cur
      BY <1>1, <1>5
    <3>3. o2[j - 1] = runs[k].open /\ c2[j - 1][e.stream] = runs[k].seq[e.stream]
      BY <1>5, <1>6, <1>7
    <3> HIDE DEF j
    <3>4. IsPoint(cache[j], k, o2[j - 1], e.stream) /\ e.seq = c2[j - 1][e.stream] + 1 /\ e.point = <<"save", cache[j].id>>
      BY <3>1, <3>2, <3>3
    <3> QED
      BY <3>2, <3>4
  <2> QED
    BY <2>1, <2>2
<1>9. \/ o2[0] = NoBundle \/ Torn(cache, L + 1, k)
      \/ runs'[k].open # NoBundle /\ \A i \in 1..(L + 1) : ~Turns(cache[i], k)
  <2>1. CASE o[0] = NoBundle
    BY <1>6, <2>1
  <2>2. CASE Torn(cache, L, k)
    BY <1>1, <2>2 DEF Torn
  <2>3. CASE runs[k].open # NoBundle /\ \A i \in 1..L : ~Turns(cache[i], k)
    <3>1. CASE Turns(cur, k)
      <4>1. cur.op # "create"
        BY <1>4, <2>3, <3>1 DEF Illegal, IsOpen, IllegalIn, IsBundling, Turns
      <4> QED
        BY <1>1, <1>5, <2>3, <3>1, <4>1 DEF Torn, Turns
    <3>2. CASE ~Turns(cur, k)
      <4>1. Worked(cur, k, runs[k].open) # NoBundle
        <5>1. CASE cur.op = "read" /\ cur.key = k
          <6>1. Worked(cur, k, runs[k].open) = [runs[k].open EXCEPT !.objs = @ \cup {cur.arg}]
            BY <2>3, <5>1 DEF Worked
          <6>2. runs[k].open \in Bundles
            BY DEF RunInv, Slots
          <6>3. Worked(cur, k, runs[k].open).objs # {}
            BY <6>1, <6>2 DEF Bundles
          <6> QED
            BY <6>3 DEF NoBundle
        <5>2. CASE ~(cur.op = "read" /\ cur.key = k)
          <6>1. Leaves(cur, k, runs[k].open)
            BY <3>2, <5>2 DEF Turns, Leaves
          <6> QED
            BY <2>3, <6>1, LeftWorked
        <5> QED
          BY <5>1, <5>2
      <4>2. \A i \in 1..(L + 1) : ~Turns(cache[i], k)
        BY <1>1, <2>3, <3>2
      <4> QED
        BY <1>4, <4>1, <4>2 DEF Follows
    <3> QED
      BY <3>1, <3>2
  <2> QED
    BY <1>2, <2>1, <2>2, <2>3
<1>10. Leads(k, o2, c2)'
  BY <1>1, <1>3, <1>6, <1>7, <1>8, <1>9 DEF Leads
<1> QED
  BY <1>10

(* The next message of what is to be redone. *)
LEMMA TodoIs ==
    ASSUME LoopInv
    PROVE  /\ Len(replay) \in Nat
           /\ pc # "handle" => Todo = replay
           /\ pc = "handle" => /\ Len(Todo) = Len(replay) + 1 /\ Todo[1] = cur
                               /\ \A i \in 1..Len(replay) : Todo[i + 1] = replay[i]
<1>1. replay \in Seq(Messages) /\ (pc = "handle" => cur \in Messages)
  BY DEF LoopInv, Queued, Working
<1>2. Len(replay) \in Nat
  BY <1>1
<1>3. ASSUME pc = "handle"
      PROVE  /\ Len(Todo) = Len(replay) + 1 /\ Todo[1] = cur
             /\ \A i \in 1..Len(replay) : Todo[i + 1] = replay[i]
  <2>1. <<cur>> \in Seq(Messages) /\ Len(<<cur>>) = 1 /\ <<cur>>[1] = cur
    BY <1>1, <1>3
  <2>2. Todo = <<cur>> \o replay
    BY <1>3 DEF Todo
  <2> QED
    BY <1>1, <2>1, <2>2
<1> QED
  BY <1>2, <1>3 DEF Todo

LEMMA RedoesSame ==
    ASSUME NEW k, NEW o, NEW c, Redoes(k, o, c), Stays(runs[k], runs'[k]), NothingNew, Todo' = Todo
    PROVE  Redoes(k, o, c)'
<1>1. Beyond(events', runs'[k].uid, runs'[k].seq) = Beyond(events, runs[k].uid, runs[k].seq)
  BY BeyondSame DEF Stays
<1> QED
  BY <1>1 DEF Redoes, Stays

LEMMA AheadSame ==
    ASSUME NEW k, Ahead(k), Stays(runs[k], runs'[k]), NothingNew, Todo' = Todo
    PROVE  Ahead(k)'
<1>1. CASE Caught(k)
  BY <1>1, CaughtSame DEF Ahead
<1>2. CASE runs[k].open = NoBundle /\ Torn(Todo, Len(Todo), k)
  BY <1>2 DEF Ahead, Stays
<1>3. CASE \E o, c : Redoes(k, o, c)
  <2>1. PICK o, c : Redoes(k, o, c)
    BY <1>3
  <2>2. Redoes(k, o, c)'
    BY <2>1, RedoesSame
  <2> QED
    BY <2>2 DEF Ahead
<1> QED
  BY <1>1, <1>2, <1>3 DEF Ahead

(* A message of the replay is handled. *)
LEMMA AheadOn ==
    ASSUME LoopInv, RunInv, Dated, Streams \cap Flyers = {}, Handle, pc = "handle", pc' \notin {"handle", "failed"},
           LoopInv', replay' = replay, NEW k \in DOMAIN runs, k \in DOMAIN runs', Ahead(k)
    PROVE  Ahead(k)'
<1> DEFINE L == Len(replay)
<1>1. /\ L \in Nat /\ Len(Todo) = L + 1 /\ Todo[1] = cur /\ \A i \in 1..L : Todo[i + 1] = replay[i]
      /\ Todo' = replay /\ Len(Todo') = L
  BY TodoIs DEF Todo
<1> HIDE DEF L
<1>2. Follow(k) /\ ~Illegal(cur) /\ Follows(runs[k], runs'[k], cur, k) /\ Counters(k)
  BY HandleFollows, CountersTyped DEF Follow
<1>3. CASE Caught(k)
  BY <1>3, HandleCaught DEF Ahead
<1>4. CASE runs[k].open = NoBundle /\ Torn(Todo, Len(Todo), k)
  <2>1. PICK j \in 1..(L + 1) : /\ Todo[j].key = k /\ Todo[j].op \in {"save", "drop"}
                                /\ \A i \in 1..(j - 1) : ~Turns(Todo[i], k)
    BY <1>1, <1>4 DEF Torn
  <2>2. j # 1
    BY <1>1, <1>2, <1>4, <2>1 DEF Illegal, IsOpen, IllegalIn, IsBundling
  <2>3. ~Turns(cur, k)
    BY <1>1, <2>1, <2>2
  <2>4. runs'[k].open = NoBundle
    <3>1. Leaves(cur, k, NoBundle)
      BY <2>3 DEF Leaves, Turns
    <3> QED
      BY <1>2, <1>4, <3>1, LeftWorked DEF Follows
  <2>5. Torn(replay, L, k)
    <3>1. j - 1 \in 1..L /\ replay[j - 1] = Todo[j]
      <4>1. j - 1 \in 1..L /\ (j - 1) + 1 = j
        BY <1>1, <2>2
      <4> QED
        BY <1>1, <4>1
    <3>2. ASSUME NEW i \in 1..((j - 1) - 1) PROVE ~Turns(replay[i], k)
      <4>1. i \in 1..L /\ i + 1 \in 1..(j - 1)
        BY <1>1, <2>2
      <4> QED
        BY <1>1, <2>1, <4>1
    <3> QED
      BY <2>1, <3>1, <3>2 DEF Torn
  <2> QED
    BY <1>1, <2>4, <2>5 DEF Ahead
<1>5. ASSUME NEW o, NEW c, Redoes(k, o, c) PROVE Ahead(k)'
  <2>1. /\ Works(o, c, Todo, L + 1, k) /\ o[0] = runs[k].open
        /\ \A n \in Streams : c[0][n] = runs[k].seq[n]
        /\ Named(Beyond(events, runs[k].uid, runs[k].seq), o, c, Todo, L + 1, k)
    BY <1>1, <1>5 DEF Redoes
  <2>l. PICK o2, c2 : Later(o, c, o2, c2, replay, L, k)
    <3>1. L \in Nat /\ \A i \in 1..L : replay[i] = Todo[i + 1]
      BY <1>1
    <3>2. Works(o, c, Todo, L + 1, k)
      BY <2>1
    <3> QED
      BY <3>1, <3>2, WorksTail
  <2>2. Works(o2, c2, replay, L, k) /\ \A i \in 0..L : o2[i] = o[i + 1] /\ c2[i] = c[i + 1]
    BY <2>l DEF Later
  <2>3. 0 \in 0..L /\ 0 + 1 = 1 /\ 1 \in 1..(L + 1) /\ 1 - 1 = 0
    BY <1>1
  <2>4. o2[0] = runs'[k].open /\ \A n \in Streams : c[1][n] = runs'[k].seq[n] /\ c2[0][n] = runs'[k].seq[n]
    <3>1. o[1] = Worked(cur, k, o[0]) /\ o2[0] = o[1] /\ c2[0] = c[1]
      BY <1>1, <2>1, <2>2, <2>3 DEF Works
    <3>2. o2[0] = runs'[k].open
      BY <1>2, <2>1, <3>1 DEF Follows
    <3>3. ASSUME NEW n \in Streams PROVE c[1][n] = runs'[k].seq[n]
      <4>1. c[1][n] = IF IsPoint(cur, k, o[0], n) THEN c[0][n] + 1 ELSE c[0][n]
        BY <1>1, <2>1, <2>3 DEF Works
      <4> QED
        BY <1>2, <2>1, <4>1 DEF Follows
    <3> QED
      BY <3>1, <3>2, <3>3
  <2>5. Beyond(events', runs'[k].uid, runs'[k].seq) \subseteq Beyond(events, runs[k].uid, runs[k].seq)
    <3> SUFFICES ASSUME NEW e \in events', e.run = runs[k].uid, e.stream \in Streams, e.seq > runs'[k].seq[e.stream]
                 PROVE  e \in events /\ e.seq > runs[k].seq[e.stream]
      BY <1>2 DEF Beyond, Follows
    <3>1. e \in events
      <4> SUFFICES ASSUME e \notin events PROVE FALSE
        OBVIOUS
      <4>1. IsPoint(cur, k, runs[k].open, e.stream) /\ e.seq = runs[k].seq[e.stream] + 1
        BY PointOf
      <4> QED
        BY <1>2, <4>1 DEF Follows, Counters
    <3> QED
      BY <1>2, <3>1 DEF Follows, Counters, Dated
  <2>6. \A e \in Beyond(events', runs'[k].uid, runs'[k].seq) : e.stream \in Streams /\ e.seq > c[1][e.stream]
    BY <2>4 DEF Beyond
  <2>7. Named(Beyond(events', runs'[k].uid, runs'[k].seq), o2, c2, replay, L, k)
    <3> DEFINE E == Beyond(events, runs[k].uid, runs[k].seq)
               F == Beyond(events', runs'[k].uid, runs'[k].seq)
    <3>1. Works(o, c, Todo, L + 1, k) /\ Named(E, o, c, Todo, L + 1, k)
      BY <2>1
    <3>2. F \subseteq E /\ \A e \in F : e.stream \in Streams /\ e.seq > c[1][e.stream]
      BY <2>5, <2>6
    <3>3. L \in Nat /\ \A i \in 1..L : replay[i] = Todo[i + 1]
      BY <1>1
    <3> HIDE DEF E, F
    <3>4. Named(F, o2, c2, replay, L, k)
      BY <2>l, <3>1, <3>2, <3>3, NamedTail
    <3> QED
      BY <3>4 DEF F
  <2>8. Redoes(k, o2, c2)'
    BY <1>1, <2>2, <2>4, <2>7 DEF Redoes
  <2> QED
    BY <2>8 DEF Ahead
<1> QED
  BY <1>3, <1>4, <1>5 DEF Ahead

(* The number of the save in hand is taken by no other point. *)
LEMMA PointIsNamed ==
    ASSUME LoopInv, RunInv, Dated, Streams \cap Flyers = {}, Handle, NEW k \in DOMAIN runs,
           Ahead(k),
           NEW e \in events' \ events, e.stream \in Streams, e.run = runs[k].uid,
           NEW f \in events, f.run = e.run, f.stream = e.stream, f.seq = e.seq
    PROVE  f.point = e.point
<1> DEFINE n == e.stream
<1>1. /\ pc = "handle" /\ cur.key = k /\ IsPoint(cur, k, runs[k].open, n)
      /\ e.seq = runs[k].seq[n] + 1 /\ e.point = <<"save", cur.id>>
  BY PointOf
<1>2. runs[k].seq[n] \in Nat /\ f \in Beyond(events, runs[k].uid, runs[k].seq)
  BY <1>1, CountersTyped DEF Counters, Beyond
<1>3. Ahead(k) /\ ~Caught(k)
  BY <1>2 DEF Caught
<1>4. PICK o, c : Redoes(k, o, c)
  BY <1>1, <1>3 DEF Ahead, IsPoint, NoBundle
<1> DEFINE L == Len(replay)
<1>5. L \in Nat /\ Len(Todo) = L + 1 /\ Todo[1] = cur
  BY <1>1, TodoIs
<1> HIDE DEF L
<1>6. PICK i \in 1..(L + 1) : /\ IsPoint(Todo[i], k, o[i - 1], n)
                              /\ f.seq = c[i - 1][n] + 1 /\ f.point = <<"save", Todo[i].id>>
  BY <1>2, <1>4, <1>5 DEF Redoes, Named
<1>7. i = 1
  <2> SUFFICES ASSUME i # 1 PROVE FALSE
    OBVIOUS
  <2>1. 1 \in 1..(L + 1) /\ 1 - 1 = 0 /\ i - 1 \in 0..(L + 1) /\ 1 \in 0..(L + 1) /\ 1 <= i - 1
    BY <1>5
  <2>2. c[1][n] = runs[k].seq[n] + 1
    BY <1>1, <1>4, <1>5, <2>1 DEF Redoes, Works
  <2>3. c[1][n] <= c[i - 1][n] /\ c[i - 1][n] \in Nat
    BY <1>4, <1>5, <2>1 DEF Redoes, Works
  <2> QED
    BY <1>1, <1>2, <1>6, <2>2, <2>3
<1> QED
  BY <1>1, <1>5, <1>6, <1>7

LEMMA UidsGrow == LoopInv /\ RunInv /\ [Next]_vars => uids' \in {uids, uids + 1}
<1> SUFFICES ASSUME LoopInv, RunInv, [Next]_vars PROVE uids' \in {uids, uids + 1}
  OBVIOUS
<1>1. CASE Handle
  BY <1>1, HandleRuns DEF RunsMapped, HandleOpenRun, HandleCloseRun
<1>2. CASE Loop
  BY <1>2, LoopRuns DEF RunsMapped, RunsEnded
<1>3. CASE Environment
  BY <1>3, Requests
<1>4. CASE RunAsync \/ LoopTimeout \/ Cleanup \/ UNCHANGED vars
  BY <1>4 DEF RunAsync, LoopTimeout, Cleanup, vars, docVars
<1> QED
  BY <1>1, <1>2, <1>3, <1>4 DEF Next

LEMMA DatedStep == LoopInv /\ RunInv /\ Dated /\ [Next]_vars => Dated'
<1> SUFFICES ASSUME LoopInv, RunInv, Dated, [Next]_vars, NEW e \in events' PROVE e.run \in 1..uids' /\ e.seq \in Nat
  BY DEF Dated
<1>1. uids \in Nat /\ uids' \in {uids, uids + 1}
  BY UidsGrow DEF LoopInv, RunInv
<1>2. e.run \in 1..uids /\ e.seq \in Nat
  <2>1. CASE e \in events
    BY <2>1 DEF Dated
  <2>2. CASE e \notin events
    BY <2>2, EventsOfOpenRuns DEF RunInv
  <2> QED
    BY <2>1, <2>2
<1> QED
  BY <1>1, <1>2

LEMMA HandlePauses ==
    ASSUME MaxPauses <= 1, PauseInv, pc # "parked", pc' # "parked", Handle
    PROVE  PauseInv' /\ (Resumed' <=> Resumed)
<1> USE DEF PauseInv, Resumed
<1>1. CASE HandlePause
  BY <1>1, EngineAssumption DEF HandlePause
<1>2. CASE HandleCheckpoint
  BY <1>2 DEF HandleCheckpoint, boundVars
<1>3. CASE ~HandlePause /\ ~HandleCheckpoint
  <2>1. UNCHANGED <<pauseReq, deferred, pauses>>
    BY <1>3 DEF Handle, Rejected, DeviceFails, HandleOpenRun, HandleCloseRun, HandleCreate, HandleRead, HandleSave, SaveFails,
       HandleDrop, HandleDeclareStream, HandleKickoff, HandleCollect, HandleMonitor, HandleUnmonitor, HandleStage,
       StageDone, HandleUnstage, HandleHook, HandleClearCheckpoint, HandleRewindable, HandleSet, HandleMove, HandleWait,
       HandleSleep, WaitDone, WaitFails, WaitMovesOn, WaitCutShort, HandlePushContingency, HandlePopContingency,
       SlotStep, pauseVars, boundVars
  <2> QED
    BY <2>1
<1> QED
  BY <1>1, <1>2, <1>3

LEMMA HandleRegions ==
    ASSUME OneRewind, LoopInv, Handle, regions = 0
    PROVE  regions' = 0
<1>1. CASE HandlePushContingency
  <2>1. PICK m \in Alphabet : cur.op = m.op
    BY <1>1 DEF LoopInv, Messages, Working, HandlePushContingency, Begin, Handling
  <2> QED
    BY <1>1, <2>1 DEF OneRewind, HandlePushContingency, Begin, Handling
<1>2. CASE HandlePopContingency
  BY <1>2 DEF HandlePopContingency
<1>3. CASE ~HandlePushContingency /\ ~HandlePopContingency
  BY <1>3 DEF Handle, Rejected, DeviceFails, HandleOpenRun, HandleCloseRun, HandleCreate, HandleRead, HandleSave, SaveFails,
     HandleDrop, HandleDeclareStream, HandleKickoff, HandleCollect, HandleMonitor, HandleUnmonitor, HandleStage,
     StageDone, HandleUnstage, HandleHook, HandleCheckpoint, HandleClearCheckpoint, HandleRewindable, HandleSet,
     HandleMove, HandleWait, HandleSleep, WaitDone, WaitFails, WaitMovesOn, WaitCutShort, HandlePause, SlotStep
<1> QED
  BY <1>1, <1>2, <1>3

(* Before the rewind a handler takes every run one message further. *)
LEMMA BeforeHandles ==
    ASSUME LoopInv, RunInv, RunInv', Dated, Streams \cap Flyers = {}, Handle, pc \in Working, pc' \notin {"handle", "parked"},
           replay' = replay, BeforeInv
    PROVE  BeforeInv'
<1>1. Checkpoints
  BY HandleCheckpoints
<1>2. replay' = <<>> /\ (~rewindable' => cache' = <<>>) /\ ~InHand'
  BY <1>1 DEF BeforeInv, Checkpoints, InHand
<1> SUFFICES ASSUME Live', NEW k \in DOMAIN runs'
             PROVE  Caught(k)' /\ (rewindable' /\ runs'[k].snap # NoSnapshot => \E o, c : Leads(k, o, c)')
  BY <1>2 DEF BeforeInv
<1>3. Live /\ pc' # "failed"
  BY DEF Live, Working
<1>4. k \in DOMAIN runs => Caught(k)
  BY <1>3 DEF BeforeInv
<1>5. Caught(k)'
  BY <1>3, <1>4, HandleCaught
<1>6. ASSUME rewindable', runs'[k].snap # NoSnapshot PROVE \E o, c : Leads(k, o, c)'
  <2>1. k \in DOMAIN runs
    BY <1>6, NewRuns
  <2>2. Follow(k)
    BY <1>3, <2>1, HandleFollows
  <2>3. CASE cache' = <<>> /\ runs'[k].snap = runs'[k].seq
    <3>1. Counters(k)'
      BY DEF RunInv, Slots, Counters, AllStreams
    <3> QED
      BY <1>2, <1>5, <2>3, <3>1, LeadsAnew
  <2>4. CASE UNCHANGED <<cache, rewindable>> /\ runs'[k].snap = runs[k].snap
    <3>1. PICK o, c : Leads(k, o, c)
      BY <1>3, <1>6, <2>1, <2>4 DEF BeforeInv
    <3>2. CASE InHand
      <4>1. Len(cache) > 0 /\ cache[Len(cache)] = cur
        BY <3>2 DEF BeforeInv
      <4> QED
        BY <1>2, <2>1, <2>2, <2>4, <3>1, <3>2, <4>1, LeadsOn
    <3>3. CASE ~InHand
      <4>1. pc = "handle" => cur.op \in Uncacheable
        BY <1>6, <2>4, <3>3 DEF InHand
      <4>2. Stays(runs[k], runs'[k])
        <5>1. CASE pc = "handle"
          <6>1. Leaves(cur, k, runs[k].open)
            BY <4>1, <5>1 DEF Leaves, Uncacheable
          <6> QED
            BY <2>2, <5>1, <6>1, LeftWorked DEF Follow, Follows, Stays
        <5>2. CASE pc # "handle"
          BY <2>2, <5>2 DEF Follow
        <5> QED
          BY <5>1, <5>2
      <4>3. NothingNew
        BY <4>1, HandlePoints DEF NothingNew, Uncacheable
      <4>4. Seen' = Seen
        BY <1>2, <2>4, <3>3 DEF Seen
      <4>5. Leads(k, o, c)'
        BY <2>4, <3>1, <4>2, <4>3, <4>4, LeadsSame
      <4> QED
        BY <4>5
    <3> QED
      BY <3>2, <3>3
  <2> QED
    BY <1>1, <1>6, <2>1, <2>3, <2>4 DEF Checkpoints
<1> QED
  BY <1>5, <1>6

LEMMA AfterHandles ==
    ASSUME LoopInv, LoopInv', RunInv, Dated, Streams \cap Flyers = {}, Handle, pc \in Working, pc' \notin {"handle", "parked"},
           replay' = replay, AfterInv
    PROVE  AfterInv'
<1> SUFFICES ASSUME Live', NEW k \in DOMAIN runs' PROVE Ahead(k)'
  BY DEF AfterInv
<1>1. Live /\ pc' # "failed"
  BY DEF Live, Working
<1>2. CASE k \notin DOMAIN runs
  <2>1. Caught(k)'
    BY <1>1, <1>2, HandleCaught
  <2> QED
    BY <2>1 DEF Ahead
<1>3. CASE k \in DOMAIN runs /\ pc = "handle"
  <2>1. Ahead(k)
    BY <1>1, <1>3 DEF AfterInv
  <2> QED
    BY <1>1, <1>3, <2>1, AheadOn
<1>4. CASE k \in DOMAIN runs /\ pc # "handle"
  <2>1. Ahead(k)
    BY <1>1, <1>4 DEF AfterInv
  <2>2. Stays(runs[k], runs'[k])
    BY <1>1, <1>4, HandleFollows DEF Follow
  <2>3. NothingNew
    BY <1>4, HandlePoints DEF NothingNew
  <2>4. Todo' = Todo
    BY <1>4 DEF Todo
  <2> QED
    BY <2>1, <2>2, <2>3, <2>4, AheadSame
<1> QED
  BY <1>2, <1>3, <1>4

LEMMA RewindHandles ==
    ASSUME OneRewind, LoopInv, LoopInv', RunInv, RunInv', RewindInv, Dated', Handle
    PROVE  RewindInv'
<1>1. pc \in Working /\ pc' \notin {"handle", "parked", "idle"} /\ replay' = replay
  BY HandleLoop DEF HandlerEnds, HandlerWaits, WaitCutShort, Done, Working, cacheVars
<1>2. PauseInv' /\ (Resumed' <=> Resumed)
  BY <1>1, HandlePauses DEF RewindInv, OneRewind, Working
<1>3. regions' = 0
  BY HandleRegions DEF RewindInv
<1>4. Streams \cap Flyers = {} /\ Dated
  BY DEF OneRewind, RewindInv
<1>5. IF Resumed' THEN AfterInv' ELSE BeforeInv'
  BY <1>1, <1>2, <1>4, BeforeHandles, AfterHandles DEF RewindInv
<1>6. SeqNamesPoint'
  <2> SUFFICES ASSUME NEW e \in events', NEW f \in events', e.run = f.run, e.stream = f.stream, e.stream \in Streams,
                      e.seq = f.seq
               PROVE  e.point = f.point
    BY DEF SeqNamesPoint
  <2>1. ASSUME NEW x \in events' \ events, NEW y \in events, x.stream \in Streams, y.run = x.run, y.stream = x.stream,
               y.seq = x.seq
        PROVE  y.point = x.point
    <3> DEFINE k == cur.key
    <3>1. k \in DOMAIN runs /\ x.run = runs[k].uid /\ pc = "handle"
      BY <1>4, <2>1, HandlePoints
    <3> HIDE DEF k
    <3>2. Ahead(k)
      BY <3>1 DEF RewindInv, BeforeInv, AfterInv, Live, Ahead
    <3> QED
      BY <1>4, <2>1, <3>1, <3>2, PointIsNamed
  <2>2. CASE e \in events /\ f \in events
    BY <2>2 DEF RewindInv, SeqNamesPoint
  <2>3. CASE e \notin events /\ f \notin events
    BY <1>4, <2>3, HandlePoints
  <2>4. CASE e \notin events /\ f \in events
    BY <2>1, <2>4
  <2>5. CASE e \in events /\ f \notin events
    BY <2>1, <2>5
  <2> QED
    BY <2>2, <2>3, <2>4, <2>5
<1> QED
  BY <1>1, <1>2, <1>3, <1>5, <1>6 DEF RewindInv

(* The gate: recording and monitors leave what matters here. *)
LEMMA GateStays ==
    ASSUME NEW rs, NEW dead, rs \in [DOMAIN rs -> Slots]
    PROVE  /\ \A k \in DOMAIN rs : Stays(rs[k], Recorded(rs)[k]) /\ Recorded(rs)[k].snap = rs[k].snap
           /\ \A k \in DOMAIN rs : Stays(rs[k], RestoreMonitors(rs, dead)[k]) /\ RestoreMonitors(rs, dead)[k].snap = rs[k].snap
<1>1. Interruptions \in AllStreams /\ Interruptions \notin Streams
  BY EngineAssumption DEF AllStreams
<1>2. ASSUME NEW k \in DOMAIN rs PROVE Stays(rs[k], Recorded(rs)[k]) /\ Recorded(rs)[k].snap = rs[k].snap
  <2>1. rs[k] \in Slots
    OBVIOUS
  <2>2. Stays(rs[k], ComposeEvent(rs[k], Interruptions)) /\ ComposeEvent(rs[k], Interruptions).snap = rs[k].snap
    BY <1>1, <2>1, ComposeStays
  <2>3. Stays(rs[k], rs[k])
    BY DEF Stays
  <2> QED
    BY <2>2, <2>3 DEF Recorded
<1>3. ASSUME NEW k \in DOMAIN rs PROVE Stays(rs[k], RestoreMonitors(rs, dead)[k]) /\ RestoreMonitors(rs, dead)[k].snap = rs[k].snap
  BY DEF RestoreMonitors, Stays, Slots
<1> QED
  BY <1>2, <1>3

LEMMA GateEvents ==
    ASSUME EnterPause \/ OnResume
    PROVE  NothingNew
<1>1. ASSUME NEW rs, NEW what, NEW e \in RecordingOf(rs, what) PROVE e.stream \notin Streams
  BY EngineAssumption DEF RecordingOf, EventOf
<1>2. CASE EnterPause
  BY <1>1, <1>2 DEF EnterPause, NothingNew
<1>3. CASE OnResume
  BY <1>1, <1>3 DEF OnResume, NothingNew
<1> QED
  BY <1>2, <1>3

LEMMA NamesSame == NothingNew /\ SeqNamesPoint => SeqNamesPoint'
BY DEF NothingNew, SeqNamesPoint

LEMMA PausesSame ==
    ASSUME PauseInv, UNCHANGED <<pauses, pauseReq, deferred>>, (pc = "parked") <=> (pc' = "parked")
    PROVE  PauseInv' /\ (Resumed' <=> Resumed)
BY DEF PauseInv, Resumed

LEMMA BeforeSame ==
    ASSUME BeforeInv, NothingNew, UNCHANGED <<cache, rewindable, replay>>, DOMAIN runs' = DOMAIN runs,
           \A k \in DOMAIN runs : Stays(runs[k], runs'[k]) /\ runs'[k].snap = runs[k].snap,
           UNCHANGED <<pc, cur>> \/ (~InHand /\ ~InHand'), Live' => Live
    PROVE  BeforeInv'
<1>1. InHand' = InHand /\ Seen' = Seen
  BY DEF InHand, Seen
<1>2. replay' = <<>> /\ (~rewindable' => cache' = <<>>) /\ (InHand' => Len(cache') > 0 /\ cache'[Len(cache')] = cur')
  BY <1>1 DEF BeforeInv
<1> SUFFICES ASSUME Live', NEW k \in DOMAIN runs'
             PROVE  Caught(k)' /\ (rewindable' /\ runs'[k].snap # NoSnapshot => \E o, c : Leads(k, o, c)')
  BY <1>2 DEF BeforeInv
<1>3. Caught(k)'
  BY CaughtSame DEF BeforeInv
<1>4. ASSUME rewindable', runs'[k].snap # NoSnapshot PROVE \E o, c : Leads(k, o, c)'
  <2>1. PICK o, c : Leads(k, o, c)
    BY <1>4 DEF BeforeInv
  <2>2. Leads(k, o, c)'
    BY <1>1, <2>1, LeadsSame
  <2> QED
    BY <2>2
<1> QED
  BY <1>3, <1>4

LEMMA RewindEnters ==
    ASSUME LoopInv, RunInv, RewindInv, Dated', EnterPause
    PROVE  RewindInv'
<1> DEFINE quiet == [k \in DOMAIN runs |-> [runs[k] EXCEPT !.pumps = {}]]
<1>1. /\ DOMAIN quiet = DOMAIN runs /\ quiet \in [DOMAIN quiet -> Slots]
      /\ \A k \in DOMAIN runs : Stays(runs[k], quiet[k]) /\ quiet[k].snap = runs[k].snap
  <2>1. ASSUME NEW k \in DOMAIN runs
        PROVE  quiet[k] \in Slots /\ Stays(runs[k], quiet[k]) /\ quiet[k].snap = runs[k].snap
    <3>1. runs[k] \in Slots
      BY DEF RunInv
    <3> QED
      BY <3>1 DEF Slots, Stays
  <2> QED
    BY <2>1
<1>2. runs' = Recorded(quiet)
  BY DEF EnterPause
<1> HIDE DEF quiet
<1>3. \A k \in DOMAIN runs : Stays(runs[k], runs'[k]) /\ runs'[k].snap = runs[k].snap
  BY <1>1, <1>2, GateStays DEF Stays
<1>4. DOMAIN runs' = DOMAIN runs
  BY <1>1, <1>2 DEF Recorded
<1>5. /\ pc = "top" /\ pc' = "parked" /\ pauseReq /\ ~pauseReq' /\ UNCHANGED <<pauses, deferred, regions, cache, rewindable, replay>>
  BY DEF EnterPause, cacheVars, boundVars
<1>6. PauseInv' /\ ~Resumed /\ ~Resumed'
  BY <1>5 DEF RewindInv, PauseInv, Resumed
<1>7. BeforeInv'
  BY <1>3, <1>4, <1>5, <1>6, BeforeSame, GateEvents DEF RewindInv, InHand, Live
<1>8. SeqNamesPoint'
  BY GateEvents, NamesSame DEF RewindInv
<1> QED
  BY <1>5, <1>6, <1>7, <1>8 DEF RewindInv

(* The rewind: what led to now is to be redone. *)
LEMMA RewindResumes ==
    ASSUME LoopInv, RunInv, RewindInv, Dated', OnResume
    PROVE  RewindInv'
<1> DEFINE rewound == [k \in DOMAIN runs |-> IF cache = <<>> THEN runs[k] ELSE Rewind(runs[k])]
<1>d. PICK dead \in Failing(Registrations) : runs' = Recorded(RestoreMonitors(rewound, dead))
  BY DEF OnResume
<1> DEFINE restored == RestoreMonitors(rewound, dead)
<1>1. DOMAIN rewound = DOMAIN runs /\ rewound \in [DOMAIN rewound -> Slots] /\ \A k \in DOMAIN runs : rewound[k] \in Slots
  <2>1. \A k \in DOMAIN runs : rewound[k] \in Slots
    BY SlotOps DEF RunInv
  <2> QED
    BY <2>1
<1>2. runs' = Recorded(restored)
  BY <1>d
<1>w. \A k \in DOMAIN runs : rewound[k] = IF cache = <<>> THEN runs[k] ELSE Rewind(runs[k])
  OBVIOUS
<1> HIDE DEF rewound
<1>3. rewound \in [DOMAIN rewound -> Slots] /\ Maps(rewound, restored)
  BY <1>1, RestoreMaps
<1>4. \A k \in DOMAIN runs : Stays(rewound[k], restored[k])
  BY <1>1, <1>3, GateStays
<1>r. restored \in [DOMAIN restored -> Slots] /\ DOMAIN restored = DOMAIN runs
  BY <1>1, <1>3 DEF Maps
<1> HIDE DEF restored
<1>5. \A k \in DOMAIN runs : Stays(restored[k], runs'[k])
  BY <1>2, <1>r, GateStays
<1>6. DOMAIN runs' = DOMAIN runs /\ \A k \in DOMAIN runs : Stays(rewound[k], runs'[k])
  BY <1>2, <1>4, <1>5, <1>r DEF Stays, Recorded
<1>7. /\ pc = "parked" /\ pc' = "top" /\ ~pauseReq' /\ UNCHANGED <<pauses, deferred, regions>>
      /\ replay' = replay \o cache /\ NothingNew
  BY GateEvents DEF OnResume, boundVars, Replayed
<1>8. PauseInv' /\ ~Resumed /\ Resumed' /\ BeforeInv
  BY <1>7 DEF RewindInv, PauseInv, Resumed
<1>9. Todo' = cache /\ Seen = Len(cache)
  <2>1. cache \in Seq(Messages) /\ replay = <<>>
    BY <1>8 DEF LoopInv, Queued, BeforeInv
  <2>2. replay' = cache
    BY <1>7, <2>1
  <2> QED
    BY <1>7, <2>2 DEF Todo, Seen, InHand
<1>10. ASSUME NEW k \in DOMAIN runs PROVE Ahead(k)'
  <2>1. runs[k] \in Slots /\ Caught(k)
    BY <1>7, <1>8 DEF RunInv, BeforeInv, Live
  <2>2. CASE cache = <<>>
    <3>1. Stays(runs[k], runs'[k])
      BY <1>6, <1>w, <2>2
    <3> QED
      BY <1>7, <2>1, <3>1, CaughtSame DEF Ahead
  <2>3. CASE cache # <<>>
    <3>1. rewindable /\ Stays(Rewind(runs[k]), runs'[k])
      BY <1>6, <1>8, <1>w, <2>3 DEF BeforeInv
    <3>2. /\ Rewind(runs[k]).uid = runs[k].uid /\ Rewind(runs[k]).open = NoBundle
          /\ Rewind(runs[k]).seq = IF runs[k].snap = NoSnapshot THEN runs[k].seq ELSE runs[k].snap
      BY <2>1 DEF Rewind, Slots
    <3>3. runs'[k].uid = runs[k].uid /\ runs'[k].open = NoBundle
      BY <3>1, <3>2 DEF Stays
    <3>4. CASE runs[k].snap = NoSnapshot
      <4>1. \A n \in Streams : runs'[k].seq[n] = runs[k].seq[n]
        BY <3>1, <3>2, <3>4 DEF Stays
      <4>2. Beyond(events', runs'[k].uid, runs'[k].seq) = Beyond(events, runs[k].uid, runs[k].seq)
        BY <1>7, <3>3, <4>1, BeyondSame
      <4> QED
        BY <2>1, <4>2 DEF Ahead, Caught
    <3>5. CASE runs[k].snap # NoSnapshot
      <4>1. \A n \in Streams : runs'[k].seq[n] = runs[k].snap[n]
        BY <3>1, <3>2, <3>5 DEF Stays
      <4>2. Beyond(events', runs'[k].uid, runs'[k].seq) = Beyond(events, runs[k].uid, runs[k].snap)
        BY <1>7, <3>3, <4>1, BeyondSame
      <4>3. PICK o, c : Leads(k, o, c)
        BY <1>7, <1>8, <3>1, <3>5 DEF BeforeInv, Live
      <4>4. CASE o[0] = NoBundle
        <5>1. Redoes(k, o, c)'
          BY <1>9, <3>3, <4>1, <4>2, <4>3, <4>4 DEF Redoes, Leads
        <5> QED
          BY <5>1 DEF Ahead
      <4>5. CASE Torn(cache, Seen, k)
        BY <1>9, <3>3, <4>5 DEF Ahead
      <4>6. CASE \A i \in 1..Seen : ~Turns(cache[i], k)
        <5>1. Beyond(events, runs[k].uid, runs[k].snap) = {}
          BY <4>3, <4>6 DEF Leads, Named, IsPoint, Turns
        <5> QED
          BY <4>2, <5>1 DEF Ahead, Caught
      <4> QED
        BY <4>3, <4>4, <4>5, <4>6 DEF Leads
    <3> QED
      BY <3>4, <3>5
  <2> QED
    BY <2>2, <2>3
<1>11. AfterInv'
  BY <1>6, <1>10 DEF AfterInv
<1>12. SeqNamesPoint'
  BY <1>7, NamesSame DEF RewindInv
<1> QED
  BY <1>7, <1>8, <1>11, <1>12 DEF RewindInv

LEMMA RewindPulls ==
    ASSUME LoopInv, RunInv, RewindInv, Dated', PullReplay \/ \E m \in Alphabet : PullPlan(m)
    PROVE  RewindInv'
<1>1. /\ pc = "top" /\ pc' = "handle" /\ UNCHANGED <<runs, events, regions, pauses, pauseReq, deferred, rewindable>>
  BY DEF PullReplay, PullPlan, Pulling, boundVars, pauseVars, docVars
<1>2. PauseInv' /\ (Resumed' <=> Resumed)
  BY <1>1, PausesSame DEF RewindInv
<1>3. NothingNew /\ SeqNamesPoint'
  BY <1>1, NamesSame DEF NothingNew, RewindInv
<1>4. \A k \in DOMAIN runs : Stays(runs[k], runs'[k])
  BY <1>1 DEF Stays
<1>5. ASSUME Resumed PROVE AfterInv'
  <2> SUFFICES ASSUME NEW k \in DOMAIN runs PROVE Ahead(k)'
    BY <1>1 DEF AfterInv
  <2>1. Ahead(k)
    BY <1>1, <1>5 DEF RewindInv, AfterInv, Live
  <2>2. CASE PullReplay
    <3>1. replay \in Seq(Messages) /\ replay # <<>> /\ cur' = Head(replay) /\ replay' = Tail(replay)
      BY <2>2 DEF PullReplay, LoopInv, Queued
    <3>2. <<Head(replay)>> \o Tail(replay) = replay
      BY <3>1
    <3>3. Todo' = Todo
      BY <1>1, <3>1, <3>2 DEF Todo
    <3> QED
      BY <1>3, <1>4, <2>1, <3>3, AheadSame
  <2>3. CASE \E m \in Alphabet : PullPlan(m)
    <3>1. Todo = <<>>
      BY <1>1, <2>3 DEF PullPlan, Todo
    <3>2. Len(Todo) = 0
      BY <3>1
    <3>3. Caught(k)
      BY <2>1, <3>2 DEF Ahead, Torn, Redoes, Named, Caught
    <3> QED
      BY <1>3, <1>4, <3>3, CaughtSame DEF Ahead
  <2> QED
    BY <2>2, <2>3
<1>6. ASSUME ~Resumed PROVE BeforeInv'
  <2>1. BeforeInv /\ replay = <<>>
    BY <1>6 DEF RewindInv, BeforeInv
  <2>2. PICK m \in Alphabet : PullPlan(m)
    BY <2>1 DEF PullReplay
  <2> DEFINE n == Numbered(m)
             L == Len(cache)
  <2>3. /\ cur' = n /\ replay' = <<>> /\ n.op = m.op
        /\ cache' = IF rewindable /\ n.op \notin Uncacheable THEN Append(cache, n) ELSE cache
    BY <2>1, <2>2 DEF PullPlan, Numbered
  <2> HIDE DEF n
  <2>4. L \in Nat /\ Seen = L /\ cache \in Seq(Messages)
    BY <1>1 DEF LoopInv, Queued, Seen, InHand
  <2>5. /\ Seen' = L /\ \A i \in 1..L : cache'[i] = cache[i]
        /\ InHand' => Len(cache') > 0 /\ cache'[Len(cache')] = cur'
    <3>1. CASE rewindable /\ n.op \notin Uncacheable
      <4>1. cache' = Append(cache, n)
        BY <2>3, <3>1
      <4>2. Len(cache') = L + 1 /\ cache'[L + 1] = n /\ \A i \in 1..L : cache'[i] = cache[i]
        BY <2>4, <4>1
      <4>3. InHand'
        BY <1>1, <2>3, <3>1 DEF InHand
      <4> QED
        BY <2>3, <2>4, <4>2, <4>3 DEF Seen
    <3>2. CASE ~(rewindable /\ n.op \notin Uncacheable)
      <4>1. cache' = cache /\ ~InHand'
        BY <1>1, <2>3, <3>2 DEF InHand
      <4> QED
        BY <4>1 DEF Seen
    <3> QED
      BY <3>1, <3>2
  <2>6. ~rewindable' => cache' = <<>>
    BY <1>1, <2>1, <2>3 DEF BeforeInv
  <2>7. ASSUME NEW k \in DOMAIN runs, rewindable, runs[k].snap # NoSnapshot PROVE \E o, c : Leads(k, o, c)'
    <3>1. PICK o, c : Leads(k, o, c)
      BY <1>1, <2>1, <2>7 DEF BeforeInv, Live
    <3> HIDE DEF L
    <3>2. Works(o, c, cache', L, k)
      BY <2>4, <2>5, <3>1, WorksOn DEF Leads
    <3>3. Named(Beyond(events', runs'[k].uid, runs'[k].snap), o, c, cache', L, k)
      BY <1>1, <2>4, <2>5, <3>1 DEF Leads, Named
    <3>4. \/ o[0] = NoBundle \/ Torn(cache', L, k)
          \/ runs'[k].open # NoBundle /\ \A i \in 1..L : ~Turns(cache'[i], k)
      <4>1. Torn(cache, L, k) => Torn(cache', L, k)
        <5> SUFFICES ASSUME NEW j \in 1..L, cache[j].key = k, cache[j].op \in {"save", "drop"},
                            \A i \in 1..(j - 1) : ~Turns(cache[i], k)
                     PROVE  Torn(cache', L, k)
          BY DEF Torn
        <5>1. \A i \in 1..(j - 1) : i \in 1..L
          BY <2>4
        <5> QED
          BY <2>5, <5>1 DEF Torn
      <4> QED
        BY <1>1, <2>4, <2>5, <3>1, <4>1 DEF Leads
    <3>5. Leads(k, o, c)'
      BY <1>1, <2>4, <2>5, <3>1, <3>2, <3>3, <3>4 DEF Leads
    <3> QED
      BY <3>5
  <2>8. \A k \in DOMAIN runs : Caught(k)'
    BY <1>1, <1>3, <1>4, <2>1, CaughtSame DEF BeforeInv, Live
  <2> QED
    BY <1>1, <2>3, <2>5, <2>6, <2>7, <2>8 DEF BeforeInv
<1> QED
  BY <1>1, <1>2, <1>3, <1>5, <1>6 DEF RewindInv

(* Nothing is live at the end: the flyers collected late have streams of   *)
(* their own.                                                              *)
LEMMA BackstopNew ==
    ASSUME RunInv, Streams \cap Flyers = {}, BackstopCollect
    PROVE  NothingNew
<1> SUFFICES ASSUME NEW e \in events' \ events PROVE e.stream \notin Streams
  BY DEF BackstopCollect, NothingNew
<1>1. PICK k \in DOMAIN runs : \E f \in runs[k].uncollected : e = EventOf(runs[k], f, <<"backstop", 0>>)
  BY BackstopEvents
<1>2. PICK f \in runs[k].uncollected : e = EventOf(runs[k], f, <<"backstop", 0>>)
  BY <1>1
<1>3. f \in Flyers
  BY DEF RunInv, Slots
<1> QED
  BY <1>2, <1>3 DEF EventOf

LEMMA RewindEnds ==
    ASSUME RewindInv, NothingNew, Dated', UNCHANGED <<cache, rewindable, replay>>, ~Live', regions' = 0,
           pc' = "idle" => runs' = NoRuns, PauseInv', Resumed => Resumed'
    PROVE  RewindInv'
<1>1. SeqNamesPoint'
  BY NamesSame DEF RewindInv
<1>2. IF Resumed' THEN AfterInv' ELSE BeforeInv'
  BY DEF RewindInv, AfterInv, BeforeInv, InHand, Live
<1> QED
  BY <1>1, <1>2 DEF RewindInv

LEMMA RewindSame ==
    ASSUME RewindInv, Dated', UNCHANGED <<pc, cur, runs, events, regions, cache, rewindable, replay>>,
           PauseInv', (Resumed' <=> Resumed)
    PROVE  RewindInv'
<1>1. NothingNew /\ SeqNamesPoint' /\ \A k \in DOMAIN runs : Stays(runs[k], runs'[k])
  BY NamesSame DEF NothingNew, RewindInv, Stays
<1>2. ASSUME Resumed PROVE AfterInv'
  <2>1. Todo' = Todo
    BY DEF Todo
  <2> QED
    BY <1>1, <1>2, <2>1, AheadSame DEF RewindInv, AfterInv, Live
<1>3. ASSUME ~Resumed PROVE BeforeInv'
  BY <1>1, <1>3, BeforeSame DEF RewindInv, Live
<1> QED
  BY <1>1, <1>2, <1>3 DEF RewindInv

LEMMA RewindStep == OneRewind /\ LoopInv /\ RunInv /\ RewindInv /\ [Next]_vars => RewindInv'
<1> SUFFICES ASSUME OneRewind, LoopInv, RunInv, RewindInv, [Next]_vars PROVE RewindInv'
  OBVIOUS
<1>d. LoopInv' /\ RunInv' /\ Dated'
  BY LoopStep, RunStep, DatedStep DEF RewindInv
<1>1. CASE Handle
  BY <1>1, <1>d, RewindHandles
<1>2. CASE EnterPause
  BY <1>2, <1>d, RewindEnters
<1>3. CASE OnResume
  BY <1>3, <1>d, RewindResumes
<1>4. CASE LeaveInterrupted
  <2>1. /\ pc = "parked" /\ pc' = "take" /\ ~pauseReq' /\ UNCHANGED <<pauses, deferred, regions, cache, rewindable, replay, events>>
    BY <1>4 DEF LeaveInterrupted, cacheVars, boundVars, docVars
  <2>2. PauseInv' /\ ~Resumed
    BY <2>1 DEF RewindInv, PauseInv, Resumed
  <2> QED
    BY <1>d, <2>1, <2>2, RewindEnds DEF NothingNew, Live, RewindInv
<1>5. CASE TakeInterrupt \/ ThrowError \/ PlanEnds
  <2>1. /\ pc' = "cleanup" /\ pc # "parked" /\ BackstopCollect
        /\ UNCHANGED <<pauses, pauseReq, deferred, regions, cache, rewindable, replay>>
    BY <1>5 DEF TakeInterrupt, ThrowError, PlanEnds, Pulling, Throw, NothingCatches, EndLoop, RewindInv,
       pauseVars, boundVars, cacheVars
  <2>2. PauseInv' /\ (Resumed' <=> Resumed)
    BY <2>1, PausesSame DEF RewindInv
  <2>3. NothingNew
    BY <2>1, BackstopNew DEF OneRewind
  <2> QED
    BY <1>d, <2>1, <2>2, <2>3, RewindEnds DEF Live, RewindInv
<1>6. CASE PullReplay \/ \E m \in Alphabet : PullPlan(m)
  BY <1>6, <1>d, RewindPulls
<1>7. CASE RunAsync
  <2>1. /\ pc = "idle" /\ pc' = "top" /\ ~pauseReq' /\ ~deferred'
        /\ UNCHANGED <<pauses, regions, runs, events, cache, rewindable, replay>> /\ runs = NoRuns
    BY <1>7 DEF RunAsync, cacheVars, RewindInv
  <2>2. PauseInv' /\ (Resumed => Resumed')
    BY <2>1 DEF RewindInv, PauseInv, Resumed
  <2>3. \A k : k \notin DOMAIN runs'
    BY <2>1 DEF NoRuns
  <2>4. AfterInv'
    BY <2>3 DEF AfterInv
  <2>5. BeforeInv => BeforeInv'
    BY <2>1, <2>3 DEF BeforeInv, InHand
  <2>6. SeqNamesPoint'
    BY <2>1, NamesSame DEF NothingNew, RewindInv
  <2> QED
    BY <1>d, <2>1, <2>2, <2>4, <2>5, <2>6 DEF RewindInv
<1>8. CASE Environment
  <2>1. UNCHANGED <<pc, cur, runs, events, regions>>
    BY <1>8, Requests
  <2>2. UNCHANGED <<cache, rewindable, replay>>
    BY <1>8, Zenon DEF Environment, RequestPause, Resume, RequestInterrupt, Arrive, cacheVars
  <2>3. CASE RequestPause
    <3>1. pauses < MaxPauses /\ pauses' = pauses + 1
          /\ \/ pauseReq' = TRUE /\ deferred' = deferred
             \/ deferred' = TRUE /\ pauseReq' = pauseReq
      BY <2>3 DEF RequestPause
    <3>2. PauseInv' /\ ~Resumed /\ ~Resumed'
      BY <2>1, <3>1, EngineAssumption DEF RewindInv, PauseInv, Resumed, OneRewind
    <3> QED
      BY <1>d, <2>1, <2>2, <3>2, RewindSame
  <2>4. CASE ~RequestPause
    <3>1. UNCHANGED <<pauses, pauseReq, deferred>>
      BY <1>8, <2>4, Zenon DEF Environment, Resume, RequestInterrupt, Arrive, pauseVars, boundVars
    <3>2. PauseInv' /\ (Resumed' <=> Resumed)
      BY <2>1, <3>1, PausesSame DEF RewindInv
    <3> QED
      BY <1>d, <2>1, <2>2, <3>2, RewindSame
  <2> QED
    BY <2>3, <2>4
<1>9. CASE LoopTimeout \/ Cleanup
  <2>1. /\ pc' \in {"cleanup", "idle"} /\ UNCHANGED <<pauses, pauseReq, deferred, cache, rewindable, replay, events>>
        /\ regions' = 0 /\ (pc' = "idle" => runs' = NoRuns)
    BY <1>9 DEF LoopTimeout, Cleanup, RewindInv, pauseVars, cacheVars, boundVars, docVars
  <2>2. PauseInv' /\ (Resumed => Resumed')
    BY <2>1 DEF RewindInv, PauseInv, Resumed
  <2> QED
    BY <1>d, <2>1, <2>2, RewindEnds DEF NothingNew, Live
<1>10. CASE UNCHANGED vars
  <2>1. UNCHANGED <<pc, cur, runs, events, regions, cache, rewindable, replay, pauses, pauseReq, deferred>>
    BY <1>10 DEF vars, loopVars, cacheVars, pauseVars, boundVars, docVars
  <2>2. PauseInv' /\ (Resumed' <=> Resumed)
    BY <2>1, PausesSame DEF RewindInv
  <2> QED
    BY <1>d, <2>1, <2>2, RewindSame
<1> QED
  BY <1>1, <1>2, <1>3, <1>4, <1>5, <1>6, <1>7, <1>8, <1>9, <1>10 DEF Next, Loop

(* A number names one point of a stream, although the rewind takes the     *)
(* counters back and the saves since the checkpoint are worked through     *)
(* again (rewind, on_resume, pull_msg, reset_checkpoint_state): with one   *)
(* pause, no region that goes on in the middle of a replay, and flyers     *)
(* that have streams of their own.                                         *)
THEOREM NumbersNamePoints == OneRewind /\ Spec => []SeqNamesPoint
<1>1. Init => RewindInv
  <2> SUFFICES ASSUME Init PROVE RewindInv
    OBVIOUS
  <2>1. SeqNamesPoint /\ Dated
    BY DEF Init, SeqNamesPoint, Dated
  <2>2. PauseInv /\ ~Resumed
    BY DEF Init, PauseInv, Resumed
  <2>3. BeforeInv
    BY DEF Init, BeforeInv, Live, InHand
  <2> QED
    BY <2>1, <2>2, <2>3 DEF Init, RewindInv
<1>2. OneRewind => OneRewind'
  BY DEF OneRewind
<1>3. RewindInv => SeqNamesPoint
  BY DEF RewindInv
<1> QED
  BY <1>1, <1>2, <1>3, LoopInit, LoopStep, RunInit, RunStep, RewindStep, PTL DEF Spec
=============================================================================
