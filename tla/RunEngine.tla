----------------------------- MODULE RunEngine ------------------------------
(***************************************************************************)
(* The message loop of engine/run_engine.rs: what run_async does with the  *)
(* messages of a plan, what a pause, a resume, an interrupt or a failure   *)
(* does between and inside them, and the cleanup at the end.               *)
(*                                                                         *)
(* The plan is any sequence of messages from Alphabet.  A message is a     *)
(* record [op, key, arg]: the handler, the run key it is routed to         *)
(* (Msg::InRun) and its stream or object.  Pulled from the plan it gets    *)
(* the number of its run_async call and its own number, which a replayed   *)
(* copy keeps.  A request to the engine is one step here; RunControl.tla   *)
(* is about the atomic operations inside it.                               *)
(***************************************************************************)
EXTENDS RunBundler, Sequences, FiniteSets

CONSTANTS
    RunKeys, Alphabet,
    Unstoppable,      \* objects that keep stop_on_pause's default, a no-op
    Recording,        \* record_interruptions
    HasLoopTimeout,   \* set_loop_timeout was called with Some(d)
    InterruptKinds,   \* a subset of {"stop", "abort", "halt"}
    MaxCalls, MaxMsgs, MaxPauses, MaxInterrupts, MaxFailures   \* bounds

(* The handlers: "set" is a grouped Set, "move" an ungrouped one, "sleep"  *)
(* stands for Sleep, WaitFor and every other ungrouped status, "hook" for  *)
(* the messages that only move the checkpoint (Subscribe, Unsubscribe).    *)
DeviceOps == {"read", "set", "move", "stage", "unstage", "monitor",
              "unmonitor"}
FlyerOps  == {"kickoff", "collect"}
StreamOps == {"create", "declare"}
PlainOps  == {"open", "close", "save", "drop", "wait", "sleep", "checkpoint",
              "clear", "rewindable", "unrewindable", "pause", "hook", "push",
              "pop", "fail"}

(* Msg::is_cacheable. *)
Uncacheable == {"open", "close", "pause", "checkpoint", "clear", "monitor",
                "unmonitor", "rewindable", "unrewindable", "hook", "push",
                "pop", "fail"}

ASSUME EngineAssumption ==
    /\ \A m \in Alphabet :
          /\ m.key \in RunKeys
          /\ \/ m.op \in DeviceOps /\ m.arg \in Devices
             \/ m.op \in FlyerOps /\ m.arg \in Flyers
             \/ m.op \in StreamOps /\ m.arg \in Streams
             \/ m.op \in PlainOps
    /\ Interruptions \notin Streams \cup Devices \cup Flyers
    /\ Unstoppable \subseteq Devices \cup Flyers
    /\ Recording \in BOOLEAN /\ HasLoopTimeout \in BOOLEAN
    /\ InterruptKinds \subseteq {"stop", "abort", "halt"}
    /\ MaxCalls \in Nat /\ MaxMsgs \in Nat /\ MaxPauses \in Nat
    /\ MaxInterrupts \in Nat /\ MaxFailures \in Nat

VARIABLES
    pc, cur, waitOn,                       \* the loop, its message, its wait
    pauseReq, paused, deferred,            \* the pause request and its flag
    interruptReq, isStopping, isHalting,
    runs, cache, replay, rewindable,       \* EngineState
    group, staged, touched, regions,
    devStaged, moving,                     \* the devices themselves
    calls, pulled, pauses, interrupts, failures,   \* what the bounds bound
    uids, events, stops, exit,             \* the documents and the result
    \* history: an uncaught interrupt ended the run; abort or halt was asked
    \* for in this call; the cached message a pause cut short; the one cut
    \* short after a checkpoint, cached or replayed; flyer data not in a run;
    \* the calls that failed and were only logged
    byInterrupt, abortAsked, cutCached, cut, unlanded, swallowed

loopVars   == <<cur, waitOn>>
pauseVars  == <<pauseReq, paused, deferred>>
intrVars   == <<interruptReq, isStopping, isHalting>>
cacheVars  == <<cache, replay, rewindable>>
objVars    == <<staged, touched, devStaged, moving>>
faultVars  == <<failures, swallowed>>
boundVars  == <<calls, pulled, pauses, interrupts, faultVars>>
docVars    == <<uids, events, stops, exit, byInterrupt, unlanded>>
histVars   == <<abortAsked, cutCached, cut>>
vars == <<pc, loopVars, pauseVars, intrVars, runs, cacheVars, group, regions,
          objVars, boundVars, docVars, histVars>>

NoMsg == [op |-> "none"]
NoRuns == [k \in {} |-> 0]
Uids == 1..MaxMsgs
NoneSwallowed == [monitor |-> {}, stop |-> {}, unstage |-> {}, collect |-> {}]

Init ==
    /\ pc = "idle" /\ cur = NoMsg /\ waitOn = {}
    /\ pauseReq = FALSE /\ paused = FALSE /\ deferred = FALSE
    /\ interruptReq = FALSE /\ isStopping = FALSE /\ isHalting = FALSE
    /\ runs = NoRuns /\ cache = <<>> /\ replay = <<>> /\ rewindable = FALSE
    /\ group = {} /\ staged = {} /\ touched = {} /\ regions = 0
    /\ devStaged = {} /\ moving = {}
    /\ calls = 0 /\ pulled = 0 /\ pauses = 0 /\ interrupts = 0 /\ failures = 0
    /\ uids = 0 /\ events = {} /\ stops = [u \in Uids |-> 0]
    /\ exit = "none" /\ byInterrupt = FALSE /\ unlanded = {}
    /\ swallowed = NoneSwallowed
    /\ abortAsked = FALSE /\ cutCached = 0 /\ cut = 0

-----------------------------------------------------------------------------
(* Requests from outside the loop, and devices that reach their target.    *)

InCall == pc # "idle"

RequestPause ==
    /\ InCall /\ pauses < MaxPauses
    /\ pauses' = pauses + 1
    /\ \/ pauseReq' = TRUE /\ paused' = TRUE /\ UNCHANGED deferred
       \/ deferred' = TRUE /\ UNCHANGED <<pauseReq, paused>>
    /\ UNCHANGED <<pc, loopVars, intrVars, runs, cacheVars, group, regions,
                   objVars, calls, pulled, interrupts, faultVars, docVars,
                   histVars>>

Resume ==
    /\ paused
    /\ paused' = FALSE
    /\ UNCHANGED <<pc, loopVars, pauseReq, deferred, intrVars, runs,
                   cacheVars, group, regions, objVars, boundVars, docVars,
                   histVars>>

(* stop, abort, halt: the flags, the request, and the wake of a pause. *)
RequestInterrupt(kind) ==
    /\ InCall /\ interrupts < MaxInterrupts
    /\ interrupts' = interrupts + 1
    /\ interruptReq' = TRUE /\ paused' = FALSE
    /\ isHalting' = (isHalting \/ kind = "halt")
    /\ isStopping' = CASE kind = "stop"  -> TRUE
                       [] kind = "abort" -> FALSE
                       [] OTHER          -> isStopping
    /\ abortAsked' = (abortAsked \/ kind # "stop")
    /\ UNCHANGED <<pc, loopVars, pauseReq, deferred, runs, cacheVars, group,
                   regions, objVars, calls, pulled, pauses, faultVars,
                   docVars, cutCached, cut>>

(* External: a device ends its motion by itself. *)
Arrive(d) ==
    /\ d \in moving
    /\ moving' = moving \ {d}
    /\ UNCHANGED <<pc, loopVars, pauseVars, intrVars, runs, cacheVars, group,
                   regions, staged, touched, devStaged, boundVars, docVars,
                   histVars>>

-----------------------------------------------------------------------------
(* run_async: start, end of the loop, cleanup.                             *)

RunAsync ==
    /\ pc = "idle" /\ calls < MaxCalls
    /\ pc' = "top"
    /\ calls' = calls + 1
    /\ pauseReq' = FALSE /\ paused' = FALSE /\ deferred' = FALSE
    /\ interruptReq' = FALSE /\ isStopping' = FALSE /\ isHalting' = FALSE
    /\ byInterrupt' = FALSE /\ exit' = "none"
    /\ abortAsked' = FALSE /\ cutCached' = 0 /\ cut' = 0
    /\ UNCHANGED <<loopVars, runs, cacheVars, group, regions, objVars,
                   pulled, pauses, interrupts, faultVars, uids, events,
                   stops, unlanded>>

EventOf(slot, stream, point) ==
    [run |-> slot.uid, stream |-> stream, seq |-> slot.seq[stream] + 1,
     point |-> point]

(* The walks over several objects log the failure of one and go on with    *)
(* the next: the calls of one walk that fail are any of them, and count as *)
(* one failure.                                                            *)
Failing(walked) == {S \in SUBSET walked : S = {} \/ failures < MaxFailures}
CountFailure(failed) == failures' = IF failed = {} THEN failures ELSE failures + 1

(* backstop_collect: every uncollected flyer is collected into its run; the *)
(* data of one whose collect fails is lost.                                *)
Uncollected == UNION {{runs[k].uid} \X runs[k].uncollected : k \in DOMAIN runs}
CollectUntilFailure(lost) ==     \* mutant: the first failure ends the walk
    IF lost = {} THEN Uncollected ELSE {}
Collected(lost) == Uncollected \ lost
BackstopCollect ==
    \E lost \in Failing(Uncollected) :
        /\ events' = events \cup
              UNION {{EventOf(runs[k], f, <<"backstop", 0>>) :
                        f \in {g \in runs[k].uncollected :
                                   <<runs[k].uid, g>> \in Collected(lost)}} :
                        k \in DOMAIN runs}
        /\ unlanded' = unlanded \ Collected(lost)
        /\ swallowed' = [swallowed EXCEPT !.collect = lost]
        /\ CountFailure(lost)

(* close_run_if_open for every open run: one RunStop each. *)
CloseAll ==
    /\ stops' = [u \in Uids |->
                    IF \E k \in DOMAIN runs : runs[k].uid = u
                    THEN stops[u] + 1 ELSE stops[u]]
    /\ runs' = NoRuns

(* drain_and_close, on every way out of run_loop. *)
HaltSkipsClose(status) ==        \* mutant
    /\ IF status = "halt"
       THEN UNCHANGED <<events, unlanded, stops, runs, faultVars>>
       ELSE BackstopCollect /\ CloseAll
    /\ exit' = status
    /\ pc' = "cleanup"
EndLoop(status) ==
    /\ BackstopCollect /\ CloseAll
    /\ exit' = status
    /\ pc' = "cleanup"

(* The stop walk over the touched movables and flyers: one goes on moving  *)
(* when its stop_on_pause is the default or fails.                         *)
Stopping == (moving \cap touched) \ Unstoppable
StillMoving(stuck) == moving \ (Stopping \ stuck)
StopsSwallowed(stuck) == (swallowed.stop \ touched) \cup stuck

(* The walk at the end of run_async.  The wait groups, the message cache,  *)
(* the replay queue and the rewindable flag are not part of it.            *)
UnstageAfterCleanStop(stuck, kept) ==    \* mutant: a failed stop ends it
    IF stuck = {} THEN devStaged \ (staged \ kept) ELSE devStaged
StillStaged(stuck, kept) == devStaged \ (staged \ kept)
Cleanup ==
    /\ pc = "cleanup"
    /\ pc' = "idle"
    /\ runs' = NoRuns /\ regions' = 0
    /\ \E stuck \in Failing(Stopping), kept \in Failing(staged) :
          /\ moving' = StillMoving(stuck)
          /\ devStaged' = StillStaged(stuck, kept)
          /\ swallowed' = [swallowed EXCEPT
                 !.stop = StopsSwallowed(stuck),
                 !.unstage = (@ \ staged) \cup kept]
          /\ CountFailure(stuck \cup kept)
    /\ staged' = {} /\ touched' = {}
    /\ cur' = NoMsg /\ waitOn' = {}
    /\ UNCHANGED <<pauseVars, intrVars, cacheVars, group, calls, pulled,
                   pauses, interrupts, docVars, histVars>>

(* The loop timeout drops run_loop wherever it awaits. *)
LoopTimeout ==
    /\ HasLoopTimeout /\ InCall /\ pc # "cleanup"
    /\ pc' = "cleanup"
    /\ exit' = "timeout"
    /\ UNCHANGED <<loopVars, pauseVars, intrVars, runs, cacheVars, group,
                   regions, objVars, boundVars, uids, events, stops,
                   byInterrupt, unlanded, histVars>>

-----------------------------------------------------------------------------
(* pause_gate.                                                             *)

(* record_interruption: one event in each run that declared the stream. *)
Recorded(rs) ==
    [k \in DOMAIN rs |-> IF Interruptions \in rs[k].declared
                         THEN ComposeEvent(rs[k], Interruptions) ELSE rs[k]]
RecordingOf(rs, what) ==
    {EventOf(rs[k], Interruptions, <<what, pauses>>) :
        k \in {j \in DOMAIN rs : Interruptions \in rs[j].declared}}

(* ack_pause and on_pause_enter: monitors are suspended, touched devices   *)
(* stopped, the pause recorded.                                            *)
EnterPause ==
    /\ pc = "top" /\ pauseReq
    /\ pc' = "parked"
    /\ pauseReq' = FALSE
    /\ LET quiet == [k \in DOMAIN runs |-> [runs[k] EXCEPT !.pumps = {}]]
       IN  /\ runs' = Recorded(quiet)
           /\ events' = events \cup RecordingOf(quiet, "pause")
    /\ \E stuck \in Failing(Stopping) :
          /\ moving' = StillMoving(stuck)
          /\ swallowed' = [swallowed EXCEPT !.stop = StopsSwallowed(stuck)]
          /\ CountFailure(stuck)
    /\ UNCHANGED <<loopVars, paused, deferred, intrVars, cacheVars, group,
                   regions, staged, touched, devStaged, calls, pulled, pauses,
                   interrupts, uids, stops, exit, byInterrupt, unlanded,
                   histVars>>

(* restore_monitors: re-installs the pumps from the registrations; one     *)
(* whose start_monitor fails keeps its registration and has no pump.       *)
Registrations == UNION {{runs[k].uid} \X runs[k].monitored : k \in DOMAIN runs}
RestoreUntilFailure(rs, dead) ==  \* mutant: the first failure ends the walk
    [k \in DOMAIN rs |-> [rs[k] EXCEPT
        !.pumps = IF dead = {} THEN rs[k].monitored ELSE {}]]
RestoreMonitors(rs, dead) ==
    [k \in DOMAIN rs |-> [rs[k] EXCEPT
        !.pumps = {d \in rs[k].monitored : <<rs[k].uid, d>> \notin dead}]]
RestoreWalk(dead) ==
    /\ swallowed' = [swallowed EXCEPT !.monitor = dead]
    /\ CountFailure(dead)

CutDropped ==                    \* mutant: without the message in flight
    IF cache = <<>> THEN replay
    ELSE replay \o SubSeq(cache, 1, Len(cache) - 1)
Replayed == replay \o cache

(* on_resume: the cache becomes the replay queue's tail, every run is      *)
(* rewound if there was anything to replay, monitors are restored and the  *)
(* resume is recorded.                                                     *)
OnResume ==
    /\ pc = "parked" /\ ~paused /\ ~interruptReq
    /\ pc' = "top"
    /\ pauseReq' = FALSE
    /\ cache' = <<>>
    /\ replay' = Replayed
    /\ LET rewound == [k \in DOMAIN runs |-> IF cache = <<>> THEN runs[k]
                                             ELSE Rewind(runs[k])]
       IN  \E dead \in Failing(Registrations) :
               LET restored == RestoreMonitors(rewound, dead)
               IN  /\ runs' = Recorded(restored)
                   /\ events' = events \cup RecordingOf(restored, "resume")
                   /\ RestoreWalk(dead)
    /\ UNCHANGED <<loopVars, paused, deferred, intrVars, rewindable, group,
                   regions, objVars, calls, pulled, pauses, interrupts, uids,
                   stops, exit, byInterrupt, unlanded, histVars>>

(* An interrupt leaves the gate: only the monitors are restored. *)
LeaveInterrupted ==
    /\ pc = "parked" /\ ~paused /\ interruptReq
    /\ pc' = "take"
    /\ pauseReq' = FALSE
    /\ \E dead \in Failing(Registrations) :
          runs' = RestoreMonitors(runs, dead) /\ RestoreWalk(dead)
    /\ UNCHANGED <<loopVars, paused, deferred, intrVars, cacheVars, group,
                   regions, objVars, calls, pulled, pauses, interrupts,
                   docVars, histVars>>

-----------------------------------------------------------------------------
(* run_loop.                                                               *)

(* throw_into_plan: a region catches, and the replay dies. *)
Throw ==
    /\ regions > 0
    /\ pc' = "top"
    /\ replay' = <<>>
    /\ cutCached' = 0 /\ cut' = 0
    /\ UNCHANGED <<runs, events, stops, unlanded, exit, faultVars>>
NothingCatches(status) ==
    /\ regions = 0
    /\ EndLoop(status)
    /\ cutCached' = 0 /\ cut' = 0
    /\ UNCHANGED replay

(* take_interrupt, and what the loop does with it. *)
TakeInterrupt ==
    /\ \/ pc = "top" /\ ~pauseReq
       \/ pc \in {"take", "waiting"}
    /\ interruptReq /\ interruptReq' = FALSE
    /\ cur' = NoMsg /\ waitOn' = {}
    /\ \/ /\ isHalting
          /\ EndLoop("halt")
          /\ cutCached' = 0 /\ cut' = 0
          /\ byInterrupt' = TRUE
          /\ UNCHANGED replay
       \/ /\ ~isHalting
          /\ \/ Throw /\ UNCHANGED byInterrupt
             \/ /\ NothingCatches(IF isStopping THEN "success" ELSE "abort")
                /\ byInterrupt' = TRUE
    /\ UNCHANGED <<pauseVars, isStopping, isHalting, cache, rewindable,
                   group, regions, objVars, calls, pulled, pauses,
                   interrupts, uids, abortAsked>>

(* An error: caught by a region, or the run ends as "fail". *)
ThrowError ==
    /\ pc = "failed"
    /\ \/ Throw
       \/ NothingCatches("fail")
    /\ UNCHANGED <<loopVars, pauseVars, intrVars, cache, rewindable, group,
                   regions, objVars, calls, pulled, pauses, interrupts, uids,
                   byInterrupt, abortAsked>>

(* pull_msg: the replay first, then the plan, which is cached. *)
Pulling == pc = "top" /\ ~pauseReq /\ ~interruptReq

(* A message taken in hand: the one a pause cut short is being redone. *)
Redone(m) ==
    /\ cutCached' = IF m.id = cutCached THEN 0 ELSE cutCached
    /\ cut' = IF m.id = cut THEN 0 ELSE cut

PullReplay ==
    /\ Pulling /\ replay # <<>>
    /\ pc' = "handle" /\ cur' = Head(replay) /\ replay' = Tail(replay)
    /\ Redone(Head(replay))
    /\ UNCHANGED <<waitOn, pauseVars, intrVars, runs, cache, rewindable,
                   group, regions, objVars, boundVars, docVars, abortAsked>>

(* A plan's message, with its numbers. *)
Numbered(m) == [op |-> m.op, key |-> m.key, arg |-> m.arg,
                plan |-> calls, id |-> pulled + 1]

PullPlan(m) ==
    /\ Pulling /\ replay = <<>> /\ pulled < MaxMsgs
    /\ pc' = "handle" /\ cur' = Numbered(m)
    /\ pulled' = pulled + 1
    /\ cache' = IF rewindable /\ m.op \notin Uncacheable
                THEN Append(cache, Numbered(m)) ELSE cache
    /\ UNCHANGED <<waitOn, pauseVars, intrVars, runs, replay, rewindable,
                   group, regions, objVars, calls, pauses, interrupts,
                   faultVars, docVars, histVars>>

(* The end of the plan's stream; "no-run" is not told from "success". *)
PlanEnds ==
    /\ Pulling /\ replay = <<>>
    /\ EndLoop("success")
    /\ UNCHANGED <<loopVars, pauseVars, intrVars, cacheVars, group, regions,
                   objVars, calls, pulled, pauses, interrupts, uids,
                   byInterrupt, histVars>>

-----------------------------------------------------------------------------
(* handle: one action per message.                                         *)

Handling(op) == pc = "handle" /\ cur.op = op
Slot == runs[cur.key]
IsOpen(k) == k \in DOMAIN runs

(* The early returns: messages that are illegal where they come. *)
NeedsRun == {"close", "create", "save", "drop", "declare", "kickoff",
             "collect", "monitor", "unmonitor"}
IllegalIn(slot, m) ==
    \/ m.op = "open"
    \/ m.op = "create" /\ IsBundling(slot)
    \/ m.op \in {"save", "drop"} /\ ~IsBundling(slot)
    \/ m.op = "read" /\ Collides(slot, m.arg)
    \/ m.op = "monitor" /\ m.arg \in slot.monitored
    \/ m.op = "unmonitor" /\ m.arg \notin slot.monitored
Illegal(m) ==
    \/ m.op = "fail"
    \/ m.op = "checkpoint" /\ \E k \in DOMAIN runs : IsBundling(runs[k])
    \/ IF IsOpen(m.key) THEN IllegalIn(runs[m.key], m) ELSE m.op \in NeedsRun

Rejected ==
    /\ pc = "handle" /\ Illegal(cur)
    /\ pc' = "failed" /\ cur' = NoMsg
    /\ UNCHANGED <<waitOn, pauseVars, intrVars, runs, cacheVars, group,
                   regions, objVars, boundVars, docVars, histVars>>

(* A device call returns an error before the handler has changed anything. *)
DeviceFails ==
    /\ pc = "handle" /\ ~Illegal(cur) /\ failures < MaxFailures
    /\ cur.op \in {"read", "stage", "unstage", "monitor", "declare", "collect"}
    /\ failures' = failures + 1
    /\ pc' = "failed" /\ cur' = NoMsg
    /\ UNCHANGED <<waitOn, pauseVars, intrVars, runs, cacheVars, group,
                   regions, objVars, calls, pulled, pauses, interrupts,
                   swallowed, docVars, histVars>>

Begin(op) == Handling(op) /\ ~Illegal(cur)
Done == pc' = "top" /\ cur' = NoMsg

PutSlot(k, slot) == [j \in DOMAIN runs \cup {k} |-> IF j = k THEN slot
                                                             ELSE runs[j]]

(* Handlers that only change the slot, and the one that opens it. *)
SlotStep(slot) ==
    /\ runs' = PutSlot(cur.key, slot)
    /\ Done
    /\ UNCHANGED <<waitOn, pauseVars, intrVars, cacheVars, group, regions,
                   objVars, boundVars, histVars>>

HandleOpenRun ==
    /\ Begin("open")
    /\ uids' = uids + 1
    /\ SlotStep(NewSlot(uids + 1, Recording))
    /\ UNCHANGED <<events, stops, exit, byInterrupt, unlanded>>

HandleCreate == /\ Begin("create")
                /\ SlotStep(Create(Slot, cur.arg))
                /\ UNCHANGED docVars
HandleDrop ==   /\ Begin("drop")
                /\ SlotStep(DropBundle(Slot))
                /\ UNCHANGED docVars
HandleDeclareStream ==
                /\ Begin("declare")
                /\ SlotStep(DeclareStream(Slot, cur.arg))
                /\ UNCHANGED docVars
HandleSave ==
    /\ Begin("save")
    /\ SlotStep(Save(Slot))
    /\ events' = IF HasEvent(Slot)
                 THEN events \cup {EventOf(Slot, Slot.open.stream,
                                           <<"save", cur.id>>)}
                 ELSE events
    /\ UNCHANGED <<uids, stops, exit, byInterrupt, unlanded>>

(* The event is composed before the assets are drained from the objects    *)
(* read: when a drain fails the counter has moved and no event is emitted. *)
SaveFails ==
    /\ Begin("save") /\ HasEvent(Slot) /\ failures < MaxFailures
    /\ failures' = failures + 1
    /\ runs' = PutSlot(cur.key, Save(Slot))
    /\ pc' = "failed" /\ cur' = NoMsg
    /\ UNCHANGED <<waitOn, pauseVars, intrVars, cacheVars, group, regions,
                   objVars, calls, pulled, pauses, interrupts, swallowed,
                   docVars, histVars>>

(* Bundled only while a bundle is open; otherwise the value is just read. *)
HandleRead ==
    /\ Begin("read")
    /\ IF IsOpen(cur.key) /\ IsBundling(Slot)
       THEN SlotStep(AddRead(Slot, cur.arg))
       ELSE /\ Done
            /\ UNCHANGED <<runs, waitOn, pauseVars, intrVars, cacheVars,
                           group, regions, objVars, boundVars, histVars>>
    /\ UNCHANGED docVars

(* Kickoff: the flyer is registered, then started; its status is taken to  *)
(* resolve at once, so it joins no group.                                  *)
HandleKickoff ==
    /\ Begin("kickoff")
    /\ runs' = PutSlot(cur.key, [Slot EXCEPT !.uncollected = @ \cup {cur.arg}])
    /\ touched' = touched \cup {cur.arg}
    /\ moving' = moving \cup {cur.arg}
    /\ unlanded' = unlanded \cup {<<Slot.uid, cur.arg>>}
    /\ Done
    /\ UNCHANGED <<waitOn, pauseVars, intrVars, cacheVars, group, regions,
                   staged, devStaged, boundVars, uids, events, stops, exit,
                   byInterrupt, histVars>>
HandleCollect ==
    /\ Begin("collect")
    /\ SlotStep([ComposeEvent(Slot, cur.arg) EXCEPT
                    !.uncollected = @ \ {cur.arg}])
    /\ events' = events \cup {EventOf(Slot, cur.arg, <<"collect", cur.id>>)}
    /\ unlanded' = unlanded \ {<<Slot.uid, cur.arg>>}
    /\ UNCHANGED <<uids, stops, exit, byInterrupt>>

KeepSlot(k) == runs              \* mutant
RemoveSlot(k) == [j \in DOMAIN runs \ {k} |-> runs[j]]

(* CloseRun: the slot goes, with its monitors and its uncollected set. *)
HandleCloseRun ==
    /\ Begin("close")
    /\ stops' = [stops EXCEPT ![Slot.uid] = @ + 1]
    /\ runs' = RemoveSlot(cur.key)
    /\ Done
    /\ UNCHANGED <<waitOn, pauseVars, intrVars, cacheVars, group, regions,
                   objVars, boundVars, uids, events, exit, byInterrupt,
                   unlanded, histVars>>

-----------------------------------------------------------------------------
(* Messages that move the checkpoint.                                      *)

(* reset_checkpoint_state over every open run. *)
ResetCheckpointState(rs) ==
    /\ cache' = <<>>
    /\ runs' = [k \in DOMAIN rs |-> ResetCheckpoint(rs[k])]

HandleMonitor ==
    /\ Begin("monitor")
    /\ ResetCheckpointState(PutSlot(cur.key,
          [DeclareStream(Slot, cur.arg) EXCEPT
              !.monitored = @ \cup {cur.arg}, !.pumps = @ \cup {cur.arg}]))
    /\ Done
    /\ UNCHANGED <<waitOn, pauseVars, intrVars, replay, rewindable, group,
                   regions, objVars, boundVars, docVars, histVars>>
HandleUnmonitor ==
    /\ Begin("unmonitor")
    /\ ResetCheckpointState(PutSlot(cur.key,
          [Slot EXCEPT !.monitored = @ \ {cur.arg}, !.pumps = @ \ {cur.arg}]))
    /\ Done
    /\ UNCHANGED <<waitOn, pauseVars, intrVars, replay, rewindable, group,
                   regions, objVars, boundVars, docVars, histVars>>

(* stage_dyn: the device is being staged until it answers; only then is it *)
(* tracked.                                                                *)
HandleStage ==
    /\ Begin("stage")
    /\ devStaged' = devStaged \cup {cur.arg}
    /\ pc' = "staging"
    /\ UNCHANGED <<loopVars, pauseVars, intrVars, runs, cacheVars, group,
                   regions, staged, touched, moving, boundVars, docVars,
                   histVars>>
StageDone ==
    /\ pc = "staging"
    /\ staged' = staged \cup {cur.arg}
    /\ ResetCheckpointState(runs)
    /\ Done
    /\ UNCHANGED <<waitOn, pauseVars, intrVars, replay, rewindable, group,
                   regions, touched, devStaged, moving, boundVars, docVars,
                   histVars>>
HandleUnstage ==
    /\ Begin("unstage")
    /\ devStaged' = devStaged \ {cur.arg}
    /\ staged' = staged \ {cur.arg}
    /\ ResetCheckpointState(runs)
    /\ Done
    /\ UNCHANGED <<waitOn, pauseVars, intrVars, replay, rewindable, group,
                   regions, touched, moving, boundVars, docVars, histVars>>

(* Subscribe, Unsubscribe: as far as this model goes, the reset alone. *)
HandleHook ==
    /\ Begin("hook")
    /\ ResetCheckpointState(runs)
    /\ Done
    /\ UNCHANGED <<waitOn, pauseVars, intrVars, replay, rewindable, group,
                   regions, objVars, boundVars, docVars, histVars>>

(* Checkpoint: the reset, then a deferred pause takes effect. *)
HandleCheckpoint ==
    /\ Begin("checkpoint")
    /\ ResetCheckpointState(runs)
    /\ rewindable' = TRUE
    /\ deferred' = FALSE
    /\ pauseReq' = (pauseReq \/ deferred)
    /\ paused' = (paused \/ deferred)
    /\ Done
    /\ UNCHANGED <<waitOn, intrVars, replay, group, regions, objVars,
                   boundVars, docVars, histVars>>
HandleClearCheckpoint ==
    /\ Begin("clear")
    /\ rewindable' = FALSE
    /\ cache' = <<>>
    /\ runs' = [k \in DOMAIN runs |-> ClearSnapshot(runs[k])]
    /\ Done
    /\ UNCHANGED <<waitOn, pauseVars, intrVars, replay, group, regions,
                   objVars, boundVars, docVars, histVars>>

(* Rewindable(b): only a change of the flag resets the checkpoint. *)
HandleRewindable(b) ==
    /\ Begin(IF b THEN "rewindable" ELSE "unrewindable")
    /\ IF rewindable = b THEN UNCHANGED <<cache, runs>>
                         ELSE ResetCheckpointState(runs)
    /\ rewindable' = b
    /\ Done
    /\ UNCHANGED <<waitOn, pauseVars, intrVars, replay, group, regions,
                   objVars, boundVars, docVars, histVars>>

-----------------------------------------------------------------------------
(* Messages that wait, and the rest.                                       *)

(* Set with a group: the object is touched, then moves. *)
HandleSet ==
    /\ Begin("set")
    /\ touched' = touched \cup {cur.arg}
    /\ moving' = moving \cup {cur.arg}
    /\ group' = group \cup {cur.arg}
    /\ Done
    /\ UNCHANGED <<waitOn, pauseVars, intrVars, runs, cacheVars, regions,
                   staged, devStaged, boundVars, docVars, histVars>>

(* handle_status inline, wait_group (which takes the members out of the    *)
(* group) and Sleep: the handler races the token.                          *)
HandleMove ==
    /\ Begin("move")
    /\ touched' = touched \cup {cur.arg}
    /\ moving' = moving \cup {cur.arg}
    /\ waitOn' = {cur.arg} /\ pc' = "waiting"
    /\ UNCHANGED <<cur, pauseVars, intrVars, runs, cacheVars, group, regions,
                   staged, devStaged, boundVars, docVars, histVars>>
HandleWait ==
    /\ Begin("wait")
    /\ group' = {}
    /\ waitOn' = group /\ pc' = "waiting"
    /\ UNCHANGED <<cur, pauseVars, intrVars, runs, cacheVars, regions,
                   objVars, boundVars, docVars, histVars>>
HandleSleep ==
    /\ Begin("sleep")
    /\ pc' = "waiting"
    /\ UNCHANGED <<loopVars, pauseVars, intrVars, runs, cacheVars, group,
                   regions, objVars, boundVars, docVars, histVars>>

WaitDone ==
    /\ pc = "waiting" /\ waitOn \cap moving = {}
    /\ Done /\ waitOn' = {}
    /\ UNCHANGED <<pauseVars, intrVars, runs, cacheVars, group, regions,
                   objVars, boundVars, docVars, histVars>>
WaitFails ==
    /\ pc = "waiting" /\ failures < MaxFailures
    /\ failures' = failures + 1
    /\ pc' = "failed" /\ cur' = NoMsg /\ waitOn' = {}
    /\ UNCHANGED <<pauseVars, intrVars, runs, cacheVars, group, regions,
                   objVars, calls, pulled, pauses, interrupts, swallowed,
                   docVars, histVars>>

(* wait_group's timeout with error_on_timeout = false: the members return  *)
(* to the group and the plan goes on.                                      *)
WaitMovesOn ==
    /\ pc = "waiting" /\ cur.op = "wait" /\ waitOn # {}
    /\ group' = group \cup waitOn
    /\ Done /\ waitOn' = {}
    /\ UNCHANGED <<pauseVars, intrVars, runs, cacheVars, regions, objVars,
                   boundVars, docVars, histVars>>

(* Cancelled by a pause: the message in hand goes; a wait's members are    *)
(* not restored to the group.                                              *)
WaitCutShort ==
    /\ pc = "waiting" /\ pauseReq /\ ~interruptReq
    /\ Done /\ waitOn' = {}
    /\ cut' = IF rewindable THEN cur.id ELSE cut
    /\ cutCached' = IF \E i \in DOMAIN cache : cache[i].id = cur.id
                    THEN cur.id ELSE cutCached
    /\ UNCHANGED <<pauseVars, intrVars, runs, cacheVars, group, regions,
                   objVars, boundVars, docVars, abortAsked>>

HandlePause ==
    /\ Begin("pause") /\ pauses < MaxPauses
    /\ pauses' = pauses + 1
    /\ pauseReq' = TRUE /\ paused' = TRUE
    /\ Done
    /\ UNCHANGED <<waitOn, deferred, intrVars, runs, cacheVars, group,
                   regions, objVars, calls, pulled, interrupts, faultVars,
                   docVars, histVars>>

HandlePushContingency ==
    /\ Begin("push")
    /\ regions' = regions + 1
    /\ Done
    /\ UNCHANGED <<waitOn, pauseVars, intrVars, runs, cacheVars, group,
                   objVars, boundVars, docVars, histVars>>
HandlePopContingency ==
    /\ Begin("pop")
    /\ regions' = IF regions = 0 THEN 0 ELSE regions - 1
    /\ Done
    /\ UNCHANGED <<waitOn, pauseVars, intrVars, runs, cacheVars, group,
                   objVars, boundVars, docVars, histVars>>

-----------------------------------------------------------------------------
Handle ==
    \/ Rejected \/ DeviceFails
    \/ HandleOpenRun \/ HandleCloseRun
    \/ HandleCreate \/ HandleRead \/ HandleSave \/ SaveFails
    \/ HandleDrop
    \/ HandleDeclareStream \/ HandleKickoff \/ HandleCollect
    \/ HandleMonitor \/ HandleUnmonitor
    \/ HandleStage \/ StageDone \/ HandleUnstage \/ HandleHook
    \/ HandleCheckpoint \/ HandleClearCheckpoint
    \/ HandleRewindable(TRUE) \/ HandleRewindable(FALSE)
    \/ HandleSet \/ HandleMove \/ HandleWait \/ HandleSleep
    \/ WaitDone \/ WaitFails \/ WaitMovesOn \/ WaitCutShort
    \/ HandlePause \/ HandlePushContingency \/ HandlePopContingency

Loop ==
    \/ EnterPause \/ OnResume \/ LeaveInterrupted
    \/ TakeInterrupt \/ ThrowError
    \/ PullReplay \/ PlanEnds \/ \E m \in Alphabet : PullPlan(m)

Environment ==
    \/ RequestPause \/ Resume
    \/ \E kind \in InterruptKinds : RequestInterrupt(kind)
    \/ \E d \in Devices \cup Flyers : Arrive(d)

Next == RunAsync \/ Loop \/ Handle \/ Environment \/ LoopTimeout \/ Cleanup

Spec == Init /\ [][Next]_vars

-----------------------------------------------------------------------------
(* Properties.                                                             *)

PCs == {"idle", "top", "parked", "take", "handle", "staging", "waiting",
        "failed", "cleanup"}
Objects == Devices \cup Flyers

(* Every variable has its type; what is open has a uid of its own. *)
TypeOK ==
    /\ pc \in PCs
    /\ waitOn \subseteq Devices /\ group \subseteq Devices
    /\ staged \subseteq Devices /\ devStaged \subseteq Devices
    /\ touched \subseteq Objects /\ moving \subseteq Objects
    /\ swallowed \in [monitor : SUBSET (Uids \X Devices), stop : SUBSET Objects,
                      unstage : SUBSET Devices, collect : SUBSET (Uids \X Flyers)]
    /\ failures \in 0..MaxFailures
    /\ DOMAIN runs \subseteq RunKeys
    /\ \A k \in DOMAIN runs :
          /\ runs[k].uid \in 1..uids
          /\ runs[k].declared \subseteq AllStreams
          /\ runs[k].seq \in [AllStreams -> Nat]
          /\ runs[k].monitored \subseteq Devices
          /\ runs[k].uncollected \subseteq Flyers
          /\ \A j \in DOMAIN runs : runs[j].uid = runs[k].uid => j = k
    /\ uids \in 0..pulled /\ pulled \in 0..MaxMsgs /\ regions \in Nat
    /\ exit \in {"none", "success", "abort", "halt", "fail", "timeout"}

OpenUids == {runs[k].uid : k \in DOMAIN runs}

(* Every RunStart gets exactly one RunStop, however the plan ends: each    *)
(* run is either open with none or gone with one, and no run is open once  *)
(* the loop has ended (drain_and_close, close_run_if_open).                *)
RunsClosed ==
    /\ \A u \in 1..uids : stops[u] = IF u \in OpenUids THEN 0 ELSE 1
    /\ pc \in {"idle", "cleanup"} => runs = NoRuns

(* No document of a run follows its RunStop, whatever is replayed and      *)
(* however many runs are open.                                             *)
NoEventAfterStop ==
    [][\A e \in events' \ events : stops[e.run] = 0]_vars

(* The sequence numbers a stream has emitted leave no gap, although        *)
(* rewinds move its counter back and a replay repeats numbers.             *)
DenseSeq ==
    \A e \in events : e.seq > 1 =>
        \E f \in events : /\ f.run = e.run /\ f.stream = e.stream
                          /\ f.seq = e.seq - 1

(* No two points of one stream share a number.                             *)
SeqNamesPoint ==
    \A e, f \in events :
        /\ e.run = f.run /\ e.stream = f.stream /\ e.stream \in Streams
        /\ e.seq = f.seq
        => e.point = f.point

(* A message cut short by a pause inside a rewindable region is redone     *)
(* before the plan goes on, over any number of pauses: no message of the   *)
(* plan after it is taken in hand first.                                   *)
CachedCutReplayed ==
    cutCached # 0 /\ pc \in {"handle", "staging", "waiting"}
        => cur.id <= cutCached

(* pause(): "The interrupted message is not lost: the rewind on resume     *)
(* replays from the last checkpoint" - for every message cut short after a *)
(* checkpoint, the replayed ones included.                                 *)
InterruptedNotLost ==
    cut # 0 /\ pc \in {"handle", "staging", "waiting"} => cur.id <= cut

(* Monitors come back on every way out of the gate: whenever a message is  *)
(* pulled or handled, each registered monitor of each run has its pump,    *)
(* except those whose own restart failed at the last restore_monitors; one *)
(* failure takes no other monitor along.  While the loop is parked none    *)
(* has a pump.                                                             *)
MonitorsLive ==
    \A k \in DOMAIN runs :
        IF pc = "parked" THEN runs[k].pumps = {}
        ELSE /\ runs[k].pumps \subseteq runs[k].monitored
             /\ \A d \in runs[k].monitored \ runs[k].pumps :
                   <<runs[k].uid, d>> \in swallowed.monitor

(* Whatever a plan set in motion is at rest while the loop is parked and   *)
(* after the run, except what has no stop or whose own stop failed;        *)
(* whatever it staged is unstaged after the run, except what failed to     *)
(* unstage: no failure in either walk keeps it from the rest.              *)
QuietAtRest ==
    /\ pc \in {"parked", "idle"} => moving \subseteq Unstoppable \cup swallowed.stop
    /\ pc = "idle" => devStaged \subseteq swallowed.unstage

(* "Pause, suspension and token state of a previous run stop here"         *)
(* (run_async): a call handles no message of an earlier call's plan.       *)
NoForeignReplay ==
    pc \in {"handle", "staging", "waiting"} => cur.plan = calls

(* drain_and_close: the runs that the end of the loop closes have their    *)
(* flyer data before the RunStop, however the loop ends, except the data   *)
(* of a flyer whose own collect failed; the others' data still lands.      *)
BackstopDrains ==
    [][pc # "cleanup" /\ pc' = "cleanup" =>
          \A k \in DOMAIN runs, f \in Flyers :
              <<runs[k].uid, f>> \in unlanded'
                  => <<runs[k].uid, f>> \in swallowed'.collect]_vars

(* abort(): "a stop never downgrades an abort". *)
StopNeverDowngrades ==
    pc = "cleanup" /\ byInterrupt /\ abortAsked => exit # "success"

=============================================================================
