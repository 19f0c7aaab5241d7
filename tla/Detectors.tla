------------------------------ MODULE Detectors ------------------------------
(***************************************************************************)
(* A StandardDetector (devices/detector.rs) over an area detector           *)
(* (host/areadetector.rs): a camera that arms and disarms, file writers that *)
(* are opened, capture and are closed, and the stream documents that name    *)
(* the frames of each file.  The caller is one plan: stage, prepare, trigger *)
(* or kickoff and complete, unstage, with collect at any moment between;     *)
(* after a failure it unstages, as the stage decorator does.                 *)
(* The IOC is external: frames reach a file through the plugin's queue and   *)
(* the monitor of NumCaptured tells the client later.                        *)
(***************************************************************************)
EXTENDS Integers, FiniteSets, Sequences, FiniteSetsExt

CONSTANTS DtWriters,        \* the unbounded data logics of the detector
          DtInfos,          \* TriggerInfos: [trigger, events, per] (per = collections_per_event)
          DtOpsMax,         \* bound on the operations the plan makes
          DtFaultsMax,      \* bound on refused puts, failed opens and timeouts
          DtMonitorsInOrder \* the reset of NumCaptured is seen before Capture is

ASSUME DetectorBounds ==
    /\ DtMonitorsInOrder \in BOOLEAN /\ DtOpsMax \in Nat /\ DtFaultsMax \in Nat
    /\ \A i \in DtInfos : i.events \in Nat /\ i.per \in Nat \ {0}

VARIABLES dtCam,       \* [armed, left, images]: Acquire, exposures to come, NumImages
          dtFile,      \* writer -> [open, path, n, q, seen]: the file plugin
          dtEmit,      \* writer -> AdEmitState: [path, res, last], path 0: none
          dtPrepared,  \* PrepareCtx: [info, base] or NotPrepared
          dtKicked,    \* KickoffCtx: [base, want, last] or NotKicked
          dtEvents,    \* events_to_kickoff
          dtTask,      \* the operation being waited for: [op, target, idle]
          dtStaged, dtFailed,
          dtDocs,      \* writer -> the documents emitted
          dtCounts,    \* writer -> path -> frames in that file
          dtOps, dtFaults, dtEarly
detectorVars == <<dtCam, dtFile, dtEmit, dtPrepared, dtKicked, dtEvents, dtTask, dtStaged,
                  dtFailed, dtDocs, dtCounts, dtOps, dtFaults, dtEarly>>
dtPlanVars == <<dtPrepared, dtKicked, dtEvents>>

NotPrepared == [info |-> [trigger |-> "none", events |-> 0, per |-> 1], base |-> 0]
NotKicked == [base |-> 0, want |-> 0, last |-> FALSE]
NoTask == [op |-> "none", target |-> 0, idle |-> FALSE]
DefaultInfo == [trigger |-> "internal", events |-> 1, per |-> 1]
DtPaths == 1 .. DtOpsMax

DetectorInit ==
    /\ dtCam = [armed |-> FALSE, left |-> 0, images |-> 1]
    /\ dtFile = [w \in DtWriters |-> [open |-> FALSE, path |-> 0, n |-> 0, q |-> 0, seen |-> 0]]
    /\ dtEmit = [w \in DtWriters |-> [path |-> 0, res |-> FALSE, last |-> 0]]
    /\ dtPrepared = NotPrepared /\ dtKicked = NotKicked /\ dtEvents = 0 /\ dtTask = NoTask
    /\ dtStaged = FALSE /\ dtFailed = FALSE
    /\ dtDocs = [w \in DtWriters |-> <<>>]
    /\ dtCounts = [w \in DtWriters |-> [p \in DtPaths |-> 0]]
    /\ dtOps = 0 /\ dtFaults = 0 /\ dtEarly = FALSE

DtIdle == dtTask = NoTask
IsPrepared == dtPrepared.info.events # 0
Begin == DtIdle /\ dtOps < DtOpsMax /\ dtOps' = dtOps + 1
MayFault == dtFaults < DtFaultsMax
Faulted == MayFault /\ dtFaults' = dtFaults + 1 /\ dtFailed' = TRUE
Fine == UNCHANGED <<dtFaults, dtFailed>>

----------------------------------------------------------------------------
(* TriggerInfo and the camera *)

NumberOfCollections(i) == i.events * i.per

\* ExposurePlan::from_trigger_info: only internal triggers; no exposures means
\* Continuous.
ExposurePlan(i) ==
    [ok |-> i.trigger = "internal",
     mode |-> IF NumberOfCollections(i) = 0 THEN "Continuous" ELSE "Multiple",
     images |-> NumberOfCollections(i)]

\* AreaDetectorCam::arm: Acquire is seen on before it returns.
CamArmed == [dtCam EXCEPT !.armed = TRUE, !.left = dtCam.images]
\* AreaDetectorCam::disarm: put false, and seen false.
CamDisarmed == [dtCam EXCEPT !.armed = FALSE, !.left = 0]

----------------------------------------------------------------------------
(* The file writers *)

\* min_collections_written and collections_written, which wants them all equal.
Written == {dtFile[w].n : w \in DtWriters}
MinWritten == Min(Written)
WrittenAgree == Cardinality(Written) = 1
MinSeen == Min({dtFile[w].seen : w \in DtWriters})

\* AdHdfWriter::open, AdMultipartWriter::open, up to the capture: callbacks
\* enabled, the file configured for a path of its own and Capture seen on; the
\* plugin starts a file, and counts from zero, only when it was not capturing.
Captured(f, p) ==
    IF f.open THEN f
    ELSE [open |-> TRUE, path |-> p, n |-> 0, q |-> 0,
          seen |-> IF DtMonitorsInOrder THEN 0 ELSE f.seen]

\* The emit state is fresh for every open.
FreshEmit(p) == [path |-> p, res |-> FALSE, last |-> 0]
KeptEmit(p) == [path |-> p, res |-> TRUE, last |-> 0]
EmitOf(p) == FreshEmit(p)

\* close: stop_capture; what the plugin has queued is not written any more.
Closed(f) == [f EXCEPT !.open = FALSE, !.q = 0]

\* stop_data_logics: every one is stopped, whichever fails.
StopDataLogics(failing) ==
    dtFile' = [w \in DtWriters |-> IF w = failing THEN dtFile[w] ELSE Closed(dtFile[w])]

\* prepare_data_logics: every writer is opened; an open may fail before its
\* capture, or after it (no frame description, attributes that do not parse).
Reopened(f, p) == Captured(Closed(f), p)
OpenAll(p, stop) ==
    /\ dtFile' = [w \in DtWriters |-> IF stop THEN Reopened(dtFile[w], p) ELSE Captured(dtFile[w], p)]
    /\ dtEmit' = [w \in DtWriters |-> EmitOf(p)]
OpenFails(p, stop) ==
    \E ws \in SUBSET DtWriters :
      /\ dtFile' = [w \in DtWriters |->
                      LET f == IF stop THEN Closed(dtFile[w]) ELSE dtFile[w]
                      IN  IF w \in ws THEN Captured(f, p) ELSE f]
      /\ UNCHANGED dtEmit

----------------------------------------------------------------------------
(* stage, unstage *)

\* stage: disarm, forget the prepare, stop the data logics.
DtStage ==
    /\ Begin /\ ~dtStaged
    /\ \/ /\ dtCam' = CamDisarmed /\ StopDataLogics("none")
          /\ dtPrepared' = NotPrepared /\ dtKicked' = NotKicked /\ dtEvents' = 0
          /\ dtStaged' = TRUE /\ dtFailed' = FALSE /\ UNCHANGED dtFaults
       \/ \* the disarm is refused: nothing is forgotten
          /\ Faulted /\ UNCHANGED <<dtCam, dtFile, dtPlanVars, dtStaged>>
       \/ \E w \in DtWriters :
            /\ Faulted /\ dtCam' = CamDisarmed /\ StopDataLogics(w)
            /\ dtPrepared' = NotPrepared /\ dtKicked' = NotKicked /\ dtEvents' = 0
            /\ UNCHANGED dtStaged
    /\ UNCHANGED <<dtEmit, dtTask, dtDocs, dtCounts, dtEarly>>

\* unstage: disarm and stop the data logics; the prepare is kept, so that what
\* was written can still be collected.  It also interrupts a wait (the plan
\* that waited has been aborted).
DtUnstage ==
    /\ dtStaged /\ dtStaged' = FALSE
    /\ \/ dtCam' = CamDisarmed /\ StopDataLogics("none") /\ UNCHANGED dtFaults
       \/ /\ MayFault /\ dtFaults' = dtFaults + 1
          /\ \/ UNCHANGED <<dtCam, dtFile>>
             \/ \E w \in DtWriters : dtCam' = CamDisarmed /\ StopDataLogics(w)
    /\ dtTask' = NoTask /\ dtFailed' = TRUE
    /\ UNCHANGED <<dtEmit, dtPlanVars, dtDocs, dtCounts, dtOps, dtEarly>>

----------------------------------------------------------------------------
(* prepare *)

\* update_prepare_context: the data logics are kept while collections_per_event
\* is; the collections written now are the baseline of the prepare.  The
\* previous prepare is taken first, so that a failure leaves none.
KeepsLogics(i) == IsPrepared /\ dtPrepared.info.per = i.per
UpdatePrepareContext(i) ==
    IF KeepsLogics(i)
    THEN /\ WrittenAgree
         /\ dtPrepared' = [info |-> i, base |-> MinWritten]
         /\ UNCHANGED <<dtFile, dtEmit>>
    ELSE /\ OpenAll(dtOps + 1, IsPrepared)
         /\ dtPrepared' = [info |-> i, base |-> Min({dtFile'[w].n : w \in DtWriters})]
         /\ Cardinality({dtFile'[w].n : w \in DtWriters}) = 1
UpdateFails(i) ==
    /\ dtPrepared' = NotPrepared
    /\ \/ KeepsLogics(i) /\ ~WrittenAgree /\ dtFailed' = TRUE /\ UNCHANGED <<dtFile, dtEmit, dtFaults>>
       \/ ~KeepsLogics(i) /\ Faulted /\ OpenFails(dtOps + 1, IsPrepared)

\* prepare_for: the hardware first; a trigger it cannot take changes nothing.
DtPrepare(i) ==
    /\ Begin /\ dtStaged /\ ~dtFailed
    /\ IF ~ExposurePlan(i).ok
       THEN dtFailed' = TRUE /\ UNCHANGED <<dtCam, dtFile, dtEmit, dtPrepared, dtEvents, dtFaults>>
       ELSE /\ dtCam' = [dtCam EXCEPT !.images = ExposurePlan(i).images]
            /\ \/ UpdatePrepareContext(i) /\ dtEvents' = i.events /\ Fine
               \/ UpdateFails(i) /\ UNCHANGED dtEvents
    /\ UNCHANGED <<dtKicked, dtTask, dtStaged, dtDocs, dtCounts, dtEarly>>

----------------------------------------------------------------------------
(* trigger, kickoff, complete *)

WaitFor(op, base, want, idle) == [op |-> op, target |-> base + want, idle |-> idle]

\* trigger_one: one event of the prepare, or of an implicit default one; a
\* prepare for several events cannot be triggered.
DtTrigger ==
    /\ Begin /\ dtStaged /\ ~dtFailed
    /\ LET i == IF IsPrepared THEN dtPrepared.info ELSE DefaultInfo
           cam == IF IsPrepared THEN CamArmed ELSE [armed |-> TRUE, left |-> 1, images |-> 1]
       IN  IF i.events # 1
           THEN /\ dtFailed' = TRUE
                /\ UNCHANGED <<dtCam, dtFile, dtEmit, dtPrepared, dtEvents, dtTask, dtFaults>>
           ELSE \/ /\ UpdatePrepareContext(i)
                   /\ dtEvents' = IF IsPrepared THEN dtEvents ELSE 1
                   /\ \/ /\ dtCam' = cam /\ Fine
                         /\ dtTask' = WaitFor("trigger", dtPrepared'.base, i.per, TRUE)
                      \/ Faulted /\ UNCHANGED <<dtCam, dtTask>>   \* the arm is refused
                \/ UpdateFails(i) /\ UNCHANGED <<dtCam, dtEvents, dtTask>>
    /\ UNCHANGED <<dtKicked, dtStaged, dtDocs, dtCounts, dtEarly>>

\* set_events_to_kickoff: fewer events than were prepared.
DtSetEvents(k) ==
    /\ DtIdle /\ IsPrepared /\ dtStaged /\ dtEvents' = k /\ dtEvents # k
    /\ k \in 1 .. dtPrepared.info.events
    /\ UNCHANGED <<dtCam, dtFile, dtEmit, dtPrepared, dtKicked, dtTask, dtStaged, dtFailed,
                   dtDocs, dtCounts, dtOps, dtFaults, dtEarly>>

\* kickoff_ctx: events_to_kickoff events from the index now, within the prepare.
KickoffWanted == dtEvents * dtPrepared.info.per
KickoffFits ==
    MinWritten + KickoffWanted <= dtPrepared.base + NumberOfCollections(dtPrepared.info)
DtKickoff ==
    /\ Begin /\ dtStaged /\ ~dtFailed
    /\ IF IsPrepared /\ WrittenAgree /\ KickoffFits
       THEN /\ dtKicked' = [base |-> MinWritten, want |-> KickoffWanted,
                            last |-> MinWritten + KickoffWanted
                                       = dtPrepared.base + NumberOfCollections(dtPrepared.info)]
            /\ \/ dtCam' = CamArmed /\ Fine
               \/ Faulted /\ UNCHANGED dtCam
       ELSE dtFailed' = TRUE /\ UNCHANGED <<dtKicked, dtCam, dtFaults>>
    /\ UNCHANGED <<dtFile, dtEmit, dtPrepared, dtEvents, dtTask, dtStaged, dtDocs, dtCounts, dtEarly>>

DtComplete ==
    /\ Begin /\ dtStaged /\ ~dtFailed
    /\ IF dtKicked = NotKicked THEN dtFailed' = TRUE /\ UNCHANGED <<dtTask, dtFaults>>
       ELSE dtTask' = WaitFor("complete", dtKicked.base, dtKicked.want, dtKicked.last) /\ Fine
    /\ UNCHANGED <<dtCam, dtFile, dtEmit, dtPlanVars, dtStaged, dtDocs, dtCounts, dtEarly>>

\* wait_for_index: every watched index has reached the target, and the hardware
\* is idle if that was asked.
IndexReached == MinSeen >= dtTask.target
WaitEnds ==
    /\ ~DtIdle /\ IndexReached /\ (dtTask.idle => ~dtCam.armed)
    /\ dtEarly' = (dtEarly \/ MinWritten < dtTask.target)
    /\ dtTask' = NoTask
    /\ UNCHANGED <<dtCam, dtFile, dtEmit, dtPlanVars, dtStaged, dtFailed, dtDocs, dtCounts,
                   dtOps, dtFaults>>
WaitTimesOut ==
    /\ ~DtIdle /\ Faulted /\ dtTask' = NoTask
    /\ UNCHANGED <<dtCam, dtFile, dtEmit, dtPlanVars, dtStaged, dtDocs, dtCounts, dtOps, dtEarly>>

----------------------------------------------------------------------------
(* Documents *)

\* get_index: whole events that every writer has.
GetIndex == MinWritten \div dtPrepared.info.per

\* collect_stream_docs: the resource once, then one datum for the new events.
EmittedBy(w, upTo) ==
    (IF dtEmit[w].res THEN <<>> ELSE <<[kind |-> "resource", path |-> dtEmit[w].path]>>)
    \o (IF upTo > dtEmit[w].last
        THEN <<[kind |-> "datum", path |-> dtEmit[w].path, start |-> dtEmit[w].last,
                stop |-> upTo, per |-> dtPrepared.info.per]>>
        ELSE <<>>)

\* drain_asset_documents, for collect and for the assets of a read.
DtCollect ==
    /\ IsPrepared
    /\ \E w \in DtWriters : EmittedBy(w, GetIndex) # <<>>
    /\ dtDocs' = [w \in DtWriters |-> dtDocs[w] \o EmittedBy(w, GetIndex)]
    /\ dtEmit' = [w \in DtWriters |->
                    [dtEmit[w] EXCEPT !.res = TRUE,
                       !.last = IF GetIndex > @ THEN GetIndex ELSE @]]
    /\ UNCHANGED <<dtCam, dtFile, dtPlanVars, dtTask, dtStaged, dtFailed, dtCounts, dtOps,
                   dtFaults, dtEarly>>

----------------------------------------------------------------------------
(* The IOC: a frame is taken, written by each plugin, and its count is seen. *)
dtClient == <<dtEmit, dtPlanVars, dtTask, dtStaged, dtFailed, dtDocs, dtOps, dtFaults, dtEarly>>

FrameTaken ==
    /\ dtCam.armed /\ dtCam.left > 0
    /\ dtCam' = [dtCam EXCEPT !.left = @ - 1, !.armed = dtCam.left > 1]
    /\ dtFile' = [w \in DtWriters |->
                    IF dtFile[w].open THEN [dtFile[w] EXCEPT !.q = @ + 1] ELSE dtFile[w]]
    /\ UNCHANGED <<dtCounts, dtClient>>

FrameWritten(w) ==
    /\ dtFile[w].q > 0
    /\ dtFile' = [dtFile EXCEPT ![w].q = @ - 1, ![w].n = @ + 1]
    /\ dtCounts' = [dtCounts EXCEPT ![w][dtFile[w].path] = @ + 1]
    /\ UNCHANGED <<dtCam, dtClient>>

CountSeen(w) ==
    /\ dtFile[w].seen # dtFile[w].n
    /\ dtFile' = [dtFile EXCEPT ![w].seen = dtFile[w].n]
    /\ UNCHANGED <<dtCam, dtCounts, dtClient>>

DetectorNext ==
    \/ DtStage \/ DtUnstage \/ DtTrigger \/ DtKickoff \/ DtComplete \/ WaitEnds \/ WaitTimesOut
    \/ DtCollect \/ FrameTaken
    \/ \E i \in DtInfos : DtPrepare(i)
    \/ \E k \in 1 .. 2 : DtSetEvents(k)
    \/ \E w \in DtWriters : FrameWritten(w) \/ CountSeen(w)

----------------------------------------------------------------------------
\* A stream datum names only events whose frames are all in the file its resource
\* names, whatever was re-prepared, re-staged or refused in between.
DatumsInFile ==
    \A w \in DtWriters : \A k \in DOMAIN dtDocs[w] :
      dtDocs[w][k].kind = "datum" =>
        dtDocs[w][k].stop * dtDocs[w][k].per <= dtCounts[w][dtDocs[w][k].path]

\* The documents of a writer are, file by file, one resource and then datums that
\* continue one another: no event is named twice and none is skipped.
DocumentsChain ==
    \A w \in DtWriters : \A k \in DOMAIN dtDocs[w] :
      LET d == dtDocs[w][k]
          before == SelectSeq(SubSeq(dtDocs[w], 1, k - 1), LAMBDA e : e.path = d.path)
      IN  IF d.kind = "resource" THEN before = <<>>
          ELSE /\ before # <<>>
               /\ d.start = IF Len(before) = 1 THEN 0 ELSE before[Len(before)].stop

\* A trigger or complete that succeeded waited for frames that are written, not
\* for the count of an earlier file.
SucceededIsWritten == ~dtEarly

DetectorSound == DatumsInFile /\ DocumentsChain /\ SucceededIsWritten
=============================================================================
