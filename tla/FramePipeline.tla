--------------------------- MODULE FramePipeline ----------------------------
(***************************************************************************)
(* The frame data plane (stream/) as `bsrs frame-source` wires it          *)
(* (bin/bsrs/frame_source.rs): a PVA monitor callback fills a bounded      *)
(* queue, the frame loop hands each frame to the pipe's secondaries (a     *)
(* BinaryFrameSink) and then to its primary (an Hdf5FrameSink, whose file  *)
(* is owned by a worker thread behind a command channel), and the doc loop *)
(* turns the published frame count into stream documents.  Ctrl-C stops    *)
(* the source, aborts both loops and closes the sinks.                     *)
(***************************************************************************)
EXTENDS Integers, Sequences, FiniteSets, SequencesExt

CONSTANTS
  FrFields,    \* what the monitor may post: subset of {"array", "strings", "novalue"}
  FrPostsMax,  \* bound on posts
  FrQueueMax,  \* the queue's capacity (64 in the source)
  FrFaultsMax, \* bound on failed file operations
  FrReopens    \* TRUE: a sink is opened, or fed after its close, by another task

ASSUME FrQueueMax \in Nat \ {0} /\ FrReopens \in BOOLEAN

VARIABLES
  frQueue,    \* PvaMonitorSource.queue
  frSeq,      \* PvaMonitorSource.seq
  frTook,     \* the frames handed to the pipe, in order
  frTask,     \* task -> where it is in Hdf5FrameSink::accept or open
  frFrame,    \* the frame the loop holds
  frHdf,      \* Hdf5FrameSink: [opened, up, cmds, file]; file is <<>> until it is created
  frCount,    \* Hdf5FrameSink.counter, published on the watch
  frDocs,     \* the datums sent: <<start, stop>>
  frLast,     \* last_emitted
  frRes,      \* the stream resource was sent before the datums
  frSeen,     \* the count the doc loop saw last
  frBin,      \* BinaryFrameSink: [open, file, count]
  frOverflow, \* FramePipe.overflow
  frStopped, frPosts, frFaults

frameVars == <<frQueue, frSeq, frTook, frTask, frFrame, frHdf, frCount, frDocs, frLast, frRes,
               frSeen, frBin, frOverflow, frStopped, frPosts, frFaults>>

FrTasks == {"loop", "opener"}
FrTypeOK ==
  /\ frQueue \in Seq(Nat) /\ Len(frQueue) <= FrQueueMax
  /\ frTask \in [FrTasks -> {"off", "wait", "check", "sent", "opened", "appended", "done"}]

\* frame_source opens the writer before anything else runs; without that the
\* first accept opens it.
FrameInit ==
  /\ frQueue = <<>> /\ frSeq = 0 /\ frTook = <<>> /\ frFrame = 0
  /\ frTask = [t \in FrTasks |-> IF t = "loop" THEN "wait" ELSE IF FrReopens THEN "check" ELSE "off"]
  /\ \E opened \in BOOLEAN : frHdf = [opened |-> opened /\ ~FrReopens, up |-> TRUE, cmds |-> <<>>, file |-> <<>>]
  /\ frCount = 0 /\ frDocs = <<>> /\ frLast = 0 /\ frRes = FALSE /\ frSeen = 0
  /\ frBin = [open |-> FALSE, file |-> <<>>, count |-> 0]
  /\ frOverflow = 0 /\ frStopped = FALSE /\ frPosts = 0 /\ frFaults = 0

IoFault == frFaults < FrFaultsMax /\ frFaults' = frFaults + 1

-----------------------------------------------------------------------------
(* The source.                                                             *)

\* pv_field_to_bytes: a structure without a `value` gives no frame; a string
\* array gives one with no bytes.
MakesFrame(field) == field # "novalue"

\* The callback: a number is taken before try_send, so a full queue drops the
\* frame and leaves a gap; a cancelled monitor posts nothing.
Post(field) ==
  /\ ~frStopped /\ frPosts < FrPostsMax /\ frPosts' = frPosts + 1
  /\ frSeq' = IF MakesFrame(field) THEN frSeq + 1 ELSE frSeq
  /\ frQueue' = IF MakesFrame(field) /\ Len(frQueue) < FrQueueMax THEN Append(frQueue, frSeq) ELSE frQueue
  /\ UNCHANGED <<frTook, frTask, frFrame, frHdf, frCount, frDocs, frLast, frRes, frSeen, frBin, frOverflow, frStopped, frFaults>>

-----------------------------------------------------------------------------
(* The pipe: the secondaries in turn, then the primary.                    *)

\* BinaryFrameSink::accept under the file lock: a closed sink is created
\* anew, which truncates; a failure is counted as overflow by the pipe.
BinAccept(f) ==
  \/ /\ frBin' = [open |-> TRUE, count |-> frBin.count + 1,
                  file |-> IF frBin.open THEN Append(frBin.file, f) ELSE <<f>>]
     /\ UNCHANGED <<frOverflow, frFaults>>
  \/ IoFault /\ frOverflow' = frOverflow + 1 /\ UNCHANGED frBin

PipeSend ==
  /\ frTask["loop"] = "wait" /\ frQueue # <<>>
  /\ frQueue' = Tail(frQueue) /\ frFrame' = Head(frQueue)
  /\ frTook' = Append(frTook, Head(frQueue))
  /\ BinAccept(Head(frQueue))
  /\ frTask' = [frTask EXCEPT !["loop"] = "check"]
  /\ UNCHANGED <<frSeq, frHdf, frCount, frDocs, frLast, frRes, frSeen, frStopped, frPosts>>

-----------------------------------------------------------------------------
(* Hdf5FrameSink: every file operation is a command to the worker.         *)

Cmd(kind, t, f) == [kind |-> kind, by |-> t, frame |-> f]
\* send: refused once close has dropped the channel.
SendCmd(c) == frHdf' = [frHdf EXCEPT !.cmds = Append(@, c)]
GivenUp(t) == IF t = "loop" THEN "wait" ELSE "done"

\* ensure_open: nothing to do once `opened` is set.
EnsureOpen(t) ==
  /\ frTask[t] = "check"
  /\ IF frHdf.opened THEN frTask' = [frTask EXCEPT ![t] = "opened"] /\ UNCHANGED frHdf
     ELSE IF ~frHdf.up THEN frTask' = [frTask EXCEPT ![t] = GivenUp(t)] /\ UNCHANGED frHdf
     ELSE SendCmd(Cmd("open", t, 0)) /\ frTask' = [frTask EXCEPT ![t] = "sent"]
  /\ UNCHANGED <<frQueue, frSeq, frTook, frFrame, frCount, frDocs, frLast, frRes, frSeen, frBin, frOverflow, frStopped, frPosts, frFaults>>

\* The sink is open: a frame is appended; open() returns the data keys.
AfterOpen(t) ==
  /\ frTask[t] = "opened"
  /\ IF t = "loop" /\ frHdf.up
       THEN SendCmd(Cmd("append", t, frFrame)) /\ frTask' = [frTask EXCEPT ![t] = "sent"]
       ELSE frTask' = [frTask EXCEPT ![t] = GivenUp(t)] /\ UNCHANGED frHdf
  /\ UNCHANGED <<frQueue, frSeq, frTook, frFrame, frCount, frDocs, frLast, frRes, frSeen, frBin, frOverflow, frStopped, frPosts, frFaults>>

\* Mutant: a failed append is answered like a good one.
AppendedAnyway(c, ok) == [task |-> "appended", file |-> IF ok THEN Append(frHdf.file, c.frame) ELSE frHdf.file]
\* Worker: an append answers with the dataset's result.
AppendResult(c, ok) ==
  [task |-> IF ok THEN "appended" ELSE "wait", file |-> IF ok THEN Append(frHdf.file, c.frame) ELSE frHdf.file]
\* open_file creates, so it empties a file that is there.
OpenResult(c, ok) ==
  [task |-> IF ok THEN "opened" ELSE GivenUp(c.by), file |-> IF ok THEN <<>> ELSE frHdf.file]

WorkerStep ==
  /\ frHdf.cmds # <<>>
  /\ \E ok \in BOOLEAN :
       /\ IF ok THEN UNCHANGED frFaults ELSE IoFault
       /\ LET c == Head(frHdf.cmds)
              r == IF c.kind = "open" THEN OpenResult(c, ok) ELSE AppendResult(c, ok)
          IN /\ frHdf' = [frHdf EXCEPT !.cmds = Tail(@), !.file = r.file, !.opened = @ \/ (c.kind = "open" /\ ok)]
             /\ frTask' = IF frTask[c.by] = "sent" THEN [frTask EXCEPT ![c.by] = r.task] ELSE frTask
  /\ UNCHANGED <<frQueue, frSeq, frTook, frFrame, frCount, frDocs, frLast, frRes, frSeen, frBin, frOverflow, frStopped, frPosts>>

\* accept returns: the counter and the watch.
Counted ==
  /\ frTask["loop"] = "appended"
  /\ frCount' = frCount + 1
  /\ frTask' = [frTask EXCEPT !["loop"] = "wait"]
  /\ UNCHANGED <<frQueue, frSeq, frTook, frFrame, frHdf, frDocs, frLast, frRes, frSeen, frBin, frOverflow, frStopped, frPosts, frFaults>>

-----------------------------------------------------------------------------
\* The doc loop: the watch shows the latest count only; collect_stream_docs
\* sends the resource once and a datum for what was not sent yet.
CollectDocs ==
  /\ ~frStopped /\ frCount # frSeen
  /\ frSeen' = frCount
  /\ frRes' = TRUE
  /\ frDocs' = IF frCount > frLast THEN Append(frDocs, <<frLast, frCount>>) ELSE frDocs
  /\ frLast' = frCount
  /\ UNCHANGED <<frQueue, frSeq, frTook, frTask, frFrame, frHdf, frCount, frBin, frOverflow, frStopped, frPosts, frFaults>>

\* Ctrl-C: stop cancels the monitor, the loops are aborted where they wait,
\* close drops the channel; commands already sent are still carried out.
Shutdown ==
  /\ ~frStopped /\ frStopped' = TRUE
  /\ frTask' = IF FrReopens THEN frTask ELSE [frTask EXCEPT !["loop"] = "done"]
  /\ frHdf' = [frHdf EXCEPT !.up = FALSE]
  /\ frBin' = [frBin EXCEPT !.open = FALSE]
  /\ UNCHANGED <<frQueue, frSeq, frTook, frFrame, frCount, frDocs, frLast, frRes, frSeen, frOverflow, frPosts, frFaults>>

FrameNext ==
  \/ \E f \in FrFields : Post(f)
  \/ PipeSend \/ WorkerStep \/ Counted \/ CollectDocs \/ Shutdown
  \/ \E t \in FrTasks : EnsureOpen(t) \/ AfterOpen(t)

-----------------------------------------------------------------------------
Increasing(s) == \A i \in 1 .. Len(s) - 1 : s[i] < s[i + 1]
InOrder(s, of) == Increasing(s) /\ ToSet(s) \subseteq ToSet(of)

\* Every frame a stream datum announces is in the file at that place: the
\* counter never runs ahead of the worker's appends, through failed appends,
\* coalesced counts and a shutdown that aborts the loop between the two.
AnnouncedIsWritten ==
  /\ frCount <= Len(frHdf.file) /\ frBin.count <= Len(frBin.file)
  /\ \A i \in DOMAIN frDocs : frDocs[i][2] <= Len(frHdf.file)
\* Datums tile the counted frames, with the resource ahead of them.
DatumsTile ==
  /\ frDocs # <<>> => frRes /\ frDocs[1][1] = 0
  /\ \A i \in DOMAIN frDocs : frDocs[i][1] < frDocs[i][2] /\ (i > 1 => frDocs[i][1] = frDocs[i - 1][2])
\* Both files hold frames in the order the source numbered them; a frame the
\* secondary lacks is counted as overflow.
FilesInOrder ==
  /\ InOrder(frHdf.file, frTook) /\ InOrder(frBin.file, frTook)
  /\ ~frStopped => Len(frTook) = Len(frBin.file) + frOverflow

FramesSound == FrTypeOK /\ AnnouncedIsWritten /\ DatumsTile /\ FilesInOrder
=============================================================================
