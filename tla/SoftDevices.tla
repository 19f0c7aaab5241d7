---------------------------- MODULE SoftDevices -----------------------------
(***************************************************************************)
(* The software devices: SoftDetector and the stream writer and control    *)
(* behind soft_detector (backends/soft/detector.rs), read and collected by *)
(* several tasks; MockSignalBackend (backends/mock/mock_signal.rs), whose  *)
(* puts may be overridden by a callback and held back; the soft signal     *)
(* with a setter and a getter, and SoftMotor over a plain one (backends/   *)
(* soft/signal.rs, motor.rs); and the watch that feeds a suspender from a  *)
(* PV (host/ca_suspender.rs).                                              *)
(***************************************************************************)
EXTENDS Integers, Sequences, FiniteSets, SequencesExt

CONSTANTS
  SdTasks,     \* tasks that read, arm, collect and put
  SdReadsMax,  \* bound on reads of the detector
  SdArmsMax,   \* bound on arms of the stream detector
  SdPutsMax,   \* bound on puts
  SdPostsMax   \* bound on changes of the PV

VARIABLES
  sdPart,    \* the device exercised: "detector", "stream", "mock", "watch" or "signal"
  sdCounts,  \* SoftDetector.counts
  sdTask,    \* task -> [at, v, n]: where it is in read, the reading it holds, reads it finished
  sdPosted,  \* what the monitor fan-out was given
  sdReads,   \* reads begun
  sdArm,     \* SoftDetectorControl.arm_count
  sdIndex,   \* the watched index
  sdLast,    \* SoftDetectorWriter.last_emitted
  sdHold,    \* the count the engine asked for, -1 outside collect
  sdRes,     \* resource_emitted, the number of resources sent
  sdDatums,  \* datums sent: <<start, stop>>
  sdPut,     \* task -> [at, v]: "idle", "callback", "write", "wait"
  sdLog,     \* put_log
  sdValue,   \* the soft signal
  sdProceeds, \* the proceeds watch
  sdGuards,  \* PutsBlockedGuards alive
  sdDone,    \* puts that completed: <<value written, proceeds seen>>
  sdMade,    \* the signal's with_setter and with_getter, [setter, getter]
  sdSetpoint, \* its setpoint, sdValue being its readback
  sdHw,      \* what its getter reads
  sdPlain,   \* no put overlapped another, failed, or was given a readback
  sdPv, sdEvents, sdWatch, sdFan, sdPosts \* the PV, events on their way, ca_watch's progress, the Fanout

softVars == <<sdPart, sdCounts, sdTask, sdPosted, sdReads, sdArm, sdIndex, sdLast, sdHold, sdRes, sdDatums, sdPut, sdLog,
              sdValue, sdProceeds, sdGuards, sdDone, sdMade, sdSetpoint, sdHw, sdPlain, sdPv, sdEvents,
              sdWatch, sdFan, sdPosts>>
signalOwn == <<sdMade, sdSetpoint, sdHw, sdPlain>>
detVars == <<sdCounts, sdTask, sdPosted, sdReads>>
streamVars == <<sdArm, sdIndex, sdLast, sdHold, sdRes, sdDatums>>
mockVars == <<sdPut, sdLog, sdValue, sdProceeds, sdGuards, sdDone>>
watchVars == <<sdPv, sdEvents, sdWatch, sdFan, sdPosts, signalOwn>>

\* SoftSignalBackend::new holds the initial value as both; the builders
\* add a setter and a getter to it.
SignalMade ==
  /\ sdMade \in (IF sdPart = "signal" THEN [setter : BOOLEAN, getter : BOOLEAN] ELSE {[setter |-> FALSE, getter |-> FALSE]})
  /\ sdSetpoint = 0 /\ sdHw = 0 /\ sdPlain = TRUE

SoftInit ==
  /\ sdPart \in {"detector", "stream", "mock", "watch", "signal"}
  /\ sdCounts = 0 /\ sdTask = [t \in SdTasks |-> [at |-> "idle", v |-> 0, n |-> 0]] /\ sdPosted = <<0>> /\ sdReads = 0
  /\ sdArm = 0 /\ sdIndex = 0 /\ sdLast = 0 /\ sdHold = -1 /\ sdRes = 0 /\ sdDatums = <<>>
  /\ sdPut = [t \in SdTasks |-> [at |-> "idle", v |-> 0]] /\ sdLog = <<>> /\ sdValue = 0
  /\ sdProceeds = TRUE /\ sdGuards = 0 /\ sdDone = <<>>
  /\ SignalMade
  /\ sdPv = 1 /\ sdEvents = <<>> /\ sdWatch = "get" /\ sdFan = <<>> /\ sdPosts = 0

-----------------------------------------------------------------------------
(* SoftDetector::tick: add, load for the reading, post.                    *)

TickAdd(t) ==
  /\ sdTask[t].at = "idle" /\ sdReads < SdReadsMax /\ sdReads' = sdReads + 1
  /\ sdCounts' = sdCounts + 1
  /\ sdTask' = [sdTask EXCEPT ![t].at = "load"]
  /\ UNCHANGED <<sdPosted, streamVars, mockVars, watchVars>>
Reading(t) ==
  /\ sdTask[t].at = "load"
  /\ sdTask' = [sdTask EXCEPT ![t].at = "post", ![t].v = sdCounts]
  /\ UNCHANGED <<sdCounts, sdPosted, sdReads, streamVars, mockVars, watchVars>>
Publish(t) ==
  /\ sdTask[t].at = "post"
  /\ sdPosted' = Append(sdPosted, sdTask[t].v)
  /\ sdTask' = [sdTask EXCEPT ![t].at = "idle", ![t].n = @ + 1]
  /\ UNCHANGED <<sdCounts, sdReads, streamVars, mockVars, watchVars>>

-----------------------------------------------------------------------------
(* The stream detector.                                                    *)

\* arm counts a frame, then shows the count on the watch.
Arm ==
  /\ sdArm < SdArmsMax /\ sdArm = sdIndex /\ sdArm' = sdArm + 1
  /\ UNCHANGED <<sdIndex, sdLast, sdHold, sdRes, sdDatums, detVars, mockVars, watchVars>>
ShowIndex ==
  /\ sdIndex # sdArm /\ sdIndex' = sdArm
  /\ UNCHANGED <<sdArm, sdLast, sdHold, sdRes, sdDatums, detVars, mockVars, watchVars>>
\* The engine asks indices_written, and collects up to the answer later.
CollectAsk ==
  /\ sdHold = -1 /\ sdHold' = sdArm
  /\ UNCHANGED <<sdArm, sdIndex, sdLast, sdRes, sdDatums, detVars, mockVars, watchVars>>
\* Mutant: frames armed since the question count as sent.
EmittedNow(upto) == sdArm
EmittedTo(upto) == upto
\* collect_stream_docs: the resource once, then a datum for the rest.
CollectSend ==
  /\ sdHold # -1 /\ sdHold' = -1
  /\ sdRes' = IF sdRes = 0 THEN 1 ELSE sdRes
  /\ IF sdHold > sdLast THEN sdDatums' = Append(sdDatums, <<sdLast, sdHold>>) /\ sdLast' = EmittedTo(sdHold)
                        ELSE UNCHANGED <<sdDatums, sdLast>>
  /\ UNCHANGED <<sdArm, sdIndex, detVars, mockVars, watchVars>>

-----------------------------------------------------------------------------
(* MockSignalBackend.                                                      *)

PutStart(t, v) ==
  /\ sdPut[t].at = "idle" /\ Len(sdLog) < SdPutsMax
  /\ sdLog' = Append(sdLog, v)
  /\ sdPut' = [sdPut EXCEPT ![t] = [at |-> "callback", v |-> v]]
  /\ UNCHANGED <<sdValue, sdProceeds, sdGuards, sdDone, detVars, streamVars, watchVars>>
\* The callback is awaited; what it returns, if anything, is written instead.
Overridden(v, with) == IF with = 0 THEN v ELSE with
MockCallback(t, with) ==
  /\ sdPut[t].at = "callback"
  /\ sdPut' = [sdPut EXCEPT ![t] = [at |-> "write", v |-> Overridden(sdPut[t].v, with)]]
  /\ UNCHANGED <<sdLog, sdValue, sdProceeds, sdGuards, sdDone, detVars, streamVars, watchVars>>
PutWrite(t) ==
  /\ sdPut[t].at = "write"
  /\ sdValue' = sdPut[t].v
  /\ sdPut' = [sdPut EXCEPT ![t].at = "wait"]
  /\ UNCHANGED <<sdLog, sdProceeds, sdGuards, sdDone, detVars, streamVars, watchVars>>
\* Mutant: the completion does not look at the watch.
NeverHeld == TRUE
WaitProceeds == sdProceeds
PutDone(t) ==
  /\ sdPut[t].at = "wait" /\ WaitProceeds
  /\ sdDone' = Append(sdDone, <<sdPut[t].v, sdProceeds>>)
  /\ sdPut' = [sdPut EXCEPT ![t].at = "idle"]
  /\ UNCHANGED <<sdLog, sdValue, sdProceeds, sdGuards, detVars, streamVars, watchVars>>
\* mock_puts_blocked, and the guard's drop, which lets every put go on.
BlockPuts ==
  /\ sdGuards < 2 /\ sdGuards' = sdGuards + 1 /\ sdProceeds' = FALSE
  /\ UNCHANGED <<sdPut, sdLog, sdValue, sdDone, detVars, streamVars, watchVars>>
DropGuard ==
  /\ sdGuards > 0 /\ sdGuards' = sdGuards - 1 /\ sdProceeds' = TRUE
  /\ UNCHANGED <<sdPut, sdLog, sdValue, sdDone, detVars, streamVars, watchVars>>

-----------------------------------------------------------------------------
(* ca_watch: read the PV once, post that, then subscribe.                  *)

WatchGet(ok) ==
  /\ sdWatch = "get" /\ sdWatch' = "subscribe"
  /\ sdFan' = Append(sdFan, IF ok THEN sdPv ELSE 0)
  /\ UNCHANGED <<sdPv, sdEvents, sdPosts, detVars, streamVars, mockVars, signalOwn>>
\* A new subscription is sent the present value.
WatchSubscribe ==
  /\ sdWatch = "subscribe" /\ sdWatch' = "on"
  /\ sdEvents' = <<sdPv>>
  /\ UNCHANGED <<sdPv, sdFan, sdPosts, detVars, streamVars, mockVars, signalOwn>>
PvChanges(v) ==
  /\ sdPosts < SdPostsMax /\ sdPosts' = sdPosts + 1 /\ sdPv' = v
  /\ sdEvents' = IF sdWatch = "on" THEN Append(sdEvents, v) ELSE sdEvents
  /\ UNCHANGED <<sdWatch, sdFan, detVars, streamVars, mockVars, signalOwn>>
WatchPost ==
  /\ sdEvents # <<>>
  /\ sdFan' = Append(sdFan, Head(sdEvents)) /\ sdEvents' = Tail(sdEvents)
  /\ UNCHANGED <<sdPv, sdWatch, sdPosts, detVars, streamVars, mockVars, signalOwn>>

-----------------------------------------------------------------------------
(* SoftSignalBackend with a setter and a getter.                           *)

otherThanSignal == <<detVars, streamVars, sdProceeds, sdGuards, sdLog, sdPv, sdEvents, sdWatch, sdFan, sdPosts, sdMade>>

\* put_start: without a setter the value is stored as setpoint and readback
\* in one step (SoftMotor::set); with one the setpoint is stored and the
\* setter is awaited.  0 stands for the initial value, which None writes.
SignalPut(t, v) ==
  /\ sdPut[t].at = "idle" /\ Len(sdDone) < SdPutsMax
  /\ sdSetpoint' = v
  /\ IF sdMade.setter
     THEN /\ sdPut' = [sdPut EXCEPT ![t] = [at |-> "setter", v |-> v]]
          /\ sdPlain' = (sdPlain /\ \A u \in SdTasks : sdPut[u].at = "idle")
          /\ UNCHANGED <<sdValue, sdDone>>
     ELSE /\ sdValue' = v /\ sdDone' = Append(sdDone, <<v, TRUE>>) /\ UNCHANGED <<sdPut, sdPlain>>
  /\ UNCHANGED <<sdHw, otherThanSignal>>
\* Mutant: a setter that returns nothing leaves the readback alone.
ReadbackKept(t) == sdValue
\* The setter returned nothing and there is no getter: the put's own value.
ReadbackOfNone(t) == sdPut[t].v
SetterAnswers(t, answer) ==
  /\ sdPut[t].at = "setter"
  /\ \/ answer = "error" /\ sdPut' = [sdPut EXCEPT ![t].at = "idle"] /\ UNCHANGED sdValue
     \/ answer = "some" /\ sdPut' = [sdPut EXCEPT ![t].at = "idle"] /\ sdValue' = 3
     \/ answer = "none" /\ sdMade.getter /\ sdPut' = [sdPut EXCEPT ![t].at = "refresh"] /\ UNCHANGED sdValue
     \/ answer = "none" /\ ~sdMade.getter /\ sdPut' = [sdPut EXCEPT ![t].at = "idle"] /\ sdValue' = ReadbackOfNone(t)
  /\ sdDone' = IF answer = "none" /\ sdMade.getter THEN sdDone ELSE Append(sdDone, <<sdPut[t].v, TRUE>>)
  /\ sdPlain' = (sdPlain /\ answer = "none")
  /\ UNCHANGED <<sdSetpoint, sdHw, otherThanSignal>>
\* refresh, after a put: what the getter reads, or its failure.
RefreshAfterPut(t, ok) ==
  /\ sdPut[t].at = "refresh"
  /\ sdPut' = [sdPut EXCEPT ![t].at = "idle"]
  /\ sdValue' = IF ok THEN sdHw ELSE sdValue
  /\ sdDone' = Append(sdDone, <<sdPut[t].v, TRUE>>)
  /\ sdPlain' = (sdPlain /\ ok)
  /\ UNCHANGED <<sdSetpoint, sdHw, otherThanSignal>>
\* get_value, get_reading and the poll store the getter's value.
Refresh ==
  /\ sdMade.getter /\ sdValue' = sdHw
  /\ UNCHANGED <<sdPut, sdDone, sdSetpoint, sdHw, sdPlain, otherThanSignal>>
HardwareMoves ==
  /\ sdMade.getter /\ sdHw' = 1 - sdHw
  /\ UNCHANGED <<sdPut, sdDone, sdValue, sdSetpoint, sdPlain, otherThanSignal>>

DetectorStep == \E t \in SdTasks : TickAdd(t) \/ Reading(t) \/ Publish(t)
StreamStep == Arm \/ ShowIndex \/ CollectAsk \/ CollectSend
MockStep ==
  \/ BlockPuts \/ DropGuard
  \/ \E t \in SdTasks : \/ PutWrite(t) \/ PutDone(t)
                         \/ \E v \in 1 .. 2 : PutStart(t, v)
                         \/ \E with \in {0, 3, 4} : MockCallback(t, with)
WatchStep == WatchSubscribe \/ WatchPost \/ (\E ok \in BOOLEAN : WatchGet(ok)) \/ (\E v \in 0 .. 2 : PvChanges(v))
SignalStep ==
  \/ Refresh \/ HardwareMoves
  \/ \E t \in SdTasks : \/ \E v \in 0 .. 2 : SignalPut(t, v)
                         \/ \E answer \in {"none", "some", "error"} : SetterAnswers(t, answer)
                         \/ \E ok \in BOOLEAN : RefreshAfterPut(t, ok)
SoftNext ==
  /\ \/ sdPart = "detector" /\ DetectorStep
     \/ sdPart = "stream" /\ StreamStep
     \/ sdPart = "mock" /\ MockStep
     \/ sdPart = "watch" /\ WatchStep
     \/ sdPart = "signal" /\ SignalStep
  /\ UNCHANGED sdPart

-----------------------------------------------------------------------------
Finished == \A t \in SdTasks : sdTask[t].at = "idle"
\* Every acquisition is counted and posted once, however the reads overlap.
AcquisitionsCounted ==
  Finished => sdCounts = sdReads /\ Len(sdPosted) = sdReads + 1
\* The datums tile the armed frames, whoever collects and however far.
SoftDatumsTile ==
  /\ \A i \in DOMAIN sdDatums : sdDatums[i][1] = (IF i = 1 THEN 0 ELSE sdDatums[i - 1][2]) /\ sdDatums[i][2] <= sdArm
  /\ sdDatums # <<>> => sdRes = 1
\* A completed put was let go, and its value had been written before.
PutsHeld ==
  /\ \A i \in DOMAIN sdDone : sdDone[i][2]
  /\ \A t \in SdTasks : sdPut[t].at = "wait" /\ (\A u \in SdTasks \ {t} : sdPut[u].at = "idle") /\ sdDone = <<>> => sdValue = sdPut[t].v
\* Once the events are in, the watch shows the PV.
WatchShowsPv == sdWatch = "on" /\ sdEvents = <<>> => sdFan[Len(sdFan)] = sdPv

\* A motor with neither setter nor getter is where it was told to be at
\* every moment, which its empty stop relies on; with a setter, once the
\* puts that did not overlap are through.
ReadbackFollows ==
  sdPart = "signal" /\ ~sdMade.getter
    => /\ ~sdMade.setter => sdValue = sdSetpoint
       /\ sdPlain /\ (\A t \in SdTasks : sdPut[t].at = "idle") => sdValue = sdSetpoint

SoftSound == ReadbackFollows /\ AcquisitionsCounted /\ SoftDatumsTile /\ PutsHeld /\ WatchShowsPv

\* Every read advances the count and returns it: no two reads return the
\* same count.
ReadsDiffer == \A i, j \in DOMAIN sdPosted : i # j => sdPosted[i] # sdPosted[j]
=============================================================================
