------------------------------ MODULE MCDevices ------------------------------
(***************************************************************************)
(* Plans and the devices they use, on small instances.  The components     *)
(* share no state, so a behaviour is about one of them: `focus` says       *)
(* which, the others stay in one of their initial states.                  *)
(***************************************************************************)
EXTENDS MCPlans, MotorMove, Detectors, Connecting, SignalStack, SoftDevices

VARIABLE focus

\* A motor record with soft limits, a motor whose limits are off, and a move
\* outside the limits.
MCMoveOf ==
  [m \in Movers |-> [from |-> 0, target |-> IF m = "m3" THEN 9 ELSE 2, velo |-> 1, record |-> m # "m2",
                     limits |-> IF m = "m2" THEN <<3, 3>> ELSE <<-1, 5>>, dial |-> <<-1, 5>>]]

Info(trigger, events, per) == [trigger |-> trigger, events |-> events, per |-> per]
MCInfos == {Info("internal", 2, 1), Info("internal", 1, 2), Info("edge", 1, 1)}

Init ==
  /\ focus \in {"plan", "motor", "detector", "connect", "watch", "signal", "soft"}
  /\ MotorInit /\ DetectorInit /\ SignalInit
  /\ PlanInit    /\ (focus = "plan" \/ chosen.name = "emptyguard")
  /\ ConnectInit /\ (focus = "watch" \/ (cnKind = "high" /\ cnDelay))
  /\ SoftInit    /\ (focus = "soft" \/ sdPart = "mock")

Next ==
  /\ UNCHANGED focus
  /\ \/ focus = "plan"     /\ PlanNext
        /\ UNCHANGED <<motorVars, detectorVars, connectVars, signalVars, softVars>>
     \/ focus = "motor"    /\ MotorNext
        /\ UNCHANGED <<planVars, detectorVars, connectVars, signalVars, softVars>>
     \/ focus = "detector" /\ DetectorNext
        /\ UNCHANGED <<planVars, motorVars, connectVars, signalVars, softVars>>
     \/ focus = "connect"  /\ ConnectNext
        /\ UNCHANGED <<planVars, motorVars, detectorVars, signalVars, softVars>>
     \/ focus = "watch"    /\ WatchNext
        /\ UNCHANGED <<planVars, motorVars, detectorVars, signalVars, softVars>>
     \/ focus = "signal"   /\ SignalNext
        /\ UNCHANGED <<planVars, motorVars, detectorVars, connectVars, softVars>>
     \/ focus = "soft"     /\ SoftNext
        /\ UNCHANGED <<planVars, motorVars, detectorVars, connectVars, signalVars>>

vars == <<planVars, motorVars, detectorVars, connectVars, signalVars, softVars, focus>>

Spec == Init /\ [][Next]_vars /\ MotorFairness

-----------------------------------------------------------------------------
\* Every datum a detector announces lies inside its file, the datums of a
\* stream follow one another without gap or overlap, and a trigger or a
\* complete that succeeded has its frames written (StandardDetector,
\* area-detector writers).
DetectorsSound == focus = "detector" => DetectorSound

\* A device is connected only when all its parts are, a change made by the
\* set itself is never missed by set_and_wait, and a suspender trips on a
\* value its predicate calls bad and lifts only after one it calls good
\* (connect_all, observe.rs, suspender.rs).
WatchesSound == focus \in {"connect", "watch"} => ConnectSound

\* Values reach listeners in the order the backend stored them, the monitor
\* is there exactly while the cache is staged or listened to, and a quiet
\* cache reads the current value (signal_cache.rs, subscription.rs); the soft
\* and mock devices count acquisitions, tile their datums, hold blocked puts
\* and let the readback follow the put (backends/soft, backends/mock).
SignalsSound == (focus = "signal" => SignalSound) /\ (focus = "soft" => SoftSound)
=============================================================================
