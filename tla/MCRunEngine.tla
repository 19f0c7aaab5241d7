---------------------------- MODULE MCRunEngine -----------------------------
(* The instances of RunEngine that TLC checks; the .cfg files choose.      *)
EXTENDS RunEngine, TLC

CONSTANTS k1, k2, d1, d2, f1, f2

M(op, k, arg) == [op |-> op, key |-> k, arg |-> arg]
Plain(ops, k) == {M(op, k, "none") : op \in ops}

OneKey     == {k1}
TwoKeys    == {k1, k2}
Primary    == {"primary"}
OneDevice  == {d1}
TwoDevices == {d1, d2}
TwoFlyers  == {f1, f2}
OneFlyer   == {f1}
Nothing    == {}
AllKinds   == {"stop", "abort", "halt"}
StopAbort  == {"stop", "abort"}
AbortOnly  == {"abort"}
HaltOnly   == {"halt"}

Bundle(k) == {M("create", k, "primary"), M("read", k, d1)}
             \cup Plain({"save"}, k)

(* Points, rewindable regions and the messages that bound them. *)
RewindMsgs == Bundle(k1)
    \cup Plain({"open", "drop", "checkpoint", "clear", "rewindable",
                "unrewindable", "sleep", "pause"}, k1)
    \cup {M("declare", k1, "primary")}

(* Points of one run that is opened before the first checkpoint. *)
PointMsgs == Bundle(k1) \cup Plain({"open", "checkpoint"}, k1)

(* Devices, monitors, flyers, errors and interrupts. *)
DeviceMsgs == Plain({"open", "close", "wait", "push", "pop", "fail"}, k1)
    \cup {M(op, k1, d1) : op \in {"set", "move", "stage", "unstage",
                                  "monitor", "unmonitor"}}
    \cup {M(op, k1, f1) : op \in {"kickoff", "collect"}}
    \cup {M("monitor", k1, d2)}
    \cup {M("kickoff", k1, f2)}
    \cup Plain({"hook"}, k1)

(* The points of one run beside a second one, opened and closed at will. *)
TwoRunMsgs == Bundle(k1) \cup Plain({"open", "close", "checkpoint"}, k1)
    \cup Plain({"open", "close"}, k2)

SleepMsgs  == Plain({"checkpoint", "sleep"}, k1)
CloseMsgs  == Bundle(k1) \cup Plain({"open", "close", "checkpoint"}, k1)
FlyMsgs    == Plain({"open", "close"}, k1) \cup {M("kickoff", k1, f1)}
OpenMsgs   == Plain({"open"}, k1)
MoveMsgs   == Plain({"open"}, k1) \cup {M("set", k1, d1)}
=============================================================================
