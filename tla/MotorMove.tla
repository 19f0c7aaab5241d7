------------------------------ MODULE MotorMove ------------------------------
(***************************************************************************)
(* Moves of one motor over Channel Access: host/motor_move.rs (limits,      *)
(* deadline, put, the task that settles the status, stop and                *)
(* set_current_position) on backends/epics_ca/channel.rs (one put-callback   *)
(* in flight per channel; later puts are written plain at once and answered  *)
(* by one trailing put-callback of the latest value).  The IOC's motor       *)
(* record is external: it takes writes in the order sent and answers its     *)
(* put-callback when the motion ends.  A value is the number of its write.   *)
(***************************************************************************)
EXTENDS Integers, FiniteSets

CONSTANTS Movers,     \* calls of set, each made once
          MoveOf,     \* mover -> [from, target, velo, record, limits, dial]
          MaxFaults,  \* bound on refused sends, failed put-callbacks and late or failed puts
          MaxStops,   \* bound on calls of stop
          MaxWrites   \* bound on the writes after which another client writes too

ASSUME MotorBounds == MaxFaults \in Nat /\ MaxStops \in Nat /\ MaxWrites \in Nat

VARIABLES mvWrites,   \* values written so far, in the order of the calls
          mvTarget,   \* the record's setpoint: the last write it took
          mvMoving,   \* DMOV = 0
          mvNotify,   \* the put-callback in flight: [state, value]
          mvWaiters,  \* movers it answers
          mvNext,     \* PutSlot::Busy.next: the trailing put, [value, waiters]; value 0: none
          mvMove,     \* mover -> [at, wrote, by, halt]
          mvHalt,     \* Halt's channel: [version, success]
          mvStop,     \* the stop call: "idle", "press", "halt"
          mvStopOk,   \* its argument
          mvSet,      \* set_current_position: "idle", "on", "put", "off"; "stuck": a put
                      \* of .SET failed and the call reported it
          mvSwitch,   \* the record's .SET
          mvFaults, mvStops

motorVars == <<mvWrites, mvTarget, mvMoving, mvNotify, mvWaiters, mvNext, mvMove, mvHalt,
               mvStop, mvStopOk, mvSet, mvSwitch, mvFaults, mvStops>>

NoTrailing == [value |-> 0, waiters |-> {}]
Busy == mvNotify.state # "none"
Settler == "recalibration"     \* set_current_position's own put, which awaits its answer
ASSUME SettlerNamed == Settler \notin Movers

MotorInit ==
    /\ mvWrites = 0 /\ mvTarget = 0 /\ mvMoving = FALSE
    /\ mvNotify = [state |-> "none", value |-> 0]
    /\ mvWaiters = {} /\ mvNext = NoTrailing
    /\ mvMove = [m \in Movers |-> [at |-> "idle", wrote |-> 0, by |-> 0, halt |-> 0]]
    /\ mvHalt = [version |-> 0, success |-> FALSE]
    /\ mvStop = "idle" /\ mvStopOk = FALSE
    /\ mvSet = "idle" /\ mvSwitch = FALSE
    /\ mvFaults = 0 /\ mvStops = 0

----------------------------------------------------------------------------
(* The limits and the deadline of a move, host/motor_move.rs *)

\* check_motor_move: dial limits both 0 mean none; otherwise the axis must stand
\* and end within the user limits.
CheckMotorMove(lim, dial, from, target) ==
    \/ dial = <<0, 0>>
    \/ \A x \in {from, target} : lim[1] <= x /\ x <= lim[2]

\* ControlRule::check, for a motor without the record's fields: equal limits
\* (crossed ones too, for a plain signal) mean none.
ControlAllows(rule, lim, target) ==
    \/ IF rule = "signal" THEN lim[1] >= lim[2] ELSE lim[1] = lim[2]
    \/ lim[1] <= target /\ target <= lim[2]

\* deadline with move_timeout_secs: a motor of zero velocity is refused.
HasDeadline(velo) == velo # 0

\* What set refuses before anything is sent.
Permissible(r) ==
    /\ HasDeadline(r.velo)
    /\ IF r.record THEN CheckMotorMove(r.limits, r.dial, r.from, r.target)
                   ELSE ControlAllows("signal", r.limits, r.target)

(* backends/epics_ca/channel.rs *)

\* The record takes a write: in Use it moves, in Set it is told where it is.
RecordMoves(v) ==
    /\ mvTarget' = v
    /\ mvMoving' = (mvMoving \/ ~mvSwitch)

\* SharedChannel::put_callback of the next value, for waiter w.
TrailingOf(v, ws) == [value |-> v, waiters |-> ws]
PutCallback(w) ==
    LET v == mvWrites + 1
    IN  /\ mvWrites' = v
        /\ RecordMoves(v)
        /\ IF ~Busy
           THEN /\ mvNotify' = [state |-> "sent", value |-> v]
                /\ mvWaiters' = {w}
                /\ UNCHANGED mvNext
           ELSE /\ mvNext' = TrailingOf(v, mvNext.waiters \cup {w})
                /\ UNCHANGED <<mvNotify, mvWaiters>>

\* put_no_callback: a trailing put-callback carries the newer value.
TrailingKept(v) == mvNext
TrailingUpdated(v) == IF mvNext.value = 0 THEN mvNext ELSE [mvNext EXCEPT !.value = v]
PutPlain ==
    /\ mvWrites \in 1 .. MaxWrites - 1
    /\ mvWrites' = mvWrites + 1
    /\ RecordMoves(mvWrites + 1)
    /\ mvNext' = TrailingUpdated(mvWrites + 1)
    /\ UNCHANGED <<mvNotify, mvWaiters, mvMove, mvHalt, mvStop, mvStopOk, mvSet, mvSwitch,
                   mvFaults, mvStops>>

\* answer, at the movers: each of the waiters learns r, and which write it covers.
Told(m, ws, r) ==
    IF m \in ws /\ mvMove[m].at = "moving"
    THEN [mvMove[m] EXCEPT !.at = r, !.by = mvNotify.value] ELSE mvMove[m]
Answer(ws, r) == mvMove' = [m \in Movers |-> Told(m, ws, r)]
Outcome(r) == IF r = "ok" THEN "done" ELSE "refused"

\* drive: the in-flight put-callback is answered; the trailing one is sent before
\* its waiters hear of the first.
DriveOn(r) ==
    /\ mvNotify.state = r
    /\ IF mvNext.value = 0
       THEN /\ mvNotify' = [state |-> "none", value |-> 0]
            /\ mvWaiters' = {}
            /\ UNCHANGED <<mvNext, mvTarget, mvMoving>>
       ELSE /\ mvNotify' = [state |-> "sent", value |-> mvNext.value]
            /\ RecordMoves(mvNext.value)
            /\ mvWaiters' = mvNext.waiters
            /\ mvNext' = NoTrailing
    /\ Answer(mvWaiters, Outcome(r))
    /\ mvSet' = IF Settler \in mvWaiters /\ mvSet = "put" THEN "off" ELSE mvSet
    /\ UNCHANGED <<mvWrites, mvHalt, mvStop, mvStopOk, mvSwitch, mvFaults, mvStops>>

\* drive when the trailing put-callback cannot be sent: all waiters are answered
\* and the slot is idle again.
DriveRefused(r) ==
    /\ mvNotify.state = r /\ mvNext.value # 0
    /\ mvFaults < MaxFaults /\ mvFaults' = mvFaults + 1
    /\ mvNotify' = [state |-> "none", value |-> 0]
    /\ mvWaiters' = {} /\ mvNext' = NoTrailing
    /\ mvMove' = [m \in Movers |->
                    IF m \in mvNext.waiters /\ mvMove[m].at = "moving"
                    THEN [mvMove[m] EXCEPT !.at = "refused"] ELSE Told(m, mvWaiters, Outcome(r))]
    /\ mvSet' = IF Settler \in mvWaiters \cup mvNext.waiters /\ mvSet = "put" THEN "off" ELSE mvSet
    /\ UNCHANGED <<mvWrites, mvTarget, mvMoving, mvHalt, mvStop, mvStopOk, mvSwitch, mvStops>>

\* The record (external): the motion ends, and the put-callback is answered once
\* the record is at rest; or the circuit fails it.
MotionEnds ==
    /\ mvMoving
    /\ mvMoving' = FALSE
    /\ UNCHANGED <<mvWrites, mvTarget, mvNotify, mvWaiters, mvNext, mvMove, mvHalt, mvStop,
                   mvStopOk, mvSet, mvSwitch, mvFaults, mvStops>>
NotifyAnswered ==
    /\ mvNotify.state = "sent"
    /\ \/ ~mvMoving /\ mvNotify' = [mvNotify EXCEPT !.state = "ok"] /\ UNCHANGED mvFaults
       \/ mvFaults < MaxFaults /\ mvFaults' = mvFaults + 1
          /\ mvNotify' = [mvNotify EXCEPT !.state = "failed"]
    /\ UNCHANGED <<mvWrites, mvTarget, mvMoving, mvWaiters, mvNext, mvMove, mvHalt, mvStop,
                   mvStopOk, mvSet, mvSwitch, mvStops>>

----------------------------------------------------------------------------
(* host/motor_move.rs *)

\* set up to the put: the deadline, the subscription to the halt channel, the
\* readback, the limits and the monitor; each read may fail and nothing is sent.
MoveBegin(m) ==
    /\ mvMove[m].at = "idle"
    /\ \/ /\ mvMove' = IF Permissible(MoveOf[m])
                       THEN [mvMove EXCEPT ![m].at = "starting", ![m].halt = mvHalt.version]
                       ELSE [mvMove EXCEPT ![m].at = "refused"]
          /\ UNCHANGED mvFaults
       \/ /\ mvFaults < MaxFaults /\ mvFaults' = mvFaults + 1
          /\ mvMove' = [mvMove EXCEPT ![m].at = "refused"]
    /\ UNCHANGED <<mvWrites, mvTarget, mvMoving, mvNotify, mvWaiters, mvNext, mvHalt, mvStop,
                   mvStopOk, mvSet, mvSwitch, mvStops>>

\* put_start: sent in call order when set returns, or refused by the circuit.
MovePut(m) ==
    /\ mvMove[m].at = "starting"
    /\ \/ /\ PutCallback(m)
          /\ mvMove' = [mvMove EXCEPT ![m].at = "moving", ![m].wrote = mvWrites + 1]
          /\ UNCHANGED mvFaults
       \/ /\ mvFaults < MaxFaults /\ mvFaults' = mvFaults + 1
          /\ mvMove' = [mvMove EXCEPT ![m].at = "refused"]
          /\ UNCHANGED <<mvWrites, mvTarget, mvMoving, mvNotify, mvWaiters, mvNext>>
    /\ UNCHANGED <<mvHalt, mvStop, mvStopOk, mvSet, mvSwitch, mvStops>>

\* move_status' select, biased: a halt since the subscription ends the move.
HaltSeen(m) == mvHalt.version # mvMove[m].halt
MoveHalted(m) ==
    /\ mvMove[m].at \in {"moving", "done", "refused"} /\ mvMove[m].wrote # 0 /\ HaltSeen(m)
    /\ mvMove' = [mvMove EXCEPT ![m].at = IF mvHalt.success THEN "ended" ELSE "stopped"]
    /\ UNCHANGED <<mvWrites, mvTarget, mvMoving, mvNotify, mvWaiters, mvNext, mvHalt, mvStop,
                   mvStopOk, mvSet, mvSwitch, mvFaults, mvStops>>
\* The put's completion, or the deadline.
MoveSettles(m) ==
    /\ mvMove[m].wrote # 0 /\ ~HaltSeen(m)
    /\ \/ mvMove[m].at = "done"    /\ mvMove' = [mvMove EXCEPT ![m].at = "arrived"]
       \/ mvMove[m].at = "refused" /\ mvMove' = [mvMove EXCEPT ![m].at = "failed"]
       \/ mvMove[m].at = "moving"  /\ mvMove' = [mvMove EXCEPT ![m].at = "late"]
    /\ UNCHANGED <<mvWrites, mvTarget, mvMoving, mvNotify, mvWaiters, mvNext, mvHalt, mvStop,
                   mvStopOk, mvSet, mvSwitch, mvFaults, mvStops>>

\* stop: press .STOP while DMOV is 0, then settle the move, the press failed or not.
StopCalled ==
    /\ mvStop = "idle" /\ mvStops < MaxStops
    /\ mvStops' = mvStops + 1
    /\ mvStopOk' \in BOOLEAN
    /\ mvStop' = IF mvMoving THEN "press" ELSE "halt"
    /\ UNCHANGED <<mvWrites, mvTarget, mvMoving, mvNotify, mvWaiters, mvNext, mvMove, mvHalt,
                   mvSet, mvSwitch, mvFaults>>
StopPressed ==
    /\ mvStop = "press"
    /\ mvStop' = "halt"
    /\ \/ mvMoving' = FALSE /\ UNCHANGED mvFaults
       \/ mvFaults < MaxFaults /\ mvFaults' = mvFaults + 1 /\ UNCHANGED mvMoving
    /\ UNCHANGED <<mvWrites, mvTarget, mvNotify, mvWaiters, mvNext, mvMove, mvHalt, mvStopOk,
                   mvSet, mvSwitch, mvStops>>
HaltStop ==
    /\ mvStop = "halt"
    /\ mvStop' = "idle"
    /\ mvHalt' = [version |-> mvHalt.version + 1, success |-> mvStopOk]
    /\ UNCHANGED <<mvWrites, mvTarget, mvMoving, mvNotify, mvWaiters, mvNext, mvMove, mvStopOk,
                   mvSet, mvSwitch, mvFaults, mvStops>>

\* A put of .SET, whose failure leaves it with either value.
SwitchPut(v) == mvSwitch' = v /\ UNCHANGED mvFaults
SwitchFails  == mvFaults < MaxFaults /\ mvFaults' = mvFaults + 1 /\ mvSwitch' \in BOOLEAN

\* set_current_position, in a task of its own: .SET on, which failing ends it
\* there; the put; .SET off whatever the put did.
RecalBegin ==
    /\ mvSet \in {"idle", "stuck"} /\ mvWrites = 0 /\ \A m \in Movers : mvMove[m].at = "idle"
    /\ \/ SwitchPut(TRUE) /\ mvSet' = "on"
       \/ SwitchFails /\ mvSet' = "stuck"
    /\ UNCHANGED <<mvWrites, mvTarget, mvMoving, mvNotify, mvWaiters, mvNext, mvMove, mvHalt,
                   mvStop, mvStopOk, mvStops>>
AfterFailedPutLeft == "idle"
AfterFailedPut == "off"
RecalPut ==
    /\ mvSet = "on"
    /\ \/ PutCallback(Settler) /\ mvSet' = "put" /\ UNCHANGED mvFaults
       \/ /\ mvFaults < MaxFaults /\ mvFaults' = mvFaults + 1 /\ mvSet' = AfterFailedPut
          /\ UNCHANGED <<mvWrites, mvTarget, mvMoving, mvNotify, mvWaiters, mvNext>>
    /\ UNCHANGED <<mvMove, mvHalt, mvStop, mvStopOk, mvSwitch, mvStops>>

\* Its wait for the answer is bounded; the put-callback stays in flight.
RecalPutLate ==
    /\ mvSet = "put" /\ mvSet' = AfterFailedPut
    /\ mvFaults < MaxFaults /\ mvFaults' = mvFaults + 1
    /\ UNCHANGED <<mvWrites, mvTarget, mvMoving, mvNotify, mvWaiters, mvNext, mvMove, mvHalt,
                   mvStop, mvStopOk, mvSwitch, mvStops>>
RecalEnd ==
    /\ mvSet = "off"
    /\ \/ SwitchPut(FALSE) /\ mvSet' = "idle"
       \/ SwitchFails /\ mvSet' = "stuck"
    /\ UNCHANGED <<mvWrites, mvTarget, mvMoving, mvNotify, mvWaiters, mvNext, mvMove, mvHalt,
                   mvStop, mvStopOk, mvStops>>

MotorNext ==
    \/ \E r \in {"ok", "failed"} : DriveOn(r) \/ DriveRefused(r)
    \/ MotionEnds \/ NotifyAnswered \/ PutPlain
    \/ \E m \in Movers : MoveBegin(m) \/ MovePut(m) \/ MoveHalted(m) \/ MoveSettles(m)
    \/ StopCalled \/ StopPressed \/ HaltStop
    \/ RecalBegin \/ RecalPut \/ RecalPutLate \/ RecalEnd

MotorSpec == MotorInit /\ [][MotorNext]_motorVars

MotorFairness ==
    /\ WF_motorVars(\E r \in {"ok", "failed"} : DriveOn(r) \/ DriveRefused(r))
    /\ WF_motorVars(MotionEnds) /\ WF_motorVars(NotifyAnswered)
    /\ WF_motorVars(RecalPut) /\ WF_motorVars(RecalEnd)
    /\ \A m \in Movers : WF_motorVars(MovePut(m)) /\ WF_motorVars(MoveSettles(m) \/ MoveHalted(m))

----------------------------------------------------------------------------
\* Every write reaches the record in the order of the calls and none is undone by
\* a trailing put-callback of an older value.
LastWriteWins == mvTarget = mvWrites

\* A move that has arrived was answered by a put-callback sent no earlier than its
\* own write: its motion is over, not only the one before it.
ArrivalCovered == \A m \in Movers : mvMove[m].at \in {"done", "arrived"} => mvMove[m].by >= mvMove[m].wrote

\* No waiter is forgotten: a mover still waiting is in the hands of a
\* put-callback in flight or to be sent.
NoWaiterForgotten ==
    /\ \A m \in Movers : mvMove[m].at = "moving" => m \in mvWaiters \cup mvNext.waiters
    /\ mvNext.value # 0 => Busy

\* Writes to a shared motor PV reach the record in the order of the calls, a move
\* that reports arrival was covered by a write no older than its own, and no
\* caller of a coalesced put is left without an answer (motor_move.rs;
\* SharedChannel::put_callback, drive).
MotorSound == LastWriteWins /\ ArrivalCovered /\ NoWaiterForgotten

\* A motor put in Set for a recalibration comes back to Use, whatever becomes of
\* the put between, or a put of .SET failed and the call reported an error
\* (set_current_position).
SwitchComesBack == mvSwitch ~> (~mvSwitch \/ mvSet = "stuck")
=============================================================================
