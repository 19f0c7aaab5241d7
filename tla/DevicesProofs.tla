---------------------------- MODULE DevicesProofs ----------------------------
(***************************************************************************)
(* Proofs about MotorMove, for any movers and moves and any bounds on the  *)
(* faults, stops and foreign writes, and about Staging, for any children,  *)
(* signals and hints and any bounds on settings, faults and rounds.        *)
(***************************************************************************)
EXTENDS MotorMove, Staging, TLAPS, SequenceTheorems

Callers == Movers \cup {Settler}
Answers == {"ok", "failed"}
Places  == {"idle", "starting", "moving", "done", "refused", "arrived", "failed", "late", "ended", "stopped"}

MoveTypes ==
  /\ mvWrites \in Nat
  /\ mvNotify \in [state : {"none", "sent"} \cup Answers, value : Nat]
  /\ mvWaiters \subseteq Callers
  /\ mvNext \in [value : Nat, waiters : SUBSET Callers]
  /\ mvMove \in [Movers -> [at : Places, wrote : Nat, by : Nat, halt : Nat]]
  /\ mvHalt \in [version : Nat, success : BOOLEAN]

(* The slot of a channel: the record has the last write, and a trailing    *)
(* put, sent after all the plain ones, carries the last write again.       *)
SlotInv ==
  /\ mvTarget = mvWrites
  /\ mvNext.value \in {0, mvWrites}
  /\ mvNext.value = 0 => mvNext.waiters = {}
  /\ mvNext.value # 0 => Busy
  /\ ~Busy => mvWaiters = {}

(* A mover: who waits has put, who has put and is not answered waits, and  *)
(* an answer covers the write of everyone it is given to.                  *)
Waits(m) == m \in mvWaiters \cup mvNext.waiters
MoverInv(m) ==
  /\ Waits(m) => mvMove[m].at \notin {"idle", "starting"}
  /\ mvMove[m].at = "moving" => Waits(m)
  /\ mvMove[m].wrote <= mvWrites
  /\ mvMove[m].at = "moving" /\ m \in mvWaiters => mvMove[m].wrote <= mvNotify.value
  /\ mvMove[m].at \in {"done", "arrived"} => mvMove[m].by >= mvMove[m].wrote

MotorInv ==
  /\ MoveTypes
  /\ SlotInv
  /\ \A m \in Movers : MoverInv(m)

(* What MotorSound says is part of the invariant.                          *)
LEMMA InvariantSound == MotorInv => MotorSound
BY DEF MotorInv, SlotInv, MoverInv, Waits, MotorSound, LastWriteWins, ArrivalCovered, NoWaiterForgotten

LEMMA MotorStarts == MotorInit => MotorInv
BY DEF MotorInit, MotorInv, MoveTypes, SlotInv, MoverInv, Waits, Busy, NoTrailing, Places, Answers

-----------------------------------------------------------------------------
(* The put-callback is answered.                                           *)

\* The next one takes the slot, or the slot falls idle.
LEMMA SlotDriven ==
    ASSUME MotorInv, NEW r \in Answers, DriveOn(r)
    PROVE  MotorInv'
<1> USE DEF MotorInv, Answers
<1>1. /\ mvNotify' \in [state : {"none", "sent"} \cup Answers, value : Nat]
      /\ mvNotify'.value = mvNext.value /\ mvWaiters' = mvNext.waiters
      /\ mvNotify'.state = IF mvNext.value = 0 THEN "none" ELSE "sent"
  <2>1. CASE mvNext.value = 0
    BY SMTT(30), <2>1 DEF DriveOn, MoveTypes, SlotInv
  <2>2. CASE mvNext.value # 0
    BY <2>2 DEF DriveOn, MoveTypes, SlotInv
  <2> QED
    BY <2>1, <2>2
<1>2. /\ mvNext' = NoTrailing /\ mvTarget' = mvWrites /\ UNCHANGED <<mvWrites, mvHalt>>
  <2>1. mvNext.value = 0 => mvNext = NoTrailing
    BY DEF MoveTypes, SlotInv, NoTrailing
  <2> QED
    BY <2>1 DEF DriveOn, RecordMoves, SlotInv
<1>3. ASSUME NEW m \in Movers
      PROVE  mvMove'[m] = IF m \in mvWaiters /\ mvMove[m].at = "moving"
                          THEN [mvMove[m] EXCEPT !.at = Outcome(r), !.by = mvNotify.value]
                          ELSE mvMove[m]
  BY DEF DriveOn, Answer, Told
<1>4. mvMove' \in [Movers -> [at : Places, wrote : Nat, by : Nat, halt : Nat]]
  <2>1. mvMove' = [m \in Movers |-> mvMove'[m]]
    BY DEF DriveOn, Answer
  <2>2. ASSUME NEW m \in Movers PROVE mvMove'[m] \in [at : Places, wrote : Nat, by : Nat, halt : Nat]
    BY <1>3 DEF MoveTypes, Places, Outcome
  <2> QED
    BY <2>1, <2>2
<1>5. MoveTypes' /\ SlotInv'
  BY <1>1, <1>2, <1>4 DEF MoveTypes, SlotInv, NoTrailing, Busy
<1>6. ASSUME NEW m \in Movers PROVE MoverInv(m)'
  <2>1. MoverInv(m) /\ mvMove[m] \in [at : Places, wrote : Nat, by : Nat, halt : Nat]
    BY DEF MoveTypes
  <2>2. CASE m \in mvWaiters /\ mvMove[m].at = "moving"
    <3>1. /\ mvMove'[m].at \in {"done", "refused"}
          /\ mvMove'[m].by = mvNotify.value /\ mvMove'[m].wrote = mvMove[m].wrote
      BY <1>3, <2>1, <2>2 DEF Outcome
    <3> QED
      BY <1>2, <2>1, <2>2, <3>1 DEF MoverInv, Waits
  <2>3. CASE ~(m \in mvWaiters /\ mvMove[m].at = "moving")
    <3>1. mvMove'[m] = mvMove[m]
      BY <1>3, <2>3
    <3>2. m \in mvNext.waiters => mvNext.value = mvWrites
      BY DEF SlotInv
    <3> QED
      BY <1>1, <1>2, <2>1, <2>3, <3>1, <3>2 DEF MoverInv, Waits, NoTrailing
  <2> QED
    BY <2>2, <2>3
<1> QED
  BY <1>5, <1>6

\* The next one cannot be sent: all who wait are answered.
LEMMA SlotRefused ==
    ASSUME MotorInv, NEW r \in Answers, DriveRefused(r)
    PROVE  MotorInv'
<1> USE DEF MotorInv, Answers
<1>1. /\ mvNotify' = [state |-> "none", value |-> 0] /\ mvWaiters' = {} /\ mvNext' = NoTrailing
      /\ UNCHANGED <<mvWrites, mvTarget, mvHalt>>
  BY DEF DriveRefused
<1>0. mvMove' = [m \in Movers |->
                    IF m \in mvNext.waiters /\ mvMove[m].at = "moving"
                    THEN [mvMove[m] EXCEPT !.at = "refused"] ELSE Told(m, mvWaiters, Outcome(r))]
  BY Zenon DEF DriveRefused
<1>2. ASSUME NEW m \in Movers
      PROVE  /\ mvMove'[m] \in [at : Places, wrote : Nat, by : Nat, halt : Nat]
             /\ mvMove'[m].wrote = mvMove[m].wrote
             /\ \/ mvMove'[m] = mvMove[m] /\ (mvMove[m].at # "moving" \/ ~Waits(m))
                \/ mvMove'[m].at = "refused"
                \/ mvMove'[m].at = "done" /\ mvMove'[m].by = mvNotify.value
                   /\ m \in mvWaiters /\ mvMove[m].at = "moving"
  <2>1. mvMove[m] \in [at : Places, wrote : Nat, by : Nat, halt : Nat] /\ mvNotify.value \in Nat
    BY DEF MoveTypes
  <2>2. CASE mvMove[m].at # "moving"
    BY <1>0, <2>1, <2>2 DEF Told
  <2>3. CASE mvMove[m].at = "moving" /\ m \in mvNext.waiters
    <3>1. mvMove'[m] = [mvMove[m] EXCEPT !.at = "refused"]
      BY <1>0, <2>3
    <3> QED
      BY <2>1, <3>1 DEF Places
  <2>4. CASE mvMove[m].at = "moving" /\ m \notin mvNext.waiters /\ m \in mvWaiters
    <3>1. mvMove'[m] = [mvMove[m] EXCEPT !.at = Outcome(r), !.by = mvNotify.value]
      BY <1>0, <2>4 DEF Told
    <3> QED
      BY <2>1, <2>4, <3>1 DEF Places, Outcome
  <2>5. CASE mvMove[m].at = "moving" /\ m \notin mvNext.waiters /\ m \notin mvWaiters
    BY <1>0, <2>1, <2>5 DEF Waits, Told
  <2> QED
    BY <2>2, <2>3, <2>4, <2>5
<1>3. mvMove' = [m \in Movers |-> mvMove'[m]]
  BY <1>0
<1>4. mvMove' \in [Movers -> [at : Places, wrote : Nat, by : Nat, halt : Nat]]
  BY <1>2, <1>3
<1>5. MoveTypes' /\ SlotInv'
  BY <1>1, <1>4 DEF MoveTypes, SlotInv, NoTrailing, Busy
<1>6. ASSUME NEW m \in Movers PROVE MoverInv(m)'
  BY <1>1, <1>2 DEF MoverInv, Waits, NoTrailing
<1> QED
  BY <1>5, <1>6

-----------------------------------------------------------------------------
(* Puts.                                                                   *)

\* A put-callback is sent at once, or joins the trailing one.
LEMMA CallbackPut ==
    ASSUME MotorInv, NEW w \in Callers, PutCallback(w),
           \A m \in Movers : mvMove'[m] = mvMove[m] \/ (m = w /\ mvMove'[m].at = "moving"
                                                        /\ mvMove'[m].wrote = mvWrites + 1),
           w \in Movers => mvMove[w].at = "starting" /\ mvMove'[w].at = "moving"
    PROVE  SlotInv' /\ \A m \in Movers : MoverInv(m)'
<1> USE DEF MotorInv
<1>0. mvWrites \in Nat /\ mvWrites' = mvWrites + 1 /\ mvTarget' = mvWrites + 1
  BY DEF PutCallback, RecordMoves, MoveTypes
<1>1. CASE ~Busy
  <2>1. /\ mvNotify' = [state |-> "sent", value |-> mvWrites + 1] /\ mvWaiters' = {w}
        /\ mvNext' = mvNext /\ mvNext.value = 0 /\ mvNext.waiters = {} /\ mvWaiters = {}
    BY <1>1 DEF PutCallback, SlotInv
  <2>2. SlotInv'
    BY <1>0, <2>1 DEF SlotInv, Busy
  <2>3. ASSUME NEW m \in Movers PROVE MoverInv(m)'
    <3>1. MoverInv(m) /\ mvMove[m].wrote \in Nat
      BY DEF MoveTypes
    <3>2. CASE m = w
      BY <1>0, <2>1, <3>1, <3>2 DEF MoverInv, Waits
    <3>3. CASE m # w
      BY <1>0, <2>1, <3>1, <3>3 DEF MoverInv, Waits
    <3> QED
      BY <3>2, <3>3
  <2> QED
    BY <2>2, <2>3
<1>2. CASE Busy
  <2>1. /\ mvNext' = [value |-> mvWrites + 1, waiters |-> mvNext.waiters \cup {w}]
        /\ UNCHANGED <<mvNotify, mvWaiters>>
    BY <1>2 DEF PutCallback, TrailingOf
  <2>2. SlotInv'
    BY <1>0, <1>2, <2>1 DEF SlotInv, Busy
  <2>3. ASSUME NEW m \in Movers PROVE MoverInv(m)'
    <3>1. MoverInv(m) /\ mvMove[m].wrote \in Nat
      BY DEF MoveTypes
    <3>2. CASE m = w
      BY <1>0, <2>1, <3>1, <3>2 DEF MoverInv, Waits
    <3>3. CASE m # w
      BY <1>0, <2>1, <3>1, <3>3 DEF MoverInv, Waits
    <3> QED
      BY <3>2, <3>3
  <2> QED
    BY <2>2, <2>3
<1> QED
  BY <1>1, <1>2

LEMMA CallbackTypes ==
    ASSUME MotorInv, NEW w \in Callers, PutCallback(w)
    PROVE  /\ mvWrites' \in Nat
           /\ mvNotify' \in [state : {"none", "sent"} \cup Answers, value : Nat]
           /\ mvWaiters' \subseteq Callers
           /\ mvNext' \in [value : Nat, waiters : SUBSET Callers]
<1>1. CASE ~Busy
  BY <1>1 DEF MotorInv, MoveTypes, PutCallback
<1>2. CASE Busy
  BY <1>2 DEF MotorInv, MoveTypes, PutCallback, TrailingOf
<1> QED
  BY <1>1, <1>2

LEMMA MoverPuts ==
    ASSUME MotorInv, NEW m \in Movers, MovePut(m)
    PROVE  MotorInv'
<1>0. /\ mvMove \in [Movers -> [at : Places, wrote : Nat, by : Nat, halt : Nat]]
      /\ mvMove[m].at = "starting" /\ mvWrites \in Nat /\ mvHalt' = mvHalt
  BY DEF MotorInv, MoveTypes, MovePut
<1>1. CASE PutCallback(m) /\ mvMove' = [mvMove EXCEPT ![m].at = "moving", ![m].wrote = mvWrites + 1]
  <2>1. \A k \in Movers : mvMove'[k] = mvMove[k] \/ (k = m /\ mvMove'[k].at = "moving"
                                                    /\ mvMove'[k].wrote = mvWrites + 1)
    BY <1>0, <1>1
  <2>2. mvMove'[m].at = "moving" /\ m \in Callers
    BY <1>0, <1>1 DEF Callers
  <2>3. SlotInv' /\ \A k \in Movers : MoverInv(k)'
    BY <1>0, <1>1, <2>1, <2>2, CallbackPut
  <2>4. mvMove' \in [Movers -> [at : Places, wrote : Nat, by : Nat, halt : Nat]]
    <3>1. [mvMove[m] EXCEPT !.at = "moving", !.wrote = mvWrites + 1]
             \in [at : Places, wrote : Nat, by : Nat, halt : Nat]
      <4>1. mvMove[m] \in [at : Places, wrote : Nat, by : Nat, halt : Nat] /\ mvWrites + 1 \in Nat
        BY <1>0
      <4>2. [mvMove[m] EXCEPT !.at = "moving"] \in [at : Places, wrote : Nat, by : Nat, halt : Nat]
        BY <4>1 DEF Places
      <4> QED
        BY <4>1, <4>2
    <3>2. mvMove' = [mvMove EXCEPT ![m] = [mvMove[m] EXCEPT !.at = "moving", !.wrote = mvWrites + 1]]
      BY <1>0, <1>1
    <3> QED
      BY <1>0, <3>1, <3>2
  <2> QED
    BY <1>0, <1>1, <2>2, <2>3, <2>4, CallbackTypes DEF MotorInv, MoveTypes
<1>2. CASE /\ mvMove' = [mvMove EXCEPT ![m].at = "refused"]
           /\ UNCHANGED <<mvWrites, mvTarget, mvNotify, mvWaiters, mvNext>>
  <2>1. mvMove' \in [Movers -> [at : Places, wrote : Nat, by : Nat, halt : Nat]]
    BY <1>0, <1>2 DEF Places
  <2>2. SlotInv'
    BY <1>2 DEF MotorInv, SlotInv, Busy
  <2>3. ASSUME NEW k \in Movers PROVE MoverInv(k)'
    <3>1. mvMove'[k] = IF k = m THEN [mvMove[m] EXCEPT !.at = "refused"] ELSE mvMove[k]
      BY <1>0, <1>2
    <3> QED
      BY <1>0, <1>2, <3>1 DEF MotorInv, MoverInv, Waits
  <2> QED
    BY <1>0, <1>2, <2>1, <2>2, <2>3 DEF MotorInv, MoveTypes
<1> QED
  BY <1>1, <1>2 DEF MovePut

\* set_current_position's put.
LEMMA RecalPuts ==
    ASSUME MotorInv, RecalPut
    PROVE  MotorInv'
<1>0. UNCHANGED <<mvMove, mvHalt>> /\ Settler \in Callers
  BY DEF RecalPut, Callers
<1>1. CASE PutCallback(Settler)
  <2>1. SlotInv' /\ \A m \in Movers : MoverInv(m)'
    BY <1>0, <1>1, SettlerNamed, CallbackPut
  <2> QED
    BY <1>0, <1>1, <2>1, CallbackTypes DEF MotorInv, MoveTypes
<1>2. CASE UNCHANGED <<mvWrites, mvTarget, mvNotify, mvWaiters, mvNext>>
  BY <1>0, <1>2 DEF MotorInv, MoveTypes, SlotInv, MoverInv, Waits, Busy
<1> QED
  BY <1>1, <1>2 DEF RecalPut

\* A plain put makes the trailing put carry its value.
LEMMA PlainPuts ==
    ASSUME MotorInv, PutPlain
    PROVE  MotorInv'
<1>0. /\ mvWrites' = mvWrites + 1 /\ mvTarget' = mvWrites + 1 /\ mvWrites \in Nat /\ mvWrites # 0
      /\ mvNext' = IF mvNext.value = 0 THEN mvNext ELSE [mvNext EXCEPT !.value = mvWrites + 1]
      /\ UNCHANGED <<mvNotify, mvWaiters, mvMove, mvHalt>>
  BY DEF PutPlain, RecordMoves, TrailingUpdated, MotorInv, MoveTypes
<1>1. /\ mvNext' \in [value : Nat, waiters : SUBSET Callers] /\ mvNext'.waiters = mvNext.waiters
      /\ mvNext'.value = IF mvNext.value = 0 THEN 0 ELSE mvWrites + 1
  BY <1>0 DEF MotorInv, MoveTypes
<1>2. MoveTypes' /\ SlotInv'
  BY <1>0, <1>1 DEF MotorInv, MoveTypes, SlotInv, Busy
<1>3. ASSUME NEW m \in Movers PROVE MoverInv(m)'
  <2>1. mvMove[m].wrote \in Nat /\ MoverInv(m)
    BY DEF MotorInv, MoveTypes
  <2> QED
    BY <1>0, <1>1, <2>1 DEF MoverInv, Waits
<1> QED
  BY <1>2, <1>3 DEF MotorInv

-----------------------------------------------------------------------------
(* The record, the movers and the stop.                                    *)

\* The circuit's answer is stored; nothing else of the slot changes.
LEMMA AnswerArrives ==
    ASSUME MotorInv, NotifyAnswered
    PROVE  MotorInv'
<1>1. /\ mvNotify.state = "sent" /\ mvNotify'.state \in Answers /\ mvNotify'.value = mvNotify.value
      /\ mvNotify' \in [state : {"none", "sent"} \cup Answers, value : Nat]
      /\ UNCHANGED <<mvWrites, mvTarget, mvWaiters, mvNext, mvMove, mvHalt>>
  BY DEF NotifyAnswered, MotorInv, MoveTypes, Answers
<1>2. Busy /\ Busy'
  BY <1>1 DEF Busy, Answers
<1> QED
  BY <1>1, <1>2 DEF MotorInv, MoveTypes, SlotInv, MoverInv, Waits

\* A mover that is not waiting, or stops waiting, without a put of its own.
LEMMA MoverSteps ==
    ASSUME MotorInv, NEW m \in Movers, MoveBegin(m) \/ MoveHalted(m) \/ MoveSettles(m)
    PROVE  MotorInv'
<1>0. /\ mvMove \in [Movers -> [at : Places, wrote : Nat, by : Nat, halt : Nat]] /\ mvHalt.version \in Nat
      /\ UNCHANGED <<mvWrites, mvTarget, mvNotify, mvWaiters, mvNext, mvHalt>>
  BY DEF MotorInv, MoveTypes, MoveBegin, MoveHalted, MoveSettles
<1>1. /\ mvMove' \in [Movers -> [at : Places, wrote : Nat, by : Nat, halt : Nat]]
      /\ \A k \in Movers \ {m} : mvMove'[k] = mvMove[k]
      /\ mvMove'[m].wrote = mvMove[m].wrote /\ mvMove'[m].by = mvMove[m].by
      /\ \/ mvMove[m].at = "idle" /\ mvMove'[m].at \in {"starting", "refused"}
         \/ mvMove'[m].at \in {"ended", "stopped", "failed", "late"}
            /\ mvMove[m].at \in {"moving", "done", "refused"}
         \/ mvMove[m].at = "done" /\ mvMove'[m].at = "arrived"
  <2>1. CASE MoveBegin(m)
    <3>1. CASE mvMove' = [mvMove EXCEPT ![m].at = "starting", ![m].halt = mvHalt.version]
      <4>1. [mvMove[m] EXCEPT !.at = "starting", !.halt = mvHalt.version]
               \in [at : Places, wrote : Nat, by : Nat, halt : Nat]
        BY <1>0 DEF Places
      <4>2. mvMove' = [mvMove EXCEPT ![m] = [mvMove[m] EXCEPT !.at = "starting", !.halt = mvHalt.version]]
        BY <1>0, <3>1
      <4> QED
        BY <1>0, <2>1, <4>1, <4>2 DEF MoveBegin
    <3>2. CASE mvMove' = [mvMove EXCEPT ![m].at = "refused"]
      BY <1>0, <2>1, <3>2 DEF MoveBegin, Places
    <3> QED
      BY <2>1, <3>1, <3>2 DEF MoveBegin
  <2>2. CASE MoveHalted(m)
    BY <1>0, <2>2 DEF MoveHalted, Places
  <2>3. CASE MoveSettles(m)
    BY <1>0, <2>3 DEF MoveSettles, Places
  <2> QED
    BY <2>1, <2>2, <2>3
<1>2. ASSUME NEW k \in Movers PROVE MoverInv(k)'
  <2>1. MoverInv(k)
    BY DEF MotorInv
  <2>2. CASE k = m
    BY <1>0, <1>1, <2>1, <2>2 DEF MoverInv, Waits
  <2>3. CASE k # m
    BY <1>0, <1>1, <2>1, <2>3 DEF MoverInv, Waits
  <2> QED
    BY <2>2, <2>3
<1> QED
  BY <1>0, <1>1, <1>2 DEF MotorInv, MoveTypes, SlotInv, Busy

LEMMA OthersStep ==
    ASSUME MotorInv, UNCHANGED <<mvWrites, mvTarget, mvNotify, mvWaiters, mvNext, mvMove>>,
           mvHalt' \in [version : Nat, success : BOOLEAN]
    PROVE  MotorInv'
BY DEF MotorInv, MoveTypes, SlotInv, MoverInv, Waits, Busy

LEMMA MotorKept ==
    ASSUME MotorInv, [MotorNext]_motorVars, mvStopOk \in BOOLEAN
    PROVE  MotorInv'
<1>0. mvHalt \in [version : Nat, success : BOOLEAN]
  BY DEF MotorInv, MoveTypes
<1>1. CASE \E r \in Answers : DriveOn(r) \/ DriveRefused(r)
  BY <1>1, SlotDriven, SlotRefused
<1>2. CASE PutPlain
  BY <1>2, PlainPuts
<1>3. CASE NotifyAnswered
  BY <1>3, AnswerArrives
<1>4. CASE \E m \in Movers : MovePut(m)
  BY <1>4, MoverPuts
<1>5. CASE \E m \in Movers : MoveBegin(m) \/ MoveHalted(m) \/ MoveSettles(m)
  BY <1>5, MoverSteps
<1>6. CASE RecalPut
  BY <1>6, RecalPuts
<1>7. CASE \/ MotionEnds \/ StopCalled \/ StopPressed \/ RecalBegin \/ RecalPutLate
           \/ RecalEnd \/ UNCHANGED motorVars
  BY <1>0, <1>7, OthersStep DEF MotionEnds, StopCalled, StopPressed, RecalBegin, RecalPutLate,
                               RecalEnd, motorVars
<1>8. CASE HaltStop
  BY <1>0, <1>8, OthersStep DEF HaltStop
<1> QED
  BY <1>1, <1>2, <1>3, <1>4, <1>5, <1>6, <1>7, <1>8 DEF MotorNext, Answers

-----------------------------------------------------------------------------
(* Whatever the moves, the stops, the foreign writes and the faults, the   *)
(* writes to a shared motor PV reach the record in the order of the calls, *)
(* a move reports arrival only when a write no older than its own was      *)
(* answered, and no caller of a coalesced put is forgotten                 *)
(* (SharedChannel::put_callback, answer and drive in channel.rs).          *)
THEOREM MovesAreSound == MotorSpec => []MotorSound
<1>1. MotorInit => MotorInv /\ mvStopOk \in BOOLEAN
  BY MotorStarts DEF MotorInit
<1>2. MotorInv /\ mvStopOk \in BOOLEAN /\ [MotorNext]_motorVars => (MotorInv /\ mvStopOk \in BOOLEAN)'
  <2> SUFFICES ASSUME MotorInv, mvStopOk \in BOOLEAN, [MotorNext]_motorVars
               PROVE  MotorInv' /\ mvStopOk' \in BOOLEAN
    OBVIOUS
  <2>1. mvStopOk' \in BOOLEAN
    BY DEF MotorNext, motorVars, DriveOn, DriveRefused, MotionEnds, NotifyAnswered, PutPlain, MoveBegin,
           MovePut, MoveHalted, MoveSettles, StopCalled, StopPressed, HaltStop, RecalBegin, RecalPut,
           RecalPutLate, RecalEnd
  <2> QED
    BY <2>1, MotorKept
<1>3. MotorInv => MotorSound
  BY InvariantSound
<1> QED
  BY <1>1, <1>2, <1>3, PTL DEF MotorSpec


-----------------------------------------------------------------------------
(* The invariant of staging.                                               *)

Ops == {"rest", "read", "put", "rollback", "restore"}

StagingTypes ==
  /\ stgVal \in [AllStgSignals -> Nat]
  /\ stgObj \in Seq([sig : AllStgSignals, want : Nat, orig : Nat \cup {NoOrig}])
  /\ stgList \in [StgDevs -> Seq(DOMAIN stgObj)]
  /\ stgFlag \in [StgDevs -> BOOLEAN] /\ stgErrs \in [StgDevs -> BOOLEAN]
  /\ stgTask \in [StgDevs -> [op : Ops, i : Nat, list : Seq(DOMAIN stgObj), got : Nat \cup {NoOrig}]]
  /\ stgKids \in Seq(StgDevs) /\ stgOffered \in 0 .. Len(StgDevices)
  /\ stgDirty \subseteq AllStgSignals /\ stgLost \subseteq AllStgSignals
  /\ stgAsked \in {"none", "stage", "unstage"}

(* A list has settings of its own device, one of each signal.              *)
ListOf(d, list) ==
  /\ \A k \in DOMAIN list : stgObj[list[k]].sig \in Range(StgSignals[d])
  /\ \A k, l \in DOMAIN list : stgObj[list[k]].sig = stgObj[list[l]].sig => k = l
ListInv == \A d \in StgDevs : ListOf(d, stgList[d]) /\ ListOf(d, stgTask[d].list)

(* A task is where its list says, on a child of the parent that stays      *)
(* flagged while settings are applied; what the list it cloned and the     *)
(* device's own differ in is excused.                                      *)
Applying(d) == stgTask[d].op \in {"read", "put"}
TaskInv ==
  \A d \in StgDevs :
    /\ stgFlag[d] => d \in Range(stgKids)
    /\ stgTask[d].op # "rest" => d \in Range(stgKids)
    /\ stgTask[d].op = "read" => stgTask[d].i \in 1 .. Len(stgTask[d].list) + 1
    /\ stgTask[d].op = "put" => stgTask[d].i \in 1 .. Len(stgTask[d].list)
    /\ stgTask[d].op \in {"rollback", "restore"} => stgTask[d].i \in 0 .. Len(stgTask[d].list)
    /\ Applying(d) => stgFlag[d] /\ stgAsked = "stage"
    /\ Applying(d) => \A k \in DOMAIN stgTask[d].list :
                        Excused(stgObj[stgTask[d].list[k]].sig) \/ stgTask[d].list[k] \in Range(stgList[d])
    /\ stgTask[d].op = "put" => stgTask[d].got = 0 \/ Excused(SigOf(d))
    /\ stgTask[d].op = "rollback" => stgErrs[d]
    /\ stgTask[d].op = "restore" => stgAsked = "unstage"

(* How far the task of d has come with setting o: it is applied, or still  *)
(* to be restored.                                                         *)
Reached(d, o) ==
  /\ Applying(d) => \E p \in DOMAIN stgTask[d].list : p < stgTask[d].i /\ stgTask[d].list[p] = o
  /\ stgTask[d].op \in {"rollback", "restore"} =>
       \E p \in DOMAIN stgTask[d].list : p <= stgTask[d].i /\ stgTask[d].list[p] = o

(* A setting that holds an original holds the value as it was found, and   *)
(* its device, staged, has it in its list.                                 *)
Holds(o) == stgObj[o].orig # NoOrig
HeldInv ==
  \A d \in StgDevs : \A o \in DOMAIN stgObj :
    stgObj[o].sig \in Range(StgSignals[d]) /\ Holds(o) /\ ~Excused(stgObj[o].sig) =>
      stgObj[o].orig = 0 /\ stgFlag[d] /\ o \in Range(stgList[d]) /\ Reached(d, o)

(* A signal not as it was found has a setting that holds how it was.       *)
ValueInv ==
  \A s \in AllStgSignals :
    stgVal[s] = 0 \/ Excused(s) \/ \E o \in DOMAIN stgObj : stgObj[o].sig = s /\ Holds(o)

ToldInv == stgAsked = "stage" => \A d \in Range(stgKids) : stgErrs[d] \/ stgFlag[d]

StagingInv == StagingTypes /\ ListInv /\ TaskInv /\ HeldInv /\ ValueInv /\ ToldInv

StgSettings == [sig : AllStgSignals, want : Nat, orig : Nat \cup {NoOrig}]
StgTasks    == [op : Ops, i : Nat, list : Seq(DOMAIN stgObj), got : Nat \cup {NoOrig}]

LEMMA StgTyped ==
  ASSUME StagingTypes
  PROVE  /\ DOMAIN stgObj = 1 .. Len(stgObj) /\ Len(stgObj) \in Nat
         /\ \A o \in DOMAIN stgObj : stgObj[o] \in StgSettings
         /\ \A d \in StgDevs : stgTask[d] \in StgTasks /\ stgList[d] \in Seq(DOMAIN stgObj)
         /\ \A d \in StgDevs : \A k \in DOMAIN stgList[d] : stgList[d][k] \in DOMAIN stgObj
         /\ \A d \in StgDevs : \A k \in DOMAIN stgTask[d].list : stgTask[d].list[k] \in DOMAIN stgObj
<1>1. DOMAIN stgObj = 1 .. Len(stgObj) /\ Len(stgObj) \in Nat
  BY DEF StagingTypes
<1>2. \A S, q, i : q \in Seq(S) /\ i \in DOMAIN q => q[i] \in S
  OBVIOUS
<1>3. \A o \in DOMAIN stgObj : stgObj[o] \in StgSettings
  BY <1>2 DEF StagingTypes, StgSettings
<1>4. \A d \in StgDevs : stgTask[d] \in StgTasks /\ stgList[d] \in Seq(DOMAIN stgObj)
  BY DEF StagingTypes, StgTasks
<1>5. \A d \in StgDevs : stgTask[d].list \in Seq(DOMAIN stgObj)
  BY <1>4 DEF StgTasks
<1>6. \A d \in StgDevs : \A k \in DOMAIN stgList[d] : stgList[d][k] \in DOMAIN stgObj
  BY <1>2, <1>4
<1>7. \A d \in StgDevs : \A k \in DOMAIN stgTask[d].list : stgTask[d].list[k] \in DOMAIN stgObj
  BY <1>2, <1>5
<1> QED
  BY <1>1, <1>3, <1>4, <1>6, <1>7

LEMMA StgOwned ==
  /\ \A d \in StgDevs : Range(StgSignals[d]) \subseteq AllStgSignals
  /\ \A d, e \in StgDevs : \A s : s \in Range(StgSignals[d]) /\ s \in Range(StgSignals[e]) => d = e
  /\ \A s \in AllStgSignals : \E d \in StgDevs : s \in Range(StgSignals[d])
BY StagingBounds DEF StgDevs, AllStgSignals

LEMMA StgInitial == StagingInit => StagingInv
<1> SUFFICES ASSUME StagingInit PROVE StagingInv
  OBVIOUS
<1> USE DEF StagingInit
<1>1. StagingTypes
  <2>1. StgRest \in [op : Ops, i : Nat, list : Seq(DOMAIN stgObj), got : Nat \cup {NoOrig}]
    BY DEF StgRest, Ops
  <2>2. <<>> \in Seq(DOMAIN stgObj)
    OBVIOUS
  <2>3. 0 \in 0 .. Len(StgDevices)
    BY StagingBounds
  <2> QED
    BY <2>1, <2>2, <2>3 DEF StagingTypes
<1>2. ListInv
  BY DEF ListInv, ListOf, StgRest
<1>3. TaskInv
  BY DEF TaskInv, StgRest, Applying
<1>4. HeldInv /\ ValueInv /\ ToldInv
  BY DEF HeldInv, ValueInv, ToldInv
<1> QED
  BY <1>1, <1>2, <1>3, <1>4 DEF StagingInv

(* Settings keep their signals and what is excused stays excused.          *)
LEMMA ExcusedStays ==
  ASSUME stgDirty \subseteq stgDirty', stgLost \subseteq stgLost', NEW s, Excused(s)
  PROVE  Excused(s)'
BY DEF Excused

-----------------------------------------------------------------------------
(* Steps that touch neither the settings nor the values.                   *)

StgDataKept == UNCHANGED <<stgVal, stgObj, stgList, stgDirty, stgLost>>

LEMMA ValuesKept == ASSUME ValueInv, StgDataKept PROVE ValueInv'
BY DEF ValueInv, StgDataKept, Excused, Holds

LEMMA AddChildKeeps == ASSUME StagingInv, AddChild PROVE StagingInv'
<1>1. StgDataKept /\ UNCHANGED <<stgFlag, stgTask, stgAsked, stgErrs>> /\ stgAsked = "none"
  BY DEF AddChild, StgDataKept
<1>2. stgOffered + 1 \in DOMAIN StgDevices /\ stgOffered' = stgOffered + 1
      /\ stgKids' \in {stgKids, Append(stgKids, StgDevices[stgOffered + 1])}
  BY StagingBounds DEF AddChild, StagingInv, StagingTypes
<1>3. StgDevices[stgOffered + 1] \in StgDevs
  BY <1>2 DEF StgDevs, Range
<1>4. stgKids' \in Seq(StgDevs) /\ Range(stgKids) \subseteq Range(stgKids') /\ stgOffered' \in 0 .. Len(StgDevices)
  <2>1. stgKids \in Seq(StgDevs) /\ stgOffered \in 0 .. Len(StgDevices)
    BY DEF StagingInv, StagingTypes
  <2>2. stgOffered' \in 0 .. Len(StgDevices)
    BY <1>2, <2>1, StagingBounds
  <2>3. CASE stgKids' = stgKids
    BY <2>1, <2>2, <2>3
  <2>4. CASE stgKids' = Append(stgKids, StgDevices[stgOffered + 1])
    <3>1. stgKids' \in Seq(StgDevs) /\ \A k \in DOMAIN stgKids : k \in DOMAIN stgKids' /\ stgKids'[k] = stgKids[k]
      BY <1>3, <2>1, <2>4
    <3> QED
      BY <2>2, <3>1 DEF Range
  <2> QED
    BY <1>2, <2>3, <2>4
<1>5. StagingTypes'
  BY <1>1, <1>4 DEF StagingInv, StagingTypes, StgDataKept
<1>6. ListInv' /\ HeldInv' /\ ValueInv'
  BY <1>1, ValuesKept DEF StagingInv, ListInv, ListOf, HeldInv, Holds, Excused, Reached, Applying, StgDataKept
<1>7. TaskInv'
  BY <1>1, <1>4 DEF StagingInv, TaskInv, Excused, Applying, StgDataKept, SigOf, SettingOf
<1>8. ToldInv'
  BY <1>1 DEF ToldInv
<1> QED
  BY <1>5, <1>6, <1>7, <1>8 DEF StagingInv

LEMMA KidsOwned == ASSUME StagingTypes PROVE Range(stgKids) \subseteq StgDevs
<1>1. \A S, q : q \in Seq(S) => \A i \in DOMAIN q : q[i] \in S
  OBVIOUS
<1> QED
  BY <1>1 DEF StagingTypes, Range

LEMMA ParentStageKeeps == ASSUME StagingInv, ParentStage PROVE StagingInv'
<1>1. /\ StgDataKept /\ UNCHANGED <<stgKids, stgOffered>> /\ stgAsked' = "stage"
      /\ \A d \in StgDevs : stgTask[d] = StgRest
      /\ \A d \in StgDevs :
           /\ stgTask'[d] = IF d \in Range(stgKids) /\ ~stgFlag[d]
                            THEN [op |-> "read", i |-> 1, list |-> stgList[d], got |-> NoOrig] ELSE StgRest
           /\ stgFlag'[d] <=> stgFlag[d] \/ d \in Range(stgKids)
           /\ stgErrs'[d] <=> d \in Range(stgKids) /\ stgFlag[d]
      /\ stgTask' = [d \in StgDevs |-> stgTask'[d]]
      /\ stgFlag' \in [StgDevs -> BOOLEAN] /\ stgErrs' \in [StgDevs -> BOOLEAN]
  BY DEF ParentStage, StgDataKept, BeginStage, StgAtRest
<1>2. StagingTypes'
  <2>1. \A d \in StgDevs : stgTask'[d] \in StgTasks
    BY SMTT(30), <1>1, StgTyped DEF StgRest, StgTasks, Ops, StagingInv
  <2>2. stgTask' \in [StgDevs -> StgTasks]
    BY <1>1, <2>1
  <2> QED
    BY <1>1, <2>2 DEF StagingInv, StagingTypes, StgDataKept, StgTasks
<1>3. ListInv'
  <2> SUFFICES ASSUME NEW d \in StgDevs PROVE ListOf(d, stgList[d])' /\ ListOf(d, stgTask[d].list)'
    BY DEF ListInv
  <2>1. stgTask'[d].list \in {stgList[d], <<>>}
    BY <1>1 DEF StgRest
  <2>2. ListOf(d, stgList[d])
    BY DEF StagingInv, ListInv
  <2> QED
    BY <1>1, <2>1, <2>2 DEF ListOf, StgDataKept
<1>4. TaskInv'
  <2> SUFFICES ASSUME NEW d \in StgDevs
               PROVE  /\ stgFlag'[d] => d \in Range(stgKids')
                      /\ stgTask'[d].op # "rest" => d \in Range(stgKids') /\ stgTask'[d].op = "read" /\ stgFlag'[d]
                      /\ stgTask'[d].op = "read" => stgTask'[d].i \in 1 .. Len(stgTask'[d].list) + 1
                      /\ \A k \in DOMAIN stgTask'[d].list : stgTask'[d].list[k] \in Range(stgList'[d])
    BY <1>1 DEF TaskInv, Applying
  <2>1. stgList[d] \in Seq(DOMAIN stgObj) /\ (stgFlag[d] => d \in Range(stgKids))
    BY StgTyped DEF StagingInv, TaskInv
  <2> QED
    BY <1>1, <2>1 DEF StgRest, StgDataKept, Range
<1>5. HeldInv'
  <2> SUFFICES ASSUME NEW d \in StgDevs, NEW o \in DOMAIN stgObj,
                      stgObj[o].sig \in Range(StgSignals[d]), Holds(o), ~Excused(stgObj[o].sig)
               PROVE  stgObj[o].orig = 0 /\ stgFlag'[d] /\ o \in Range(stgList[d]) /\ Reached(d, o)'
    BY <1>1 DEF HeldInv, StgDataKept, Holds, Excused
  <2>1. stgObj[o].orig = 0 /\ stgFlag[d] /\ o \in Range(stgList[d])
    BY DEF StagingInv, HeldInv
  <2>2. stgTask'[d] = StgRest /\ stgFlag'[d]
    BY <1>1, <2>1
  <2> QED
    BY <2>1, <2>2 DEF Reached, Applying, StgRest
<1>6. ValueInv' /\ ToldInv'
  BY <1>1, KidsOwned, ValuesKept DEF StagingInv, ToldInv
<1> QED
  BY <1>2, <1>3, <1>4, <1>5, <1>6 DEF StagingInv

LEMMA ParentUnstageKeeps == ASSUME StagingInv, ParentUnstage PROVE StagingInv'
<1>1. /\ StgDataKept /\ UNCHANGED <<stgKids, stgOffered, stgFlag>> /\ stgAsked' = "unstage"
      /\ \A d \in StgDevs : stgTask[d] = StgRest
      /\ \A d \in StgDevs :
           stgTask'[d] = IF d \in Range(stgKids)
                         THEN [op |-> "restore", i |-> Len(stgList[d]), list |-> stgList[d], got |-> NoOrig] ELSE StgRest
      /\ stgTask' = [d \in StgDevs |-> stgTask'[d]]
      /\ stgErrs' \in [StgDevs -> BOOLEAN]
  BY DEF ParentUnstage, StgDataKept, BeginUnstage, StgAtRest
<1>2. StagingTypes'
  <2>1. \A d \in StgDevs : stgTask'[d] \in StgTasks
    <3> SUFFICES ASSUME NEW d \in StgDevs PROVE stgTask'[d] \in StgTasks
      OBVIOUS
    <3>1. stgList[d] \in Seq(DOMAIN stgObj) /\ Len(stgList[d]) \in Nat
      BY StgTyped DEF StagingInv
    <3>2. [op |-> "restore", i |-> Len(stgList[d]), list |-> stgList[d], got |-> NoOrig] \in StgTasks
      BY <3>1 DEF StgTasks, Ops
    <3>3. StgRest \in StgTasks
      BY DEF StgRest, StgTasks, Ops
    <3> QED
      BY <1>1, <3>2, <3>3
  <2>2. stgTask' \in [StgDevs -> StgTasks]
    BY <1>1, <2>1
  <2> QED
    BY <1>1, <2>2 DEF StagingInv, StagingTypes, StgDataKept, StgTasks
<1>3. ListInv'
  <2> SUFFICES ASSUME NEW d \in StgDevs PROVE ListOf(d, stgList[d])' /\ ListOf(d, stgTask[d].list)'
    BY DEF ListInv
  <2>1. stgTask'[d].list \in {stgList[d], <<>>}
    BY <1>1 DEF StgRest
  <2>2. ListOf(d, stgList[d])
    BY DEF StagingInv, ListInv
  <2> QED
    BY <1>1, <2>1, <2>2 DEF ListOf, StgDataKept
<1>4. TaskInv'
  <2> SUFFICES ASSUME NEW d \in StgDevs
               PROVE  /\ stgFlag'[d] => d \in Range(stgKids')
                      /\ stgTask'[d].op # "rest" => d \in Range(stgKids') /\ stgTask'[d].op = "restore"
                      /\ stgTask'[d].op = "restore" => stgTask'[d].i \in 0 .. Len(stgTask'[d].list)
    BY <1>1 DEF TaskInv, Applying
  <2>1. stgList[d] \in Seq(DOMAIN stgObj) /\ (stgFlag[d] => d \in Range(stgKids))
    BY StgTyped DEF StagingInv, TaskInv
  <2> QED
    BY <1>1, <2>1 DEF StgRest
<1>5. HeldInv'
  <2> SUFFICES ASSUME NEW d \in StgDevs, NEW o \in DOMAIN stgObj,
                      stgObj[o].sig \in Range(StgSignals[d]), Holds(o), ~Excused(stgObj[o].sig)
               PROVE  stgObj[o].orig = 0 /\ stgFlag'[d] /\ o \in Range(stgList[d]) /\ Reached(d, o)'
    BY <1>1 DEF HeldInv, StgDataKept, Holds, Excused
  <2>1. stgObj[o].orig = 0 /\ stgFlag[d] /\ o \in Range(stgList[d])
    BY DEF StagingInv, HeldInv
  <2>2. d \in Range(stgKids) /\ stgList[d] \in Seq(DOMAIN stgObj)
    BY <2>1, StgTyped DEF StagingInv, TaskInv
  <2>3. PICK p \in DOMAIN stgList[d] : stgList[d][p] = o
    BY <2>1 DEF Range
  <2>4. p <= Len(stgList[d])
    BY <2>2
  <2> QED
    BY <1>1, <2>1, <2>2, <2>3, <2>4 DEF Reached, Applying
<1>6. ValueInv' /\ ToldInv'
  BY <1>1, ValuesKept DEF StagingInv, ToldInv
<1> QED
  BY <1>2, <1>3, <1>4, <1>5, <1>6 DEF StagingInv

-----------------------------------------------------------------------------
(* The steps of one child.                                                 *)

LEMMA SettingFacts ==
  ASSUME StagingInv, NEW d \in StgDevs, MoreSettings(d)
  PROVE  /\ SettingOf(d) \in DOMAIN stgObj /\ SigOf(d) = stgObj[SettingOf(d)].sig
         /\ SigOf(d) \in Range(StgSignals[d]) /\ SigOf(d) \in AllStgSignals
         /\ \A p \in DOMAIN stgTask[d].list : stgObj[stgTask[d].list[p]].sig = SigOf(d) => p = stgTask[d].i
         /\ \A e \in StgDevs : SigOf(d) \in Range(StgSignals[e]) => e = d
<1>1. ListOf(d, stgTask[d].list)
  BY DEF StagingInv, ListInv
<1> QED
  BY <1>1, StgTyped, StgOwned DEF MoreSettings, SettingOf, SigOf, ListOf, StagingInv

(* A step that leaves lists and signals of settings leaves ListInv.        *)
LEMMA ListsKept ==
  ASSUME StagingInv, NEW d \in StgDevs, UNCHANGED stgList, stgTask' \in [StgDevs -> StgTasks],
         DOMAIN stgObj' = DOMAIN stgObj, \A o \in DOMAIN stgObj : stgObj'[o].sig = stgObj[o].sig,
         \A e \in StgDevs \ {d} : stgTask'[e] = stgTask[e],
         stgTask'[d].list \in {stgTask[d].list, <<>>}
  PROVE  ListInv'
<1> SUFFICES ASSUME NEW e \in StgDevs PROVE ListOf(e, stgList[e])' /\ ListOf(e, stgTask[e].list)'
  BY DEF ListInv
<1>1. ListOf(e, stgList[e]) /\ ListOf(e, stgTask[e].list)
  BY DEF StagingInv, ListInv
<1>2. /\ \A k \in DOMAIN stgList[e] : stgList[e][k] \in DOMAIN stgObj
      /\ \A k \in DOMAIN stgTask[e].list : stgTask[e].list[k] \in DOMAIN stgObj
  BY StgTyped DEF StagingInv
<1>3. ListOf(e, stgList[e])'
  BY <1>1, <1>2 DEF ListOf
<1>4. ListOf(e, stgTask[e].list)'
  <2>1. stgTask'[e].list \in {stgTask[e].list, <<>>}
    OBVIOUS
  <2> QED
    BY <1>1, <1>2, <2>1 DEF ListOf
<1> QED
  BY <1>3, <1>4

LEMMA ApplyReadKeeps == ASSUME StagingInv, NEW d \in StgDevs, ApplyRead(d) PROVE StagingInv'
<1> DEFINE t == stgTask[d]
<1>1. /\ t \in StgTasks /\ t.op = "read" /\ MoreSettings(d)
      /\ t.i \in DOMAIN t.list /\ DOMAIN t.list = 1 .. Len(t.list) /\ Len(t.list) \in Nat
  BY StgTyped DEF ApplyRead, StagingInv, StgTasks, MoreSettings
<1>2. /\ StgDataKept /\ UNCHANGED <<stgFlag, stgKids, stgOffered, stgAsked>>
      /\ \/ stgTask' = [stgTask EXCEPT ![d] = TaskAt(d, "put", t.i, stgVal[SigOf(d)])] /\ UNCHANGED stgErrs
         \/ stgTask' = [stgTask EXCEPT ![d] = TaskAt(d, "rollback", t.i - 1, NoOrig)]
            /\ stgErrs' = [stgErrs EXCEPT ![d] = TRUE]
  BY DEF ApplyRead, StgDataKept, stgKept, OnApplyFailure, RollBack
<1>3. stgVal[SigOf(d)] = 0 \/ Excused(SigOf(d))
  <2> SUFFICES ASSUME ~Excused(SigOf(d)), stgVal[SigOf(d)] # 0 PROVE FALSE
    OBVIOUS
  <2>1. PICK o \in DOMAIN stgObj : stgObj[o].sig = SigOf(d) /\ Holds(o)
    BY <1>1, SettingFacts DEF StagingInv, ValueInv
  <2>2. Reached(d, o)
    BY <1>1, <2>1, SettingFacts DEF StagingInv, HeldInv
  <2>3. PICK p \in DOMAIN t.list : p < t.i /\ t.list[p] = o
    BY <1>1, <2>2 DEF Reached, Applying
  <2> QED
    BY <1>1, <2>1, <2>3, SettingFacts
<1>4. /\ stgTask \in [StgDevs -> StgTasks] /\ stgTask'[d] \in StgTasks /\ stgTask'[d].list = t.list
      /\ \/ stgTask'[d].op = "put" /\ stgTask'[d].i = t.i /\ stgTask'[d].got = stgVal[SigOf(d)] /\ stgErrs' = stgErrs
         \/ stgTask'[d].op = "rollback" /\ stgTask'[d].i = t.i - 1 /\ stgErrs'[d] /\ stgErrs' = [stgErrs EXCEPT ![d] = TRUE]
  <2>1. stgTask \in [StgDevs -> StgTasks] /\ stgErrs \in [StgDevs -> BOOLEAN]
    BY DEF StagingInv, StagingTypes, StgTasks
  <2>2. stgVal[SigOf(d)] \in Nat
    BY <1>1, SettingFacts DEF StagingInv, StagingTypes
  <2>3. t.i \in Nat /\ t.i - 1 \in Nat /\ t.list \in Seq(DOMAIN stgObj)
    BY <1>1 DEF StgTasks
  <2>4. CASE stgTask'[d] = TaskAt(d, "put", t.i, stgVal[SigOf(d)]) /\ UNCHANGED stgErrs
    BY <1>1, <2>1, <2>2, <2>3, <2>4 DEF StgTasks, Ops, TaskAt
  <2>5. CASE /\ stgTask'[d] = TaskAt(d, "rollback", t.i - 1, NoOrig)
             /\ stgErrs' = [stgErrs EXCEPT ![d] = TRUE]
    <3>1. stgErrs'[d]
      BY <2>1, <2>5
    <3> QED
      BY <1>1, <2>1, <2>3, <2>5, <3>1 DEF StgTasks, Ops, TaskAt
  <2> QED
    BY <1>2, <2>1, <2>4, <2>5
<1>5. stgTask' \in [StgDevs -> StgTasks] /\ \A e \in StgDevs \ {d} : stgTask'[e] = stgTask[e]
  BY <1>2, <1>4
<1>6. stgErrs' \in [StgDevs -> BOOLEAN] /\ \A e \in StgDevs : stgErrs[e] => stgErrs'[e]
  BY <1>2 DEF StagingInv, StagingTypes
<1> HIDE DEF t
<1>7. StagingTypes'
  BY <1>2, <1>5, <1>6 DEF StagingInv, StagingTypes, StgDataKept, StgTasks
<1>8. ListInv'
  BY <1>2, <1>4, <1>5, ListsKept DEF StgDataKept, t
<1>9. TaskInv'
  <2>1. \A e \in StgDevs \ {d} : SigOf(e)' = SigOf(e)
    BY <1>2, <1>5 DEF SigOf, SettingOf, StgDataKept
  <2>2. SigOf(d)' = SigOf(d) \/ stgTask'[d].op # "put"
    BY <1>2, <1>4 DEF SigOf, SettingOf, StgDataKept, t
  <2> QED
    BY SMTT(30), <1>1, <1>2, <1>3, <1>4, <1>5, <1>6, <2>1, <2>2 DEF StagingInv, TaskInv, Applying, Excused, StgDataKept, t
<1>10. HeldInv'
  <2>1. \A o \in DOMAIN stgObj : Reached(d, o) => Reached(d, o)'
    <3> SUFFICES ASSUME NEW o \in DOMAIN stgObj, Reached(d, o) PROVE Reached(d, o)'
      OBVIOUS
    <3>1. PICK p \in DOMAIN t.list : p < t.i /\ t.list[p] = o
      BY <1>1 DEF Reached, Applying, t
    <3>2. p <= t.i - 1
      BY <1>1, <3>1
    <3> QED
      BY <1>4, <3>1, <3>2 DEF Reached, Applying
  <2>2. \A e \in StgDevs \ {d} : \A o \in DOMAIN stgObj : Reached(e, o) => Reached(e, o)'
    BY <1>5 DEF Reached, Applying
  <2> QED
    BY <1>2, <2>1, <2>2 DEF StagingInv, HeldInv, Holds, Excused, StgDataKept
<1>11. ValueInv' /\ ToldInv'
  BY <1>2, <1>6, KidsOwned, ValuesKept DEF StagingInv, ToldInv
<1> QED
  BY <1>7, <1>8, <1>9, <1>10, <1>11 DEF StagingInv

(* What a step of child d leaves alone.                                    *)
ChildStep(d) ==
  /\ UNCHANGED <<stgList, stgKids, stgOffered, stgLost, stgAsked>>
  /\ stgTask' \in [StgDevs -> StgTasks] /\ \A e \in StgDevs \ {d} : stgTask'[e] = stgTask[e]
  /\ stgErrs' \in [StgDevs -> BOOLEAN] /\ \A e \in StgDevs : stgErrs[e] => stgErrs'[e]
  /\ stgFlag' \in [StgDevs -> BOOLEAN] /\ \A e \in StgDevs \ {d} : stgFlag'[e] = stgFlag[e]
  /\ stgObj' \in Seq(StgSettings) /\ DOMAIN stgObj' = DOMAIN stgObj
  /\ \A o \in DOMAIN stgObj : stgObj'[o].sig = stgObj[o].sig
  /\ stgVal' \in [AllStgSignals -> Nat]
  /\ stgDirty \subseteq stgDirty' /\ stgDirty' \subseteq AllStgSignals

LEMMA ChildTypes == ASSUME StagingInv, NEW d \in StgDevs, ChildStep(d) PROVE StagingTypes'
<1>1. stgTask' \in [StgDevs -> [op : Ops, i : Nat, list : Seq(DOMAIN stgObj'), got : Nat \cup {NoOrig}]]
  BY DEF ChildStep, StgTasks
<1>2. stgList' \in [StgDevs -> Seq(DOMAIN stgObj')]
  BY DEF ChildStep, StagingInv, StagingTypes
<1> QED
  BY <1>1, <1>2 DEF ChildStep, StagingInv, StagingTypes, StgSettings

(* The other children are not disturbed.                                   *)
LEMMA OthersTask ==
  ASSUME StagingInv, NEW d \in StgDevs, ChildStep(d), NEW e \in StgDevs \ {d}
  PROVE  /\ stgFlag'[e] => e \in Range(stgKids')
         /\ stgTask'[e].op # "rest" => e \in Range(stgKids')
         /\ stgTask'[e].op = "read" => stgTask'[e].i \in 1 .. Len(stgTask'[e].list) + 1
         /\ stgTask'[e].op = "put" => stgTask'[e].i \in 1 .. Len(stgTask'[e].list)
         /\ stgTask'[e].op \in {"rollback", "restore"} => stgTask'[e].i \in 0 .. Len(stgTask'[e].list)
         /\ Applying(e)' => stgFlag'[e] /\ stgAsked' = "stage"
         /\ Applying(e)' => \A k \in DOMAIN stgTask'[e].list :
               Excused(stgObj[stgTask[e].list[k]].sig)' \/ stgTask'[e].list[k] \in Range(stgList'[e])
         /\ stgTask'[e].op = "put" => stgTask'[e].got = 0 \/ Excused(SigOf(e))'
         /\ stgTask'[e].op = "rollback" => stgErrs'[e]
         /\ stgTask'[e].op = "restore" => stgAsked' = "unstage"
<1>1. stgTask'[e] = stgTask[e] /\ stgFlag'[e] = stgFlag[e] /\ stgKids' = stgKids /\ stgAsked' = stgAsked
      /\ stgList' = stgList /\ (stgErrs[e] => stgErrs'[e])
  BY DEF ChildStep
<1>2. \A s : Excused(s) => Excused(s)'
  BY DEF ChildStep, Excused
<1>3. \A k \in DOMAIN stgTask[e].list : stgObj'[stgTask[e].list[k]].sig = stgObj[stgTask[e].list[k]].sig
  BY StgTyped DEF StagingInv, ChildStep
<1>4. stgTask[e].op = "put" => stgTask[e].i \in DOMAIN stgTask[e].list
  BY StgTyped DEF StagingInv, TaskInv, StgTasks
<1>5. stgTask[e].op = "put" => SigOf(e)' = SigOf(e)
  BY <1>1, <1>3, <1>4 DEF SigOf, SettingOf
<1> QED
  BY <1>1, <1>2, <1>3, <1>5 DEF StagingInv, TaskInv, Applying

LEMMA OthersReached ==
  ASSUME StagingInv, NEW d \in StgDevs, ChildStep(d), NEW e \in StgDevs \ {d}, NEW o, Reached(e, o)
  PROVE  Reached(e, o)'
BY DEF ChildStep, Reached, Applying

(* A step of d keeps the held originals if it keeps its own.               *)
LEMMA HeldKept ==
  ASSUME StagingInv, NEW d \in StgDevs, ChildStep(d),
         \A o \in DOMAIN stgObj : stgObj[o].sig \notin Range(StgSignals[d]) => stgObj'[o] = stgObj[o],
         \A o \in DOMAIN stgObj :
           stgObj[o].sig \in Range(StgSignals[d]) /\ Holds(o)' /\ ~Excused(stgObj[o].sig)'
             => stgObj'[o].orig = 0 /\ stgFlag'[d] /\ o \in Range(stgList[d]) /\ Reached(d, o)'
  PROVE  HeldInv'
<1> SUFFICES ASSUME NEW e \in StgDevs, NEW o \in DOMAIN stgObj,
                    stgObj[o].sig \in Range(StgSignals[e]), Holds(o)', ~Excused(stgObj[o].sig)'
             PROVE  stgObj'[o].orig = 0 /\ stgFlag'[e] /\ o \in Range(stgList[e]) /\ Reached(e, o)'
  BY DEF HeldInv, ChildStep
<1>1. CASE e = d
  BY <1>1
<1>2. CASE e # d
  <2>1. stgObj[o].sig \notin Range(StgSignals[d])
    BY <1>2, StgOwned
  <2>2. stgObj'[o] = stgObj[o] /\ Holds(o) /\ ~Excused(stgObj[o].sig)
    BY <2>1 DEF Holds, Excused, ChildStep
  <2>3. stgObj[o].orig = 0 /\ stgFlag[e] /\ o \in Range(stgList[e]) /\ Reached(e, o)
    BY <2>2 DEF StagingInv, HeldInv
  <2>4. Reached(e, o)'
    BY <1>2, <2>3, OthersReached
  <2> QED
    BY <1>2, <2>2, <2>3, <2>4 DEF ChildStep
<1> QED
  BY <1>1, <1>2

LEMMA OrigSet ==
  ASSUME stgObj \in Seq(StgSettings), NEW o \in DOMAIN stgObj, NEW v \in Nat \cup {NoOrig},
         stgObj' = [stgObj EXCEPT ![o].orig = v]
  PROVE  /\ stgObj' \in Seq(StgSettings) /\ DOMAIN stgObj' = DOMAIN stgObj
         /\ stgObj'[o].orig = v
         /\ \A q \in DOMAIN stgObj : stgObj'[q].sig = stgObj[q].sig /\ (q # o => stgObj'[q] = stgObj[q])
<1> DEFINE n == [stgObj[o] EXCEPT !.orig = v]
<1>1. stgObj[o] \in StgSettings
  OBVIOUS
<1>2. n \in StgSettings /\ n.sig = stgObj[o].sig /\ n.orig = v
  BY <1>1 DEF StgSettings
<1>3. stgObj' = [stgObj EXCEPT ![o] = n]
  OBVIOUS
<1> HIDE DEF n
<1> QED
  BY <1>2, <1>3

LEMMA ApplyPutKeeps == ASSUME StagingInv, NEW d \in StgDevs, ApplyPut(d) PROVE StagingInv'
<1> DEFINE t == stgTask[d]
           o == SettingOf(d)
<1>1. t \in StgTasks /\ t.op = "put" /\ t.i \in 1 .. Len(t.list) /\ (t.got = 0 \/ Excused(SigOf(d)))
  BY StgTyped DEF ApplyPut, StagingInv, TaskInv
<1>2. MoreSettings(d) /\ t.i \in DOMAIN t.list /\ DOMAIN t.list = 1 .. Len(t.list) /\ Len(t.list) \in Nat
      /\ t.i \in Nat /\ t.list \in Seq(DOMAIN stgObj) /\ t.got \in Nat \cup {NoOrig}
  BY <1>1 DEF MoreSettings, StgTasks
<1>3. /\ o \in DOMAIN stgObj /\ SigOf(d) = stgObj[o].sig /\ SigOf(d) \in AllStgSignals
      /\ SigOf(d) \in Range(StgSignals[d]) /\ o = t.list[t.i] /\ stgObj[o] \in StgSettings
      /\ \A p \in DOMAIN t.list : stgObj[t.list[p]].sig = SigOf(d) => p = t.i
  BY <1>2, SettingFacts, StgTyped DEF SettingOf, StagingInv
<1>4. /\ UNCHANGED <<stgFlag, stgList, stgKids, stgOffered, stgLost, stgAsked>>
      /\ \/ /\ stgVal' = [stgVal EXCEPT ![SigOf(d)] = stgObj[o].want]
            /\ stgObj' = [stgObj EXCEPT ![o].orig = t.got]
            /\ stgTask' = [stgTask EXCEPT ![d] = TaskAt(d, "read", t.i + 1, NoOrig)]
            /\ UNCHANGED <<stgDirty, stgErrs>>
         \/ /\ stgErrs' = [stgErrs EXCEPT ![d] = TRUE] /\ stgDirty' = stgDirty \cup {SigOf(d)}
            /\ stgVal' \in {stgVal, [stgVal EXCEPT ![SigOf(d)] = stgObj[o].want]}
            /\ stgTask' = [stgTask EXCEPT ![d] = TaskAt(d, "rollback", t.i - 1, NoOrig)]
            /\ UNCHANGED stgObj
  BY <1>1 DEF ApplyPut, stgKept, OnApplyFailure, RollBack
<1>5. /\ stgTask \in [StgDevs -> StgTasks] /\ stgErrs \in [StgDevs -> BOOLEAN] /\ stgFlag \in [StgDevs -> BOOLEAN]
      /\ stgVal \in [AllStgSignals -> Nat] /\ stgObj \in Seq(StgSettings)
      /\ stgDirty \subseteq AllStgSignals /\ stgFlag[d] /\ stgAsked = "stage" /\ d \in Range(stgKids)
      /\ \A k \in DOMAIN t.list : Excused(stgObj[t.list[k]].sig) \/ t.list[k] \in Range(stgList[d])
  BY <1>1 DEF StagingInv, StagingTypes, StgTasks, StgSettings, TaskInv, Applying
<1> HIDE DEF t, o
<1>6. /\ stgObj' \in Seq(StgSettings) /\ DOMAIN stgObj' = DOMAIN stgObj
      /\ \A q \in DOMAIN stgObj : stgObj'[q].sig = stgObj[q].sig /\ (q # o => stgObj'[q] = stgObj[q])
      /\ stgVal' \in [AllStgSignals -> Nat] /\ \A s \in AllStgSignals : s # SigOf(d) => stgVal'[s] = stgVal[s]
  <2>1. stgObj' \in {stgObj, [stgObj EXCEPT ![o].orig = t.got]}
    BY <1>4
  <2>2. stgVal' \in {stgVal, [stgVal EXCEPT ![SigOf(d)] = stgObj[o].want]} /\ stgObj[o].want \in Nat
    BY <1>3, <1>4 DEF StgSettings
  <2>3. stgVal' \in [AllStgSignals -> Nat] /\ \A s \in AllStgSignals : s # SigOf(d) => stgVal'[s] = stgVal[s]
    BY <1>5, <2>2
  <2>4. /\ stgObj' \in Seq(StgSettings) /\ DOMAIN stgObj' = DOMAIN stgObj
        /\ \A q \in DOMAIN stgObj : stgObj'[q].sig = stgObj[q].sig /\ (q # o => stgObj'[q] = stgObj[q])
    <3>1. CASE stgObj' = stgObj
      BY <1>5, <3>1
    <3>2. CASE stgObj' = [stgObj EXCEPT ![o].orig = t.got]
      BY <1>2, <1>3, <1>5, <3>2, OrigSet
    <3> QED
      BY <2>1, <3>1, <3>2
  <2> QED
    BY <2>3, <2>4
<1>7. /\ stgTask'[d].list = t.list /\ stgTask'[d] \in StgTasks
      /\ \/ /\ stgTask'[d].op = "read" /\ stgTask'[d].i = t.i + 1 /\ stgObj'[o].orig = t.got
            /\ UNCHANGED <<stgDirty, stgErrs>>
         \/ /\ stgTask'[d].op = "rollback" /\ stgTask'[d].i = t.i - 1 /\ stgErrs'[d] /\ SigOf(d) \in stgDirty'
            /\ stgErrs' = [stgErrs EXCEPT ![d] = TRUE] /\ stgDirty' = stgDirty \cup {SigOf(d)} /\ stgObj' = stgObj
  <2>1. CASE /\ stgTask'[d] = TaskAt(d, "read", t.i + 1, NoOrig)
             /\ stgObj' = [stgObj EXCEPT ![o].orig = t.got]
             /\ UNCHANGED <<stgDirty, stgErrs>>
    <3>1. stgTask'[d] \in StgTasks /\ stgTask'[d].list = t.list /\ stgTask'[d].op = "read" /\ stgTask'[d].i = t.i + 1
      BY <1>1, <1>2, <2>1 DEF StgTasks, Ops, TaskAt, t
    <3>2. stgObj'[o].orig = t.got
      <4>1. stgObj \in Seq(StgSettings) /\ o \in DOMAIN stgObj /\ t.got \in Nat \cup {NoOrig}
        BY <1>2, <1>3, <1>5
      <4>2. stgObj' = [stgObj EXCEPT ![o].orig = t.got]
        BY <2>1
      <4> QED
        BY <4>1, <4>2, OrigSet
    <3> QED
      BY <2>1, <3>1, <3>2
  <2>2. CASE /\ stgTask'[d] = TaskAt(d, "rollback", t.i - 1, NoOrig)
             /\ stgErrs' = [stgErrs EXCEPT ![d] = TRUE] /\ stgDirty' = stgDirty \cup {SigOf(d)} /\ stgObj' = stgObj
    <3>1. stgTask'[d] \in StgTasks /\ stgTask'[d].list = t.list /\ stgTask'[d].op = "rollback" /\ stgTask'[d].i = t.i - 1
      BY <1>1, <1>2, <2>2 DEF StgTasks, Ops, TaskAt, t
    <3>2. stgErrs'[d] /\ SigOf(d) \in stgDirty'
      BY <1>5, <2>2
    <3> QED
      BY <2>2, <3>1, <3>2
  <2> QED
    BY <1>4, <1>5, <2>1, <2>2
<1>8. ChildStep(d)
  <2>1. stgTask' \in [StgDevs -> StgTasks] /\ \A e \in StgDevs \ {d} : stgTask'[e] = stgTask[e]
    BY <1>4, <1>5, <1>7
  <2>2. stgErrs' \in [StgDevs -> BOOLEAN] /\ \A e \in StgDevs : stgErrs[e] => stgErrs'[e]
    BY <1>5, <1>7
  <2>3. stgDirty \subseteq stgDirty' /\ stgDirty' \subseteq AllStgSignals
    BY <1>3, <1>5, <1>7
  <2> QED
    BY <1>4, <1>5, <1>6, <2>1, <2>2, <2>3 DEF ChildStep
<1>9. ListInv'
  BY <1>4, <1>6, <1>7, <1>8, ListsKept DEF ChildStep, t
<1>10. TaskInv'
  <2>1. Applying(d)' => \A k \in DOMAIN stgTask'[d].list :
          Excused(stgObj[stgTask[d].list[k]].sig)' \/ stgTask'[d].list[k] \in Range(stgList'[d])
    <3> SUFFICES ASSUME NEW k \in DOMAIN t.list
                 PROVE  stgObj'[t.list[k]].sig \in stgDirty' \cup stgLost' \/ t.list[k] \in Range(stgList[d])
      BY <1>4, <1>7 DEF t, Excused
    <3>1. t.list[k] \in DOMAIN stgObj
      BY StgTyped DEF StagingInv, t
    <3>2. stgObj'[t.list[k]].sig = stgObj[t.list[k]].sig /\ stgDirty \subseteq stgDirty' /\ stgLost' = stgLost
      BY <1>6, <1>8, <3>1 DEF ChildStep
    <3> QED
      BY <1>5, <3>2 DEF Excused
  <2>2. stgTask'[d].i \in 0 .. Len(t.list) + 1 /\ (stgTask'[d].op = "read" => stgTask'[d].i \in 1 .. Len(t.list) + 1)
        /\ (stgTask'[d].op # "read" => stgTask'[d].op = "rollback" /\ stgTask'[d].i \in 0 .. Len(t.list) /\ stgErrs'[d])
    BY <1>1, <1>2, <1>7
  <2>3. stgList' = stgList /\ stgKids' = stgKids /\ stgFlag'[d] /\ stgAsked' = "stage" /\ d \in Range(stgKids)
    BY <1>4, <1>5
  <2> QED
    BY <1>7, <1>8, <2>1, <2>2, <2>3, OthersTask DEF TaskInv, Applying
<1>11. HeldInv'
  <2>1. ASSUME NEW q \in DOMAIN stgObj, stgObj[q].sig \in Range(StgSignals[d]), Holds(q)', ~Excused(stgObj[q].sig)'
        PROVE  stgObj'[q].orig = 0 /\ stgFlag'[d] /\ q \in Range(stgList[d]) /\ Reached(d, q)'
    <3>0. ~Excused(stgObj[q].sig)
      BY <1>8, <2>1, <1>6 DEF ChildStep, Excused
    <3>1. CASE q = o /\ stgTask'[d].op = "read"
      <4>1. stgObj'[q].orig = 0
        BY <1>1, <1>3, <1>7, <3>0, <3>1
      <4>2. q \in Range(stgList[d])
        BY <1>2, <1>3, <1>5, <3>0, <3>1
      <4>3. t.i \in DOMAIN stgTask'[d].list /\ t.i < stgTask'[d].i /\ stgTask'[d].list[t.i] = q
        BY <1>2, <1>3, <1>7, <3>1
      <4>4. Reached(d, q)'
        BY <3>1, <4>3 DEF Reached, Applying
      <4> QED
        BY <1>4, <1>5, <4>1, <4>2, <4>4
    <3>2. CASE q # o
      <4>1. stgObj'[q] = stgObj[q] /\ Holds(q)
        BY <1>6, <2>1, <3>2 DEF Holds
      <4>2. stgObj[q].orig = 0 /\ stgFlag[d] /\ q \in Range(stgList[d]) /\ Reached(d, q)
        BY <2>1, <3>0, <4>1 DEF StagingInv, HeldInv
      <4>3. PICK p \in DOMAIN t.list : p < t.i /\ t.list[p] = q
        BY <1>1, <4>2 DEF Reached, Applying, t
      <4>4. p < t.i + 1 /\ p <= t.i - 1
        BY <1>2, <4>3
      <4>5. Reached(d, q)'
        BY <1>7, <4>3, <4>4 DEF Reached, Applying
      <4> QED
        BY <1>4, <4>1, <4>2, <4>5
    <3>3. CASE q = o /\ stgTask'[d].op # "read"
      <4>1. Excused(stgObj[q].sig)'
        BY <1>3, <1>7, <1>6, <3>3 DEF Excused
      <4> QED
        BY <2>1, <4>1
    <3> QED
      BY <3>1, <3>2, <3>3
  <2>2. \A q \in DOMAIN stgObj : stgObj[q].sig \notin Range(StgSignals[d]) => stgObj'[q] = stgObj[q]
    BY <1>3, <1>6
  <2> QED
    BY <1>8, <2>1, <2>2, HeldKept
<1>12. ValueInv'
  <2> SUFFICES ASSUME NEW s \in AllStgSignals, ~Excused(s)', stgVal'[s] # 0
               PROVE  \E q \in DOMAIN stgObj' : stgObj'[q].sig = s /\ Holds(q)'
    BY DEF ValueInv
  <2>0. ~Excused(s)
    BY <1>8 DEF ChildStep, Excused
  <2>1. CASE s = SigOf(d)
    <3>1. stgTask'[d].op = "read" /\ stgObj'[o].orig = t.got /\ t.got = 0
      BY <1>1, <1>7, <2>0, <2>1 DEF Excused
    <3> QED
      BY <1>3, <1>6, <2>1, <3>1 DEF Holds, NoOrig
  <2>2. CASE s # SigOf(d)
    <3>1. PICK q \in DOMAIN stgObj : stgObj[q].sig = s /\ Holds(q)
      BY <1>6, <2>0, <2>2 DEF StagingInv, ValueInv
    <3>2. q # o
      BY <1>3, <2>2, <3>1
    <3> QED
      BY <1>6, <3>1, <3>2 DEF Holds
  <2> QED
    BY <2>1, <2>2
<1>13. ToldInv'
  BY <1>4, <1>8, KidsOwned DEF StagingInv, ToldInv, ChildStep
<1> QED
  BY <1>8, <1>9, <1>10, <1>11, <1>12, <1>13, ChildTypes DEF StagingInv

(* The end of a stage, of a rollback or of an unstage.                     *)
LEMMA StageDoneKeeps == ASSUME StagingInv, NEW d \in StgDevs, StageDone(d) PROVE StagingInv'
<1>1. /\ stgTask[d].op = "read" /\ stgTask' = [stgTask EXCEPT ![d] = StgRest]
      /\ StgDataKept /\ UNCHANGED <<stgFlag, stgKids, stgOffered, stgAsked, stgErrs>>
  BY DEF StageDone, stgKept, StgDataKept
<1>2. /\ stgTask \in [StgDevs -> StgTasks] /\ stgErrs \in [StgDevs -> BOOLEAN] /\ stgFlag \in [StgDevs -> BOOLEAN]
      /\ stgVal \in [AllStgSignals -> Nat] /\ stgObj \in Seq(StgSettings) /\ stgDirty \subseteq AllStgSignals
      /\ (stgFlag[d] => d \in Range(stgKids))
  BY DEF StagingInv, StagingTypes, StgTasks, StgSettings, TaskInv
<1>3. StgRest \in StgTasks /\ StgRest.op = "rest" /\ StgRest.list = <<>>
  BY DEF StgRest, StgTasks, Ops
<1>4. stgTask' \in [StgDevs -> StgTasks] /\ stgTask'[d] = StgRest /\ \A e \in StgDevs \ {d} : stgTask'[e] = stgTask[e]
  BY <1>1, <1>2, <1>3
<1>5. ChildStep(d)
  BY <1>1, <1>2, <1>4 DEF ChildStep, StgDataKept
<1>6. ListInv'
  BY <1>1, <1>3, <1>4, ListsKept DEF StgDataKept
<1>7. TaskInv'
  BY <1>1, <1>2, <1>3, <1>4, <1>5, OthersTask DEF TaskInv, Applying
<1>8. HeldInv'
  <2>1. \A o : Reached(d, o)'
    BY <1>3, <1>4 DEF Reached, Applying
  <2> QED
    BY <1>1, <1>5, <2>1, HeldKept DEF StgDataKept, Holds, Excused, StagingInv, HeldInv
<1>9. ValueInv' /\ ToldInv'
  BY <1>1, ValuesKept DEF StagingInv, ToldInv
<1> QED
  BY <1>5, <1>6, <1>7, <1>8, <1>9, ChildTypes DEF StagingInv

LEMMA RestoreDoneKeeps == ASSUME StagingInv, NEW d \in StgDevs, RestoreDone(d) PROVE StagingInv'
<1>1. /\ stgTask[d].op \in {"rollback", "restore"} /\ ~MoreSettings(d)
      /\ stgTask' = [stgTask EXCEPT ![d] = StgRest] /\ stgFlag' = [stgFlag EXCEPT ![d] = FALSE]
      /\ StgDataKept /\ UNCHANGED <<stgKids, stgOffered, stgAsked, stgErrs>>
  BY DEF RestoreDone, stgKept, StgDataKept
<1>2. /\ stgTask \in [StgDevs -> StgTasks] /\ stgErrs \in [StgDevs -> BOOLEAN] /\ stgFlag \in [StgDevs -> BOOLEAN]
      /\ stgVal \in [AllStgSignals -> Nat] /\ stgObj \in Seq(StgSettings) /\ stgDirty \subseteq AllStgSignals
  BY DEF StagingInv, StagingTypes, StgTasks, StgSettings
<1>3. StgRest \in StgTasks /\ StgRest.op = "rest" /\ StgRest.list = <<>>
  BY DEF StgRest, StgTasks, Ops
<1>4. /\ stgTask' \in [StgDevs -> StgTasks] /\ stgTask'[d] = StgRest
      /\ \A e \in StgDevs \ {d} : stgTask'[e] = stgTask[e]
      /\ stgFlag' \in [StgDevs -> BOOLEAN] /\ stgFlag'[d] = FALSE
      /\ \A e \in StgDevs \ {d} : stgFlag'[e] = stgFlag[e]
  BY <1>1, <1>2, <1>3
<1>5. ChildStep(d)
  BY <1>1, <1>2, <1>4 DEF ChildStep, StgDataKept
<1>6. ListInv'
  BY <1>1, <1>3, <1>4, ListsKept DEF StgDataKept
<1>7. TaskInv'
  BY <1>3, <1>4, <1>5, OthersTask DEF TaskInv, Applying
<1>8. \A o : ~Reached(d, o)
  <2>1. stgTask[d].list \in Seq(DOMAIN stgObj) /\ stgTask[d].i \in 0 .. Len(stgTask[d].list)
    BY <1>1, StgTyped DEF StagingInv, StgTasks, TaskInv
  <2>2. stgTask[d].i = 0
    BY <1>1, <2>1 DEF MoreSettings
  <2> QED
    BY <1>1, <2>1, <2>2 DEF Reached
<1>9. HeldInv'
  BY <1>1, <1>5, <1>8, HeldKept DEF StgDataKept, Holds, Excused, StagingInv, HeldInv
<1>10. ValueInv'
  BY <1>1, ValuesKept DEF StagingInv
<1>11. ToldInv'
  BY <1>1, <1>4, KidsOwned DEF StagingInv, ToldInv, TaskInv
<1> QED
  BY <1>5, <1>6, <1>7, <1>9, <1>10, <1>11, ChildTypes DEF StagingInv

LEMMA RestoreKeeps == ASSUME StagingInv, NEW d \in StgDevs, Restore(d) PROVE StagingInv'
<1> DEFINE t == stgTask[d]
           o == SettingOf(d)
           v == stgObj[o].orig
<1>1. t \in StgTasks /\ t.op \in {"rollback", "restore"} /\ MoreSettings(d) /\ t.i \in 0 .. Len(t.list)
  BY StgTyped DEF Restore, StagingInv, TaskInv
<1>2. t.i \in DOMAIN t.list /\ DOMAIN t.list = 1 .. Len(t.list) /\ Len(t.list) \in Nat
      /\ t.i \in Nat /\ t.i - 1 \in Nat /\ t.list \in Seq(DOMAIN stgObj)
  BY <1>1 DEF MoreSettings, StgTasks
<1>3. /\ o \in DOMAIN stgObj /\ SigOf(d) = stgObj[o].sig /\ SigOf(d) \in AllStgSignals
      /\ SigOf(d) \in Range(StgSignals[d]) /\ o = t.list[t.i] /\ stgObj[o] \in StgSettings
      /\ \A e \in StgDevs : SigOf(d) \in Range(StgSignals[e]) => e = d
  BY <1>1, SettingFacts, StgTyped DEF SettingOf, StagingInv
<1>4. /\ UNCHANGED <<stgFlag, stgList, stgKids, stgOffered, stgLost, stgAsked>>
      /\ stgObj' = [stgObj EXCEPT ![o].orig = NoOrig]
      /\ stgTask' = [stgTask EXCEPT ![d] = TaskAt(d, t.op, t.i - 1, NoOrig)]
      /\ \/ /\ stgVal' = IF v = NoOrig THEN stgVal ELSE [stgVal EXCEPT ![SigOf(d)] = v]
            /\ UNCHANGED <<stgDirty, stgErrs>>
         \/ /\ v # NoOrig /\ stgErrs' = [stgErrs EXCEPT ![d] = TRUE] /\ stgDirty' = stgDirty \cup {SigOf(d)}
            /\ stgVal' \in {stgVal, [stgVal EXCEPT ![SigOf(d)] = v]}
  BY <1>1 DEF Restore, stgKept
<1>5. /\ stgTask \in [StgDevs -> StgTasks] /\ stgErrs \in [StgDevs -> BOOLEAN] /\ stgFlag \in [StgDevs -> BOOLEAN]
      /\ stgVal \in [AllStgSignals -> Nat] /\ stgObj \in Seq(StgSettings) /\ v \in Nat \cup {NoOrig}
      /\ stgDirty \subseteq AllStgSignals /\ d \in Range(stgKids)
      /\ (t.op = "rollback" => stgErrs[d]) /\ (t.op = "restore" => stgAsked = "unstage")
  BY <1>1, <1>3 DEF StagingInv, StagingTypes, StgTasks, StgSettings, TaskInv
<1> HIDE DEF t, o, v
<1>6. /\ stgObj' \in Seq(StgSettings) /\ DOMAIN stgObj' = DOMAIN stgObj /\ stgObj'[o].orig = NoOrig
      /\ \A q \in DOMAIN stgObj : stgObj'[q].sig = stgObj[q].sig /\ (q # o => stgObj'[q] = stgObj[q])
  <2>1. stgObj' = [stgObj EXCEPT ![o].orig = NoOrig] /\ NoOrig \in Nat \cup {NoOrig}
    BY <1>4
  <2>2. stgObj \in Seq(StgSettings) /\ o \in DOMAIN stgObj
    BY <1>3, <1>5
  <2> QED
    BY <2>1, <2>2, OrigSet
<1>7. stgTask'[d] \in StgTasks /\ stgTask'[d].list = t.list /\ stgTask'[d].op = t.op /\ stgTask'[d].i = t.i - 1
  <2>1. stgTask'[d] = TaskAt(d, t.op, t.i - 1, NoOrig)
    BY <1>4, <1>5
  <2>2. t.op \in Ops /\ t.list = stgTask[d].list
    BY <1>1 DEF t, StgTasks
  <2> QED
    BY <1>2, <2>1, <2>2 DEF StgTasks, TaskAt
<1>8. /\ stgVal' \in [AllStgSignals -> Nat] /\ \A s \in AllStgSignals : s # SigOf(d) => stgVal'[s] = stgVal[s]
      /\ stgDirty \subseteq stgDirty' /\ stgDirty' \subseteq AllStgSignals
      /\ stgErrs' \in [StgDevs -> BOOLEAN] /\ \A e \in StgDevs : stgErrs[e] => stgErrs'[e]
      /\ (v = NoOrig /\ stgVal' = stgVal) \/ (stgVal'[SigOf(d)] = v /\ v # NoOrig) \/ SigOf(d) \in stgDirty'
  <2>1. v # NoOrig => v \in Nat
    BY <1>5
  <2>2. CASE v = NoOrig /\ stgVal' = stgVal /\ UNCHANGED <<stgDirty, stgErrs>>
    <3>1. stgVal' = stgVal /\ stgDirty' = stgDirty /\ stgErrs' = stgErrs
      BY <2>2
    <3> QED
      BY <1>5, <2>2, <3>1
  <2>3. CASE v # NoOrig /\ stgVal' = [stgVal EXCEPT ![SigOf(d)] = v] /\ UNCHANGED <<stgDirty, stgErrs>>
    BY <1>3, <1>5, <2>1, <2>3
  <2>4. CASE /\ v # NoOrig /\ stgErrs' = [stgErrs EXCEPT ![d] = TRUE] /\ stgDirty' = stgDirty \cup {SigOf(d)}
             /\ stgVal' \in {stgVal, [stgVal EXCEPT ![SigOf(d)] = v]}
    <3>1. SigOf(d) \in stgDirty' /\ stgDirty' \subseteq AllStgSignals
      BY <1>3, <1>5, <2>4
    <3> QED
      BY <1>3, <1>5, <2>1, <2>4, <3>1
  <2> QED
    BY <1>4, <2>2, <2>3, <2>4

<1>9. ChildStep(d)
  <2>1. stgTask' \in [StgDevs -> StgTasks] /\ \A e \in StgDevs \ {d} : stgTask'[e] = stgTask[e]
    BY <1>4, <1>5, <1>7
  <2> QED
    BY <1>4, <1>5, <1>6, <1>8, <2>1 DEF ChildStep
<1>10. ListInv'
  BY <1>4, <1>6, <1>7, <1>9, ListsKept DEF ChildStep, t
<1>11. TaskInv'
  <2>1. stgTask'[d].op \in {"rollback", "restore"} /\ stgTask'[d].i \in 0 .. Len(stgTask'[d].list)
    BY <1>1, <1>2, <1>7
  <2>2. /\ stgKids' = stgKids /\ d \in Range(stgKids')
        /\ stgTask'[d].op = "rollback" => stgErrs'[d]
        /\ stgTask'[d].op = "restore" => stgAsked' = "unstage"
    BY <1>4, <1>5, <1>7, <1>8
  <2> QED
    BY <1>9, <2>1, <2>2, OthersTask DEF TaskInv, Applying
<1>12. \A q \in DOMAIN stgObj : Reached(d, q) /\ q # o => Reached(d, q)'
  <2> SUFFICES ASSUME NEW q \in DOMAIN stgObj, Reached(d, q), q # o PROVE Reached(d, q)'
    OBVIOUS
  <2>1. PICK p \in DOMAIN t.list : p <= t.i /\ t.list[p] = q
    BY <1>1 DEF Reached, t
  <2>2. p # t.i
    BY <1>3, <2>1
  <2>3. p <= t.i - 1
    BY <1>2, <2>1, <2>2
  <2> QED
    BY <1>1, <1>7, <2>1, <2>3 DEF Reached, Applying
<1>13. HeldInv'
  <2>1. ASSUME NEW q \in DOMAIN stgObj, stgObj[q].sig \in Range(StgSignals[d]), Holds(q)', ~Excused(stgObj[q].sig)'
        PROVE  stgObj'[q].orig = 0 /\ stgFlag'[d] /\ q \in Range(stgList[d]) /\ Reached(d, q)'
    <3>1. q # o /\ stgObj'[q] = stgObj[q] /\ Holds(q) /\ ~Excused(stgObj[q].sig)
      BY <1>6, <1>9, <2>1 DEF Holds, Excused, ChildStep
    <3>2. stgObj[q].orig = 0 /\ stgFlag[d] /\ q \in Range(stgList[d]) /\ Reached(d, q)
      BY <2>1, <3>1 DEF StagingInv, HeldInv
    <3> QED
      BY <1>4, <1>12, <3>1, <3>2
  <2>2. \A q \in DOMAIN stgObj : stgObj[q].sig \notin Range(StgSignals[d]) => stgObj'[q] = stgObj[q]
    BY <1>3, <1>6
  <2> QED
    BY <1>9, <2>1, <2>2, HeldKept
<1>14. ValueInv'
  <2> SUFFICES ASSUME NEW s \in AllStgSignals, ~Excused(s)', stgVal'[s] # 0
               PROVE  \E q \in DOMAIN stgObj' : stgObj'[q].sig = s /\ Holds(q)'
    BY DEF ValueInv
  <2>0. ~Excused(s) /\ s \notin stgDirty'
    BY <1>9 DEF ChildStep, Excused
  <2>1. v = 0 \/ v = NoOrig \/ s # SigOf(d)
    BY <1>3, <2>0 DEF StagingInv, HeldInv, Holds, v
  <2>2. stgVal[s] # 0
    BY <1>8, <2>0, <2>1
  <2>3. PICK q \in DOMAIN stgObj : stgObj[q].sig = s /\ Holds(q)
    BY <2>0, <2>2 DEF StagingInv, ValueInv
  <2>4. q # o
    <3>1. CASE s # SigOf(d)
      BY <1>3, <2>3, <3>1
    <3>2. CASE s = SigOf(d)
      <4>1. v = NoOrig
        BY <1>8, <2>0, <2>1, <3>2
      <4> QED
        BY <2>3, <4>1 DEF Holds, v
    <3> QED
      BY <3>1, <3>2
  <2> QED
    BY <1>6, <2>3, <2>4 DEF Holds
<1>15. ToldInv'
  BY <1>4, <1>8, KidsOwned DEF StagingInv, ToldInv
<1> QED
  BY <1>9, <1>10, <1>11, <1>13, <1>14, <1>15, ChildTypes DEF StagingInv

-----------------------------------------------------------------------------
(* Settings made and cleared.                                              *)

LEMMA StgClearKeeps == ASSUME StagingInv, NEW d \in StgDevs, StgClear(d) PROVE StagingInv'
<1> DEFINE gone == {stgObj[o].sig : o \in Range(stgList[d])}
<1>1. /\ stgList' = [stgList EXCEPT ![d] = <<>>] /\ stgLost' = stgLost \cup LostOf(d, gone)
      /\ UNCHANGED <<stgVal, stgObj, stgFlag, stgTask, stgKids, stgOffered, stgDirty, stgAsked, stgErrs>>
  BY DEF StgClear
<1>2. stgList \in [StgDevs -> Seq(DOMAIN stgObj)]
  BY DEF StagingInv, StagingTypes
<1>3. stgList'[d] = <<>> /\ \A e \in StgDevs \ {d} : stgList'[e] = stgList[e]
  BY <1>1, <1>2
<1>4. gone \subseteq AllStgSignals /\ (stgFlag[d] => gone \subseteq stgLost') /\ stgLost \subseteq stgLost'
  BY <1>1, StgTyped DEF StagingInv, StgSettings, LostOf, Range
<1> HIDE DEF gone
<1>5. StagingTypes'
  <2>1. stgLost' \subseteq AllStgSignals
    BY <1>1, <1>4 DEF LostOf, StagingInv, StagingTypes
  <2>2. stgList' \in [StgDevs -> Seq(DOMAIN stgObj)]
    BY <1>1, <1>2
  <2> QED
    BY <1>1, <2>1, <2>2 DEF StagingInv, StagingTypes
<1>6. ListInv'
  BY <1>1, <1>3 DEF StagingInv, ListInv, ListOf
<1>7. \A s : Excused(s) => s \in stgDirty' \cup stgLost'
  BY <1>1, <1>4 DEF Excused
<1>8. \A o \in Range(stgList[d]) : stgFlag[d] => stgObj[o].sig \in stgLost'
  BY <1>4 DEF gone
<1>9. TaskInv'
  <2>1. \A e \in StgDevs : Applying(e) => \A k \in DOMAIN stgTask[e].list :
          stgObj[stgTask[e].list[k]].sig \in stgDirty' \cup stgLost' \/ stgTask[e].list[k] \in Range(stgList'[e])
    <3> SUFFICES ASSUME NEW e \in StgDevs, Applying(e), NEW k \in DOMAIN stgTask[e].list
                 PROVE  \/ stgObj[stgTask[e].list[k]].sig \in stgDirty' \cup stgLost'
                        \/ stgTask[e].list[k] \in Range(stgList'[e])
      OBVIOUS
    <3>1. stgFlag[e] /\ (Excused(stgObj[stgTask[e].list[k]].sig) \/ stgTask[e].list[k] \in Range(stgList[e]))
      BY DEF StagingInv, TaskInv
    <3> QED
      BY <1>3, <1>7, <1>8, <3>1
  <2>2. \A e \in StgDevs : stgTask[e].op = "put" => stgTask[e].got = 0 \/ SigOf(e) \in stgDirty' \cup stgLost'
    BY <1>7 DEF StagingInv, TaskInv
  <2> QED
    BY <1>1, <2>1, <2>2 DEF StagingInv, TaskInv, Applying, Excused, SigOf, SettingOf
<1>10. HeldInv'
  <2> SUFFICES ASSUME NEW e \in StgDevs, NEW o \in DOMAIN stgObj,
                      stgObj[o].sig \in Range(StgSignals[e]), Holds(o), stgObj[o].sig \notin stgDirty' \cup stgLost'
               PROVE  stgObj[o].orig = 0 /\ stgFlag[e] /\ o \in Range(stgList'[e]) /\ Reached(e, o)
    BY <1>1 DEF HeldInv, Holds, Reached, Applying, Excused
  <2>1. ~Excused(stgObj[o].sig)
    BY <1>7
  <2>2. stgObj[o].orig = 0 /\ stgFlag[e] /\ o \in Range(stgList[e]) /\ Reached(e, o)
    BY <2>1 DEF StagingInv, HeldInv
  <2>3. e # d
    BY <1>8, <2>2
  <2> QED
    BY <1>3, <2>2, <2>3
<1>11. ValueInv' /\ ToldInv'
  BY <1>1, <1>7 DEF StagingInv, ValueInv, ToldInv, Holds, Excused
<1> QED
  BY <1>5, <1>6, <1>9, <1>10, <1>11 DEF StagingInv

LEMMA StgSetKeeps ==
  ASSUME StagingInv, NEW d \in StgDevs, NEW s \in AllStgSignals, StgSet(d, s) PROVE StagingInv'
<1> DEFINE n == Len(stgObj) + 1
           new == [sig |-> s, want |-> n, orig |-> NoOrig]
<1>1. /\ s \in Range(StgSignals[d]) /\ stgObj' = Append(stgObj, new)
      /\ stgList' = [stgList EXCEPT ![d] = IF SlotOf(d, s) = {} THEN Append(stgList[d], n)
                       ELSE [k \in DOMAIN stgList[d] |-> IF k \in SlotOf(d, s) THEN n ELSE stgList[d][k]]]
      /\ stgLost' = stgLost \cup LostOf(d, IF SlotOf(d, s) = {} THEN {} ELSE {s})
      /\ UNCHANGED <<stgVal, stgFlag, stgTask, stgKids, stgOffered, stgDirty, stgAsked, stgErrs>>
  BY DEF StgSet
<1>2. /\ stgList \in [StgDevs -> Seq(DOMAIN stgObj)] /\ stgObj \in Seq(StgSettings)
      /\ stgTask \in [StgDevs -> StgTasks] /\ stgLost \subseteq AllStgSignals
  BY DEF StagingInv, StagingTypes, StgSettings, StgTasks
<1>3. /\ n \in Nat /\ DOMAIN stgObj = 1 .. Len(stgObj) /\ n \notin DOMAIN stgObj /\ new \in StgSettings
      /\ new.sig = s /\ new.orig = NoOrig
  BY <1>2 DEF StgSettings
<1> HIDE DEF n, new
<1>4. /\ stgObj' \in Seq(StgSettings) /\ DOMAIN stgObj' = DOMAIN stgObj \cup {n} /\ stgObj'[n] = new
      /\ \A o \in DOMAIN stgObj : stgObj'[o] = stgObj[o]
  <2>1. n = Len(stgObj) + 1
    BY DEF n
  <2> QED
    BY <1>1, <1>2, <1>3, <2>1
<1>5. /\ \A e \in StgDevs : \A k \in DOMAIN stgList[e] : stgList[e][k] \in DOMAIN stgObj
      /\ \A e \in StgDevs : \A k \in DOMAIN stgTask[e].list : stgTask[e].list[k] \in DOMAIN stgObj
      /\ \A e \in StgDevs : ListOf(e, stgList[e]) /\ ListOf(e, stgTask[e].list)
  BY StgTyped DEF StagingInv, ListInv
(* The list of d: what is of another signal stays, and n comes in for s.   *)
<1>6. /\ stgList'[d] \in Seq(DOMAIN stgObj') /\ stgLost \subseteq stgLost' /\ stgLost' \subseteq AllStgSignals
      /\ \A k \in DOMAIN stgList'[d] : \/ stgList'[d][k] = n
                                       \/ /\ k \in DOMAIN stgList[d] /\ stgList'[d][k] = stgList[d][k]
                                          /\ stgObj[stgList[d][k]].sig # s
      /\ \A k, l \in DOMAIN stgList'[d] : stgList'[d][k] = n /\ stgList'[d][l] = n => k = l
      /\ \A k \in DOMAIN stgList[d] : \/ k \in DOMAIN stgList'[d] /\ stgList'[d][k] = stgList[d][k]
                                      \/ stgObj[stgList[d][k]].sig = s /\ (stgFlag[d] => s \in stgLost')
  <2>0. stgList[d] \in Seq(DOMAIN stgObj) /\ SlotOf(d, s) \subseteq DOMAIN stgList[d]
        /\ \A k \in DOMAIN stgList[d] : k \in SlotOf(d, s) <=> stgObj[stgList[d][k]].sig = s
    BY <1>2 DEF SlotOf
  <2>1. CASE SlotOf(d, s) = {}
    <3>1. stgList'[d] = Append(stgList[d], n) /\ stgLost' = stgLost
      BY <1>1, <1>2, <2>1 DEF LostOf
    <3>2. \A k \in DOMAIN stgList[d] : stgObj[stgList[d][k]].sig # s /\ stgList[d][k] # n
      BY <1>3, <1>5, <2>0, <2>1
    <3>3. stgList[d] \in Seq(DOMAIN stgObj') /\ n \in DOMAIN stgObj'
      BY <1>4, <2>0
    <3>4. /\ stgList'[d] \in Seq(DOMAIN stgObj') /\ Len(stgList'[d]) = Len(stgList[d]) + 1
          /\ \A k \in DOMAIN stgList'[d] : k = Len(stgList'[d]) \/ k \in DOMAIN stgList[d]
          /\ \A k \in DOMAIN stgList[d] : k \in DOMAIN stgList'[d] /\ stgList'[d][k] = stgList[d][k]
          /\ stgList'[d][Len(stgList'[d])] = n
      BY <3>1, <3>3
    <3> QED
      BY <1>2, <3>1, <3>2, <3>4
  <2>2. CASE SlotOf(d, s) # {}
    <3>1. /\ stgList'[d] = [k \in DOMAIN stgList[d] |-> IF k \in SlotOf(d, s) THEN n ELSE stgList[d][k]]
          /\ stgLost' = stgLost \cup (IF stgFlag[d] THEN {s} ELSE {})
      BY <1>1, <1>2, <2>2 DEF LostOf
    <3>2. \A k \in DOMAIN stgList[d] : stgList[d][k] # n
      BY <1>3, <1>5
    <3>3. \A k \in DOMAIN stgList[d] : IF k \in SlotOf(d, s) THEN stgList'[d][k] = n ELSE stgList'[d][k] = stgList[d][k]
      BY <3>1
    <3>4. DOMAIN stgList'[d] = 1 .. Len(stgList[d]) /\ Len(stgList[d]) \in Nat
          /\ \A k \in 1 .. Len(stgList[d]) : stgList'[d][k] \in DOMAIN stgObj'
      BY <1>4, <1>5, <2>0, <3>1, <3>3
    <3>5. stgList'[d] \in Seq(DOMAIN stgObj')
      <4>1. stgList'[d] = [k \in 1 .. Len(stgList[d]) |-> stgList'[d][k]]
        BY <2>0, <3>1
      <4> QED
        BY <3>4, <4>1
    <3>6. \A k, l \in DOMAIN stgList[d] : k \in SlotOf(d, s) /\ l \in SlotOf(d, s) => k = l
      BY <1>5, <2>0 DEF ListOf
    <3> QED
      BY <1>2, <2>0, <3>1, <3>2, <3>3, <3>4, <3>5, <3>6
  <2> QED
    BY <2>1, <2>2
<1>7. \A e \in StgDevs \ {d} : stgList'[e] = stgList[e]
  BY <1>1
<1>8. \A x : Excused(x) => x \in stgDirty' \cup stgLost'
  BY <1>1, <1>6 DEF Excused
<1>9. StagingTypes'
  <2>1. \A e \in StgDevs : stgList'[e] \in Seq(DOMAIN stgObj')
    BY <1>2, <1>4, <1>6, <1>7
  <2>2. stgList' \in [StgDevs -> Seq(DOMAIN stgObj')]
    BY <1>1, <1>2, <2>1
  <2>3. \A e \in StgDevs : stgTask[e] \in [op : Ops, i : Nat, list : Seq(DOMAIN stgObj'), got : Nat \cup {NoOrig}]
    BY <1>2, <1>4 DEF StgTasks
  <2>4. stgTask' \in [StgDevs -> [op : Ops, i : Nat, list : Seq(DOMAIN stgObj'), got : Nat \cup {NoOrig}]]
    BY <1>1, <1>2, <2>3
  <2> QED
    BY <1>1, <1>4, <1>6, <2>2, <2>4 DEF StagingInv, StagingTypes, StgSettings
<1>10. ListInv'
  <2> SUFFICES ASSUME NEW e \in StgDevs PROVE ListOf(e, stgList[e])' /\ ListOf(e, stgTask[e].list)'
    BY DEF ListInv
  <2>1. ListOf(e, stgTask[e].list)'
    BY <1>1, <1>4, <1>5 DEF ListOf
  <2>2. CASE e # d
    BY <1>4, <1>5, <1>7, <2>1, <2>2 DEF ListOf
  <2>3. CASE e = d
    <3>1. \A k \in DOMAIN stgList'[d] : /\ stgObj'[stgList'[d][k]].sig = s <=> stgList'[d][k] = n
                                        /\ stgObj'[stgList'[d][k]].sig \in Range(StgSignals[d])
      <4> SUFFICES ASSUME NEW k \in DOMAIN stgList'[d]
                   PROVE  /\ stgObj'[stgList'[d][k]].sig = s <=> stgList'[d][k] = n
                          /\ stgObj'[stgList'[d][k]].sig \in Range(StgSignals[d])
        OBVIOUS
      <4>1. CASE stgList'[d][k] = n
        BY <1>1, <1>3, <1>4, <4>1
      <4>2. CASE stgList'[d][k] # n
        <5>1. k \in DOMAIN stgList[d] /\ stgList'[d][k] = stgList[d][k] /\ stgObj[stgList[d][k]].sig # s
          BY <1>6, <4>2
        <5>2. stgObj'[stgList[d][k]] = stgObj[stgList[d][k]] /\ stgObj[stgList[d][k]].sig \in Range(StgSignals[d])
          BY <1>4, <1>5, <5>1 DEF ListOf
        <5> QED
          BY <4>2, <5>1, <5>2
      <4> QED
        BY <4>1, <4>2
    <3>2. \A k, l \in DOMAIN stgList'[d] : stgObj'[stgList'[d][k]].sig = stgObj'[stgList'[d][l]].sig => k = l
      <4> SUFFICES ASSUME NEW k \in DOMAIN stgList'[d], NEW l \in DOMAIN stgList'[d],
                          stgObj'[stgList'[d][k]].sig = stgObj'[stgList'[d][l]].sig
                   PROVE  k = l
        OBVIOUS
      <4>1. CASE stgList'[d][k] = n
        BY <1>6, <3>1, <4>1
      <4>2. CASE stgList'[d][k] # n
        <5>1. stgList'[d][l] # n
          BY <3>1, <4>2
        <5> QED
          BY <1>4, <1>5, <1>6, <4>2, <5>1 DEF ListOf
      <4> QED
        BY <4>1, <4>2
    <3> QED
      BY <2>1, <2>3, <3>1, <3>2 DEF ListOf
  <2> QED
    BY <2>2, <2>3
<1>11. \A e \in StgDevs : \A o \in DOMAIN stgObj :
         o \in Range(stgList[e]) /\ stgFlag[e] => o \in Range(stgList'[e]) \/ stgObj[o].sig \in stgLost'
  <2> SUFFICES ASSUME NEW e \in StgDevs, NEW o \in DOMAIN stgObj, o \in Range(stgList[e]), stgFlag[e]
               PROVE  o \in Range(stgList'[e]) \/ stgObj[o].sig \in stgLost'
    OBVIOUS
  <2>1. CASE e # d
    BY <1>7, <2>1
  <2>2. CASE e = d
    <3>1. PICK k \in DOMAIN stgList[d] : stgList[d][k] = o
      BY <2>2 DEF Range
    <3> QED
      BY <1>6, <2>2, <3>1 DEF Range
  <2> QED
    BY <2>1, <2>2
<1>12. TaskInv'
  <2>1. \A e \in StgDevs : Applying(e) => \A k \in DOMAIN stgTask[e].list :
          stgObj'[stgTask[e].list[k]].sig \in stgDirty' \cup stgLost' \/ stgTask[e].list[k] \in Range(stgList'[e])
    <3> SUFFICES ASSUME NEW e \in StgDevs, Applying(e), NEW k \in DOMAIN stgTask[e].list
                 PROVE  \/ stgObj'[stgTask[e].list[k]].sig \in stgDirty' \cup stgLost'
                        \/ stgTask[e].list[k] \in Range(stgList'[e])
      OBVIOUS
    <3>1. stgFlag[e] /\ (Excused(stgObj[stgTask[e].list[k]].sig) \/ stgTask[e].list[k] \in Range(stgList[e]))
      BY DEF StagingInv, TaskInv
    <3>2. stgTask[e].list[k] \in DOMAIN stgObj
      BY <1>5
    <3> QED
      BY <1>4, <1>8, <1>11, <3>1, <3>2
  <2>2. \A e \in StgDevs : stgTask[e].op = "put" =>
          stgTask[e].got = 0 \/ stgObj'[stgTask[e].list[stgTask[e].i]].sig \in stgDirty' \cup stgLost'
    <3> SUFFICES ASSUME NEW e \in StgDevs, stgTask[e].op = "put", stgTask[e].got # 0
                 PROVE  stgObj'[stgTask[e].list[stgTask[e].i]].sig \in stgDirty' \cup stgLost'
      OBVIOUS
    <3>1. Excused(SigOf(e)) /\ stgTask[e].i \in 1 .. Len(stgTask[e].list)
      BY DEF StagingInv, TaskInv
    <3>2. stgTask[e].list[stgTask[e].i] \in DOMAIN stgObj
      BY <1>2, <1>5, <3>1 DEF StgTasks
    <3> QED
      BY <1>4, <1>8, <3>1, <3>2 DEF SigOf, SettingOf
  <2> QED
    BY <1>1, <2>1, <2>2 DEF StagingInv, TaskInv, Applying, Excused, SigOf, SettingOf
<1>13. HeldInv'
  <2> SUFFICES ASSUME NEW e \in StgDevs, NEW o \in DOMAIN stgObj',
                      stgObj'[o].sig \in Range(StgSignals[e]), stgObj'[o].orig # NoOrig,
                      stgObj'[o].sig \notin stgDirty' \cup stgLost'
               PROVE  stgObj'[o].orig = 0 /\ stgFlag[e] /\ o \in Range(stgList'[e]) /\ Reached(e, o)
    BY <1>1 DEF HeldInv, Holds, Reached, Applying, Excused
  <2>1. o \in DOMAIN stgObj /\ stgObj'[o] = stgObj[o] /\ Holds(o) /\ ~Excused(stgObj[o].sig)
    BY <1>3, <1>4, <1>8 DEF Holds
  <2>2. stgObj[o].orig = 0 /\ stgFlag[e] /\ o \in Range(stgList[e]) /\ Reached(e, o)
    BY <2>1 DEF StagingInv, HeldInv
  <2> QED
    BY <1>11, <2>1, <2>2
<1>14. ValueInv' /\ ToldInv'
  <2>1. ValueInv'
    BY <1>1, <1>4, <1>8 DEF StagingInv, ValueInv, Holds, Excused
  <2> QED
    BY <1>1, <2>1 DEF StagingInv, ToldInv
<1> QED
  BY <1>9, <1>10, <1>12, <1>13, <1>14 DEF StagingInv

-----------------------------------------------------------------------------
(* A future dropped half-way.                                              *)

LEMMA ParentDroppedKeeps == ASSUME StagingInv, ParentDropped PROVE StagingInv'
<1>1. PICK D \in SUBSET RestoresPut :
        LET puts  == {d \in StgDevs : stgTask[d].op = "put"}
            given == {SigOf(d) : d \in puts \cup D}
        IN  /\ stgDirty' = stgDirty \cup given
            /\ stgObj' = [o \in DOMAIN stgObj |->
                            IF o \in {SettingOf(d) : d \in D} THEN [stgObj[o] EXCEPT !.orig = NoOrig] ELSE stgObj[o]]
            /\ \E arrived \in SUBSET (puts \cup D) :
                 stgVal' = [s \in AllStgSignals |->
                              IF \E d \in arrived : SigOf(d) = s
                              THEN LET d == CHOOSE e \in arrived : SigOf(e) = s
                                   IN  IF d \in puts THEN stgObj[SettingOf(d)].want ELSE stgObj[SettingOf(d)].orig
                              ELSE stgVal[s]]
  BY DEF ParentDropped
<1> DEFINE puts == {d \in StgDevs : stgTask[d].op = "put"}
           given == {SigOf(d) : d \in puts \cup D}
           took == {SettingOf(d) : d \in D}
<1>2. PICK arrived \in SUBSET (puts \cup D) :
        stgVal' = [s \in AllStgSignals |->
                     IF \E d \in arrived : SigOf(d) = s
                     THEN LET d == CHOOSE e \in arrived : SigOf(e) = s
                          IN  IF d \in puts THEN stgObj[SettingOf(d)].want ELSE stgObj[SettingOf(d)].orig
                     ELSE stgVal[s]]
  BY <1>1
<1>3. /\ UNCHANGED <<stgList, stgFlag, stgKids, stgOffered, stgLost, stgErrs>> /\ stgAsked' = "none"
      /\ stgTask' = [d \in StgDevs |-> StgRest]
  BY DEF ParentDropped
<1>4. stgDirty' = stgDirty \cup given
      /\ stgObj' = [o \in DOMAIN stgObj |-> IF o \in took THEN [stgObj[o] EXCEPT !.orig = NoOrig] ELSE stgObj[o]]
  BY <1>1
<1>5. /\ stgVal \in [AllStgSignals -> Nat] /\ stgObj \in Seq(StgSettings) /\ stgDirty \subseteq AllStgSignals
      /\ stgList \in [StgDevs -> Seq(DOMAIN stgObj)]
      /\ \A o \in DOMAIN stgObj : stgObj[o] \in StgSettings
  BY StgTyped DEF StagingInv, StagingTypes, StgSettings
<1>6. \A d \in puts \cup D : d \in StgDevs /\ MoreSettings(d)
  <2>1. \A d \in puts : MoreSettings(d)
    BY StgTyped DEF StagingInv, TaskInv, StgTasks, MoreSettings
  <2> QED
    BY <2>1 DEF RestoresPut
<1>7. \A d \in puts \cup D : SettingOf(d) \in DOMAIN stgObj /\ SigOf(d) = stgObj[SettingOf(d)].sig /\ SigOf(d) \in AllStgSignals
  BY <1>6, SettingFacts
<1>8. \A d \in D : stgObj[SettingOf(d)].orig # NoOrig
  BY DEF RestoresPut
<1> HIDE DEF puts, given, took
<1>9. /\ stgObj' \in Seq(StgSettings) /\ DOMAIN stgObj' = DOMAIN stgObj
      /\ \A o \in DOMAIN stgObj : /\ stgObj'[o].sig = stgObj[o].sig
                                  /\ o \in took => stgObj'[o].orig = NoOrig
                                  /\ o \notin took => stgObj'[o] = stgObj[o]
  <2>1. \A o \in DOMAIN stgObj : [stgObj[o] EXCEPT !.orig = NoOrig] \in StgSettings
                                 /\ [stgObj[o] EXCEPT !.orig = NoOrig].sig = stgObj[o].sig
                                 /\ [stgObj[o] EXCEPT !.orig = NoOrig].orig = NoOrig
    BY <1>5 DEF StgSettings
  <2>2. \A o \in DOMAIN stgObj : stgObj'[o] = IF o \in took THEN [stgObj[o] EXCEPT !.orig = NoOrig] ELSE stgObj[o]
    BY <1>4
  <2>3. \A o \in DOMAIN stgObj : stgObj'[o] \in StgSettings
    BY <1>5, <2>1, <2>2
  <2>4. stgObj' = [o \in 1 .. Len(stgObj) |-> stgObj'[o]] /\ Len(stgObj) \in Nat /\ DOMAIN stgObj = 1 .. Len(stgObj)
    BY <1>4, <1>5
  <2>5. stgObj' \in Seq(StgSettings)
    BY <2>3, <2>4
  <2> QED
    BY <2>1, <2>2, <2>4, <2>5
<1>10. /\ given \subseteq AllStgSignals /\ stgDirty \subseteq stgDirty' /\ stgDirty' \subseteq AllStgSignals
       /\ \A o \in took : stgObj[o].sig \in given
       /\ \A d \in arrived : SigOf(d) \in given
  BY <1>4, <1>5, <1>7 DEF given, took
<1>11. stgVal' \in [AllStgSignals -> Nat] /\ \A s \in AllStgSignals : s \notin given => stgVal'[s] = stgVal[s]
  <2>1. \A s \in AllStgSignals : stgVal'[s] \in Nat /\ (s \notin given => stgVal'[s] = stgVal[s])
    <3> SUFFICES ASSUME NEW s \in AllStgSignals
                 PROVE  stgVal'[s] \in Nat /\ (s \notin given => stgVal'[s] = stgVal[s])
      OBVIOUS
    <3>1. CASE \E d \in arrived : SigOf(d) = s
      <4> DEFINE c == CHOOSE e \in arrived : SigOf(e) = s
      <4>1. c \in arrived /\ SigOf(c) = s
        BY <3>1
      <4>2. stgVal'[s] = IF c \in puts THEN stgObj[SettingOf(c)].want ELSE stgObj[SettingOf(c)].orig
        BY <1>2, <3>1
      <4> HIDE DEF c
      <4>3. c \in puts \/ c \in D
        BY <4>1
      <4>4. stgObj[SettingOf(c)] \in StgSettings
        BY <1>5, <1>7, <4>3
      <4>5. c \notin puts => stgObj[SettingOf(c)].orig \in Nat
        BY <1>8, <4>3, <4>4 DEF StgSettings
      <4>6. s \in given
        BY <1>10, <4>1
      <4> QED
        BY <4>2, <4>4, <4>5, <4>6 DEF StgSettings
    <3>2. CASE ~\E d \in arrived : SigOf(d) = s
      BY <1>2, <1>5, <3>2
    <3> QED
      BY <3>1, <3>2
  <2>2. stgVal' = [s \in AllStgSignals |-> stgVal'[s]]
    BY <1>2
  <2> QED
    BY <2>1, <2>2
<1>12. StgRest.op = "rest" /\ StgRest.list = <<>> /\ StgRest \in StgTasks
  BY DEF StgRest, StgTasks, Ops
<1>13. StagingTypes'
  <2>1. stgTask' \in [StgDevs -> [op : Ops, i : Nat, list : Seq(DOMAIN stgObj'), got : Nat \cup {NoOrig}]]
    BY <1>3, <1>9, <1>12 DEF StgTasks
  <2> QED
    BY <1>3, <1>5, <1>9, <1>10, <1>11, <2>1 DEF StagingInv, StagingTypes, StgSettings
<1>14. ListInv'
  <2> SUFFICES ASSUME NEW e \in StgDevs PROVE ListOf(e, stgList[e])' /\ ListOf(e, stgTask[e].list)'
    BY DEF ListInv
  <2>1. ListOf(e, stgList[e]) /\ \A k \in DOMAIN stgList[e] : stgList[e][k] \in DOMAIN stgObj
    BY StgTyped DEF StagingInv, ListInv
  <2> QED
    BY <1>3, <1>9, <1>12, <2>1 DEF ListOf
<1>15. TaskInv'
  BY <1>3, <1>12 DEF StagingInv, TaskInv, Applying
<1>16. HeldInv'
  <2> SUFFICES ASSUME NEW e \in StgDevs, NEW o \in DOMAIN stgObj,
                      stgObj[o].sig \in Range(StgSignals[e]), stgObj'[o].orig # NoOrig,
                      stgObj[o].sig \notin stgDirty' \cup stgLost'
               PROVE  stgObj'[o].orig = 0 /\ stgFlag[e] /\ o \in Range(stgList[e])
    BY <1>3, <1>9, <1>12 DEF HeldInv, Holds, Reached, Applying, Excused
  <2>1. o \notin took /\ stgObj'[o] = stgObj[o] /\ Holds(o) /\ ~Excused(stgObj[o].sig)
    BY <1>3, <1>9, <1>10 DEF Holds, Excused
  <2> QED
    BY <2>1 DEF StagingInv, HeldInv
<1>17. ValueInv' /\ ToldInv'
  <2>1. ASSUME NEW s \in AllStgSignals, s \notin stgDirty' \cup stgLost', stgVal'[s] # 0
        PROVE  \E q \in DOMAIN stgObj : stgObj'[q].sig = s /\ stgObj'[q].orig # NoOrig
    <3>1. s \notin given /\ ~Excused(s) /\ stgVal[s] # 0
      BY <1>3, <1>4, <1>11, <2>1 DEF Excused
    <3>2. PICK q \in DOMAIN stgObj : stgObj[q].sig = s /\ Holds(q)
      BY <3>1 DEF StagingInv, ValueInv
    <3>3. q \notin took
      BY <1>10, <3>1, <3>2
    <3> QED
      BY <1>9, <3>2, <3>3 DEF Holds
  <2> QED
    BY <1>3, <1>9, <2>1 DEF ValueInv, ToldInv, Excused, Holds
<1> QED
  BY <1>13, <1>14, <1>15, <1>16, <1>17 DEF StagingInv

-----------------------------------------------------------------------------
(* The theorem.                                                            *)

LEMMA StagingStutters == ASSUME StagingInv, UNCHANGED stagingVars PROVE StagingInv'
BY DEF stagingVars, StagingInv, StagingTypes, ListInv, ListOf, TaskInv, Applying, HeldInv, Holds, Reached,
       Excused, ValueInv, ToldInv, SigOf, SettingOf

LEMMA NextStaging == ASSUME StagingInv, [StagingNext]_stagingVars PROVE StagingInv'
<1>1. CASE AddChild
  BY <1>1, AddChildKeeps
<1>2. CASE ParentStage
  BY <1>2, ParentStageKeeps
<1>3. CASE ParentUnstage
  BY <1>3, ParentUnstageKeeps
<1>4. CASE ParentDropped
  BY <1>4, ParentDroppedKeeps
<1>5. ASSUME NEW d \in StgDevs, NEW s \in AllStgSignals, StgSet(d, s) PROVE StagingInv'
  BY <1>5, StgSetKeeps
<1>6. ASSUME NEW d \in StgDevs, StgClear(d) PROVE StagingInv'
  BY <1>6, StgClearKeeps
<1>7. ASSUME NEW d \in StgDevs, ApplyRead(d) PROVE StagingInv'
  BY <1>7, ApplyReadKeeps
<1>8. ASSUME NEW d \in StgDevs, ApplyPut(d) PROVE StagingInv'
  BY <1>8, ApplyPutKeeps
<1>9. ASSUME NEW d \in StgDevs, StageDone(d) PROVE StagingInv'
  BY <1>9, StageDoneKeeps
<1>10. ASSUME NEW d \in StgDevs, Restore(d) PROVE StagingInv'
  BY <1>10, RestoreKeeps
<1>11. ASSUME NEW d \in StgDevs, RestoreDone(d) PROVE StagingInv'
  BY <1>11, RestoreDoneKeeps
<1> QED
  BY <1>1, <1>2, <1>3, <1>4, <1>5, <1>6, <1>7, <1>8, <1>9, <1>10, <1>11, StagingStutters DEF StagingNext

LEMMA InvIsSound == StagingInv => StagingSound
<1> SUFFICES ASSUME StagingInv PROVE StagingSound
  OBVIOUS
<1>1. ASSUME NEW d \in StgDevs, NEW s \in Range(StgSignals[d]), stgVal[s] # 0, ~Excused(s)
      PROVE  stgFlag[d] /\ \E k \in DOMAIN stgList[d] : stgObj[stgList[d][k]].sig = s /\ stgObj[stgList[d][k]].orig = 0
  <2>1. PICK o \in DOMAIN stgObj : stgObj[o].sig = s /\ Holds(o)
    BY <1>1, StgOwned DEF StagingInv, ValueInv
  <2>2. stgObj[o].orig = 0 /\ stgFlag[d] /\ o \in Range(stgList[d])
    BY <1>1, <2>1 DEF StagingInv, HeldInv
  <2> QED
    BY <2>1, <2>2 DEF Range
<1>2. StageRestores
  BY <1>1 DEF StageRestores
<1>3. OriginalsHeld
  BY <1>1 DEF OriginalsHeld
<1>4. RefusedUnstaged /\ StageTold
  BY DEF RefusedUnstaged, StageTold, StagingInv, TaskInv, ToldInv
<1> QED
  BY <1>2, <1>3, <1>4 DEF StagingSound

(* Every reachable state of staging satisfies the invariant.               *)
THEOREM StagingInvariant == StagingSpec => []StagingInv
<1>1. StagingInit => StagingInv
  BY StgInitial
<1>2. StagingInv /\ [StagingNext]_stagingVars => StagingInv'
  BY NextStaging
<1> QED
  BY <1>1, <1>2, PTL DEF StagingSpec

(* For any children, signals and hints: unstaging returns every signal to  *)
(* how it was found unless a put to that very signal failed or was given   *)
(* up or its setting was replaced or cleared while staged; a staged device *)
(* holds every original; a refused child is never staged; and a stage that *)
(* ends without an error has staged every child, whatever the interleaving *)
(* of the children's puts, failures, rollbacks and dropped futures         *)
(* (StageSigs::stage, unstage and StandardReadable).                       *)
THEOREM StagingIsSound == StagingSpec => []StagingSound
<1>1. StagingInv => StagingSound
  BY InvIsSound
<1> QED
  BY <1>1, StagingInvariant, PTL
=============================================================================
