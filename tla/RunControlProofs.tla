-------------------------- MODULE RunControlProofs --------------------------
(***************************************************************************)
(* Proofs about RunControl, for any number of runners, callers and         *)
(* suspensions and any bounds.                                             *)
(***************************************************************************)
EXTENDS RunControl, TLAPS

USE DEF flagVars, tokenVars, suspVars, intrVars, sigVars, localVars, histVars

LEMMA TypeInit == Init => TypeOK
<1> SUFFICES ASSUME Init PROVE TypeOK
  OBVIOUS
<1>1. PcTyped
  BY DEF Init, PcTyped, Actors, RunnerPCs, CallerPCs, SuspensionPCs
<1>2. sigintAlive \in BOOLEAN
  <2>1. sigintAlive = ("sigint" \in Ops)
    BY DEF Init
  <2> QED
    BY <2>1
<1>3. FlagsTyped
  BY <1>2 DEF Init, FlagsTyped
<1>4. DataTyped
  BY ControlAssumption DEF Init, DataTyped
<1> QED
  BY <1>1, <1>3, <1>4 DEF TypeOK

(* A step of one actor that goes where its kind may be. *)
LEMMA GotoTyped ==
    ASSUME PcTyped, NEW a \in Actors, NEW to,
           pc' = [pc EXCEPT ![a] = to],
           a \in Runners => to \in RunnerPCs,
           a \in Callers => to \in CallerPCs,
           a \in Suspensions => to \in SuspensionPCs
    PROVE  PcTyped'
BY DEF PcTyped, Actors

LEMMA SharedFlags ==
    ASSUME FlagsTyped, NEW a,
           \/ SetManual(a) \/ Flag(a) \/ Count(a)
           \/ ClearManual(a) \/ Unflag(a) \/ Notify(a)
    PROVE  FlagsTyped'
<1>1. CASE SetManual(a) \/ ClearManual(a) \/ Flag(a) \/ Unflag(a) \/ Notify(a)
  BY <1>1, ZenonT(20)
  DEF FlagsTyped, SetManual, ClearManual, Flag, Unflag, Notify
<1>2. CASE Count(a)
  <2>1. lateCount' \in BOOLEAN
    <3>1. lateCount' = (lateCount \/ \E r \in Runners : pc[r] = "ldPauseSeen")
      BY <1>2 DEF Count
    <3> QED
      BY <3>1
  <2> QED
    BY <1>2, <2>1 DEF FlagsTyped, Count
<1> QED
  BY <1>1, <1>2

(* mark_paused, wake and the requests built from them, by any actor. *)
LEMMA SharedTyped ==
    ASSUME TypeOK, NEW a \in Actors,
           \/ SetManual(a) \/ Flag(a) \/ Count(a)
           \/ ClearManual(a) \/ Unflag(a) \/ Notify(a)
    PROVE  TypeOK'
<1> USE DEF SetManual, Flag, Count, ClearManual, Unflag, Notify
<1>1. PcTyped'
  <2>1. CASE SetManual(a) \/ ClearManual(a)
    BY <2>1, GotoTyped DEF TypeOK, PcTyped, Goto, RunnerPCs, LoopPCs, SelfPCs,
       CallerPCs, SuspensionPCs
  <2>2. CASE Flag(a) \/ Unflag(a)
    BY <2>2, GotoTyped DEF TypeOK, Goto, RunnerPCs, LoopPCs, SelfPCs,
       CallerPCs, SuspensionPCs
  <2>3. CASE Count(a)
    BY <2>3, GotoTyped, ControlAssumption DEF TypeOK, Goto, AfterMark, Actors,
       RunnerPCs, LoopPCs, CallerPCs, SuspensionPCs
  <2>4. CASE Notify(a)
    BY <2>4, GotoTyped, ControlAssumption DEF TypeOK, Goto, AfterWake, Actors,
       RunnerPCs, LoopPCs, CallerPCs, SuspensionPCs
  <2> QED
    BY <2>1, <2>2, <2>3, <2>4
<1>2. FlagsTyped'
  BY SharedFlags DEF TypeOK
<1>3. DataTyped'
  BY DEF TypeOK, DataTyped, NotifyWaiters
<1> QED
  BY <1>1, <1>2, <1>3 DEF TypeOK

LEMMA CallerFlags ==
    ASSUME FlagsTyped, NEW c \in Callers, CallerStep(c)
    PROVE  FlagsTyped'
<1>1. CASE Pause(c)
  BY <1>1 DEF FlagsTyped, Begin, Pause
<1>2. CASE PauseDeferred(c)
  BY <1>2 DEF FlagsTyped, Begin, PauseDeferred
<1>3. CASE Resume(c)
  BY <1>3 DEF FlagsTyped, Begin, Resume
<1>4. CASE Abort(c)
  BY <1>4 DEF FlagsTyped, Abort, Begin
<1>5. CASE Halt(c)
  BY <1>5 DEF FlagsTyped, Begin, Halt
<1>6. CASE Stop(c)
  BY <1>6 DEF FlagsTyped, Begin, Stop
<1>7. CASE SigintTap(c)
  BY <1>7 DEF FlagsTyped, Begin, SigintTap
<1> QED
  BY <1>1, <1>2, <1>3, <1>4, <1>5, <1>6, <1>7 DEF CallerStep

LEMMA CallerTyped ==
    ASSUME TypeOK, NEW c \in Callers, CallerStep(c)
    PROVE  TypeOK'
<1> USE DEF CallerStep, Pause, PauseDeferred, Resume, Abort, Halt, Stop,
        SigintTap, Begin
<1>1. PcTyped'
  BY GotoTyped, ControlAssumption DEF TypeOK, Goto, Actors, CallerPCs, SelfPCs
<1>2. FlagsTyped'
  BY CallerFlags DEF TypeOK
<1>3. DataTyped'
  BY DEF TypeOK, DataTyped, MayRequest
<1> QED
  BY <1>1, <1>2, <1>3 DEF TypeOK

LEMMA CallerInnerTyped ==
    ASSUME TypeOK, NEW c \in Callers, CallerInner(c)
    PROVE  TypeOK'
<1>1. CASE ClearStopping(c) \/ SetAborting(c) \/ CountInterrupt(c)
  <2> USE <1>1 DEF ClearStopping, SetAborting, CountInterrupt
  <2>1. PcTyped'
    BY GotoTyped, ControlAssumption DEF TypeOK, Goto, Actors, CallerPCs, SelfPCs
  <2>2. FlagsTyped'
    BY DEF TypeOK, FlagsTyped
  <2>3. DataTyped'
    BY DEF TypeOK, DataTyped
  <2> QED
    BY <2>1, <2>2, <2>3 DEF TypeOK
<1>2. CASE ~(ClearStopping(c) \/ SetAborting(c) \/ CountInterrupt(c))
  BY <1>2, SharedTyped DEF CallerInner, Actors
<1> QED
  BY <1>1, <1>2

LEMMA SuspensionTyped ==
    ASSUME TypeOK, NEW s \in Suspensions,
           SuspensionStep(s) \/ TurnGood(s) \/ SuspensionInner(s)
    PROVE  TypeOK'
<1>1. CASE TurnBad(s) \/ TurnGood(s)
  <2> USE <1>1 DEF TurnBad, TurnGood
  <2>1. PcTyped'
    BY ControlAssumption DEF TypeOK, PcTyped, Actors, SuspensionPCs
  <2>2. FlagsTyped'
    BY DEF TypeOK, FlagsTyped
  <2>3. DataTyped'
    BY DEF TypeOK, DataTyped
  <2> QED
    BY <2>1, <2>2, <2>3 DEF TypeOK
<1>2. CASE SuspendUntil(s) \/ WatcherTrip(s) \/ WatcherMiss(s)
  <2> USE <1>2 DEF SuspendUntil, WatcherTrip, WatcherMiss, BeginSuspend
  <2>1. PcTyped'
    BY GotoTyped, ControlAssumption DEF TypeOK, Goto, Actors, SuspensionPCs
  <2>2. FlagsTyped'
    BY DEF TypeOK, FlagsTyped
  <2>3. DataTyped'
    BY DEF TypeOK, DataTyped, MayRequest
  <2> QED
    BY <2>1, <2>2, <2>3 DEF TypeOK
<1>3. CASE \/ StorePending(s) \/ TakeHold(s) \/ LoadGen(s)
           \/ FutureResolved(s) \/ ReleaseGen(s) \/ ReleaseHold(s)
           \/ ReleaseManual(s)
  <2> USE <1>3 DEF StorePending, TakeHold, LoadGen, FutureResolved,
          ReleaseGen, ReleaseHold, ReleaseManual
  <2>1. PcTyped'
    BY GotoTyped, ControlAssumption DEF TypeOK, Goto, Actors, SuspensionPCs
  <2>2. FlagsTyped'
    BY DEF TypeOK, FlagsTyped
  <2>3. DataTyped'
    BY DEF TypeOK, DataTyped, SaturatingSub
  <2> QED
    BY <2>1, <2>2, <2>3 DEF TypeOK
<1>4. CASE Flag(s) \/ Count(s) \/ Unflag(s) \/ Notify(s)
  BY <1>4, SharedTyped DEF Actors
<1> QED
  BY <1>1, <1>2, <1>3, <1>4 DEF SuspensionStep, SuspensionInner

LEMMA StartFlags ==
    ASSUME FlagsTyped, NEW r \in Runners, 
           Claim(r) \/ StartStep(r) \/ ReleaseClaim(r) \/ LoopTimeout(r)
    PROVE  FlagsTyped'
<1>1. CASE Claim(r)
  BY <1>1 DEF FlagsTyped, Claim
<1>2. CASE ReleaseClaim(r)
  BY <1>2 DEF FlagsTyped, ReleaseClaim
<1>3. CASE LoopTimeout(r)
  BY <1>3 DEF FlagsTyped, LoopTimeout
<1>4. CASE ResetInterrupts(r)
  BY <1>4 DEF FlagsTyped, ResetInterrupts
<1>5. CASE ResetForRun(r)
  BY <1>5 DEF FlagsTyped, ResetForRun
<1>6. CASE ClearDeferred(r)
  BY <1>6 DEF FlagsTyped, ClearDeferred
<1>7. CASE LoadPauseSeen(r) \/ ClearSigint(r)
  BY <1>7 DEF FlagsTyped, ClearSigint, LoadPauseSeen
<1>8. CASE SampleTripped(r) \/ PassStartGate(r)
  BY <1>8 DEF FlagsTyped, PassStartGate, SampleTripped
<1> QED
  BY <1>1, <1>2, <1>3, <1>4, <1>5, <1>6, <1>7, <1>8 DEF StartStep

LEMMA StartTyped ==
    ASSUME TypeOK, NEW r \in Runners,
           Claim(r) \/ StartStep(r) \/ ReleaseClaim(r) \/ LoopTimeout(r)
    PROVE  TypeOK'
<1> USE DEF StartStep, Claim, ResetInterrupts, ResetForRun, LoadPauseSeen,
        ClearDeferred, ClearSigint, SampleTripped, PassStartGate,
        ReleaseClaim, LoopTimeout
<1>1. PcTyped'
  BY GotoTyped, ControlAssumption
  DEF TypeOK, Goto, Actors, RunnerPCs, StartPCs, LoopPCs, EndPCs
<1>2. FlagsTyped'
  BY StartFlags DEF TypeOK
<1>3. DataTyped'
  BY DEF TypeOK, DataTyped, Tripped
<1> QED
  BY <1>1, <1>2, <1>3 DEF TypeOK

LEMMA GateFlags ==
    ASSUME FlagsTyped, NEW r \in Runners, GateStep(r)
    PROVE  FlagsTyped'
<1>1. CASE Acknowledge(r)
  BY <1>1 DEF FlagsTyped, AckPause, Acknowledge
<1>2. CASE Absorb(r)
  BY <1>2 DEF FlagsTyped, Absorb, AckPause
<1>3. CASE OnResume(r)
  BY <1>3 DEF FlagsTyped, OnResume
<1>4. CASE GateTest(r) \/ ArmPermit(r) \/ EnterPause(r)
  BY <1>4 DEF FlagsTyped, ArmPermit, EnterPause, GateTest
<1>5. CASE CheckPaused(r) \/ Wakeup(r) \/ Woken(r)
  BY <1>5 DEF FlagsTyped, CheckPaused, Wakeup, Woken
<1> QED
  BY <1>1, <1>2, <1>3, <1>4, <1>5
  DEF GateStep

LEMMA GateTyped ==
    ASSUME TypeOK, NEW r \in Runners, GateStep(r)
    PROVE  TypeOK'
<1> USE DEF GateStep, GateTest, ArmPermit, Acknowledge, EnterPause,
        CheckPaused, Wakeup, Absorb, Woken, OnResume, AckPause
<1>1. PcTyped'
  BY GotoTyped, ControlAssumption
  DEF TypeOK, Goto, Actors, RunnerPCs, LoopPCs, GatePCs
<1>2. FlagsTyped'
  BY GateFlags DEF TypeOK
<1>3. DataTyped'
  BY DEF TypeOK, DataTyped, EnabledWaiter
<1> QED
  BY <1>1, <1>2, <1>3 DEF TypeOK

LEMMA LoopFlags ==
    ASSUME FlagsTyped, NEW r \in Runners,
           \/ ThrowBetweenMessages(r) \/ NoInterrupt(r) \/ PullMsg(r)
           \/ HandleReturns(r) \/ HandleCheckpoint(r)
           \/ CancelledByInterrupt(r) \/ CancelledByPause(r)
           \/ CancelledByNone(r) \/ ThrowError(r) \/ HandlePause(r)
    PROVE  FlagsTyped'
<1>1. CASE ThrowBetweenMessages(r)
  BY <1>1 DEF FlagsTyped, TakeInterrupt, ThrowBetweenMessages
<1>2. CASE CancelledByInterrupt(r)
  BY <1>2 DEF FlagsTyped, CancelledByInterrupt, TakeInterrupt
<1>3. CASE CancelledByPause(r)
  BY <1>3 DEF FlagsTyped, CancelledByPause
<1>4. CASE HandlePause(r)
  BY <1>4 DEF FlagsTyped, HandlePause
<1>5. CASE HandleCheckpoint(r)
  BY <1>5 DEF FlagsTyped, HandleCheckpoint
<1>6. CASE NoInterrupt(r) \/ PullMsg(r) \/ HandleReturns(r)
  BY <1>6 DEF FlagsTyped, HandleReturns, NoInterrupt, PullMsg
<1>7. CASE CancelledByNone(r) \/ ThrowError(r)
  BY <1>7 DEF FlagsTyped, CancelledByNone, ThrowError
<1> QED
  BY <1>1, <1>2, <1>3, <1>4, <1>5, <1>6, <1>7

LEMMA LoopTyped ==
    ASSUME TypeOK, NEW r \in Runners, LoopStep(r) \/ HandlePause(r)
    PROVE  TypeOK'
<1>1. CASE \/ ThrowBetweenMessages(r) \/ NoInterrupt(r) \/ PullMsg(r)
           \/ HandleReturns(r) \/ HandleCheckpoint(r)
           \/ CancelledByInterrupt(r) \/ CancelledByPause(r)
           \/ CancelledByNone(r) \/ ThrowError(r) \/ HandlePause(r)
  <2> USE <1>1 DEF ThrowBetweenMessages, NoInterrupt, PullMsg, HandleReturns,
          HandleCheckpoint, CancelledByInterrupt, CancelledByPause,
          CancelledByNone, ThrowError, HandlePause, TakeInterrupt
  <2>1. PcTyped'
    BY GotoTyped, ControlAssumption
    DEF TypeOK, Goto, Actors, RunnerPCs, LoopPCs, SelfPCs, EndPCs
  <2>2. FlagsTyped'
    BY LoopFlags DEF TypeOK
  <2>3. DataTyped'
    BY DEF TypeOK, DataTyped, MayRequest
  <2> QED
    BY <2>1, <2>2, <2>3 DEF TypeOK
<1>2. CASE \/ SetManual(r) \/ Flag(r) \/ Count(r)
           \/ ClearManual(r) \/ Unflag(r) \/ Notify(r)
  BY <1>2, SharedTyped DEF Actors
<1> QED
  BY <1>1, <1>2 DEF LoopStep

LEMMA TypeStep == TypeOK /\ [Next]_vars => TypeOK'
<1> SUFFICES ASSUME TypeOK, [Next]_vars PROVE TypeOK'
  OBVIOUS
<1>1. CASE UNCHANGED vars
  BY <1>1 DEF vars, TypeOK, PcTyped, FlagsTyped, DataTyped
<1>2. ASSUME NEW r \in Runners, RunnerStep(r) \/ RunnerInner(r)
      PROVE  TypeOK'
  BY <1>2, StartTyped, GateTyped, LoopTyped DEF RunnerStep, RunnerInner
<1>3. ASSUME NEW c \in Callers, CallerStep(c) \/ CallerInner(c)
      PROVE  TypeOK'
  BY <1>3, CallerTyped, CallerInnerTyped
<1>4. ASSUME NEW s \in Suspensions,
             SuspensionStep(s) \/ TurnGood(s) \/ SuspensionInner(s)
      PROVE  TypeOK'
  BY <1>4, SuspensionTyped
<1> QED
  BY <1>1, <1>2, <1>3, <1>4 DEF Next

(* Every variable keeps its type and every actor stays where its kind can  *)
(* be, whatever the interleaving (all of run_engine.rs's control plane).   *)
THEOREM TypeCorrect == Spec => []TypeOK
BY TypeInit, TypeStep, PTL DEF Spec

-----------------------------------------------------------------------------
(* The claim.  Only Claim and ReleaseClaim change who is in a run; every   *)
(* other step keeps is_running and leaves each runner in or out.           *)

ClaimKept == /\ isRunning' = isRunning
             /\ \A q \in Runners : pc'[q] = "idle" <=> pc[q] = "idle"

(* mark_paused and wake never leave a runner idle. *)
LEMMA SharedClaimKept ==
    ASSUME TypeOK, NEW a \in Actors,
           \/ SetManual(a) \/ Flag(a) \/ Count(a)
           \/ ClearManual(a) \/ Unflag(a) \/ Notify(a)
    PROVE  ClaimKept
BY DEF TypeOK, PcTyped, Actors, ClaimKept, Goto, SetManual, Flag, Count, ClearManual,
   Unflag, Notify, AfterMark, AfterWake

LEMMA CallerClaimKept ==
    ASSUME TypeOK, NEW c \in Callers, CallerStep(c) \/ CallerInner(c)
    PROVE  ClaimKept
<1>1. CASE CallerStep(c)
  BY <1>1, ControlAssumption
  DEF TypeOK, PcTyped, Actors, ClaimKept, Goto, CallerStep, Begin, Pause,
      PauseDeferred, Resume, Abort, Halt, Stop, SigintTap
<1>2. CASE ClearStopping(c) \/ SetAborting(c) \/ CountInterrupt(c)
  BY <1>2, ControlAssumption
  DEF TypeOK, PcTyped, Actors, ClaimKept, Goto, ClearStopping, SetAborting,
      CountInterrupt
<1> QED
  BY <1>1, <1>2, SharedClaimKept DEF CallerInner, Actors

LEMMA SuspensionClaimKept ==
    ASSUME TypeOK, NEW s \in Suspensions,
           SuspensionStep(s) \/ TurnGood(s) \/ SuspensionInner(s)
    PROVE  ClaimKept
<1>1. CASE \/ TurnBad(s) \/ TurnGood(s) \/ SuspendUntil(s)
           \/ WatcherTrip(s) \/ WatcherMiss(s)
  BY <1>1, ControlAssumption
  DEF TypeOK, PcTyped, Actors, ClaimKept, Goto, TurnBad, TurnGood, SuspendUntil,
      WatcherTrip, WatcherMiss, BeginSuspend
<1>2. CASE \/ StorePending(s) \/ TakeHold(s) \/ LoadGen(s)
           \/ FutureResolved(s) \/ ReleaseGen(s) \/ ReleaseHold(s)
           \/ ReleaseManual(s)
  BY <1>2, ControlAssumption
  DEF TypeOK, PcTyped, Actors, ClaimKept, Goto, StorePending, TakeHold, LoadGen,
      FutureResolved, ReleaseGen, ReleaseHold, ReleaseManual
<1> QED
  BY <1>1, <1>2, SharedClaimKept DEF SuspensionStep, SuspensionInner, Actors

LEMMA RunnerClaimKept ==
    ASSUME TypeOK, NEW r \in Runners,
           \/ StartStep(r) \/ GateStep(r) \/ LoopStep(r)
           \/ HandlePause(r) \/ LoopTimeout(r)
    PROVE  ClaimKept
<1>1. CASE StartStep(r) \/ LoopTimeout(r)
  BY <1>1
  DEF TypeOK, PcTyped, Actors, ClaimKept, Goto, StartStep, ResetInterrupts,
      ResetForRun, LoadPauseSeen, ClearDeferred, ClearSigint, SampleTripped,
      PassStartGate, LoopTimeout, AwaitPCs
<1>2. CASE GateStep(r)
  BY <1>2
  DEF TypeOK, PcTyped, Actors, ClaimKept, Goto, GateStep, GateTest, ArmPermit,
      Acknowledge, EnterPause, CheckPaused, Wakeup, Absorb, Woken, OnResume
<1>3. CASE \/ ThrowBetweenMessages(r) \/ NoInterrupt(r) \/ PullMsg(r)
           \/ HandleReturns(r) \/ HandleCheckpoint(r)
           \/ CancelledByInterrupt(r) \/ CancelledByPause(r)
           \/ CancelledByNone(r) \/ ThrowError(r) \/ HandlePause(r)
  BY <1>3
  DEF TypeOK, PcTyped, Actors, ClaimKept, Goto, ThrowBetweenMessages, NoInterrupt,
      PullMsg, HandleReturns, HandleCheckpoint, CancelledByInterrupt,
      CancelledByPause, CancelledByNone, ThrowError, HandlePause,
      TakeInterrupt
<1> QED
  BY <1>1, <1>2, <1>3, SharedClaimKept DEF LoopStep, Actors

LEMMA SingleRunStep == TypeOK /\ SingleRun /\ [Next]_vars => SingleRun'
<1> SUFFICES ASSUME TypeOK, SingleRun, [Next]_vars PROVE SingleRun'
  OBVIOUS
<1>1. ASSUME ClaimKept PROVE SingleRun'
  BY <1>1, Zenon DEF ClaimKept, SingleRun, InRun
<1>2. CASE UNCHANGED vars
  BY <1>1, <1>2, Zenon DEF vars, ClaimKept
<1>3. ASSUME NEW r \in Runners, Claim(r) PROVE SingleRun'
  <2>1. \A q \in Runners : ~InRun(q)
    BY <1>3 DEF Claim, Unclaimed, SingleRun
  <2>2. /\ isRunning' = TRUE
        /\ pc'[r] = "clrAborting"
        /\ \A q \in Runners \ {r} : pc'[q] = pc[q]
    BY <1>3 DEF Claim, Goto, TypeOK, PcTyped, Actors
  <2> QED
    BY <2>1, <2>2 DEF SingleRun, InRun
<1>4. ASSUME NEW r \in Runners, ReleaseClaim(r) PROVE SingleRun'
  <2>1. /\ isRunning' = FALSE
        /\ pc[r] = "cleanup" /\ pc'[r] = "idle"
        /\ \A q \in Runners \ {r} : pc'[q] = pc[q]
    BY <1>4 DEF ReleaseClaim, Goto, TypeOK, PcTyped, Actors
  <2>2. \A q \in Runners \ {r} : ~InRun(q)
    BY <2>1 DEF SingleRun, InRun
  <2> QED
    BY <2>1, <2>2 DEF SingleRun, InRun
<1> QED
  BY <1>1, <1>2, <1>3, <1>4, CallerClaimKept, SuspensionClaimKept,
     RunnerClaimKept DEF Next, RunnerStep, RunnerInner

(* However many tasks call run_async, one at a time is between the claim   *)
(* and its release, and is_running is set exactly then (the                *)
(* compare_exchange in run_async and the store that ends it).              *)
THEOREM ClaimIsExclusive == Spec => []SingleRun
<1>1. Init => SingleRun
  BY ControlAssumption DEF Init, SingleRun, InRun, Actors
<1> QED
  BY <1>1, TypeCorrect, SingleRunStep, PTL DEF Spec

-----------------------------------------------------------------------------
(* The counters.  pause_seq and interrupt_seq only grow, and what a runner *)
(* has seen of them was loaded from them: "behind" is the same as          *)
(* "different", which is what pause_gate and take_interrupt test.          *)

SeqBound == \A r \in Runners : /\ thrownSeq[r] <= interruptSeq
                               /\ pauseSeen[r] <= pauseSeq

SeqMoves ==
    /\ pauseSeq' \in {pauseSeq, pauseSeq + 1}
    /\ interruptSeq' \in {interruptSeq, interruptSeq + 1}
    /\ \A q \in Runners : /\ pauseSeen'[q] \in {pauseSeen[q], pauseSeq}
                          /\ thrownSeq'[q] \in {thrownSeq[q], interruptSeq}

LEMMA SharedSeq ==
    ASSUME TypeOK, NEW a \in Actors,
           \/ SetManual(a) \/ Flag(a) \/ Count(a)
           \/ ClearManual(a) \/ Unflag(a) \/ Notify(a)
    PROVE  SeqMoves
BY DEF SeqMoves, SetManual, Flag, Count, ClearManual, Unflag, Notify

LEMMA CallerSeq ==
    ASSUME TypeOK, NEW c \in Callers, CallerStep(c) \/ CallerInner(c)
    PROVE  SeqMoves
<1>1. CASE CallerStep(c)
  BY <1>1 DEF SeqMoves, CallerStep, Begin, Pause, PauseDeferred, Resume,
     Abort, Halt, Stop, SigintTap
<1>2. CASE ClearStopping(c) \/ SetAborting(c) \/ CountInterrupt(c)
  BY <1>2 DEF SeqMoves, ClearStopping, SetAborting, CountInterrupt
<1> QED
  BY <1>1, <1>2, SharedSeq DEF CallerInner, Actors

LEMMA SuspensionSeq ==
    ASSUME TypeOK, NEW s \in Suspensions,
           SuspensionStep(s) \/ TurnGood(s) \/ SuspensionInner(s)
    PROVE  SeqMoves
<1>1. CASE \/ TurnBad(s) \/ TurnGood(s) \/ SuspendUntil(s)
           \/ WatcherTrip(s) \/ WatcherMiss(s)
  BY <1>1 DEF SeqMoves, TurnBad, TurnGood, SuspendUntil, WatcherTrip,
     WatcherMiss, BeginSuspend
<1>2. CASE \/ StorePending(s) \/ TakeHold(s) \/ LoadGen(s)
           \/ FutureResolved(s) \/ ReleaseGen(s) \/ ReleaseHold(s)
           \/ ReleaseManual(s)
  BY <1>2 DEF SeqMoves, StorePending, TakeHold, LoadGen, FutureResolved,
     ReleaseGen, ReleaseHold, ReleaseManual
<1> QED
  BY <1>1, <1>2, SharedSeq DEF SuspensionStep, SuspensionInner, Actors

LEMMA RunnerSeq ==
    ASSUME TypeOK, NEW r \in Runners, RunnerStep(r) \/ RunnerInner(r)
    PROVE  SeqMoves
<1>1. CASE Claim(r) \/ StartStep(r) \/ ReleaseClaim(r) \/ LoopTimeout(r)
  BY <1>1 DEF TypeOK, DataTyped, SeqMoves, Claim, StartStep, ResetInterrupts,
     ResetForRun, LoadPauseSeen, ClearDeferred, ClearSigint, SampleTripped,
     PassStartGate, ReleaseClaim, LoopTimeout
<1>2. CASE GateStep(r)
  BY <1>2 DEF TypeOK, DataTyped, SeqMoves, GateStep, GateTest, ArmPermit,
     Acknowledge, EnterPause, CheckPaused, Wakeup, Absorb, Woken, OnResume,
     AckPause
<1>3. CASE \/ ThrowBetweenMessages(r) \/ NoInterrupt(r) \/ PullMsg(r)
           \/ HandleReturns(r) \/ HandleCheckpoint(r)
           \/ CancelledByInterrupt(r) \/ CancelledByPause(r)
           \/ CancelledByNone(r) \/ ThrowError(r) \/ HandlePause(r)
  BY <1>3 DEF TypeOK, DataTyped, SeqMoves, ThrowBetweenMessages, NoInterrupt,
     PullMsg, HandleReturns, HandleCheckpoint, CancelledByInterrupt,
     CancelledByPause, CancelledByNone, ThrowError, HandlePause, TakeInterrupt
<1> QED
  BY <1>1, <1>2, <1>3, SharedSeq DEF RunnerStep, RunnerInner, LoopStep, Actors

LEMMA SeqStep == TypeOK /\ SeqBound /\ [Next]_vars => SeqBound'
<1> SUFFICES ASSUME TypeOK, SeqBound, [Next]_vars PROVE SeqBound'
  OBVIOUS
<1>1. CASE UNCHANGED vars
  BY <1>1 DEF vars, SeqBound
<1>2. CASE Next
  <2>1. SeqMoves
    BY <1>2, CallerSeq, SuspensionSeq, RunnerSeq DEF Next
  <2> QED
    BY <2>1 DEF SeqMoves, SeqBound, TypeOK, DataTyped
<1> QED
  BY <1>1, <1>2

LEMMA SeqInvariant == Spec => []SeqBound
<1>1. Init => SeqBound
  BY DEF Init, SeqBound
<1> QED
  BY <1>1, TypeCorrect, SeqStep, PTL DEF Spec

-----------------------------------------------------------------------------
(* Frames: what an actor leaves alone of a runner that is not itself.      *)

Apart(q) == /\ pc'[q] = pc[q]
            /\ owed'[q] = owed[q]
            /\ pauseSeen'[q] = pauseSeen[q]
            /\ thrownSeq'[q] = thrownSeq[q]

LEMMA SharedApart ==
    ASSUME TypeOK, NEW a \in Actors,
           \/ SetManual(a) \/ Flag(a) \/ Count(a)
           \/ ClearManual(a) \/ Unflag(a) \/ Notify(a),
           NEW q \in Runners \ {a}
    PROVE  Apart(q)
BY DEF TypeOK, PcTyped, Actors, Apart, Goto, SetManual, Flag, Count,
   ClearManual, Unflag, Notify

LEMMA CallerApart ==
    ASSUME TypeOK, NEW c \in Callers, CallerStep(c) \/ CallerInner(c),
           NEW q \in Runners
    PROVE  Apart(q)
<1>1. CASE CallerStep(c)
  BY <1>1, ControlAssumption
  DEF TypeOK, PcTyped, Actors, Apart, Goto, CallerStep, Begin, Pause,
      PauseDeferred, Resume, Abort, Halt, Stop, SigintTap
<1>2. CASE ClearStopping(c) \/ SetAborting(c) \/ CountInterrupt(c)
  BY <1>2, ControlAssumption
  DEF TypeOK, PcTyped, Actors, Apart, Goto, ClearStopping, SetAborting,
      CountInterrupt
<1> QED
  BY <1>1, <1>2, SharedApart, ControlAssumption DEF CallerInner, Actors

LEMMA SuspensionApart ==
    ASSUME TypeOK, NEW s \in Suspensions,
           SuspensionStep(s) \/ TurnGood(s) \/ SuspensionInner(s),
           NEW q \in Runners
    PROVE  Apart(q)
<1>1. CASE \/ TurnBad(s) \/ TurnGood(s) \/ SuspendUntil(s)
           \/ WatcherTrip(s) \/ WatcherMiss(s)
  BY <1>1, ControlAssumption
  DEF TypeOK, PcTyped, Actors, Apart, Goto, TurnBad, TurnGood, SuspendUntil,
      WatcherTrip, WatcherMiss, BeginSuspend
<1>2. CASE \/ StorePending(s) \/ TakeHold(s) \/ LoadGen(s)
           \/ FutureResolved(s) \/ ReleaseGen(s) \/ ReleaseHold(s)
           \/ ReleaseManual(s)
  BY <1>2, ControlAssumption
  DEF TypeOK, PcTyped, Actors, Apart, Goto, StorePending, TakeHold, LoadGen,
      FutureResolved, ReleaseGen, ReleaseHold, ReleaseManual
<1> QED
  BY <1>1, <1>2, SharedApart, ControlAssumption
  DEF SuspensionStep, SuspensionInner, Actors

LEMMA RunnerApart ==
    ASSUME TypeOK, NEW r \in Runners, RunnerStep(r) \/ RunnerInner(r),
           NEW q \in Runners \ {r}
    PROVE  Apart(q)
<1>1. CASE Claim(r) \/ StartStep(r) \/ ReleaseClaim(r) \/ LoopTimeout(r)
  BY <1>1
  DEF TypeOK, PcTyped, FlagsTyped, DataTyped, Actors, Apart, Goto, Claim,
      StartStep, ResetInterrupts, ResetForRun, LoadPauseSeen, ClearDeferred,
      ClearSigint, SampleTripped, PassStartGate, ReleaseClaim, LoopTimeout
<1>2. CASE GateStep(r)
  BY <1>2
  DEF TypeOK, PcTyped, FlagsTyped, DataTyped, Actors, Apart, Goto, GateStep,
      GateTest, ArmPermit, Acknowledge, EnterPause, CheckPaused, Wakeup,
      Absorb, Woken, OnResume, AckPause
<1>3. CASE \/ ThrowBetweenMessages(r) \/ NoInterrupt(r) \/ PullMsg(r)
           \/ HandleReturns(r) \/ HandleCheckpoint(r)
           \/ CancelledByInterrupt(r) \/ CancelledByPause(r)
           \/ CancelledByNone(r) \/ ThrowError(r) \/ HandlePause(r)
  BY <1>3
  DEF TypeOK, PcTyped, FlagsTyped, DataTyped, Actors, Apart, Goto,
      ThrowBetweenMessages, NoInterrupt, PullMsg, HandleReturns,
      HandleCheckpoint, CancelledByInterrupt, CancelledByPause,
      CancelledByNone, ThrowError, HandlePause, TakeInterrupt
<1> QED
  BY <1>1, <1>2, <1>3, SharedApart
  DEF RunnerStep, RunnerInner, LoopStep, Actors

-----------------------------------------------------------------------------
(* The owed message.  From the moment a pause cuts a message short until   *)
(* the replay is armed, the loop is inside the gate, on its way into it    *)
(* with the pause still counted as unseen, or out of it with an interrupt  *)
(* to take.                                                                *)

OwedAt(r) == owed[r] => \/ pc[r] \in GatePCs
                        \/ pc[r] = "top" /\ PausePending(r)
                        \/ pc[r] = "take" /\ InterruptPending(r)
OwedInv == \A r \in Runners : OwedAt(r)

LEMMA ApartOwed ==
    ASSUME TypeOK, SeqBound, SeqMoves, NEW q \in Runners, OwedAt(q), Apart(q)
    PROVE  OwedAt(q)'
BY DEF TypeOK, DataTyped, SeqBound, SeqMoves, OwedAt, Apart, PausePending,
   InterruptPending

LEMMA RunnerOwed ==
    ASSUME TypeOK, SeqBound, NEW r \in Runners, OwedAt(r),
           RunnerStep(r) \/ RunnerInner(r)
    PROVE  OwedAt(r)'
<1> USE DEF Goto, OwedAt, PausePending, InterruptPending, TypeOK, PcTyped,
        FlagsTyped, Actors, GatePCs
<1>1. CASE Claim(r) \/ StartStep(r) \/ ReleaseClaim(r)
  BY <1>1
  DEF Claim, StartStep, ResetInterrupts, ResetForRun, LoadPauseSeen,
      ClearDeferred, ClearSigint, SampleTripped, PassStartGate, ReleaseClaim
<1>2. CASE LoopTimeout(r) \/ OnResume(r)
  BY <1>2 DEF LoopTimeout, OnResume
<1>3. CASE GateTest(r) \/ ArmPermit(r) \/ Woken(r)
  BY <1>3 DEF GateTest, GateWanted, ArmPermit, Woken
<1>4. CASE \/ Acknowledge(r) \/ EnterPause(r) \/ CheckPaused(r)
           \/ Wakeup(r) \/ Absorb(r)
  BY <1>4 DEF Acknowledge, EnterPause, CheckPaused, Wakeup, Absorb
<1>5. CASE ThrowBetweenMessages(r) \/ CancelledByInterrupt(r)
  BY <1>5 DEF ThrowBetweenMessages, CancelledByInterrupt, TakeInterrupt
<1>6. CASE CancelledByPause(r)
  BY <1>6 DEF CancelledByPause
<1>7. CASE \/ NoInterrupt(r) \/ PullMsg(r) \/ HandleReturns(r)
           \/ HandleCheckpoint(r) \/ CancelledByNone(r) \/ ThrowError(r)
           \/ HandlePause(r)
  BY <1>7
  DEF NoInterrupt, PullMsg, HandleReturns, HandleCheckpoint,
      CancelledByNone, ThrowError, HandlePause
<1>8. CASE \/ SetManual(r) \/ Flag(r) \/ Count(r)
           \/ ClearManual(r) \/ Unflag(r) \/ Notify(r)
  BY <1>8 DEF SetManual, Flag, Count, ClearManual, Unflag, Notify
<1> QED
  BY <1>1, <1>2, <1>3, <1>4, <1>5, <1>6, <1>7, <1>8
  DEF RunnerStep, RunnerInner, GateStep, LoopStep

LEMMA OwedStep ==
    TypeOK /\ SeqBound /\ OwedInv /\ [Next]_vars => OwedInv'
<1> SUFFICES ASSUME TypeOK, SeqBound, OwedInv, [Next]_vars,
                    NEW q \in Runners
             PROVE  OwedAt(q)'
  BY DEF OwedInv
<1> OwedAt(q)
  BY DEF OwedInv
<1>1. CASE UNCHANGED vars
  BY <1>1 DEF vars, OwedAt, PausePending, InterruptPending
<1>2. ASSUME NEW c \in Callers, CallerStep(c) \/ CallerInner(c)
      PROVE  OwedAt(q)'
  BY <1>2, CallerApart, CallerSeq, ApartOwed
<1>3. ASSUME NEW s \in Suspensions,
             SuspensionStep(s) \/ TurnGood(s) \/ SuspensionInner(s)
      PROVE  OwedAt(q)'
  BY <1>3, SuspensionApart, SuspensionSeq, ApartOwed
<1>4. ASSUME NEW r \in Runners, RunnerStep(r) \/ RunnerInner(r)
      PROVE  OwedAt(q)'
  BY <1>4, RunnerApart, RunnerSeq, ApartOwed, RunnerOwed
<1> QED
  BY <1>1, <1>2, <1>3, <1>4 DEF Next

(* pause_gate and run_loop: a message that a pause cut short is replayed   *)
(* or thrown away with the plan's interrupt, never skipped by a loop that  *)
(* pulls the next one, however the resume races the loop to the gate.      *)
THEOREM OwedMessageReplayed == Spec => []InterruptedMsgReplayed
<1>1. Init => OwedInv
  BY DEF Init, OwedInv, OwedAt
<1>2. OwedInv => InterruptedMsgReplayed
  BY DEF OwedInv, OwedAt, InterruptedMsgReplayed, GatePCs
<1> QED
  BY <1>1, <1>2, TypeCorrect, SeqInvariant, OwedStep, PTL DEF Spec

-----------------------------------------------------------------------------
(* The token.  A cancelled token is explained by a request this run has    *)
(* not consumed, from the renewal of the token in reset_for_run to the end *)
(* of the loop.                                                            *)

TokenPCs == LoopPCs \cup {"clrDeferred", "clrSigint", "sample", "startGate"}

TokenAt(r) ==
    tokenCancelled /\ ~lateCount =>
        /\ pc[r] = "ldPauseSeen" => InterruptPending(r)
        /\ pc[r] \in TokenPCs => PausePending(r) \/ InterruptPending(r)
TokenInv == \A r \in Runners : TokenAt(r)

(* The steps that leave the token and its two counts alone. *)
TokenKept == UNCHANGED <<tokenCancelled, lateCount, pauseSeq, interruptSeq>>

LEMMA KeptToken ==
    ASSUME TokenKept, NEW q \in Runners, TokenAt(q), Apart(q)
    PROVE  TokenAt(q)'
BY DEF TokenKept, TokenAt, Apart, PausePending, InterruptPending

LEMMA CallerToken ==
    ASSUME TypeOK, NEW c \in Callers, CallerStep(c) \/ CallerInner(c)
    PROVE  TokenKept \/ Count(c) \/ CountInterrupt(c)
<1>1. CASE CallerStep(c)
  BY <1>1 DEF TokenKept, CallerStep, Begin, Pause, PauseDeferred, Resume,
     Abort, Halt, Stop, SigintTap
<1>2. CASE CallerInner(c)
  BY <1>2 DEF TokenKept, CallerInner, ClearStopping, SetAborting, SetManual,
     Flag, ClearManual, Unflag, Notify
<1> QED
  BY <1>1, <1>2

LEMMA SuspensionToken ==
    ASSUME TypeOK, NEW s \in Suspensions,
           SuspensionStep(s) \/ TurnGood(s) \/ SuspensionInner(s)
    PROVE  TokenKept \/ Count(s)
BY DEF TokenKept, SuspensionStep, TurnGood, SuspensionInner, TurnBad,
   SuspendUntil, WatcherTrip, WatcherMiss, BeginSuspend, StorePending,
   TakeHold, LoadGen, FutureResolved, ReleaseGen, ReleaseHold, ReleaseManual,
   Flag, Unflag, Notify

(* A pause or an interrupt counted by an actor that is not the runner. *)
LEMMA CountedToken ==
    ASSUME TypeOK, SeqBound, NEW q \in Runners, Apart(q), NEW a,
           Count(a) \/ CountInterrupt(a)
    PROVE  TokenAt(q)'
<1> USE DEF TokenAt, Apart, PausePending, InterruptPending, SeqBound, TypeOK,
        DataTyped
<1>1. CASE Count(a)
  <2>1. pauseSeq' # pauseSeen'[q]
    BY <1>1 DEF Count
  <2>2. pc[q] = "ldPauseSeen" => lateCount'
    BY <1>1 DEF Count
  <2> QED
    BY <2>1, <2>2 DEF TokenPCs, LoopPCs, GatePCs, SelfPCs
<1>2. CASE CountInterrupt(a)
  <2>1. interruptSeq' # thrownSeq'[q]
    BY <1>2 DEF CountInterrupt
  <2> QED
    BY <2>1
<1> QED
  BY <1>1, <1>2

(* Two runs never overlap, so a step of one runner leaves the others idle. *)
LEMMA OthersIdle ==
    ASSUME TypeOK, SingleRun, SingleRun', NEW r \in Runners,
           RunnerStep(r) \/ RunnerInner(r), NEW q \in Runners \ {r}
    PROVE  pc[q] = "idle" /\ pc'[q] = "idle"
<1>1. pc'[q] = pc[q]
  BY RunnerApart DEF Apart
<1>2. pc[r] # "idle" \/ pc'[r] # "idle"
  <2>1. CASE Claim(r)
    BY <2>1 DEF Claim, Goto, TypeOK, PcTyped, Actors
  <2>2. CASE ~Claim(r)
    BY <2>2
    DEF RunnerStep, RunnerInner, Goto, HandlePause, LoopTimeout, AwaitPCs,
        ReleaseClaim, StartStep, ResetInterrupts,
        ResetForRun, LoadPauseSeen, ClearDeferred, ClearSigint,
        SampleTripped, PassStartGate, GateStep, GateTest, ArmPermit,
        Acknowledge, EnterPause, CheckPaused, Wakeup, Absorb, Woken, OnResume,
        LoopStep, ThrowBetweenMessages, NoInterrupt, PullMsg, HandleReturns,
        HandleCheckpoint, CancelledByInterrupt, CancelledByPause,
        CancelledByNone, ThrowError, SetManual, Flag, Count, ClearManual,
        Unflag, Notify
  <2> QED
    BY <2>1, <2>2
<1> QED
  BY <1>1, <1>2 DEF SingleRun, InRun

LEMMA RunnerToken ==
    ASSUME TypeOK, SeqBound, NEW r \in Runners, TokenAt(r),
           RunnerStep(r) \/ RunnerInner(r)
    PROVE  TokenAt(r)'
<1> USE DEF Goto, TokenAt, PausePending, InterruptPending, TypeOK, PcTyped,
        DataTyped, Actors, TokenPCs, LoopPCs, GatePCs, SelfPCs
<1>1. CASE Claim(r) \/ ReleaseClaim(r) \/ LoopTimeout(r) \/ ResetInterrupts(r)
  <2>1. pc'[r] \notin TokenPCs \cup {"ldPauseSeen"}
    BY <1>1 DEF Claim, ReleaseClaim, LoopTimeout, ResetInterrupts
  <2> QED
    BY <2>1, Zenon
<1>2. CASE ResetForRun(r)
  BY <1>2 DEF ResetForRun
<1>3. CASE \/ LoadPauseSeen(r) \/ ClearDeferred(r) \/ ClearSigint(r)
           \/ SampleTripped(r) \/ PassStartGate(r)
  BY <1>3 DEF LoadPauseSeen, ClearDeferred, ClearSigint, SampleTripped,
     PassStartGate
<1>4. CASE Acknowledge(r) \/ Absorb(r)
  BY <1>4 DEF Acknowledge, Absorb, AckPause
<1>5. CASE \/ GateTest(r) \/ ArmPermit(r) \/ EnterPause(r) \/ CheckPaused(r)
           \/ Wakeup(r) \/ Woken(r) \/ OnResume(r)
  BY <1>5 DEF GateTest, ArmPermit, EnterPause, CheckPaused, Wakeup, Woken,
     OnResume
<1>6. CASE ThrowBetweenMessages(r) \/ CancelledByInterrupt(r)
  BY <1>6 DEF ThrowBetweenMessages, CancelledByInterrupt, TakeInterrupt
<1>7. CASE \/ NoInterrupt(r) \/ PullMsg(r) \/ HandleReturns(r)
           \/ HandleCheckpoint(r) \/ CancelledByPause(r)
           \/ CancelledByNone(r) \/ ThrowError(r) \/ HandlePause(r)
  BY <1>7 DEF NoInterrupt, PullMsg, HandleReturns, HandleCheckpoint,
     CancelledByPause, CancelledByNone, ThrowError, HandlePause
<1>8. CASE SetManual(r) \/ Flag(r) \/ ClearManual(r) \/ Unflag(r) \/ Notify(r)
  BY <1>8, ControlAssumption
  DEF SetManual, Flag, ClearManual, Unflag, Notify, AfterWake
<1>9. CASE Count(r)
  BY <1>9 DEF Count, AfterMark, SeqBound
<1> QED
  BY <1>1, <1>2, <1>3, <1>4, <1>5, <1>6, <1>7, <1>8, <1>9
  DEF RunnerStep, RunnerInner, StartStep, GateStep, LoopStep

LEMMA TokenStep ==
    /\ TypeOK /\ SeqBound /\ SingleRun /\ TokenInv
    /\ [Next]_vars /\ SingleRun'
    => TokenInv'
<1> SUFFICES ASSUME TypeOK, SeqBound, SingleRun, TokenInv, [Next]_vars,
                    SingleRun', NEW q \in Runners
             PROVE  TokenAt(q)'
  BY DEF TokenInv
<1> TokenAt(q)
  BY DEF TokenInv
<1>1. CASE UNCHANGED vars
  BY <1>1 DEF vars, TokenAt, PausePending, InterruptPending
<1>2. ASSUME NEW c \in Callers, CallerStep(c) \/ CallerInner(c)
      PROVE  TokenAt(q)'
  BY <1>2, CallerApart, CallerToken, KeptToken, CountedToken
<1>3. ASSUME NEW s \in Suspensions,
             SuspensionStep(s) \/ TurnGood(s) \/ SuspensionInner(s)
      PROVE  TokenAt(q)'
  BY <1>3, SuspensionApart, SuspensionToken, KeptToken, CountedToken
<1>4. ASSUME NEW r \in Runners, RunnerStep(r) \/ RunnerInner(r)
      PROVE  TokenAt(q)'
  <2>1. CASE q = r
    BY <1>4, <2>1, RunnerToken
  <2>2. CASE q # r
    <3>1. pc'[q] = "idle"
      BY <1>4, <2>2, OthersIdle
    <3> QED
      BY <3>1 DEF TokenAt, TokenPCs, LoopPCs, GatePCs, SelfPCs
  <2> QED
    BY <2>1, <2>2
<1> QED
  BY <1>1, <1>2, <1>3, <1>4 DEF Next

(* "the loop never observes the cancelled token without the count that     *)
(* explains it": request_interrupt, mark_paused, ack_pause and             *)
(* take_interrupt keep the token and the counts in step under the token    *)
(* lock, except for the pause counted in the window that lateCount marks.  *)
THEOREM TokenHasReason == Spec => []TokenExplained
<1>1. Init => TokenInv
  BY DEF Init, TokenInv, TokenAt
<1>2. TokenInv => TokenExplained
  BY DEF TokenInv, TokenAt, TokenExplained, TokenPCs, InLoop
<1> QED
  BY <1>1, <1>2, TypeCorrect, SeqInvariant, ClaimIsExclusive, TokenStep, PTL
  DEF Spec

-----------------------------------------------------------------------------
(* The wakeup.  The permit is armed from before the loop looks at          *)
(* is_paused until it has left the park, and whoever clears is_paused      *)
(* still has its notify_waiters ahead.                                     *)

WakeAt(r) ==
    /\ pc[r] \in {"ack", "enter", "check", "parked"} =>
           waiter[r] \in {"armed", "notified"}
    /\ pc[r] = "parked" /\ ~isPaused =>
           waiter[r] = "notified" \/ \E a \in Actors : pc[a] = "notify"
WakeInv == \A r \in Runners : WakeAt(r)

WakeKept == /\ UNCHANGED waiter
            /\ ~isPaused' => ~isPaused
            /\ \A a \in Actors : pc[a] = "notify" => pc'[a] = "notify"

LEMMA CallerWake ==
    ASSUME TypeOK, NEW c \in Callers, CallerStep(c) \/ CallerInner(c)
    PROVE  WakeKept \/ Unflag(c) \/ Notify(c)
<1>1. CASE CallerStep(c)
  BY <1>1 DEF TypeOK, PcTyped, FlagsTyped, WakeKept, Goto, CallerStep, Begin,
     Pause, PauseDeferred, Resume, Abort, Halt, Stop, SigintTap
<1>2. CASE CallerInner(c)
  BY <1>2 DEF TypeOK, PcTyped, FlagsTyped, WakeKept, Goto, CallerInner,
     ClearStopping, SetAborting, CountInterrupt, SetManual, Flag, Count,
     ClearManual
<1> QED
  BY <1>1, <1>2

LEMMA SuspensionWake ==
    ASSUME TypeOK, NEW s \in Suspensions,
           SuspensionStep(s) \/ TurnGood(s) \/ SuspensionInner(s)
    PROVE  WakeKept \/ Unflag(s) \/ Notify(s)
<1> USE DEF TypeOK, PcTyped, FlagsTyped, WakeKept, Goto
<1>1. CASE \/ TurnBad(s) \/ TurnGood(s) \/ SuspendUntil(s)
           \/ WatcherTrip(s) \/ WatcherMiss(s)
  BY <1>1
  DEF TurnBad, TurnGood, SuspendUntil, WatcherTrip, WatcherMiss, BeginSuspend
<1>2. CASE \/ StorePending(s) \/ TakeHold(s) \/ LoadGen(s)
           \/ FutureResolved(s) \/ ReleaseGen(s) \/ ReleaseHold(s)
           \/ ReleaseManual(s)
  BY <1>2
  DEF StorePending, TakeHold, LoadGen, FutureResolved, ReleaseGen,
      ReleaseHold, ReleaseManual
<1>3. CASE Flag(s) \/ Count(s)
  BY <1>3 DEF Flag, Count
<1> QED
  BY <1>1, <1>2, <1>3 DEF SuspensionStep, SuspensionInner

(* Another actor's step, of any of the three kinds. *)
LEMMA ApartWake ==
    ASSUME TypeOK, NEW q \in Runners, WakeAt(q), Apart(q), NEW a \in Actors,
           WakeKept \/ Unflag(a) \/ Notify(a)
    PROVE  WakeAt(q)'
<1>1. CASE WakeKept
  BY <1>1 DEF WakeKept, WakeAt, Apart
<1>2. CASE Unflag(a)
  <2>1. pc'[a] = "notify"
    BY <1>2 DEF Unflag, Goto, TypeOK, PcTyped
  <2> QED
    BY <1>2, <2>1 DEF Unflag, WakeAt, Apart
<1>3. CASE Notify(a)
  BY <1>3 DEF Notify, NotifyWaiters, WakeAt, Apart, TypeOK, DataTyped
<1> QED
  BY <1>1, <1>2, <1>3

LEMMA RunnerWake ==
    ASSUME TypeOK, NEW r \in Runners, WakeAt(r),
           RunnerStep(r) \/ RunnerInner(r)
    PROVE  WakeAt(r)'
<1> USE DEF Goto, TypeOK, PcTyped, DataTyped, Actors, WakeAt
<1>1. CASE ArmPermit(r) \/ Acknowledge(r) \/ EnterPause(r)
  BY <1>1 DEF ArmPermit, EnabledWaiter, Acknowledge, EnterPause
<1>2. CASE CheckPaused(r)
  BY <1>2 DEF CheckPaused
<1>3. CASE \/ Claim(r) \/ ReleaseClaim(r) \/ LoopTimeout(r) \/ StartStep(r)
           \/ GateTest(r) \/ Wakeup(r) \/ Absorb(r) \/ Woken(r) \/ OnResume(r)
           \/ LoopStep(r) \/ HandlePause(r)
  <2>1. pc'[r] \notin {"ack", "enter", "check", "parked"}
    <3>1. CASE Claim(r) \/ ReleaseClaim(r) \/ LoopTimeout(r) \/ StartStep(r)
      BY <3>1
      DEF Claim, ReleaseClaim, LoopTimeout, StartStep, ResetInterrupts,
          ResetForRun, LoadPauseSeen, ClearDeferred, ClearSigint,
          SampleTripped, PassStartGate
    <3>2. CASE \/ GateTest(r) \/ Wakeup(r) \/ Absorb(r) \/ Woken(r)
               \/ OnResume(r)
      BY <3>2 DEF GateTest, Wakeup, Absorb, Woken, OnResume
    <3>3. CASE LoopStep(r) \/ HandlePause(r)
      BY <3>3
      DEF LoopStep, ThrowBetweenMessages, NoInterrupt, PullMsg,
          HandleReturns, HandleCheckpoint, CancelledByInterrupt,
          CancelledByPause, CancelledByNone, ThrowError, HandlePause,
          TakeInterrupt, SetManual, Flag, Count, ClearManual, Unflag, Notify,
          AfterMark, AfterWake
    <3> QED
      BY <1>3, <3>1, <3>2, <3>3
  <2> QED
    BY <2>1
<1> QED
  BY <1>1, <1>2, <1>3 DEF RunnerStep, RunnerInner, GateStep

LEMMA WakeStep ==
    /\ TypeOK /\ SingleRun /\ WakeInv
    /\ [Next]_vars /\ SingleRun'
    => WakeInv'
<1> SUFFICES ASSUME TypeOK, SingleRun, WakeInv, [Next]_vars, SingleRun',
                    NEW q \in Runners
             PROVE  WakeAt(q)'
  BY DEF WakeInv
<1> WakeAt(q)
  BY DEF WakeInv
<1>1. CASE UNCHANGED vars
  BY <1>1 DEF vars, WakeAt
<1>2. ASSUME NEW c \in Callers, CallerStep(c) \/ CallerInner(c)
      PROVE  WakeAt(q)'
  BY <1>2, CallerApart, CallerWake, ApartWake DEF Actors
<1>3. ASSUME NEW s \in Suspensions,
             SuspensionStep(s) \/ TurnGood(s) \/ SuspensionInner(s)
      PROVE  WakeAt(q)'
  BY <1>3, SuspensionApart, SuspensionWake, ApartWake DEF Actors
<1>4. ASSUME NEW r \in Runners, RunnerStep(r) \/ RunnerInner(r)
      PROVE  WakeAt(q)'
  <2>1. CASE q = r
    BY <1>4, <2>1, RunnerWake
  <2>2. CASE q # r
    <3>1. pc'[q] = "idle"
      BY <1>4, <2>2, OthersIdle
    <3> QED
      BY <3>1 DEF WakeAt
  <2> QED
    BY <2>1, <2>2
<1> QED
  BY <1>1, <1>2, <1>3, <1>4 DEF Next

(* pause_gate enables its permit before it tests is_paused: although       *)
(* notify_waiters stores nothing, a loop parked with is_paused clear has   *)
(* its wakeup delivered or still to come, for any number of pausers,       *)
(* resumers and releases.                                                  *)
THEOREM WakeupNotLost == Spec => []NoLostWakeup
<1>1. Init => WakeInv
  BY DEF Init, WakeInv, WakeAt, Actors
<1>2. WakeInv => NoLostWakeup
  BY DEF WakeInv, WakeAt, NoLostWakeup
<1> QED
  BY <1>1, <1>2, TypeCorrect, ClaimIsExclusive, WakeStep, PTL DEF Spec

-----------------------------------------------------------------------------
(* The start gate.  A watcher that saw a trip while no run was in progress *)
(* requests nothing until the condition clears: until then, no runner is   *)
(* past the gate, and a gate that was sampled waits for that condition.    *)

MissAt(s, r) ==
    pc[s] = "missed" =>
        /\ s \in bad
        /\ pc[r] \in {"idle"} \cup StartPCs
        /\ pc[r] = "startGate" => s \in startGate[r]
MissInv == \A s \in Suspensions, r \in Runners : MissAt(s, r)

LEMMA CallerMiss ==
    ASSUME TypeOK, NEW c \in Callers, CallerStep(c) \/ CallerInner(c)
    PROVE  /\ UNCHANGED <<bad, startGate>>
           /\ \A s \in Suspensions : pc'[s] = pc[s]
<1> USE ControlAssumption DEF TypeOK, PcTyped, Actors, Goto
<1>1. CASE CallerStep(c)
  BY <1>1 DEF CallerStep, Begin, Pause, PauseDeferred, Resume, Abort, Halt,
     Stop, SigintTap
<1>2. CASE CallerInner(c)
  BY <1>2 DEF CallerInner, ClearStopping, SetAborting, CountInterrupt,
     SetManual, Flag, Count, ClearManual, Unflag, Notify
<1> QED
  BY <1>1, <1>2

LEMMA RunnerMiss ==
    ASSUME TypeOK, NEW r \in Runners, RunnerStep(r) \/ RunnerInner(r)
    PROVE  /\ UNCHANGED bad
           /\ \A s \in Suspensions : pc'[s] = pc[s]
           /\ \A q \in Runners \ {r} : startGate'[q] = startGate[q]
<1> USE ControlAssumption DEF TypeOK, PcTyped, DataTyped, Actors, Goto
<1>1. CASE Claim(r) \/ StartStep(r) \/ ReleaseClaim(r) \/ LoopTimeout(r)
  BY <1>1 DEF Claim, StartStep, ResetInterrupts, ResetForRun, LoadPauseSeen,
     ClearDeferred, ClearSigint, SampleTripped, PassStartGate, ReleaseClaim,
     LoopTimeout
<1>2. CASE GateStep(r)
  BY <1>2 DEF GateStep, GateTest, ArmPermit, Acknowledge, EnterPause,
     CheckPaused, Wakeup, Absorb, Woken, OnResume
<1>3. CASE LoopStep(r) \/ HandlePause(r)
  BY <1>3 DEF LoopStep, ThrowBetweenMessages, NoInterrupt, PullMsg,
     HandleReturns, HandleCheckpoint, CancelledByInterrupt, CancelledByPause,
     CancelledByNone, ThrowError, HandlePause, TakeInterrupt, SetManual, Flag,
     Count, ClearManual, Unflag, Notify
<1> QED
  BY <1>1, <1>2, <1>3 DEF RunnerStep, RunnerInner

(* The runner whose position is in question takes a step. *)
LEMMA RunnerMissOwn ==
    ASSUME TypeOK, NEW r \in Runners, RunnerStep(r) \/ RunnerInner(r),
           NEW s \in Suspensions, MissAt(s, r)
    PROVE  MissAt(s, r)'
<1>1. pc'[s] = pc[s] /\ bad' = bad
  BY RunnerMiss
<1> SUFFICES ASSUME pc[s] = "missed"
             PROVE  /\ pc'[r] \in {"idle"} \cup StartPCs
                    /\ pc'[r] = "startGate" => s \in startGate'[r]
  BY <1>1 DEF MissAt
<1> USE DEF TypeOK, PcTyped, DataTyped, Actors, Goto, MissAt, StartPCs
<1>2. CASE Claim(r) \/ ResetInterrupts(r) \/ ResetForRun(r)
  BY <1>2 DEF Claim, ResetInterrupts, ResetForRun
<1>3. CASE LoadPauseSeen(r) \/ ClearDeferred(r) \/ ClearSigint(r)
  BY <1>3 DEF LoadPauseSeen, ClearDeferred, ClearSigint
<1>4. CASE SampleTripped(r) \/ PassStartGate(r)
  BY <1>4 DEF SampleTripped, Tripped, PassStartGate
<1>5. CASE GateStep(r) \/ LoopTimeout(r) \/ ReleaseClaim(r)
  BY <1>5 DEF GateStep, GateTest, ArmPermit, Acknowledge, EnterPause,
     CheckPaused, Wakeup, Absorb, Woken, OnResume, LoopTimeout, AwaitPCs,
     ReleaseClaim
<1>6. CASE LoopStep(r) \/ HandlePause(r)
  BY <1>6 DEF LoopStep, ThrowBetweenMessages, NoInterrupt, PullMsg,
     HandleReturns, HandleCheckpoint, CancelledByInterrupt, CancelledByPause,
     CancelledByNone, ThrowError, HandlePause, SetManual, Flag, Count,
     ClearManual, Unflag, Notify
<1> QED
  BY <1>2, <1>3, <1>4, <1>5, <1>6 DEF RunnerStep, RunnerInner, StartStep

LEMMA SuspensionMiss ==
    ASSUME TypeOK, SingleRun, NEW t \in Suspensions,
           SuspensionStep(t) \/ TurnGood(t) \/ SuspensionInner(t),
           NEW s \in Suspensions, NEW r \in Runners, MissAt(s, r)
    PROVE  MissAt(s, r)'
<1>1. pc'[r] = pc[r]
  BY SuspensionApart DEF Apart
<1> USE DEF TypeOK, PcTyped, DataTyped, Actors, Goto, MissAt
<1>2. CASE TurnBad(t) \/ TurnGood(t)
  BY <1>1, <1>2 DEF TurnBad, TurnGood
<1>3. CASE WatcherMiss(t)
  <2>1. pc[r] = "idle"
    BY <1>3 DEF WatcherMiss, SingleRun, InRun
  <2> QED
    BY <1>1, <1>3, <2>1 DEF WatcherMiss
<1>4. CASE \/ SuspendUntil(t) \/ WatcherTrip(t)
           \/ StorePending(t) \/ TakeHold(t) \/ LoadGen(t)
  BY <1>1, <1>4 DEF SuspendUntil, WatcherTrip, BeginSuspend, StorePending,
     TakeHold, LoadGen
<1>5. CASE \/ FutureResolved(t) \/ ReleaseGen(t) \/ ReleaseHold(t)
           \/ ReleaseManual(t) \/ Flag(t) \/ Count(t) \/ Unflag(t) \/ Notify(t)
  BY <1>1, <1>5, ControlAssumption
  DEF FutureResolved, ReleaseGen, ReleaseHold, ReleaseManual, Flag, Count,
      Unflag, Notify, AfterMark, AfterWake
<1> QED
  BY <1>2, <1>3, <1>4, <1>5 DEF SuspensionStep, SuspensionInner

LEMMA MissStep ==
    TypeOK /\ SingleRun /\ MissInv /\ [Next]_vars => MissInv'
<1> SUFFICES ASSUME TypeOK, SingleRun, MissInv, [Next]_vars,
                    NEW s \in Suspensions, NEW q \in Runners
             PROVE  MissAt(s, q)'
  BY DEF MissInv
<1> MissAt(s, q)
  BY DEF MissInv
<1>1. CASE UNCHANGED vars
  BY <1>1 DEF vars, MissAt
<1>2. ASSUME NEW c \in Callers, CallerStep(c) \/ CallerInner(c)
      PROVE  MissAt(s, q)'
  BY <1>2, CallerApart, CallerMiss DEF Apart, MissAt
<1>3. ASSUME NEW t \in Suspensions,
             SuspensionStep(t) \/ TurnGood(t) \/ SuspensionInner(t)
      PROVE  MissAt(s, q)'
  BY <1>3, SuspensionMiss
<1>4. ASSUME NEW r \in Runners, RunnerStep(r) \/ RunnerInner(r)
      PROVE  MissAt(s, q)'
  <2>1. CASE q = r
    BY <1>4, <2>1, RunnerMissOwn
  <2>2. CASE q # r
    BY <1>4, <2>2, RunnerApart, RunnerMiss DEF Apart, MissAt
  <2> QED
    BY <2>1, <2>2
<1> QED
  BY <1>1, <1>2, <1>3, <1>4 DEF Next

(* register_suspender's watcher drops a trip that finds no run in          *)
(* progress; run_async's start gate makes up for it: no loop runs while    *)
(* the condition that was dropped is still bad, wherever between claim and *)
(* sample the trip fell.                                                   *)
THEOREM StartGateHolds == Spec => []StartGateCovers
<1>1. Init => MissInv
  BY DEF Init, MissInv, MissAt, Actors
<1>2. MissInv => StartGateCovers
  BY DEF MissInv, MissAt, StartGateCovers, InLoop, LoopPCs, GatePCs, SelfPCs,
     StartPCs
<1> QED
  BY <1>1, <1>2, TypeCorrect, ClaimIsExclusive, MissStep, PTL DEF Spec

=============================================================================
