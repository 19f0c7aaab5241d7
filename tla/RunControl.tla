----------------------------- MODULE RunControl -----------------------------
(***************************************************************************)
(* The control plane of the bsrs RunEngine (engine/run_engine.rs): the     *)
(* flags, counters, wakeups and the cancellation token through which a     *)
(* pause, a resume, a suspension or an interrupt (stop, abort, halt)       *)
(* reaches the run loop, at the granularity of the code's atomic           *)
(* operations.  Four kinds of actor share this state:                      *)
(*                                                                         *)
(*   Runners      tasks that call run_async: claim the engine, reset it,   *)
(*                pass the start gate, run the message loop, clean up;     *)
(*   Callers      threads that call pause / resume / stop / abort / halt,  *)
(*                and the SIGINT task that makes such calls;               *)
(*   Suspensions  request_suspend and the task it spawns: one slot per     *)
(*                suspension that may be in flight;                        *)
(*   the environment, which turns a suspender's condition bad or good.     *)
(*                                                                         *)
(* pc[a] names the next atomic operation of actor a.  mark_paused ("flag", *)
(* "count") and wake ("unflag", "notify") are shared by every kind of      *)
(* actor, as in the code.  A critical section of the token mutex is one    *)
(* step.  What a message does to devices and documents is left to          *)
(* RunEngine.tla: here a message runs, may be cancelled through the token, *)
(* may fail, or is one of the messages that touch the control plane.       *)
(***************************************************************************)
EXTENDS Naturals, FiniteSets

CONSTANTS
    Runners, Callers, Suspensions,
    None,            \* "no suspension": Option::None
    Ops,             \* the calls Callers make: a subset of CallerOps
    Budget,          \* bound: pause, resume, interrupt and suspend requests
    MaxRuns,         \* bound: run_async calls that claim the engine
    QuietStart,      \* TRUE: no request is in progress while a run starts
    HasLoopTimeout   \* set_loop_timeout was called with Some(d)

CallerOps == {"pause", "defer", "resume", "abort", "halt", "stop", "sigint"}

ASSUME ControlAssumption ==
    /\ Runners \cap Callers = {}
    /\ Runners \cap Suspensions = {}
    /\ Callers \cap Suspensions = {}
    /\ None \notin Suspensions
    /\ Ops \subseteq CallerOps
    /\ Budget \in Nat
    /\ MaxRuns \in Nat
    /\ QuietStart \in BOOLEAN
    /\ HasLoopTimeout \in BOOLEAN

Actors == Runners \cup Callers \cup Suspensions

VARIABLES
    pc,
    \* struct RunControl
    isRunning, isPaused, tokenCancelled, pauseSeq, pendingSuspend, holds,
    manualPause, runGen,
    \* the RunEngine's own atomics
    deferredPause, isAborting, isHalting, isStopping, interruptSeq,
    sigintCount, sigintAlive,
    \* locals of run_async / run_loop / pause_gate
    thrownSeq, pauseSeen, waiter, startGate,
    \* the generation a suspension carries, and the watched conditions
    gen, bad,
    budget,
    \* history: a message was cut short by a pause and awaits its replay; a
    \* pause was counted between the token's renewal and the load of
    \* pause_seen; the suspension a gate pass left untaken although its
    \* request had been counted
    owed, lateCount, absorbed

flagVars   == <<isPaused, manualPause>>
tokenVars  == <<tokenCancelled, pauseSeq, interruptSeq>>
suspVars   == <<pendingSuspend, holds, gen, bad>>
intrVars   == <<isAborting, isHalting, isStopping>>
sigVars    == <<sigintCount, sigintAlive>>
localVars  == <<thrownSeq, pauseSeen, waiter, startGate>>
histVars   == <<owed, lateCount, absorbed>>
vars == <<pc, isRunning, runGen, deferredPause, budget, flagVars, tokenVars,
          suspVars, intrVars, sigVars, localVars, histVars>>

(* Where a runner can be. *)
StartPCs == {"clrAborting", "clrHalting", "clrStopping", "ldThrown", "incGen",
             "clrPaused", "clrManual", "clrHolds", "clrPending", "newToken",
             "ldPauseSeen", "clrDeferred", "clrSigint", "sample", "startGate"}
GatePCs  == {"arm", "ack", "enter", "check", "parked", "absorb", "woken",
             "resume"}
SelfPCs  == {"manual", "flag", "count", "unmanual", "unflag", "notify"}
LoopPCs  == {"top", "take", "pull", "handle", "cancelled", "failed"}
            \cup GatePCs \cup SelfPCs
EndPCs   == {"cleanup"}
AwaitPCs == {"check", "parked", "take", "resume", "pull", "handle", "failed"}
RunnerPCs == {"idle"} \cup StartPCs \cup LoopPCs \cup EndPCs

(* Where a caller and a suspension can be. *)
CallerPCs == {"idle", "unstop", "setAborting", "interrupt"} \cup SelfPCs
SuspensionPCs == {"idle", "missed", "pend", "hold", "ldGen", "flag", "count", "held",
                  "relGen", "relHold", "relManual", "unflag", "notify"}

InRun(r)    == pc[r] # "idle"
Starting(r) == pc[r] \in StartPCs
InLoop(r)   == pc[r] \in LoopPCs

(* Is actor a between two atomic operations of one control operation? *)
MidOp(a) == pc[a] \in (CallerPCs \cup SuspensionPCs)
                     \ {"idle", "missed", "held"}

(* A request may begin: the bound is not used up and, under QuietStart, no *)
(* run is starting.                                                        *)
MayRequest == /\ budget > 0
              /\ QuietStart => \A r \in Runners : ~Starting(r)

Goto(a, from, to) == /\ pc[a] = from
                     /\ pc' = [pc EXCEPT ![a] = to]

Init ==
    /\ pc = [a \in Actors |-> "idle"]
    /\ isRunning = FALSE /\ isPaused = FALSE /\ manualPause = FALSE
    /\ tokenCancelled = FALSE /\ pauseSeq = 0 /\ interruptSeq = 0
    /\ pendingSuspend = None /\ holds = 0 /\ runGen = 0
    /\ gen = [s \in Suspensions |-> 0] /\ bad = {}
    /\ deferredPause = FALSE
    /\ isAborting = FALSE /\ isHalting = FALSE /\ isStopping = FALSE
    /\ sigintCount = 0 /\ sigintAlive = ("sigint" \in Ops)
    /\ thrownSeq = [r \in Runners |-> 0]
    /\ pauseSeen = [r \in Runners |-> 0]
    /\ waiter = [r \in Runners |-> "none"]
    /\ startGate = [r \in Runners |-> {}]
    /\ budget = Budget
    /\ owed = [r \in Runners |-> FALSE]
    /\ lateCount = FALSE
    /\ absorbed = None

-----------------------------------------------------------------------------
(* RunControl::pause, resume, mark_paused, wake, one atomic step each.     *)

(* Where an actor continues once its mark_paused, or its wake, is done.    *)
AfterMark(a) == CASE a \in Runners     -> "top"
                  [] a \in Suspensions -> "held"
                  [] OTHER             -> "idle"
AfterWake(a) == IF a \in Runners THEN "top" ELSE "idle"

SetManual(a) ==
    /\ Goto(a, "manual", "flag")
    /\ manualPause' = TRUE
    /\ UNCHANGED <<isRunning, runGen, deferredPause, budget, isPaused,
                   tokenVars, suspVars, intrVars, sigVars, localVars, histVars>>

Flag(a) ==
    /\ Goto(a, "flag", "count")
    /\ isPaused' = TRUE
    /\ UNCHANGED <<isRunning, runGen, deferredPause, budget, manualPause,
                   tokenVars, suspVars, intrVars, sigVars, localVars, histVars>>

(* Under the token lock: count the request and cancel the token. *)
Count(a) ==
    /\ Goto(a, "count", AfterMark(a))
    /\ pauseSeq' = pauseSeq + 1
    /\ tokenCancelled' = TRUE
    /\ lateCount' = (lateCount \/ \E r \in Runners : pc[r] = "ldPauseSeen")
    /\ UNCHANGED <<isRunning, runGen, deferredPause, budget, flagVars,
                   interruptSeq, suspVars, intrVars, sigVars, localVars,
                   owed, absorbed>>

ClearManual(a) ==
    /\ Goto(a, "unmanual", "unflag")
    /\ manualPause' = FALSE
    /\ UNCHANGED <<isRunning, runGen, deferredPause, budget, isPaused,
                   tokenVars, suspVars, intrVars, sigVars, localVars, histVars>>

Unflag(a) ==
    /\ Goto(a, "unflag", "notify")
    /\ isPaused' = FALSE
    /\ UNCHANGED <<isRunning, runGen, deferredPause, budget, manualPause,
                   tokenVars, suspVars, intrVars, sigVars, localVars, histVars>>

(* Notify::notify_waiters: wakes the waiters registered now, stores nothing. *)
NotifyWaiters(w) == [r \in Runners |-> IF w[r] = "armed" THEN "notified"
                                                         ELSE w[r]]

Notify(a) ==
    /\ Goto(a, "notify", AfterWake(a))
    /\ waiter' = NotifyWaiters(waiter)
    /\ UNCHANGED <<isRunning, runGen, deferredPause, budget, flagVars,
                   tokenVars, suspVars, intrVars, sigVars, thrownSeq,
                   pauseSeen, startGate, histVars>>

(* RunEngine::request_interrupt: count and cancel under the lock, then wake. *)
CountInterrupt(a) ==
    /\ Goto(a, "interrupt", "unflag")
    /\ interruptSeq' = interruptSeq + 1
    /\ tokenCancelled' = TRUE
    /\ UNCHANGED <<isRunning, runGen, deferredPause, budget, flagVars,
                   pauseSeq, suspVars, intrVars, sigVars, localVars, histVars>>

-----------------------------------------------------------------------------
(* The engine's external calls, up to the shared steps above.              *)

Begin(c, op, to) ==
    /\ op \in Ops
    /\ MayRequest
    /\ budget' = budget - 1
    /\ Goto(c, "idle", to)
    /\ UNCHANGED <<isRunning, runGen, flagVars, tokenVars, suspVars,
                   localVars, histVars>>

Pause(c)  == /\ Begin(c, "pause", "manual")
             /\ UNCHANGED <<deferredPause, intrVars, sigVars>>
PauseDeferred(c) == /\ Begin(c, "defer", "idle")
                    /\ deferredPause' = TRUE
                    /\ UNCHANGED <<intrVars, sigVars>>
Resume(c) == /\ Begin(c, "resume", "unmanual")
             /\ UNCHANGED <<deferredPause, intrVars, sigVars>>
Abort(c)  == /\ Begin(c, "abort", "unstop")
             /\ isAborting' = TRUE
             /\ UNCHANGED <<deferredPause, isHalting, isStopping, sigVars>>
Halt(c)   == /\ Begin(c, "halt", "setAborting")
             /\ isHalting' = TRUE
             /\ UNCHANGED <<deferredPause, isAborting, isStopping, sigVars>>
Stop(c)   == /\ Begin(c, "stop", "setAborting")
             /\ isStopping' = TRUE
             /\ UNCHANGED <<deferredPause, isAborting, isHalting, sigVars>>

(* The second store of abort, and that of halt and stop. *)
ClearStopping(c) ==
    /\ Goto(c, "unstop", "interrupt")
    /\ isStopping' = FALSE
    /\ UNCHANGED <<isRunning, runGen, deferredPause, budget, flagVars,
                   tokenVars, suspVars, isAborting, isHalting, sigVars,
                   localVars, histVars>>
SetAborting(c) ==
    /\ Goto(c, "setAborting", "interrupt")
    /\ isAborting' = TRUE
    /\ UNCHANGED <<isRunning, runGen, deferredPause, budget, flagVars,
                   tokenVars, suspVars, isHalting, isStopping, sigVars,
                   localVars, histVars>>

(* install_signal_handler's task: one tap of ctrl-c.  The first pauses, the *)
(* second aborts, the third halts and ends the task.                        *)
SigintTap(c) ==
    /\ sigintAlive
    /\ sigintCount' = sigintCount + 1
    /\ \/ /\ sigintCount = 0
          /\ Begin(c, "sigint", "manual")
          /\ UNCHANGED <<intrVars, sigintAlive>>
       \/ /\ sigintCount = 1
          /\ Begin(c, "sigint", "unstop")
          /\ isAborting' = TRUE
          /\ UNCHANGED <<isHalting, isStopping, sigintAlive>>
       \/ /\ sigintCount >= 2
          /\ Begin(c, "sigint", "setAborting")
          /\ isHalting' = TRUE
          /\ sigintAlive' = FALSE
          /\ UNCHANGED <<isAborting, isStopping>>
    /\ UNCHANGED deferredPause

CallerStep(c) ==
    \/ Pause(c) \/ PauseDeferred(c) \/ Resume(c)
    \/ Abort(c) \/ Halt(c) \/ Stop(c) \/ SigintTap(c)
CallerInner(c) ==
    \/ ClearStopping(c) \/ SetAborting(c) \/ CountInterrupt(c)
    \/ SetManual(c) \/ Flag(c) \/ Count(c)
    \/ ClearManual(c) \/ Unflag(c) \/ Notify(c)

-----------------------------------------------------------------------------
(* Suspensions: request_suspend, the task it spawns, and release.          *)

(* The condition a suspender watches turns bad, or has been good for the   *)
(* resume delay (Suspender::trip and Suspender::watch resolve).            *)
TurnBad(s) ==
    /\ s \notin bad /\ pc[s] = "idle" /\ budget > 0
    /\ bad' = bad \cup {s}
    /\ UNCHANGED <<pc, isRunning, runGen, deferredPause, budget, flagVars,
                   tokenVars, pendingSuspend, holds, gen, intrVars, sigVars,
                   localVars, histVars>>
TurnGood(s) ==
    /\ s \in bad
    /\ bad' = bad \ {s}
    /\ pc' = [pc EXCEPT ![s] = IF @ = "missed" THEN "idle" ELSE @]
    /\ startGate' = [r \in Runners |-> startGate[r] \ {s}]
    /\ UNCHANGED <<isRunning, runGen, deferredPause, budget, flagVars,
                   tokenVars, pendingSuspend, holds, gen, intrVars, sigVars,
                   thrownSeq, pauseSeen, waiter, histVars>>

BeginSuspend(s) ==
    /\ MayRequest
    /\ budget' = budget - 1
    /\ Goto(s, "idle", "pend")
    /\ UNCHANGED <<isRunning, runGen, deferredPause, flagVars, tokenVars,
                   suspVars, intrVars, sigVars, localVars, histVars>>

(* register_suspender's watcher: a trip while a run is in progress. *)
WatcherTrip(s) == s \in bad /\ isRunning /\ BeginSuspend(s)

(* A trip while no run is in progress requests nothing: the watcher waits  *)
(* for the condition to clear, and the start gate covers the next run.     *)
WatcherMiss(s) ==
    /\ s \in bad /\ ~isRunning
    /\ Goto(s, "idle", "missed")
    /\ UNCHANGED <<isRunning, runGen, deferredPause, budget, flagVars,
                   tokenVars, suspVars, intrVars, sigVars, localVars, histVars>>

(* suspend_until: whether a run is in progress is not asked. *)
SuspendUntil(s) == s \in bad /\ BeginSuspend(s)

StorePending(s) ==
    /\ Goto(s, "pend", "hold")
    /\ pendingSuspend' = s
    /\ absorbed' = None
    /\ UNCHANGED <<isRunning, runGen, deferredPause, budget, flagVars,
                   tokenVars, holds, gen, bad, intrVars, sigVars, localVars,
                   owed, lateCount>>
TakeHold(s) ==
    /\ Goto(s, "hold", "ldGen")
    /\ holds' = holds + 1
    /\ UNCHANGED <<isRunning, runGen, deferredPause, budget, flagVars,
                   tokenVars, pendingSuspend, gen, bad, intrVars, sigVars,
                   localVars, histVars>>
LoadGen(s) ==
    /\ Goto(s, "ldGen", "flag")
    /\ gen' = [gen EXCEPT ![s] = runGen]
    /\ UNCHANGED <<isRunning, runGen, deferredPause, budget, flagVars,
                   tokenVars, pendingSuspend, holds, bad, intrVars, sigVars,
                   localVars, histVars>>

(* The awaited future resolves: the condition cleared. *)
FutureResolved(s) ==
    /\ s \notin bad
    /\ Goto(s, "held", "relGen")
    /\ UNCHANGED <<isRunning, runGen, deferredPause, budget, flagVars,
                   tokenVars, suspVars, intrVars, sigVars, localVars, histVars>>

(* release: three loads, then wake unless another hold or a manual pause. *)
ReleaseGen(s) ==
    /\ Goto(s, "relGen", IF gen[s] = runGen THEN "relHold" ELSE "idle")
    /\ UNCHANGED <<isRunning, runGen, deferredPause, budget, flagVars,
                   tokenVars, suspVars, intrVars, sigVars, localVars, histVars>>
LastHoldOffByOne == holds < 1    \* mutant
LastHold == holds <= 1
WrappingSub == holds - 1         \* mutant
SaturatingSub == IF holds = 0 THEN 0 ELSE holds - 1

ReleaseHold(s) ==
    /\ Goto(s, "relHold", IF LastHold THEN "relManual" ELSE "idle")
    /\ holds' = SaturatingSub
    /\ UNCHANGED <<isRunning, runGen, deferredPause, budget, flagVars,
                   tokenVars, pendingSuspend, gen, bad, intrVars, sigVars,
                   localVars, histVars>>
ReleaseManual(s) ==
    /\ Goto(s, "relManual", IF manualPause THEN "idle" ELSE "unflag")
    /\ UNCHANGED <<isRunning, runGen, deferredPause, budget, flagVars,
                   tokenVars, suspVars, intrVars, sigVars, localVars, histVars>>

SuspensionStep(s) == TurnBad(s) \/ SuspendUntil(s)
SuspensionInner(s) ==
    \/ WatcherTrip(s) \/ WatcherMiss(s)
    \/ StorePending(s) \/ TakeHold(s) \/ LoadGen(s) \/ Flag(s) \/ Count(s)
    \/ FutureResolved(s) \/ ReleaseGen(s) \/ ReleaseHold(s)
    \/ ReleaseManual(s) \/ Unflag(s) \/ Notify(s)

-----------------------------------------------------------------------------
(* run_async: claim, reset, start gate, cleanup.                           *)

(* compare_exchange(false, true) on is_running; a caller that finds it set *)
(* is rejected with no other effect.                                       *)
UncheckedClaim == TRUE           \* mutant
Unclaimed == ~isRunning

Claim(r) ==
    /\ Unclaimed /\ runGen < MaxRuns
    /\ QuietStart => \A a \in Callers \cup Suspensions : ~MidOp(a)
    /\ Goto(r, "idle", "clrAborting")
    /\ isRunning' = TRUE
    /\ UNCHANGED <<runGen, deferredPause, budget, flagVars, tokenVars,
                   suspVars, intrVars, sigVars, localVars, histVars>>

(* The flags of the previous run's interrupts, then the interrupt count. *)
ResetInterrupts(r) ==
    /\ \/ /\ Goto(r, "clrAborting", "clrHalting")
          /\ isAborting' = FALSE
          /\ UNCHANGED <<isHalting, isStopping, thrownSeq>>
       \/ /\ Goto(r, "clrHalting", "clrStopping")
          /\ isHalting' = FALSE
          /\ UNCHANGED <<isAborting, isStopping, thrownSeq>>
       \/ /\ Goto(r, "clrStopping", "ldThrown")
          /\ isStopping' = FALSE
          /\ UNCHANGED <<isAborting, isHalting, thrownSeq>>
       \/ /\ Goto(r, "ldThrown", "incGen")
          /\ thrownSeq' = [thrownSeq EXCEPT ![r] = interruptSeq]
          /\ UNCHANGED intrVars
    /\ UNCHANGED <<isRunning, runGen, deferredPause, budget, flagVars,
                   tokenVars, suspVars, sigVars, pauseSeen, waiter, startGate,
                   histVars>>

(* RunControl::reset_for_run, one store per step. *)
ResetForRun(r) ==
    /\ \/ /\ Goto(r, "incGen", "clrPaused")
          /\ runGen' = runGen + 1
          /\ UNCHANGED <<flagVars, holds, pendingSuspend, tokenCancelled,
                         lateCount, absorbed>>
       \/ /\ Goto(r, "clrPaused", "clrManual")
          /\ isPaused' = FALSE
          /\ UNCHANGED <<runGen, manualPause, holds, pendingSuspend,
                         tokenCancelled, lateCount, absorbed>>
       \/ /\ Goto(r, "clrManual", "clrHolds")
          /\ manualPause' = FALSE
          /\ UNCHANGED <<runGen, isPaused, holds, pendingSuspend,
                         tokenCancelled, lateCount, absorbed>>
       \/ /\ Goto(r, "clrHolds", "clrPending")
          /\ holds' = 0
          /\ UNCHANGED <<runGen, flagVars, pendingSuspend, tokenCancelled,
                         lateCount, absorbed>>
       \/ /\ Goto(r, "clrPending", "newToken")
          /\ pendingSuspend' = None
          /\ absorbed' = None
          /\ UNCHANGED <<runGen, flagVars, holds, tokenCancelled, lateCount>>
       \/ /\ Goto(r, "newToken", "ldPauseSeen")
          /\ tokenCancelled' = FALSE
          /\ lateCount' = FALSE
          /\ UNCHANGED <<runGen, flagVars, holds, pendingSuspend, absorbed>>
    /\ UNCHANGED <<isRunning, deferredPause, budget, pauseSeq, interruptSeq,
                   gen, bad, intrVars, sigVars, localVars, owed>>

(* What run_async still resets after reset_for_run. *)
LoadPauseSeen(r) ==
    /\ Goto(r, "ldPauseSeen", "clrDeferred")
    /\ pauseSeen' = [pauseSeen EXCEPT ![r] = pauseSeq]
    /\ UNCHANGED <<isRunning, runGen, deferredPause, budget, flagVars,
                   tokenVars, suspVars, intrVars, sigVars, thrownSeq, waiter,
                   startGate, histVars>>
ClearDeferred(r) ==
    /\ Goto(r, "clrDeferred", "clrSigint")
    /\ deferredPause' = FALSE
    /\ UNCHANGED <<isRunning, runGen, budget, flagVars, tokenVars, suspVars,
                   intrVars, sigVars, localVars, histVars>>
ClearSigint(r) ==
    /\ Goto(r, "clrSigint", "sample")
    /\ sigintCount' = 0
    /\ UNCHANGED <<isRunning, runGen, deferredPause, budget, flagVars,
                   tokenVars, suspVars, intrVars, sigintAlive, localVars,
                   histVars>>

(* The start gate: collect the tripped suspenders, wait for all to clear. *)
NoneTripped == {}                \* mutant
Tripped == bad

SampleTripped(r) ==
    /\ Goto(r, "sample", "startGate")
    /\ startGate' = [startGate EXCEPT ![r] = Tripped]
    /\ UNCHANGED <<isRunning, runGen, deferredPause, budget, flagVars,
                   tokenVars, suspVars, intrVars, sigVars, thrownSeq,
                   pauseSeen, waiter, histVars>>
PassStartGate(r) ==
    /\ startGate[r] = {}
    /\ Goto(r, "startGate", "top")
    /\ UNCHANGED <<isRunning, runGen, deferredPause, budget, flagVars,
                   tokenVars, suspVars, intrVars, sigVars, localVars, histVars>>

(* The loop timeout drops run_loop where it awaits and cancels the token. *)
LoopTimeout(r) ==
    /\ HasLoopTimeout /\ pc[r] \in AwaitPCs
    /\ pc' = [pc EXCEPT ![r] = "cleanup"]
    /\ tokenCancelled' = TRUE
    /\ waiter' = [waiter EXCEPT ![r] = "none"]
    /\ owed' = [owed EXCEPT ![r] = FALSE]
    /\ UNCHANGED <<isRunning, runGen, deferredPause, budget, flagVars,
                   pauseSeq, interruptSeq, suspVars, intrVars, sigVars,
                   thrownSeq, pauseSeen, startGate, lateCount, absorbed>>

(* Cleanup ends with the store that releases the claim. *)
ReleaseClaim(r) ==
    /\ Goto(r, "cleanup", "idle")
    /\ isRunning' = FALSE
    /\ UNCHANGED <<runGen, deferredPause, budget, flagVars, tokenVars,
                   suspVars, intrVars, sigVars, localVars, histVars>>

-----------------------------------------------------------------------------
(* pause_gate.                                                             *)

PausePending(r)     == pauseSeq # pauseSeen[r]
InterruptPending(r) == interruptSeq # thrownSeq[r]

(* The loop condition: a request counted since the last pass. *)
GateByFlag(r) == isPaused        \* mutant
GateWanted(r) == PausePending(r)

GateTest(r) ==
    /\ Goto(r, "top", IF GateWanted(r) THEN "arm" ELSE "take")
    /\ UNCHANGED <<isRunning, runGen, deferredPause, budget, flagVars,
                   tokenVars, suspVars, intrVars, sigVars, localVars, histVars>>

(* permit.notified() and enable(): the waiter is registered. *)
LazyWaiter(r) == waiter          \* mutant: registered only when awaited
EnabledWaiter(r) == [waiter EXCEPT ![r] = "armed"]

ArmPermit(r) ==
    /\ Goto(r, "arm", "ack")
    /\ waiter' = EnabledWaiter(r)
    /\ UNCHANGED <<isRunning, runGen, deferredPause, budget, flagVars,
                   tokenVars, suspVars, intrVars, sigVars, thrownSeq,
                   pauseSeen, startGate, histVars>>

(* ack_pause, under the token lock. *)
AckKeepsToken(r) ==              \* mutant: the cancelled token stays
    /\ pauseSeen' = [pauseSeen EXCEPT ![r] = pauseSeq]
    /\ UNCHANGED tokenCancelled
AckPause(r) ==
    IF PausePending(r)
    THEN /\ pauseSeen' = [pauseSeen EXCEPT ![r] = pauseSeq]
         /\ tokenCancelled' = FALSE
    ELSE UNCHANGED <<pauseSeen, tokenCancelled>>

Acknowledge(r) ==
    /\ Goto(r, "ack", "enter")
    /\ AckPause(r)
    /\ UNCHANGED <<isRunning, runGen, deferredPause, budget, flagVars,
                   pauseSeq, interruptSeq, suspVars, intrVars, sigVars,
                   thrownSeq, waiter, startGate, histVars>>

(* Take the pending suspension; stop devices, quiesce, run its pre_plan. *)
EnterPause(r) ==
    /\ Goto(r, "enter", "check")
    /\ pendingSuspend' = None
    /\ absorbed' = None
    /\ UNCHANGED <<isRunning, runGen, deferredPause, budget, flagVars,
                   tokenVars, holds, gen, bad, intrVars, sigVars, localVars,
                   owed, lateCount>>

CheckPaused(r) ==
    /\ Goto(r, "check", IF isPaused THEN "parked" ELSE "absorb")
    /\ UNCHANGED <<isRunning, runGen, deferredPause, budget, flagVars,
                   tokenVars, suspVars, intrVars, sigVars, localVars, histVars>>

Wakeup(r) ==
    /\ waiter[r] = "notified"
    /\ Goto(r, "parked", "absorb")
    /\ UNCHANGED <<isRunning, runGen, deferredPause, budget, flagVars,
                   tokenVars, suspVars, intrVars, sigVars, localVars, histVars>>

(* The second ack_pause: requests made while parked are absorbed. *)
Absorb(r) ==
    /\ Goto(r, "absorb", "woken")
    /\ AckPause(r)
    /\ absorbed' = IF \E s \in Suspensions :
                         /\ pendingSuspend = s
                         /\ pc[s] \notin {"hold", "ldGen", "flag", "count"}
                   THEN pendingSuspend ELSE None
    /\ UNCHANGED <<isRunning, runGen, deferredPause, budget, flagVars,
                   pauseSeq, interruptSeq, suspVars, intrVars, sigVars,
                   thrownSeq, waiter, startGate, owed, lateCount>>

(* An interrupt leaves the gate without a rewind; the waiter is dropped. *)
Woken(r) ==
    /\ Goto(r, "woken", IF InterruptPending(r) THEN "take" ELSE "resume")
    /\ waiter' = [waiter EXCEPT ![r] = "none"]
    /\ UNCHANGED <<isRunning, runGen, deferredPause, budget, flagVars,
                   tokenVars, suspVars, intrVars, sigVars, thrownSeq,
                   pauseSeen, startGate, histVars>>

(* on_resume arms the replay of the interrupted message; then the gate's   *)
(* loop condition is tested again.                                         *)
OnResume(r) ==
    /\ Goto(r, "resume", "top")
    /\ owed' = [owed EXCEPT ![r] = FALSE]
    /\ UNCHANGED <<isRunning, runGen, deferredPause, budget, flagVars,
                   tokenVars, suspVars, intrVars, sigVars, localVars,
                   lateCount, absorbed>>

-----------------------------------------------------------------------------
(* run_loop.                                                               *)

(* take_interrupt, under the token lock: consume the request, renew the    *)
(* token, and decide by the flags.  halt ends the run; stop and abort are  *)
(* thrown into the innermost contingency region, or end the run.           *)
TakeUncounted(r) ==              \* mutant: the request is not consumed
    /\ InterruptPending(r)
    /\ tokenCancelled' = FALSE
    /\ owed' = [owed EXCEPT ![r] = FALSE]
    /\ pc' = [pc EXCEPT ![r] = "top"]
    /\ UNCHANGED thrownSeq
TakeInterrupt(r) ==
    /\ InterruptPending(r)
    /\ thrownSeq' = [thrownSeq EXCEPT ![r] = interruptSeq]
    /\ tokenCancelled' = FALSE
    /\ owed' = [owed EXCEPT ![r] = FALSE]
    /\ \/ pc' = [pc EXCEPT ![r] = "cleanup"]
       \/ ~isHalting /\ pc' = [pc EXCEPT ![r] = "top"]

ThrowBetweenMessages(r) ==
    /\ pc[r] = "take"
    /\ TakeInterrupt(r)
    /\ UNCHANGED <<isRunning, runGen, deferredPause, budget, flagVars,
                   pauseSeq, interruptSeq, suspVars, intrVars, sigVars,
                   pauseSeen, waiter, startGate, lateCount, absorbed>>
NoInterrupt(r) ==
    /\ ~InterruptPending(r)
    /\ Goto(r, "take", "pull")
    /\ UNCHANGED <<isRunning, runGen, deferredPause, budget, flagVars,
                   tokenVars, suspVars, intrVars, sigVars, localVars, histVars>>

(* pull_msg: the next message, or the end of the plan. *)
PullMsg(r) ==
    /\ \/ Goto(r, "pull", "handle")
       \/ Goto(r, "pull", "cleanup")
    /\ UNCHANGED <<isRunning, runGen, deferredPause, budget, flagVars,
                   tokenVars, suspVars, intrVars, sigVars, localVars, histVars>>

(* handle returns: done, failed (an error thrown into the plan or ending   *)
(* the run), or Cancelled because the token it races was cancelled.        *)
HandleReturns(r) ==
    /\ \/ Goto(r, "handle", "top")
       \/ Goto(r, "handle", "failed")
       \/ tokenCancelled /\ Goto(r, "handle", "cancelled")
    /\ UNCHANGED <<isRunning, runGen, deferredPause, budget, flagVars,
                   tokenVars, suspVars, intrVars, sigVars, localVars, histVars>>

(* Msg::Pause { defer } and Msg::Resume: the plan makes the request. *)
HandlePause(r) ==
    /\ MayRequest /\ budget' = budget - 1
    /\ \/ "pause" \in Ops /\ Goto(r, "handle", "manual") /\ UNCHANGED deferredPause
       \/ "defer" \in Ops /\ Goto(r, "handle", "top") /\ deferredPause' = TRUE
       \/ "resume" \in Ops /\ Goto(r, "handle", "unmanual")
          /\ UNCHANGED deferredPause
    /\ UNCHANGED <<isRunning, runGen, flagVars, tokenVars, suspVars, intrVars,
                   sigVars, localVars, histVars>>

(* Msg::Checkpoint applies a deferred pause. *)
HandleCheckpoint(r) ==
    /\ deferredPause
    /\ Goto(r, "handle", "manual")
    /\ deferredPause' = FALSE
    /\ UNCHANGED <<isRunning, runGen, budget, flagVars, tokenVars, suspVars,
                   intrVars, sigVars, localVars, histVars>>

(* Cancelled: the interrupt or the pause behind it, else a plan failure. *)
CancelledByInterrupt(r) ==
    /\ pc[r] = "cancelled"
    /\ TakeInterrupt(r)
    /\ UNCHANGED <<isRunning, runGen, deferredPause, budget, flagVars,
                   pauseSeq, interruptSeq, suspVars, intrVars, sigVars,
                   pauseSeen, waiter, startGate, lateCount, absorbed>>
CancelledByPause(r) ==
    /\ ~InterruptPending(r) /\ PausePending(r)
    /\ Goto(r, "cancelled", "top")
    /\ owed' = [owed EXCEPT ![r] = TRUE]
    /\ UNCHANGED <<isRunning, runGen, deferredPause, budget, flagVars,
                   tokenVars, suspVars, intrVars, sigVars, localVars,
                   lateCount, absorbed>>
CancelledByNone(r) ==
    /\ ~InterruptPending(r) /\ ~PausePending(r)
    /\ Goto(r, "cancelled", "failed")
    /\ UNCHANGED <<isRunning, runGen, deferredPause, budget, flagVars,
                   tokenVars, suspVars, intrVars, sigVars, localVars, histVars>>

(* An error is caught by a contingency region or ends the run as "fail". *)
ThrowError(r) ==
    /\ \/ Goto(r, "failed", "top")
       \/ Goto(r, "failed", "cleanup")
    /\ UNCHANGED <<isRunning, runGen, deferredPause, budget, flagVars,
                   tokenVars, suspVars, intrVars, sigVars, localVars, histVars>>

StartStep(r) ==
    \/ ResetInterrupts(r) \/ ResetForRun(r) \/ LoadPauseSeen(r)
    \/ ClearDeferred(r) \/ ClearSigint(r) \/ SampleTripped(r)
    \/ PassStartGate(r)
GateStep(r) ==
    \/ GateTest(r) \/ ArmPermit(r) \/ Acknowledge(r) \/ EnterPause(r)
    \/ CheckPaused(r) \/ Wakeup(r) \/ Absorb(r) \/ Woken(r) \/ OnResume(r)
LoopStep(r) ==
    \/ ThrowBetweenMessages(r) \/ NoInterrupt(r) \/ PullMsg(r)
    \/ HandleReturns(r) \/ HandleCheckpoint(r) \/ CancelledByInterrupt(r)
    \/ CancelledByPause(r) \/ CancelledByNone(r) \/ ThrowError(r)
    \/ SetManual(r) \/ Flag(r) \/ Count(r)
    \/ ClearManual(r) \/ Unflag(r) \/ Notify(r)
RunnerInner(r) == StartStep(r) \/ GateStep(r) \/ LoopStep(r) \/ ReleaseClaim(r)
RunnerStep(r)  == Claim(r) \/ HandlePause(r) \/ LoopTimeout(r)

Next ==
    \/ \E r \in Runners : RunnerStep(r) \/ RunnerInner(r)
    \/ \E c \in Callers : CallerStep(c) \/ CallerInner(c)
    \/ \E s \in Suspensions : SuspensionStep(s) \/ TurnGood(s) \/ SuspensionInner(s)

Spec == Init /\ [][Next]_vars

(* Threads and tasks run: an operation once begun goes on to its end, the  *)
(* handler of a message returns, and a spawned release runs once its       *)
(* future has resolved.  Nothing makes a caller call.                      *)
TasksRun ==
    /\ \A r \in Runners : WF_vars(RunnerInner(r))
    /\ \A c \in Callers : WF_vars(CallerInner(c))
    /\ \A s \in Suspensions : WF_vars(SuspensionInner(s))
FairSpec == Spec /\ TasksRun

(* ... and every bad condition clears in the end. *)
ConditionsClear == \A s \in Suspensions : WF_vars(TurnGood(s))
ClearingSpec == FairSpec /\ ConditionsClear

-----------------------------------------------------------------------------
(* Properties.                                                             *)

(* Every variable has its type and every actor is where its kind can be.   *)
PcTyped ==
    /\ pc \in [Actors -> RunnerPCs \cup CallerPCs \cup SuspensionPCs]
    /\ \A r \in Runners : pc[r] \in RunnerPCs
    /\ \A c \in Callers : pc[c] \in CallerPCs
    /\ \A s \in Suspensions : pc[s] \in SuspensionPCs
FlagsTyped ==
    /\ isRunning \in BOOLEAN /\ isPaused \in BOOLEAN
    /\ manualPause \in BOOLEAN /\ tokenCancelled \in BOOLEAN
    /\ deferredPause \in BOOLEAN /\ isAborting \in BOOLEAN
    /\ isHalting \in BOOLEAN /\ isStopping \in BOOLEAN
    /\ sigintAlive \in BOOLEAN /\ lateCount \in BOOLEAN
    /\ owed \in [Runners -> BOOLEAN]
DataTyped ==
    /\ pauseSeq \in Nat /\ interruptSeq \in Nat
    /\ pendingSuspend \in Suspensions \cup {None}
    /\ holds \in Nat /\ runGen \in Nat
    /\ gen \in [Suspensions -> Nat] /\ bad \subseteq Suspensions
    /\ sigintCount \in Nat
    /\ thrownSeq \in [Runners -> Nat] /\ pauseSeen \in [Runners -> Nat]
    /\ waiter \in [Runners -> {"none", "armed", "notified"}]
    /\ startGate \in [Runners -> SUBSET Suspensions]
    /\ budget \in Nat
    /\ absorbed \in Suspensions \cup {None}
TypeOK == PcTyped /\ FlagsTyped /\ DataTyped

(* run_async's claim: at most one plan is between claim and release on one *)
(* engine, however many tasks call run_async, and is_running says so.      *)
SingleRun ==
    /\ \A r1, r2 \in Runners : InRun(r1) /\ InRun(r2) => r1 = r2
    /\ isRunning <=> \E r \in Runners : InRun(r)

(* "the loop never observes the cancelled token without the count that     *)
(* explains it" (request_interrupt): while the loop runs, a cancelled      *)
(* token means a pause or an interrupt the loop has not consumed.  The one *)
(* exception is a pause counted between reset_for_run's new token and the  *)
(* load of pause_seen, which lateCount records.                            *)
TokenExplained ==
    \A r \in Runners :
        InLoop(r) /\ tokenCancelled /\ ~lateCount
            => PausePending(r) \/ InterruptPending(r)

(* pause_gate arms the permit before it looks at is_paused: a loop parked  *)
(* while nothing pauses the engine always has its wakeup delivered or on   *)
(* the way, although notify_waiters stores no permit.                      *)
NoLostWakeup ==
    \A r \in Runners :
        pc[r] = "parked" /\ ~isPaused
            => \/ waiter[r] = "notified"
               \/ \E a \in Actors : pc[a] = "notify"

(* A message cut short by a pause is replayed or thrown away with the      *)
(* plan's interrupt, never skipped: the loop pulls no message while one is *)
(* owed, even when a resume lands before the loop reaches the gate.        *)
InterruptedMsgReplayed ==
    \A r \in Runners : owed[r] => pc[r] \notin {"pull", "handle", "cancelled"}

(* A trip the watcher dropped because no run was in progress still holds   *)
(* back the next run: while that condition is bad, no loop is running.     *)
StartGateCovers ==
    \A s \in Suspensions, r \in Runners :
        pc[s] = "missed" /\ s \in bad => ~InLoop(r)

(* A stop, abort or halt counted while the loop runs is acted on, when     *)
(* every pause is a suspension whose condition clears.                     *)
InterruptHonoured ==
    \A r \in Runners :
        (InLoop(r) /\ InterruptPending(r))
            ~> (~InLoop(r) \/ ~InterruptPending(r))

(* request_suspend "auto-resumes when fut resolves": once the conditions   *)
(* clear, a loop parked by suspensions alone leaves the gate, however the  *)
(* requests and releases of overlapping suspensions interleave.            *)
SuspensionsLift ==
    \A r \in Runners : (pc[r] = "parked") ~> (pc[r] # "parked")

-----------------------------------------------------------------------------
(* What the repository says of the control plane and its interleavings     *)
(* refute.  Quiescent: no actor is inside a control operation.             *)

Quiescent == \A a \in Actors : ~MidOp(a)

(* EngineRunState::Paused: "Inside run_async, the loop is blocked at a     *)
(* pause gate".  With no request in progress, a loop that handles messages *)
(* while is_paused is set has let a pause slip.                            *)
PausedIsBlocked ==
    \A r \in Runners :
        Quiescent /\ isPaused /\ pc[r] \in {"pull", "handle"} => PausePending(r)

(* "Overlapping suspensions each hold the run; it resumes when the last    *)
(* releases": no message is handled while a suspension of this run holds.  *)
HoldsHonoured ==
    \A r \in Runners, s \in Suspensions :
        /\ pc[r] \in {"pull", "handle"}
        /\ pc[s] = "held" /\ gen[s] = runGen
        => PausePending(r)

(* "a handler unparked by the request's token cancellation is recognised   *)
(* as pausing rather than failing" (pause_seq): a cancelled handler always *)
(* has a request to show for it.                                           *)
CancelIsRecognised ==
    \A r \in Runners :
        pc[r] = "cancelled" => PausePending(r) \/ InterruptPending(r)

(* "A second suspender tripping while the run is already suspended adds a  *)
(* hold ... but its plans do not run and its justification is not          *)
(* recorded": no gate pass takes a suspension an earlier pass absorbed.    *)
AbsorbedPlansDoNotRun ==
    \A r \in Runners :
        pc[r] = "enter" /\ pendingSuspend # None => pendingSuspend # absorbed

(* "pause(defer=false): user pause() plan stub or first SIGINT": the first *)
(* tap in a fresh run finds the handler alive.                             *)
SigintPausesFreshRun ==
    "sigint" \in Ops =>
        \A r \in Runners : InLoop(r) /\ sigintCount = 0 => sigintAlive

=============================================================================
