------------------------------ MODULE Commands ------------------------------
(***************************************************************************)
(* Command (devices/command.rs) over its backends: CaCommandBackend   *)
(* (backends/epics_ca/real.rs), PvaCommandBackend (backends/epics_pva/     *)
(* real.rs), SoftCommandBackend and MockCommandBackend.  Several callers   *)
(* execute one command, each within its timeout; the IOC answers late,     *)
(* and may go away.                                                        *)
(***************************************************************************)
EXTENDS Integers, Sequences, FiniteSets, SequencesExt

CONSTANTS
  CmCallers,   \* tasks that execute the command
  CmRunsMax,   \* bound on executes
  CmDropsMax,  \* bound on disconnections
  CmPvs        \* PVs it may be bound to: [typeid, spec, dbr, count]

ASSUME CommandBounds == CmRunsMax \in Nat /\ CmDropsMax \in Nat /\ IsFiniteSet(CmCallers)

VARIABLES
  cmBackend,  \* what executes it: see the five backends below
  cmPv,       \* the PV
  cmUp,       \* whether the channel is connected
  cmConn,     \* the connect in the slot: "no", "open", "read", "ok", "refused" or "late"
  cmSeen,     \* whether a caller was there to see that connect end
  cmAt,       \* caller -> "idle", "lock", "channel", "open", "body" or "put"
  cmRun,      \* caller -> the number of its execute
  cmQueue,    \* callers waiting for the lock, first come first served
  cmHeld,     \* the execute whose guard holds the lock, 0 if it is free
  cmFlight,   \* executes under way at the IOC, or in the callback
  cmLost,     \* those of them whose circuit was lost
  cmCallback, \* MockInner.callback: "none", "sync" or "async"
  cmRan,      \* execute -> what it ran: "none", "put", "own", "default", "sync" or "async"
  cmCalls,    \* MockInner.calls: the executes recorded, in call order
  cmDone,     \* executes the IOC or the callback completed
  cmAnswer,   \* execute -> what its caller was told
  cmRuns, cmDrops

commandVars == <<cmBackend, cmPv, cmUp, cmConn, cmSeen, cmAt, cmRun, cmQueue, cmHeld, cmFlight, cmLost, cmCallback,
                 cmRan, cmCalls, cmDone, cmAnswer, cmRuns, cmDrops>>
\* What only connecting changes, what connecting leaves alone, what no
\* execute changes.
connectVars == <<cmBackend, cmPv, cmUp, cmConn, cmSeen, cmDrops>>
executeVars == <<cmAt, cmRun, cmQueue, cmHeld, cmFlight, cmLost, cmCallback, cmRan, cmCalls, cmDone, cmAnswer, cmRuns>>

CaCommandBackend   == cmBackend = "ca"
PvaCommandBackend  == cmBackend = "pva"
SoftCommandBackend == cmBackend = "soft"
MockOfSoft         == cmBackend = "mock of soft"
MockOfHardware     == cmBackend = "mock of hardware"
MockCommandBackend == MockOfSoft \/ MockOfHardware
OverEpics == CaCommandBackend \/ PvaCommandBackend
\* A backend with a lock: all but PVA's.
Serial == ~PvaCommandBackend

CommandInit ==
  /\ cmBackend \in {"ca", "pva", "soft", "mock of soft", "mock of hardware"}
  /\ cmPv \in CmPvs /\ cmUp = FALSE /\ cmConn = "no" /\ cmSeen = FALSE
  /\ cmAt = [c \in CmCallers |-> "idle"] /\ cmRun = [c \in CmCallers |-> 0]
  /\ cmQueue = <<>> /\ cmHeld = 0 /\ cmFlight = {} /\ cmLost = {} /\ cmCallback = "none" /\ cmDone = {}
  /\ cmCalls = <<>>
  /\ cmRan = [r \in 1 .. CmRunsMax |-> "none"] /\ cmAnswer = [r \in 1 .. CmRunsMax |-> "none"]
  /\ cmRuns = 0 /\ cmDrops = 0

-----------------------------------------------------------------------------
(* Connecting.  An execute does not ask whether a connect came before.     *)

CaAccepts(pv) == pv.count <= 1 /\ pv.dbr \in {"short", "char", "long", "enum"}
PvaAccepts(pv) == pv.typeid = "enum" \/ (pv.typeid = "scalar" /\ pv.spec \in {"bool", "integer"})

\* connect joins the connect in the slot, and starts another after one it
\* can see failed: peek shows an end only once a caller was there to poll it.
\* reconnect always starts another; the one it replaces ends unseen.
JoinConnect(force) ==
  /\ IF force \/ cmConn = "no" \/ (cmConn \in {"refused", "late"} /\ cmSeen)
     THEN cmConn' = (IF OverEpics THEN "open" ELSE "ok") /\ cmSeen' = FALSE
     ELSE cmSeen' = (cmConn \in {"ok", "refused", "late"}) /\ UNCHANGED cmConn
  /\ UNCHANGED <<cmBackend, cmPv, cmUp, cmDrops, executeVars>>
\* The spawned connect ends, with or without a caller that still waits.
ConnectEnds(outcome) ==
  /\ cmConn' = outcome /\ cmSeen' \in BOOLEAN
  /\ UNCHANGED <<cmBackend, cmPv, cmUp, cmDrops, executeVars>>
\* CA connect_read: the channel, then a DBR_CTRL read, within the timeout.
CaConnectOpen ==
  /\ CaCommandBackend /\ cmConn = "open" /\ cmUp /\ cmConn' = "read"
  /\ UNCHANGED <<cmBackend, cmPv, cmUp, cmSeen, cmDrops, executeVars>>
CaConnect ==
  /\ CaCommandBackend /\ cmConn = "read" /\ cmUp
  /\ ConnectEnds(IF CaAccepts(cmPv) THEN "ok" ELSE "refused")
\* PVA connect_read: pva_connect, then a get, within one deadline.
PvaConnectOpen ==
  /\ PvaCommandBackend /\ cmConn = "open" /\ cmUp /\ cmConn' = "read"
  /\ UNCHANGED <<cmBackend, cmPv, cmUp, cmSeen, cmDrops, executeVars>>
PvaConnect ==
  /\ PvaCommandBackend /\ cmConn = "read" /\ cmUp
  /\ ConnectEnds(IF PvaAccepts(cmPv) THEN "ok" ELSE "refused")
\* No channel, no value, or a failed read: not connected.
CaConnectFails  == CaCommandBackend /\ cmConn \in {"open", "read"} /\ ConnectEnds("late")
PvaConnectFails == PvaCommandBackend /\ cmConn \in {"open", "read"} /\ ConnectEnds("late")

-----------------------------------------------------------------------------
(* Executing.                                                              *)

\* Command::execute and trigger: the backend's execute within the timeout.
\* PVA begins its put at once; the others queue for their lock.
CmExecute(c) ==
  /\ cmAt[c] = "idle" /\ cmRuns < CmRunsMax
  /\ cmRuns' = cmRuns + 1 /\ cmRun' = [cmRun EXCEPT ![c] = cmRuns + 1]
  /\ IF Serial THEN cmAt' = [cmAt EXCEPT ![c] = "lock"] /\ cmQueue' = Append(cmQueue, c)
               ELSE cmAt' = [cmAt EXCEPT ![c] = "channel"] /\ UNCHANGED cmQueue
  /\ UNCHANGED <<connectVars, cmHeld, cmFlight, cmLost, cmCallback, cmRan, cmCalls, cmDone, cmAnswer>>
\* The first in the queue takes the free lock.
TakesLock(c) ==
  /\ cmAt[c] = "lock" /\ cmHeld = 0 /\ Head(cmQueue) = c
  /\ cmQueue' = Tail(cmQueue) /\ cmHeld' = cmRun[c]
  /\ UNCHANGED <<connectVars, cmRun, cmLost, cmCallback, cmDone, cmAnswer, cmRuns>>
CaAcquire(c) ==
  /\ CaCommandBackend /\ TakesLock(c)
  /\ cmAt' = [cmAt EXCEPT ![c] = "channel"] /\ UNCHANGED <<cmFlight, cmRan, cmCalls>>
RunsBody(c, what) ==
  /\ cmAt' = [cmAt EXCEPT ![c] = "body"] /\ cmFlight' = cmFlight \cup {cmRun[c]}
  /\ cmRan' = [cmRan EXCEPT ![cmRun[c]] = what]
SoftExecute(c) == SoftCommandBackend /\ TakesLock(c) /\ RunsBody(c, "own") /\ UNCHANGED cmCalls
\* A mock that has the lock records the call, then runs the callback set by
\* then, or what it mocks.
MockBody == IF cmCallback # "none" THEN cmCallback ELSE IF MockOfSoft THEN "own" ELSE "default"
MockExecute(c) ==
  /\ MockCommandBackend /\ TakesLock(c) /\ RunsBody(c, MockBody)
  /\ cmCalls' = Append(cmCalls, cmRun[c])
SetExecuteCallback(cb) ==
  /\ MockCommandBackend /\ cmCallback' = cb
  /\ UNCHANGED <<connectVars, cmAt, cmRun, cmQueue, cmHeld, cmFlight, cmLost, cmRan, cmCalls, cmDone, cmAnswer, cmRuns>>
\* wait_connected returns, or PVA's put is begun.
ChannelOpen(c) ==
  /\ cmAt[c] = "channel" /\ cmUp /\ cmAt' = [cmAt EXCEPT ![c] = "open"]
  /\ UNCHANGED <<connectVars, cmRun, cmQueue, cmHeld, cmFlight, cmLost, cmCallback, cmRan, cmCalls, cmDone, cmAnswer, cmRuns>>
PutsOut(c) ==
  /\ cmAt[c] = "open" /\ cmUp
  /\ cmAt' = [cmAt EXCEPT ![c] = "put"]
  /\ cmFlight' = cmFlight \cup {cmRun[c]} /\ cmRan' = [cmRan EXCEPT ![cmRun[c]] = "put"]
  /\ UNCHANGED <<connectVars, cmRun, cmQueue, cmHeld, cmLost, cmCallback, cmCalls, cmDone, cmAnswer, cmRuns>>
\* info gives the type, the put goes out, and a task of its own waits for
\* the put-callback, holding the guard.
CaPut(c) == CaCommandBackend /\ PutsOut(c)
\* put_block has sent its data; the caller waits for the completion.
PvaPut(c) == PvaCommandBackend /\ PutsOut(c)
\* The caller returns an error, and with it goes its guard.
ExecuteFails(c) ==
  /\ cmAt' = [cmAt EXCEPT ![c] = "idle"]
  /\ cmAnswer' = [cmAnswer EXCEPT ![cmRun[c]] = "failed"]
  /\ cmHeld' = IF cmHeld = cmRun[c] THEN 0 ELSE cmHeld
  /\ UNCHANGED <<connectVars, cmRun, cmQueue, cmFlight, cmLost, cmCallback, cmRan, cmCalls, cmDone, cmRuns>>
\* info or put_callback fails: the channel went away after wait_connected,
\* or refuses the write.
CaChannelFails(c) == CaCommandBackend /\ cmAt[c] = "open" /\ ExecuteFails(c)
\* The put is not begun within OP_TIMEOUT, or cannot be sent: the channel
\* went away, or its type takes no number.
PvaPutFails(c) == PvaCommandBackend /\ cmAt[c] \in {"channel", "open"} /\ ExecuteFails(c)

Waiting(r) == {c \in CmCallers : cmRun[c] = r /\ cmAt[c] \in {"put", "body"}}
\* The guard of r drops; whoever still waits for r is answered.
ExecuteEnds(r, ok) ==
  /\ cmFlight' = cmFlight \ {r} /\ cmLost' = cmLost \ {r}
  /\ cmHeld' = IF cmHeld = r THEN 0 ELSE cmHeld
  /\ cmDone' = IF ok THEN cmDone \cup {r} ELSE cmDone
  /\ cmAt' = [c \in CmCallers |-> IF c \in Waiting(r) THEN "idle" ELSE cmAt[c]]
  /\ cmAnswer' = IF Waiting(r) # {} THEN [cmAnswer EXCEPT ![r] = IF ok THEN "ok" ELSE "failed"] ELSE cmAnswer
  /\ UNCHANGED <<connectVars, cmRun, cmQueue, cmCallback, cmRan, cmCalls, cmRuns>>
\* The IOC answers the put-callback, or with an error; or its circuit was
\* lost, which fails it whether or not another is up by then.
CmPutAnswered(r, ok) == OverEpics /\ r \in cmFlight \ cmLost /\ ExecuteEnds(r, ok)
PutLost(r) == OverEpics /\ r \in cmFlight \cap cmLost /\ ExecuteEnds(r, FALSE)
\* The callback returns or fails; a mocked hardware command's default does
\* not fail.
CallbackReturns(r, ok) ==
  /\ ~OverEpics /\ r \in cmFlight /\ (ok \/ cmRan[r] # "default") /\ ExecuteEnds(r, ok)

\* Mutant: the guard is the caller's own, and goes with it.
GuardGoesAlways(c) == {cmRun[c]}
\* What a caller that gives up takes with it: its guard while it has not
\* put, or has its callback in its own future; not the task's.
GuardGoes(c) == IF cmAt[c] \in {"channel", "open", "body"} THEN {cmRun[c]} ELSE {}
\* A sync callback and a default are there at the first poll: no timeout
\* finds them half way.
Suspends(c) == cmAt[c] = "body" => cmRan[cmRun[c]] \in {"own", "async"}
\* within: the timeout, or whoever drops the caller, drops the future where
\* it stands.  A callback is dropped half way; a put stays under way at the
\* IOC.
GiveUp(c) ==
  /\ cmAt[c] # "idle" /\ Suspends(c)
  /\ cmAnswer' = [cmAnswer EXCEPT ![cmRun[c]] = "timeout"]
  /\ cmAt' = [cmAt EXCEPT ![c] = "idle"]
  /\ cmQueue' = RemoveFirst(cmQueue, c)
  /\ cmHeld' = IF cmHeld \in GuardGoes(c) THEN 0 ELSE cmHeld
  /\ cmFlight' = IF cmAt[c] = "body" THEN cmFlight \ {cmRun[c]} ELSE cmFlight
  /\ UNCHANGED <<connectVars, cmRun, cmLost, cmCallback, cmRan, cmCalls, cmDone, cmRuns>>

\* The IOC comes up; it goes away, and its circuit with the puts on it.
ChannelUp ==
  /\ OverEpics /\ ~cmUp /\ cmUp' = TRUE
  /\ UNCHANGED <<cmBackend, cmPv, cmConn, cmSeen, cmDrops, executeVars>>
ChannelDown ==
  /\ cmUp /\ cmDrops < CmDropsMax /\ cmDrops' = cmDrops + 1 /\ cmUp' = FALSE /\ cmLost' = cmFlight
  /\ UNCHANGED <<cmBackend, cmPv, cmConn, cmSeen, cmAt, cmRun, cmQueue, cmHeld, cmFlight, cmCallback, cmRan, cmCalls,
                 cmDone, cmAnswer, cmRuns>>

CallerNext(c) ==
  \/ CmExecute(c) \/ CaAcquire(c) \/ SoftExecute(c) \/ MockExecute(c) \/ ChannelOpen(c) \/ CaPut(c) \/ PvaPut(c)
  \/ CaChannelFails(c) \/ PvaPutFails(c) \/ GiveUp(c)

CommandNext ==
  \/ \E force \in BOOLEAN : JoinConnect(force)
  \/ CaConnectOpen \/ CaConnect \/ CaConnectFails \/ PvaConnectOpen \/ PvaConnect \/ PvaConnectFails
  \/ ChannelUp \/ ChannelDown
  \/ \E cb \in {"none", "sync", "async"} : SetExecuteCallback(cb)
  \/ \E c \in CmCallers : CallerNext(c)
  \/ \E r \in cmFlight : PutLost(r) \/ \E ok \in BOOLEAN : CmPutAnswered(r, ok) \/ CallbackReturns(r, ok)

CommandSpec == CommandInit /\ [][CommandNext]_commandVars

-----------------------------------------------------------------------------
\* Executes of a serialised command never overlap at the IOC or in the
\* callback, though callers give up while their put is under way.
OneAtATime == Serial => \A r, s \in cmFlight : r = s
\* A caller told its execute succeeded had that execute, not another's,
\* completed.
AnswerIsOwn == \A r \in 1 .. CmRunsMax : cmAnswer[r] = "ok" => r \in cmDone
\* The lock is held only by an execute that goes on: one at its channel,
\* or one under way.  No give-up or disconnection leaves it taken.
LockFreed ==
  cmHeld # 0 => cmHeld \in cmFlight \/ \E c \in CmCallers : cmRun[c] = cmHeld /\ cmAt[c] \in {"channel", "open"}
\* A caller waits for the lock iff it is queued, once.
QueueTrue ==
  /\ \A c \in CmCallers : cmAt[c] = "lock" <=> c \in ToSet(cmQueue)
  /\ IsInjective(cmQueue)

\* Two executes of a serial backend never overlap, an execute answers for its
\* own put, a caller that gives up does not leave the lock held for good, and
\* the lock's queue holds who waits for it (command.rs, and the command
\* backends of epics_ca and epics_pva).
CommandsSound == OneAtATime /\ AnswerIsOwn /\ LockFreed /\ QueueTrue
=============================================================================
