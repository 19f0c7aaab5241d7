---------------------------- MODULE QueueServer ----------------------------
(***************************************************************************)
(* The queue server: the request loop (the "rep" thread of qs/server.rs),  *)
(* the worker tasks it spawns, the claim slot between them                 *)
(* (qs/task_slot.rs), the manager state and the queue.                     *)
(*                                                                         *)
(* A step is one critical section of the thread that takes it.  The rep    *)
(* thread handles one request at a time; a worker is a tokio task, so an   *)
(* abort only takes effect where it awaits: before its first poll and      *)
(* inside run_async.  Between those points an aborted worker goes on.      *)
(***************************************************************************)
EXTENDS PlanQueue, FiniteSets

CONSTANTS
  MaxItems,    \* items submitted in a behaviour; uids are 1 .. MaxItems
  MaxRequests, \* requests that change state
  MaxEnvs,     \* environments opened
  MaxWorkers,  \* worker tasks spawned
  Profiles,    \* sets of methods; the clients of one behaviour use one of them
  Places,      \* the places they name for added and moved items
  StrictMoves  \* clients only name reference items that are pending

ASSUME ServerAssumption ==
  /\ {MaxItems, MaxRequests, MaxWorkers} \subseteq Nat /\ MaxEnvs \in Nat \ {0}
  /\ StrictMoves \in BOOLEAN
  /\ \A p \in Places : p.at \in {"before", "after"} \/ (p.at = "pos" /\ p.n \in Int)

VARIABLES
  q,        \* PlanQueue
  mgr,      \* the fields of EngineState that handlers and workers act on
  slot,     \* QueueTaskSlot: next_gen, the live generation (0: none), handle
  finished, \* worker_finished
  env,      \* the engine slot: number of the open environment, 0 when closed
  engines,  \* per environment: who runs on its RunEngine, paused, interrupt
  workers,  \* sequence of spawned workers; the n-th has generation n
  rep,      \* rep thread: where it is and the worker it is about to start
  down,     \* the socket's shutdown flag
  budget,   \* requests made so far
  methods,  \* the profile of this behaviour
  items     \* history: submitted, withdrawn by a client, archived, lost with a worker

vars == <<q, mgr, slot, finished, env, engines, workers, rep, down, budget, methods, items>>

Uids  == 1 .. MaxItems
NoOne == 0
Console == -1
NoItem == [uid |-> 0, kind |-> "plan"]
Kinds  == {"plan", "stop", "bad"}
Items  == [uid : Uids, kind : Kinds]
States == {"closed", "idle", "executing", "creating", "destroying"}
RepPCs == {"poll", "recv", "auto", "check", "claim", "register", "opening", "destroying", "down"}
WorkerPCs == {"spawned", "top", "clear", "pop", "stopdone", "stopset", "reject", "begin",
              "enter", "run", "book", "archive", "loop", "idle", "release", "done"}
Statuses == {"none", "success", "no-run", "abort", "halt", "fail"}
Live(w) == workers[w].pc # "done"

Engines == [busy : Nat \cup {Console}, paused : BOOLEAN, intr : {"none", "abort", "halt"}, console : BOOLEAN]
Workers == [pc : WorkerPCs, single : BOOLEAN, item : Items \cup {NoItem}, env : 0 .. MaxEnvs,
            aborted : BOOLEAN, status : Statuses, disarm : BOOLEAN]

TypeOK ==
  /\ q \in [items : Seq(Items), history : SUBSET Uids]
  /\ mgr \in [state : States, current : Items \cup {NoItem}, stopPending : BOOLEAN,
              pausePending : BOOLEAN, autostart : BOOLEAN, loop : BOOLEAN]
  /\ slot \in [next : Nat, gen : Nat, handle : BOOLEAN]
  /\ finished \in BOOLEAN /\ down \in BOOLEAN
  /\ env \in 0 .. MaxEnvs /\ budget \in 0 .. MaxRequests
  /\ engines \in Seq(Engines) /\ workers \in Seq(Workers)
  /\ rep \in [pc : RepPCs, single : BOOLEAN, item : Items \cup {NoItem}]
  /\ items \in [{"submitted", "withdrawn", "archived", "revoked"} -> SUBSET Uids]

NewEngine(console) == [busy |-> NoOne, paused |-> FALSE, intr |-> "none", console |-> console]

\* The fused console (bin/bsrs/console.rs) starts the server with its own
\* engine in the slot and the manager idle.
Init ==
  /\ q = EmptyQueue
  /\ methods \in Profiles
  /\ env = IF "console" \in methods THEN 1 ELSE 0
  /\ engines = IF "console" \in methods THEN <<NewEngine(TRUE)>> ELSE <<>>
  /\ mgr = [state |-> IF env = 0 THEN "closed" ELSE "idle", current |-> NoItem, stopPending |-> FALSE,
            pausePending |-> FALSE, autostart |-> FALSE, loop |-> FALSE]
  /\ slot = [next |-> 1, gen |-> 0, handle |-> FALSE]
  /\ finished = FALSE /\ down = FALSE /\ budget = 0
  /\ workers = <<>>
  /\ rep = [pc |-> "poll", single |-> FALSE, item |-> NoItem]
  /\ items = [submitted |-> {}, withdrawn |-> {}, archived |-> {}, revoked |-> {}]

-----------------------------------------------------------------------------
(* QueueTaskSlot.  Generations start at 1 and 0 stands for an empty slot.  *)

Claim(s) == [next |-> s.next + 1, gen |-> s.next, handle |-> FALSE]

Emptied(s) == [s EXCEPT !.gen = 0, !.handle = FALSE]

\* finish: only the live generation empties the slot and announces it.
IsCurrent(s, gen) == s.gen = gen

\* take: the handle is there only once it was registered.
Revoked(ws, s) ==
  IF s.gen # 0 /\ s.handle THEN [ws EXCEPT ![s.gen].aborted = TRUE] ELSE ws

RegisterBlindly(gen) ==
  IF IsCurrent(slot, gen)
  THEN slot' = [slot EXCEPT !.handle = TRUE] /\ UNCHANGED workers
  ELSE UNCHANGED <<slot, workers>>

\* register: a claim that is no longer current is aborted instead.
RegisterHandle(gen) ==
  IF IsCurrent(slot, gen)
  THEN slot' = [slot EXCEPT !.handle = TRUE] /\ UNCHANGED workers
  ELSE workers' = [workers EXCEPT ![gen].aborted = TRUE] /\ UNCHANGED slot

-----------------------------------------------------------------------------
(* The rep thread between requests.                                        *)

RepAt(pc) == rep.pc = pc
RepGoes(pc) == rep' = [pc |-> pc, single |-> FALSE, item |-> NoItem]

PollAndForget ==
  /\ RepAt("poll") /\ ~down
  /\ finished' = FALSE
  /\ RepGoes("recv")
  /\ UNCHANGED <<q, mgr, slot, env, engines, workers, down, budget, items>>

\* Top of rep_loop: shutdown, then take_worker_finished.
Poll ==
  /\ RepAt("poll") /\ ~down
  /\ finished' = FALSE
  /\ RepGoes(IF finished THEN "auto" ELSE "recv")
  /\ UNCHANGED <<q, mgr, slot, env, engines, workers, down, budget, items>>

RecvTimeout ==
  /\ RepAt("recv")
  /\ RepGoes("poll")
  /\ UNCHANGED <<q, mgr, slot, finished, env, engines, workers, down, budget, items>>

\* rep_loop has left its loop: the worker is taken once more.
LoopExits ==
  /\ RepAt("poll") /\ down
  /\ workers' = Revoked(workers, slot) /\ slot' = Emptied(slot)
  /\ RepGoes("down")
  /\ UNCHANGED <<q, mgr, finished, env, engines, down, budget, items>>

\* ServerShutdown::shutdown, called from any thread.
Shutdown ==
  /\ ~down /\ "shutdown" \in methods
  /\ down' = TRUE
  /\ workers' = Revoked(workers, slot) /\ slot' = Emptied(slot)
  /\ UNCHANGED <<q, mgr, finished, env, engines, rep, budget, items>>

\* maybe_autostart holds the state lock while it looks at the queue.
MaybeAutostart ==
  /\ RepAt("auto")
  /\ RepGoes(IF mgr.autostart /\ q.items # <<>> THEN "check" ELSE "poll")
  /\ UNCHANGED <<q, mgr, slot, finished, env, engines, workers, down, budget, items>>

\* queue_start and queue_item_execute: engine slot and manager state.
StartCheck ==
  /\ RepAt("check")
  /\ IF env # 0 /\ mgr.state = "idle" THEN rep' = [rep EXCEPT !.pc = "claim"] ELSE RepGoes("poll")
  /\ UNCHANGED <<q, mgr, slot, finished, env, engines, workers, down, budget, items>>

ClaimAnyway == TRUE

MayClaim == slot.gen = 0

StartClaim ==
  /\ RepAt("claim")
  /\ IF MayClaim
     THEN /\ Len(workers) < MaxWorkers
          /\ slot' = Claim(slot)
          /\ workers' = Append(workers, [pc |-> "spawned", single |-> rep.single, item |-> rep.item,
               env |-> env, aborted |-> FALSE, status |-> "none", disarm |-> FALSE])
          /\ RepGoes("register")
          /\ items' = [items EXCEPT !.submitted = @ \cup (IF rep.single THEN {rep.item.uid} ELSE {})]
     ELSE RepGoes("poll") /\ UNCHANGED <<slot, workers, items>>
  /\ UNCHANGED <<q, mgr, finished, env, engines, down, budget>>

StartRegister ==
  /\ RepAt("register")
  /\ RegisterHandle(Len(workers))
  /\ RepGoes("poll")
  /\ UNCHANGED <<q, mgr, finished, env, engines, down, budget, items>>

-----------------------------------------------------------------------------
(* Requests.  One that is refused without effect is the RecvTimeout step.  *)

Receives(m) ==
  /\ RepAt("recv") /\ m \in methods
  /\ budget < MaxRequests /\ budget' = budget + 1

\* A uid that was never used: items are numbered in the order they arrive.
FreshUid == Cardinality(items.submitted) + 1

EnvOpen ==
  /\ Receives("environment_open")
  /\ env = 0 /\ Len(engines) < MaxEnvs
  /\ mgr' = [mgr EXCEPT !.state = "creating"]
  /\ RepGoes("opening")
  /\ UNCHANGED <<q, slot, finished, env, engines, workers, down, items>>

\* The environment hook may refuse the new engine.
EnvOpened(hookFails) ==
  /\ RepAt("opening")
  /\ IF hookFails
     THEN /\ mgr' = [mgr EXCEPT !.state = "closed"]
          /\ RepGoes("poll")
          /\ UNCHANGED <<env, engines>>
     ELSE /\ mgr' = [mgr EXCEPT !.state = "idle"]
          /\ engines' = Append(engines, NewEngine(FALSE))
          /\ env' = Len(engines) + 1
          /\ RepGoes("auto")
  /\ UNCHANGED <<q, slot, finished, workers, down, budget, items>>

EnvClose ==
  /\ Receives("environment_close")
  /\ env # 0 /\ engines[env].busy = NoOne /\ slot.gen = 0
  /\ mgr' = [mgr EXCEPT !.state = "closed"]
  /\ env' = 0
  /\ RepGoes("poll")
  /\ UNCHANGED <<q, slot, finished, engines, workers, down, items>>

EnvDestroy ==
  /\ Receives("environment_destroy")
  /\ env # 0
  /\ workers' = Revoked(workers, slot) /\ slot' = Emptied(slot)
  /\ mgr' = [mgr EXCEPT !.state = "destroying"]
  /\ RepGoes("destroying")
  /\ UNCHANGED <<q, finished, env, engines, down, items>>

EnvDestroyed ==
  /\ RepAt("destroying")
  /\ env' = 0
  /\ mgr' = [mgr EXCEPT !.state = "closed"]
  /\ RepGoes("poll")
  /\ UNCHANGED <<q, slot, finished, engines, workers, down, budget, items>>

\* What a handler that only touches the queue leaves alone.
OnlyQueue == UNCHANGED <<mgr, slot, finished, env, engines, workers, down>>

QueueItemAdd(kind, place) ==
  /\ Receives("queue_item_add")
  /\ FreshUid \in Uids
  /\ LET r == InsertPositioned(q, [uid |-> FreshUid, kind |-> kind], place)
     IN  /\ r.ok
         /\ q' = r.q
         /\ items' = [items EXCEPT !.submitted = @ \cup {FreshUid}]
  /\ RepGoes("auto")
  /\ OnlyQueue

QueueItemAddBatchOf2(place) ==
  /\ Receives("queue_item_add_batch")
  /\ FreshUid + 1 \in Uids
  /\ LET r == QueueItemAddBatch(q, [uid |-> FreshUid, kind |-> "plan"], [uid |-> FreshUid + 1, kind |-> "plan"], place)
     IN  /\ r.ok
         /\ q' = r.q
         /\ items' = [items EXCEPT !.submitted = @ \cup {FreshUid, FreshUid + 1}]
  /\ RepGoes("auto")
  /\ OnlyQueue

\* The replacement is always a plan item and its name is not looked up.
QueueItemUpdate(uid, kind, replace) ==
  /\ Receives("queue_item_update")
  /\ kind \in {"plan", "bad"}
  /\ replace => FreshUid \in Uids
  /\ LET r == IF replace THEN ReplaceAtUid(q, uid, [uid |-> FreshUid, kind |-> kind])
                         ELSE UpdateItem(q, uid, [uid |-> uid, kind |-> kind])
     IN  /\ r.ok
         /\ q' = r.q
         /\ items' = IF replace THEN [items EXCEPT !.submitted = @ \cup {FreshUid},
                                                   !.withdrawn = @ \cup {uid}]
                     ELSE items
  /\ RepGoes("poll")
  /\ OnlyQueue

QueueItemRemove(u, v) ==
  /\ Receives("queue_item_remove")
  /\ q' = QueueItemRemoveBatch(q, u, v)
  /\ q' # q
  /\ items' = [items EXCEPT !.withdrawn = @ \cup (Pending(q) \cap {u, v})]
  /\ RepGoes("poll")
  /\ OnlyQueue

QueueClear ==
  /\ Receives("queue_clear")
  /\ q' = ClearItems(q)
  /\ items' = [items EXCEPT !.withdrawn = @ \cup Pending(q)]
  /\ RepGoes("poll")
  /\ OnlyQueue

\* A failed move reports an error; the queue is what the attempt left.
QueueItemMove(uid, place) ==
  /\ Receives("queue_item_move")
  /\ uid \in Pending(q)
  /\ StrictMoves /\ place.at # "pos" => place.ref \in Pending(q) \ {uid}
  /\ q' = MoveTowards(q, uid, place).q
  /\ q' # q
  /\ RepGoes("poll")
  /\ UNCHANGED items
  /\ OnlyQueue

QueueItemMoveBatchOf2(u1, u2, place, reorder) ==
  /\ Receives("queue_item_move_batch")
  /\ LET r == QueueItemMoveBatch(q, u1, u2, place, reorder)
     IN  r.q # q /\ q' = r.q
  /\ RepGoes("poll")
  /\ UNCHANGED items
  /\ OnlyQueue

HistoryClear ==
  /\ Receives("history_clear")
  /\ q.history # {}
  /\ q' = ClearHistory(q)
  /\ RepGoes("poll")
  /\ UNCHANGED items
  /\ OnlyQueue

QueueStart ==
  /\ Receives("queue_start")
  /\ RepGoes("check")
  /\ UNCHANGED <<q, mgr, slot, finished, env, engines, workers, down, items>>

\* The plan is built before anything is claimed.
QueueItemExecute ==
  /\ Receives("queue_item_execute")
  /\ FreshUid \in Uids
  /\ rep' = [pc |-> "check", single |-> TRUE, item |-> [uid |-> FreshUid, kind |-> "plan"]]
  /\ UNCHANGED <<q, mgr, slot, finished, env, engines, workers, down, items>>

\* queue_stop, queue_stop_cancel, queue_autostart and queue_mode_set.
SetFlag(m, field, value) ==
  /\ Receives(m)
  /\ mgr' = [mgr EXCEPT ![field] = value]
  /\ RepGoes(IF field = "autostart" /\ value THEN "auto" ELSE "poll")
  /\ UNCHANGED <<q, slot, finished, env, engines, workers, down, items>>

\* re_pause is refused while the engine is idle; re_resume, re_abort and
\* re_halt clear pause_pending first, re_stop does not.
RePause ==
  /\ Receives("re_pause")
  /\ env # 0 /\ engines[env].busy # NoOne
  /\ engines' = [engines EXCEPT ![env].paused = TRUE]
  /\ mgr' = [mgr EXCEPT !.pausePending = TRUE]
  /\ RepGoes("poll")
  /\ UNCHANGED <<q, slot, finished, env, workers, down, items>>

ReWith(m, intr) ==
  /\ Receives(m)
  /\ mgr' = IF m = "re_stop" THEN mgr ELSE [mgr EXCEPT !.pausePending = FALSE]
  /\ engines' = IF env = 0 THEN engines
                ELSE [engines EXCEPT ![env].paused = FALSE,
                                     ![env].intr = IF intr = "none" THEN @ ELSE intr]
  /\ RepGoes("poll")
  /\ UNCHANGED <<q, slot, finished, env, workers, down, items>>

ManagerStop ==
  /\ Receives("manager_stop")
  /\ workers' = Revoked(workers, slot) /\ slot' = Emptied(slot)
  /\ down' = TRUE
  /\ RepGoes("poll")
  /\ UNCHANGED <<q, mgr, finished, env, engines, items>>

\* The prompt of a fused console runs a plan of its own on the engine it made.
ConsoleRun ==
  /\ "console" \in methods
  /\ \E e \in DOMAIN engines :
       /\ engines[e].console /\ engines[e].busy = NoOne
       /\ engines' = [engines EXCEPT ![e].busy = Console, ![e].intr = "none"]
  /\ UNCHANGED <<q, mgr, slot, finished, env, workers, rep, down, budget, items>>

ConsoleEnds ==
  \E e \in DOMAIN engines :
    /\ engines[e].busy = Console /\ ~engines[e].paused
    /\ engines' = [engines EXCEPT ![e].busy = NoOne]
    /\ UNCHANGED <<q, mgr, slot, finished, env, workers, rep, down, budget, items>>

Request ==
  \/ EnvOpen \/ EnvClose \/ EnvDestroy
  \/ \E kind \in {"plan", "stop"}, place \in Places : QueueItemAdd(kind, place)
  \/ \E place \in Places : QueueItemAddBatchOf2(place)
  \/ \E uid \in Uids, kind \in Kinds, replace \in BOOLEAN : QueueItemUpdate(uid, kind, replace)
  \/ \E u, v \in Uids : QueueItemRemove(u, v)
  \/ QueueClear
  \/ \E uid \in Uids, place \in Places : QueueItemMove(uid, place)
  \/ \E u1, u2 \in Uids, place \in Places, reorder \in BOOLEAN :
       QueueItemMoveBatchOf2(u1, u2, place, reorder)
  \/ HistoryClear \/ QueueStart \/ QueueItemExecute
  \/ SetFlag("queue_stop", "stopPending", TRUE)
  \/ SetFlag("queue_stop_cancel", "stopPending", FALSE)
  \/ \E b \in BOOLEAN : SetFlag("queue_autostart", "autostart", b)
  \/ \E b \in BOOLEAN : SetFlag("queue_mode_set", "loop", b)
  \/ RePause
  \/ ReWith("re_resume", "none") \/ ReWith("re_abort", "abort")
  \/ ReWith("re_halt", "halt") \/ ReWith("re_stop", "none")
  \/ ManagerStop

-----------------------------------------------------------------------------
(* Workers: execute_queue_loop, execute_single_item and run_plan_item.     *)

WorkerAt(w, pc) == w \in DOMAIN workers /\ workers[w].pc = pc
WorkerGoes(w, pc) == workers' = [workers EXCEPT ![w].pc = pc]

\* An aborted task is dropped where it would be polled again.
Dropped(w) ==
  /\ WorkerAt(w, "spawned") \/ WorkerAt(w, "run")
  /\ workers[w].aborted
  /\ WorkerGoes(w, "release")
  /\ items' = [items EXCEPT !.revoked = @ \cup ({workers[w].item.uid} \ {NoItem.uid})]
  /\ UNCHANGED <<q, mgr, slot, finished, env, engines, rep, down, budget>>

Begins(w) ==
  /\ WorkerAt(w, "spawned") /\ ~workers[w].aborted
  /\ WorkerGoes(w, IF workers[w].single THEN "begin" ELSE "top")
  /\ UNCHANGED <<q, mgr, slot, finished, env, engines, rep, down, budget, items>>

Top(w) ==
  /\ WorkerAt(w, "top")
  /\ WorkerGoes(w, IF mgr.stopPending THEN "clear" ELSE "pop")
  /\ UNCHANGED <<q, mgr, slot, finished, env, engines, rep, down, budget, items>>

ClearStop(w) ==
  /\ WorkerAt(w, "clear")
  /\ mgr' = [mgr EXCEPT !.stopPending = FALSE]
  /\ workers' = [workers EXCEPT ![w].pc = "idle", ![w].disarm = TRUE]
  /\ UNCHANGED <<q, slot, finished, env, engines, rep, down, budget, items>>

AfterPop(it, builds) ==
  CASE it.kind = "stop"             -> "stopdone"
    [] it.kind = "plan" /\ builds   -> "begin"
    [] it.kind = "plan" /\ ~builds  -> "reject"
    [] it.kind = "bad"              -> "reject"

Pop(w, builds) ==
  /\ WorkerAt(w, "pop")
  /\ q' = PopFront(q)
  /\ workers' =
       IF q.items = <<>>
       THEN [workers EXCEPT ![w].pc = "idle", ![w].disarm = FALSE]
       ELSE [workers EXCEPT ![w].pc = AfterPop(Head(q.items), builds), ![w].item = Head(q.items)]
  /\ UNCHANGED <<mgr, slot, finished, env, engines, rep, down, budget, items>>

Archives(w) == items' = [items EXCEPT !.archived = @ \cup {workers[w].item.uid}]

\* The queue_stop instruction is archived, then becomes a pending stop.
StopDone(w) ==
  /\ WorkerAt(w, "stopdone")
  /\ q' = PushHistory(q, workers[w].item)
  /\ workers' = [workers EXCEPT ![w].pc = "stopset", ![w].item = NoItem]
  /\ Archives(w)
  /\ UNCHANGED <<mgr, slot, finished, env, engines, rep, down, budget>>

StopSet(w) ==
  /\ WorkerAt(w, "stopset")
  /\ mgr' = [mgr EXCEPT !.stopPending = TRUE]
  /\ WorkerGoes(w, "top")
  /\ UNCHANGED <<q, slot, finished, env, engines, rep, down, budget, items>>

\* Unknown plan or failed build: archived as failed, the queue stops.
Reject(w) ==
  /\ WorkerAt(w, "reject")
  /\ q' = PushHistory(q, workers[w].item)
  /\ workers' = [workers EXCEPT ![w].pc = "idle", ![w].disarm = TRUE, ![w].item = NoItem]
  /\ Archives(w)
  /\ UNCHANGED <<mgr, slot, finished, env, engines, rep, down, budget>>

BeginItem(w) ==
  /\ WorkerAt(w, "begin")
  /\ mgr' = [mgr EXCEPT !.state = "executing", !.current = workers[w].item]
  /\ WorkerGoes(w, "enter")
  /\ UNCHANGED <<q, slot, finished, env, engines, rep, down, budget, items>>

\* run_async refuses a second plan; the refusal is a failed item.
EnterRun(w) ==
  /\ WorkerAt(w, "enter")
  /\ LET e == workers[w].env IN
     IF engines[e].busy = NoOne
     THEN /\ engines' = [engines EXCEPT ![e].busy = w, ![e].intr = "none"]
          /\ WorkerGoes(w, "run")
     ELSE /\ workers' = [workers EXCEPT ![w].pc = "book", ![w].status = "fail"]
          /\ UNCHANGED engines
  /\ UNCHANGED <<q, mgr, slot, finished, env, rep, down, budget, items>>

RunEnds(w) ==
  /\ WorkerAt(w, "run")
  /\ LET e == workers[w].env IN
     /\ ~engines[e].paused
     /\ engines' = [engines EXCEPT ![e].busy = NoOne]
     /\ \E s \in IF engines[e].intr = "none" THEN {"success", "no-run", "fail"} ELSE {engines[e].intr} :
          workers' = [workers EXCEPT ![w].pc = "book", ![w].status = s]
  /\ UNCHANGED <<q, mgr, slot, finished, env, rep, down, budget, items>>

Book(w) ==
  /\ WorkerAt(w, "book")
  /\ mgr' = [mgr EXCEPT !.current = NoItem]
  /\ WorkerGoes(w, "archive")
  /\ UNCHANGED <<q, slot, finished, env, engines, rep, down, budget, items>>

ItemCompleted(status) == status \in {"success", "no-run"}

Archive(w) ==
  /\ WorkerAt(w, "archive")
  /\ q' = PushHistory(q, workers[w].item)
  /\ workers' = [workers EXCEPT ![w].pc = IF workers[w].single THEN "idle" ELSE "loop",
                                ![w].disarm = ~ItemCompleted(workers[w].status)]
  /\ Archives(w)
  /\ UNCHANGED <<mgr, slot, finished, env, engines, rep, down, budget>>

\* Loop mode re-enqueues whatever the outcome; an item that did not finish
\* stops the queue.
LoopItem(w) ==
  /\ WorkerAt(w, "loop")
  /\ q' = IF mgr.loop THEN PushBack(q, workers[w].item) ELSE q
  /\ workers' = [workers EXCEPT ![w].pc = IF workers[w].disarm THEN "idle" ELSE "top",
                                ![w].item = NoItem, ![w].status = "none"]
  /\ UNCHANGED <<mgr, slot, finished, env, engines, rep, down, budget, items>>

IdleOutOnFailure(w) ==
  /\ WorkerAt(w, "idle")
  /\ mgr' = [mgr EXCEPT !.state = IF workers[w].disarm THEN "idle" ELSE @, !.pausePending = FALSE,
                        !.current = NoItem, !.autostart = @ /\ ~workers[w].disarm]
  /\ WorkerGoes(w, "release")
  /\ UNCHANGED <<q, slot, finished, env, engines, rep, down, budget, items>>

IdleOut(w) ==
  /\ WorkerAt(w, "idle")
  /\ mgr' = [mgr EXCEPT !.state = "idle", !.pausePending = FALSE, !.current = NoItem,
                        !.autostart = @ /\ ~workers[w].disarm]
  /\ WorkerGoes(w, "release")
  /\ UNCHANGED <<q, slot, finished, env, engines, rep, down, budget, items>>

\* SlotClaim::drop.
Release(w) ==
  /\ WorkerAt(w, "release")
  /\ workers' = [workers EXCEPT ![w].pc = "done", ![w].item = NoItem, ![w].status = "none"]
  /\ IF IsCurrent(slot, w)
     THEN slot' = Emptied(slot) /\ finished' = TRUE
     ELSE UNCHANGED <<slot, finished>>
  /\ UNCHANGED <<q, mgr, env, engines, rep, down, budget, items>>

WorkerStep(w) ==
  \/ Dropped(w) \/ Begins(w) \/ Top(w) \/ ClearStop(w)
  \/ \E builds \in BOOLEAN : Pop(w, builds)
  \/ StopDone(w) \/ StopSet(w) \/ Reject(w) \/ BeginItem(w) \/ EnterRun(w) \/ RunEnds(w)
  \/ Book(w) \/ Archive(w) \/ LoopItem(w) \/ IdleOut(w) \/ Release(w)

RepStep ==
  \/ Poll \/ RecvTimeout \/ LoopExits \/ MaybeAutostart \/ StartCheck \/ StartClaim \/ StartRegister
  \/ \E hookFails \in BOOLEAN : EnvOpened(hookFails)
  \/ EnvDestroyed

Next ==
  /\ \/ RepStep \/ Request \/ Shutdown \/ ConsoleRun \/ ConsoleEnds
     \/ \E w \in 1 .. MaxWorkers : WorkerStep(w)
  /\ UNCHANGED methods

Spec == Init /\ [][Next]_vars

\* The rep loop turns and spawned tasks are scheduled; nothing makes a
\* client ask.  A plan that is not paused ends.
FairSpec ==
  /\ Spec
  /\ WF_vars(RepStep /\ UNCHANGED methods)
  /\ WF_vars(ConsoleEnds /\ UNCHANGED methods)
  /\ \A w \in 1 .. MaxWorkers : WF_vars(WorkerStep(w) /\ UNCHANGED methods)

-----------------------------------------------------------------------------
(* Properties.                                                             *)

\* The worker that has taken the item and not yet archived it.
Holding == {"spawned", "stopdone", "reject", "begin", "enter", "run", "book", "archive"}
Holders(uid) == {w \in DOMAIN workers : workers[w].item.uid = uid /\ workers[w].pc \in Holding}

Accounted(uid) ==
  \/ uid \in Pending(q)
  \/ Holders(uid) # {}
  \/ uid \in items.withdrawn \cup items.archived \cup items.revoked

\* No item disappears: a submitted item is pending, held by a worker,
\* archived, withdrawn by a client, or was lost with a worker that
\* environment_destroy, manager_stop or shutdown stopped by force
\* (PlanQueue moves, execute_queue_loop, run_plan_item).
NoItemLost == \A uid \in items.submitted : Accounted(uid)

\* Rule K1 (server.rs): when the request loop has ended, no worker is left
\* that was not told to stop, wherever the shutdown fell between the claim
\* of the slot, the spawn and the registration of the abort handle.
NoOrphanWorker ==
  RepAt("down") => \A w \in DOMAIN workers : workers[w].aborted \/ workers[w].pc \in {"release", "done"}

\* The manager is never wedged: with an open environment, no worker alive
\* and none ever stopped by force, queue_start finds the manager idle and
\* the slot free (idle_out before the claim is dropped, generation checks).
Startable ==
  (/\ RepAt("recv") /\ env # 0
   /\ \A w \in DOMAIN workers : ~Live(w) /\ ~workers[w].aborted)
    => mgr.state = "idle" /\ MayClaim

\* An armed queue does not sit still with the engine free: an item added
\* while the worker was leaving is started when its slot is announced free
\* (maybe_autostart, take_worker_finished).
Armed ==
  /\ mgr.autostart /\ q.items # <<>> /\ env # 0 /\ ~down
  /\ Len(workers) < MaxWorkers
  /\ \A w \in DOMAIN workers : ~workers[w].aborted
ArmedQueueRuns == (Armed /\ MayClaim) ~> (~MayClaim \/ ~Armed)

LedgerStage(uid) ==
  CASE uid \in Pending(q) -> "pending"
    [] uid \notin Pending(q) /\ Holders(uid) # {} ->
         IF \E w \in Holders(uid) : workers[w].aborted THEN "orphan" ELSE "running"
    [] OTHER ->
         CASE uid \in items.withdrawn \cup items.revoked -> "gone"
           [] uid \in items.archived \ (items.withdrawn \cup items.revoked) -> "done"
           [] uid \notin items.submitted -> "none"
           [] OTHER -> "lost"

Ledger == INSTANCE PlanLedger WITH LedgerItems <- Uids, stage <- [uid \in Uids |-> LedgerStage(uid)]

\* The server implements PlanLedger: one item at a time, an item is started
\* once for each time it is queued, and nothing that was started is
\* forgotten except by a worker stopped by force.
ImplementsLedger == Ledger!LedgerSpec
=============================================================================
