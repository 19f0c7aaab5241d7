------------------------------- MODULE QsGate -------------------------------
(***************************************************************************)
(* What stands between a client and the handlers of the queue server: the  *)
(* permission check (qs/permissions.rs), the lock (qs/state.rs, lock_* of  *)
(* qs/dispatch.rs) and, for work done in the background, the task tracker  *)
(* (qs/tasks.rs).                                                          *)
(*                                                                         *)
(* dispatch runs on one thread, one request after another; the worker that *)
(* drains the queue and the tasks spawned run beside it.  A request is its *)
(* method, the plan names its params carry, its api_key and its lock_key   *)
(* (NoKey when absent).  Of what the handlers and the worker do, this      *)
(* keeps what they do to the items let in, to the loop mode and to whether *)
(* the environment is open; the order of the queue, the places asked for,  *)
(* the start of workers and the states of the manager are QueueServer's.   *)
(***************************************************************************)
EXTENDS Integers, Sequences, FiniteSets, SequencesExt

CONSTANTS
  PermFiles,   \* the contents the permissions file may have, see LoadFromFile
  PlanNames,   \* plan names clients submit
  LockKeys,    \* lock_key values
  MaxTasks,    \* MAX_TASKS of the tracker
  MaxStarted,  \* bound on background tasks started
  MaxGateCalls \* bound on requests

NoKey == "none"
NoName == ""
QueueStop == "queue_stop"   \* the one instruction
NoGroup == ""

ASSUME GateAssumption ==
  /\ MaxTasks \in Nat \ {0} /\ MaxStarted \in Nat /\ MaxGateCalls \in Nat
  /\ NoKey \notin LockKeys /\ {NoName, QueueStop} \cap PlanNames = {}

VARIABLES
  perms,    \* Permissions::inner
  disk,     \* what the permissions file holds now
  lock,     \* LockInfo: queue, environment, key
  plans,    \* the items queued: [id, name, under], under the policy that let it in
  atWorker, \* the items its workers have: [item, single]
  loopMode, \* queue_mode.loop
  env,      \* whether the environment is open
  tracker,  \* TaskTracker: entries and order; a task's uid is its number
  started,  \* tasks spawned: [result, counted]
  bg,       \* worker_background_tasks
  poll,     \* a task_result under way: what it read so far
  answer    \* the last request and what it was told

queueVars == <<plans, atWorker, loopMode, env>>
taskVars  == <<tracker, started, bg>>
gateVars  == <<perms, disk, lock, queueVars, taskVars, poll, answer>>

-----------------------------------------------------------------------------
(* Permissions.                                                            *)

InfoMethods == {"ping", "status", "config_get", "queue_get", "history_get", "plans_allowed", "plans_existing",
                "devices_allowed", "devices_existing", "device_inspect", "lock_info", "task_status", "task_result",
                "permissions_get", "manager_test", "manager_version", "re_runs"}
QueueAddMethods == {"queue_item_add", "queue_item_add_batch", "queue_item_execute", "queue_item_update"}
QueueMutateMethods == {"queue_item_remove", "queue_item_remove_batch", "queue_item_move", "queue_item_move_batch",
                       "queue_clear", "queue_start", "queue_stop", "queue_stop_cancel", "queue_autostart",
                       "queue_mode_set", "history_clear", "environment_open", "environment_close",
                       "environment_destroy", "environment_update", "re_pause", "re_resume", "re_abort", "re_halt",
                       "re_stop", "re_metadata", "re_runs_clear"}
AdminMethods == {"permissions_reload", "permissions_set", "manager_stop", "manager_kill", "script_upload",
                 "function_execute", "kernel_interrupt", "lua_eval"}
LockMethods  == {"lock", "unlock"}

Classify(m) ==
  CASE m \in InfoMethods        -> "info"
    [] m \in QueueAddMethods    -> "queue_add"
    [] m \in QueueMutateMethods -> "queue_mutate"
    [] m \in AdminMethods       -> "admin"
    [] m \in LockMethods        -> "lock"
    [] OTHER                    -> "unknown"

\* Without a permissions file nothing is enforced; the two groups let
\* everything through, only root's is an admin.
Everything(admin) == [readOnly |-> FALSE, admin |-> admin, plans |-> PlanNames \cup {QueueStop}]
Permissive == [enforced |-> FALSE, default |-> "primary",
               groups |-> [root |-> Everything(TRUE), primary |-> Everything(FALSE)], keys |-> <<>>]

\* A file that does not parse, that has a bad regex, or whose default group
\* has no section does not load.
DefaultGroup(file) == IF file.default = NoGroup THEN "primary" ELSE file.default
LoadFromFile(file) == file.parses /\ DefaultGroup(file) \in DOMAIN file.groups
Loaded(file) == [enforced |-> TRUE, default |-> DefaultGroup(file), groups |-> file.groups, keys |-> file.keys]

ResolveGroup(api) == IF api \in DOMAIN perms.keys THEN perms.keys[api] ELSE perms.default

\* Mutant: only the first name of a batch.
FirstNameOnly(names) == IF names = <<>> THEN {} ELSE {names[1]}
\* item.name, or the name of every one of items: one that has none adds none.
PlanNamesFromParams(names) == ToSet(names) \ {NoName}

PlanAllowed(policy, name) == name \in policy.plans

Permitted(m, names, group) ==
  \/ ~perms.enforced
  \/ /\ group \in DOMAIN perms.groups
     /\ LET policy == perms.groups[group] IN
        CASE Classify(m) = "queue_add" ->
               /\ ~policy.readOnly
               /\ \A n \in PlanNamesFromParams(names) : PlanAllowed(policy, n)
          [] Classify(m) = "queue_mutate" -> ~policy.readOnly
          [] Classify(m) = "admin"        -> policy.admin
          [] OTHER                        -> TRUE

IsAdmin(group) ==
  ~perms.enforced \/ (group \in DOMAIN perms.groups /\ perms.groups[group].admin)

-----------------------------------------------------------------------------
(* The lock.                                                               *)

Unlocked == [queue |-> FALSE, environment |-> FALSE, key |-> NoKey]

IsLocked == lock.queue \/ lock.environment

AlwaysAllowed == {"ping", "status", "config_get", "queue_get", "history_get", "lock_info", "plans_allowed",
                  "plans_existing", "devices_allowed", "devices_existing", "re_runs", "re_metadata", "task_status",
                  "task_result", "manager_test"}
EnvMethods == {"environment_open", "environment_close", "environment_destroy", "environment_update"}
\* The methods named queue_..., history_... and re_...
QueueMethods == (QueueAddMethods \cup QueueMutateMethods \cup {"queue_get", "queue_item_get", "history_get", "re_runs"})
                  \ EnvMethods

Blocked(m) == (lock.environment /\ m \in EnvMethods) \/ (lock.queue /\ m \in QueueMethods)

LockCheck(m, key) ==
  \/ m \in AlwaysAllowed
  \/ ~IsLocked
  \/ key = lock.key
  \/ m # "unlock" /\ ~Blocked(m)

-----------------------------------------------------------------------------
(* TaskTracker.                                                            *)

NewTracker == [entries |-> <<>>, order |-> <<>>]

TaskTracked == DOMAIN tracker.entries

TrackedAfter(t, old, uid, m) ==
  LET keep == DOMAIN t.entries \ old
  IN  [u \in keep \cup {uid} |-> IF u = uid THEN [state |-> "running", from |-> m] ELSE t.entries[u]]
\* Mutant: the youngest entry makes room.
EvictNewest(t, uid, m) ==
  IF Cardinality(DOMAIN t.entries) >= MaxTasks /\ t.order # <<>>
  THEN [entries |-> TrackedAfter(t, {Last(t.order)}, uid, m), order |-> Append(Front(t.order), uid)]
  ELSE [entries |-> TrackedAfter(t, {}, uid, m), order |-> Append(t.order, uid)]
\* start: the oldest entry makes room, whatever its state.
TrackerStart(t, uid, m) ==
  IF Cardinality(DOMAIN t.entries) >= MaxTasks /\ t.order # <<>>
  THEN [entries |-> TrackedAfter(t, {Head(t.order)}, uid, m), order |-> Append(Tail(t.order), uid)]
  ELSE [entries |-> TrackedAfter(t, {}, uid, m), order |-> Append(t.order, uid)]

TrackerComplete(t, uid, result) ==
  IF uid \in DOMAIN t.entries THEN [t EXCEPT !.entries[uid].state = result] ELSE t

\* task_status answers "completed" for a uid it does not know.
TaskStatus(uid) == IF uid \in TaskTracked THEN tracker.entries[uid].state ELSE "completed"
\* The result of a task that is known and over.
TaskResult(uid) ==
  IF uid \in TaskTracked /\ tracker.entries[uid].state # "running" THEN tracker.entries[uid].state ELSE "none"

CheckTaskAccess(uid, group) ==
  uid \in TaskTracked /\ Classify(tracker.entries[uid].from) = "admin" => IsAdmin(group)

-----------------------------------------------------------------------------
(* Requests.                                                               *)

NoPoll == [uid |-> 0, status |-> "none", result |-> "unread"]
\* Of an answer: the lock_key it answers and, of a task polled, what is told.
NoAnswer == [n |-> 0, key |-> NoKey, about |-> 0, told |-> "none", result |-> "unread", out |-> "unread"]

\* A server given a file that does not load does not start.
GateInit ==
  /\ disk \in PermFiles
  /\ perms = Permissive \/ (LoadFromFile(disk) /\ perms = Loaded(disk))
  /\ lock = Unlocked
  /\ plans = {} /\ atWorker = {} /\ loopMode = FALSE /\ env = FALSE
  /\ tracker = NewTracker /\ started = <<>> /\ bg = 0
  /\ poll = NoPoll /\ answer = NoAnswer

\* dispatch: the permission check, then the lock check, then the handler.
PassesGate(m, names, api, key) == Permitted(m, names, ResolveGroup(api)) /\ LockCheck(m, key)
RepIdle == poll = NoPoll /\ answer.n < MaxGateCalls
Admitted(m, names, api, key) == RepIdle /\ PassesGate(m, names, api, key)

GateAnswers(key) == answer' = [NoAnswer EXCEPT !.n = answer.n + 1, !.key = key]

\* The gate refuses, or the handler does: a param is missing or ambiguous,
\* the plan unknown, the item gone, the environment in the wrong state; or
\* the method only reads.
Refused(key) ==
  /\ RepIdle /\ GateAnswers(key)
  /\ UNCHANGED <<perms, disk, lock, queueVars, taskVars, poll>>

Policy(api) == IF perms.enforced THEN perms.groups[ResolveGroup(api)] ELSE Everything(TRUE)
\* An item's id stands for its uid: the request that brought it, and its place.
Item(i, name, api) == [id |-> <<answer.n + 1, i>>, name |-> name, under |-> Policy(api)]
LetIn(names, api) == {Item(i, names[i], api) : i \in DOMAIN names}

\* A handler that changes the items or the mode, and nothing else.
QueueRequest(m, names, api, key) ==
  /\ Admitted(m, names, api, key) /\ GateAnswers(key)
  /\ UNCHANGED <<perms, disk, lock, taskVars, poll>>

\* queue_item_add of a plan or of the instruction, and queue_item_add_batch
\* of plans, all of it or none.
QueueItemAdd(name, api, key) ==
  /\ QueueRequest("queue_item_add", <<name>>, api, key)
  /\ plans' = plans \cup LetIn(<<name>>, api)
  /\ UNCHANGED <<atWorker, loopMode, env>>
QueueItemAddBatch(names, api, key) ==
  /\ QueueRequest("queue_item_add_batch", names, api, key)
  /\ plans' = plans \cup LetIn(names, api)
  /\ UNCHANGED <<atWorker, loopMode, env>>
\* queue_item_execute: to a worker of its own at once, past the queue.
QueueItemExecute(name, api, key) ==
  /\ env /\ atWorker = {}
  /\ QueueRequest("queue_item_execute", <<name>>, api, key)
  /\ atWorker' = {[item |-> Item(1, name, api), single |-> TRUE]}
  /\ UNCHANGED <<plans, loopMode, env>>
\* queue_item_update: the item is replaced, under its uid or with `replace`
\* under a new one; what replaces it need not name a plan.
QueueItemUpdate(p, name, replace, api, key) ==
  /\ p \in plans
  /\ QueueRequest("queue_item_update", <<name>>, api, key)
  /\ LET new == Item(1, name, api)
     IN  plans' = (plans \ {p}) \cup {IF replace THEN new ELSE [new EXCEPT !.id = p.id]}
  /\ UNCHANGED <<atWorker, loopMode, env>>
QueueItemRemove(p, api, key) ==
  /\ p \in plans
  /\ QueueRequest("queue_item_remove", <<>>, api, key)
  /\ plans' = plans \ {p}
  /\ UNCHANGED <<atWorker, loopMode, env>>
\* queue_item_remove_batch: the uids it knows, and the others are no error.
QueueItemRemoveBatch(batch, api, key) ==
  /\ QueueRequest("queue_item_remove_batch", <<>>, api, key)
  /\ plans' = plans \ batch
  /\ UNCHANGED <<atWorker, loopMode, env>>
ClearQueue(api, key) ==
  /\ QueueRequest("queue_clear", <<>>, api, key)
  /\ plans' = {}
  /\ UNCHANGED <<atWorker, loopMode, env>>
QueueModeSet(loops, api, key) ==
  /\ QueueRequest("queue_mode_set", <<>>, api, key)
  /\ loopMode' = loops
  /\ UNCHANGED <<plans, atWorker, env>>

\* The worker takes an item: no request, and no lock stops it.  In loop mode
\* it puts back what it took from the queue, unless it was aborted; the
\* instruction is never put back.
WorkerTakes(p) ==
  /\ p \in plans /\ plans' = plans \ {p}
  /\ atWorker' = atWorker \cup {[item |-> p, single |-> FALSE]}
  /\ UNCHANGED <<perms, disk, lock, loopMode, env, taskVars, poll, answer>>
WorkerEnds(w, aborted) ==
  /\ w \in atWorker /\ atWorker' = atWorker \ {w}
  /\ plans' = IF loopMode /\ ~aborted /\ ~w.single /\ w.item.name # QueueStop THEN plans \cup {w.item} ELSE plans
  /\ UNCHANGED <<perms, disk, lock, loopMode, env, taskVars, poll, answer>>

\* environment_open (unless its hook fails), environment_close (not while a
\* worker is active) and environment_destroy, which aborts the worker.
EnvironmentOp(m, api, key) ==
  /\ \/ m = "environment_open" /\ ~env
     \/ m = "environment_close" /\ env /\ atWorker = {}
     \/ m = "environment_destroy" /\ env
  /\ QueueRequest(m, <<>>, api, key)
  /\ env' = (m = "environment_open")
  /\ UNCHANGED <<plans, atWorker, loopMode>>

\* reload: a file that does not load leaves the state in place; the
\* permissive default has no file.
PermissionsReload(api, key) ==
  /\ Admitted("permissions_reload", <<>>, api, key)
  /\ IF perms.enforced /\ LoadFromFile(disk)
     THEN perms' = Loaded(disk) ELSE UNCHANGED perms
  /\ GateAnswers(key)
  /\ UNCHANGED <<disk, lock, queueVars, taskVars, poll>>

EditFile ==
  /\ disk' \in PermFiles \ {disk}
  /\ UNCHANGED <<perms, lock, queueVars, taskVars, poll, answer>>

\* Mutant: any key changes a lock.
LockTakenOver(key) == TRUE
\* lock_apply and lock_release: only the holder of the key may change a
\* lock.
LockAvailable(key) == ~IsLocked \/ lock.key = key

LockApply(environment, queue, api, key) ==
  /\ Admitted("lock", <<>>, api, key)
  /\ key # NoKey /\ (environment \/ queue) /\ LockAvailable(key)
  /\ lock' = [queue |-> queue, environment |-> environment, key |-> key]
  /\ GateAnswers(key)
  /\ UNCHANGED <<perms, disk, queueVars, taskVars, poll>>

LockRelease(api, key) ==
  /\ Admitted("unlock", <<>>, api, key)
  /\ key # NoKey /\ LockAvailable(key)
  /\ lock' = Unlocked
  /\ GateAnswers(key)
  /\ UNCHANGED <<perms, disk, queueVars, taskVars, poll>>

\* lua_eval and function_execute: tracked, counted, then spawned.
StartTask(m, api, key) ==
  /\ m \in {"lua_eval", "function_execute"} /\ Len(started) < MaxStarted
  /\ Admitted(m, <<>>, api, key)
  /\ tracker' = TrackerStart(tracker, Len(started) + 1, m)
  /\ started' = Append(started, [result |-> "running", counted |-> TRUE])
  /\ bg' = bg + 1
  /\ GateAnswers(key)
  /\ UNCHANGED <<perms, disk, lock, queueVars, poll>>

\* The spawned task stores its result (a panic is a failed one) and then,
\* under another mutex, takes itself off the count.
TaskStores(uid, result) ==
  /\ uid \in DOMAIN started /\ started[uid].result = "running"
  /\ tracker' = TrackerComplete(tracker, uid, result)
  /\ started' = [started EXCEPT ![uid].result = result]
  /\ UNCHANGED <<perms, disk, lock, queueVars, bg, poll, answer>>

TaskUncounts(uid) ==
  /\ uid \in DOMAIN started /\ started[uid].result # "running" /\ started[uid].counted
  /\ bg' = IF bg = 0 THEN 0 ELSE bg - 1
  /\ started' = [started EXCEPT ![uid].counted = FALSE]
  /\ UNCHANGED <<perms, disk, lock, queueVars, tracker, poll, answer>>

PollStatus(uid, api) ==
  /\ uid \in DOMAIN started
  /\ Admitted("task_status", <<>>, api, NoKey) /\ CheckTaskAccess(uid, ResolveGroup(api))
  /\ answer' = [NoAnswer EXCEPT !.n = answer.n + 1, !.about = uid, !.told = TaskStatus(uid)]
  /\ UNCHANGED <<perms, disk, lock, queueVars, taskVars, poll>>
\* task_result reads the status, then the result, then the result again for
\* what it wrote, and lets go of the tracker's lock in between.
PollResult(uid, api) ==
  /\ uid \in DOMAIN started
  /\ Admitted("task_result", <<>>, api, NoKey) /\ CheckTaskAccess(uid, ResolveGroup(api))
  /\ poll' = [NoPoll EXCEPT !.uid = uid, !.status = TaskStatus(uid)]
  /\ UNCHANGED <<perms, disk, lock, queueVars, taskVars, answer>>
PollReads ==
  /\ poll # NoPoll /\ poll.result = "unread"
  /\ poll' = [poll EXCEPT !.result = TaskResult(poll.uid)]
  /\ UNCHANGED <<perms, disk, lock, queueVars, taskVars, answer>>
PollEnds ==
  /\ poll # NoPoll /\ poll.result # "unread" /\ poll' = NoPoll
  /\ answer' = [n |-> answer.n + 1, key |-> NoKey, about |-> poll.uid, told |-> poll.status, result |-> poll.result,
                out |-> TaskResult(poll.uid)]
  /\ UNCHANGED <<perms, disk, lock, queueVars, taskVars>>

ApiKeys == UNION {DOMAIN f.keys : f \in PermFiles} \cup {NoKey}

KeyedNext(api, key) ==
  \/ \E name \in PlanNames \cup {QueueStop} : QueueItemAdd(name, api, key)
  \/ \E n, o \in PlanNames : QueueItemAddBatch(<<n, o>>, api, key)
  \/ \E name \in PlanNames : QueueItemExecute(name, api, key)
  \/ \E p \in plans, n \in PlanNames \cup {NoName}, replace \in BOOLEAN : QueueItemUpdate(p, n, replace, api, key)
  \/ \E p \in plans : QueueItemRemove(p, api, key)
  \/ \E batch \in SUBSET plans : QueueItemRemoveBatch(batch, api, key)
  \/ ClearQueue(api, key) \/ PermissionsReload(api, key) \/ LockRelease(api, key)
  \/ \E loops \in BOOLEAN : QueueModeSet(loops, api, key)
  \/ \E m \in EnvMethods : EnvironmentOp(m, api, key)
  \/ \E environment, queue \in BOOLEAN : LockApply(environment, queue, api, key)

TaskNext(uid) ==
  \/ \E result \in {"completed", "failed"} : TaskStores(uid, result)
  \/ TaskUncounts(uid)
  \/ \E api \in ApiKeys : PollStatus(uid, api) \/ PollResult(uid, api)

TasksNext ==
  \/ \E m \in AdminMethods, api \in ApiKeys, key \in LockKeys \cup {NoKey} : StartTask(m, api, key)
  \/ \E uid \in DOMAIN started : TaskNext(uid)
  \/ PollReads \/ PollEnds

GateNext ==
  \/ \E api \in ApiKeys, key \in LockKeys \cup {NoKey} : KeyedNext(api, key)
  \/ \E key \in LockKeys \cup {NoKey} : Refused(key)
  \/ \E p \in plans : WorkerTakes(p)
  \/ \E w \in atWorker, aborted \in BOOLEAN : WorkerEnds(w, aborted)
  \/ TasksNext \/ EditFile

GateSpec == GateInit /\ [][GateNext]_gateVars

-----------------------------------------------------------------------------
(* Properties.                                                             *)

\* Every item in the queue or at a worker was allowed by the policy in
\* force when it was submitted, whichever submitting method and whichever
\* place in a batch it came by, whatever was reloaded since and however often
\* the loop mode put it back; an update may only leave an item that names no
\* plan (check, plan_names_from_params, classify, reload).
QueuedWereAllowed ==
  \A p \in plans \cup {w.item : w \in atWorker} :
    ~p.under.readOnly /\ (p.name = NoName \/ PlanAllowed(p.under, p.name))

\* A step is a request that came with the lock's key.
ByKey == answer'.n = answer.n + 1 /\ answer'.key = lock.key
\* While the queue is locked, only a request with the lock's key changes the
\* queued items, the mode, or executes one past the queue; the worker only
\* takes from the queue and puts back what it took.  While the environment
\* is, only such a request opens or closes it; and only such a request
\* changes a lock (lock_check, lock_apply, lock_release).
LockStep ==
  /\ lock.queue /\ plans' # plans => ByKey \/ plans' \subseteq plans \cup {w.item : w \in atWorker}
  /\ lock.queue /\ plans \ plans' # {} => ByKey \/ plans \ plans' \subseteq {w.item : w \in atWorker'}
  /\ lock.queue /\ {w \in atWorker' \ atWorker : w.single} # {} => ByKey
  /\ lock.queue /\ loopMode' # loopMode => ByKey
  /\ lock.environment /\ env' # env => ByKey
  /\ IsLocked /\ lock' # lock => ByKey
LockHonoured == [][LockStep]_gateVars

\* A task is reported as what it is unless so many younger ones were
\* started that its entry was evicted; a result handed out is the task's and
\* no older than the status beside it, though the task ends between the
\* reads; and the count of background tasks is the number of those not yet
\* over (TaskTracker::start, complete, status, result;
\* worker_background_tasks).
TaskAnswersTrue ==
  /\ \A uid \in DOMAIN started : TaskStatus(uid) = started[uid].result \/ Len(started) - uid >= MaxTasks
  /\ answer.result \notin {"unread", "none"} => answer.result = started[answer.about].result /\ answer.out = answer.result
  /\ answer.result # "unread" /\ answer.told = "failed" => answer.result = "failed"
  /\ bg = Cardinality({uid \in DOMAIN started : started[uid].counted})

\* All three: nothing is queued that the policy forbade, a locked queue or
\* environment changes by its key alone, and tasks are reported as they are
\* (permissions.rs check, dispatch.rs lock_check, tasks.rs).
GateSound == []QueuedWereAllowed /\ []TaskAnswersTrue /\ LockHonoured

GateTypeOK ==
  /\ perms.enforced \in BOOLEAN /\ disk \in PermFiles
  /\ lock \in [queue : BOOLEAN, environment : BOOLEAN, key : LockKeys \cup {NoKey}]
  /\ Cardinality(TaskTracked) <= MaxTasks /\ ToSet(tracker.order) = TaskTracked
  /\ IsInjective(tracker.order)
  /\ bg \in 0 .. MaxStarted
=============================================================================
