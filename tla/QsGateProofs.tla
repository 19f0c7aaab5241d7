---------------------------- MODULE QsGateProofs ----------------------------
(***************************************************************************)
(* Proofs about QsGate, for any permissions files, plan names and keys and *)
(* any size of the task tracker.                                           *)
(***************************************************************************)
EXTENDS QsGate, TLAPS, FiniteSetTheorems

TaskStates == {"running", "completed", "failed"}
Read       == {"unread", "none", "completed", "failed"}
Keys       == LockKeys \cup {NoKey}

-----------------------------------------------------------------------------
(* The invariant.                                                          *)

GateTypes ==
  /\ started \in Seq([result : TaskStates, counted : BOOLEAN])
  /\ DOMAIN tracker = {"entries", "order"} /\ tracker.order \in Seq(Nat)
  /\ \A u \in DOMAIN tracker.entries :
       tracker.entries[u] \in [state : TaskStates, from : {"lua_eval", "function_execute"}]
  /\ poll \in [uid : Nat, status : TaskStates \cup {"none"}, result : Read]
  /\ answer \in [n : Nat, key : Keys, about : Nat, told : TaskStates \cup {"none"}, result : Read, out : Read]

(* The tracker has the youngest tasks, as many as it holds, in the order   *)
(* they were started and in the state they are.                            *)
Oldest == Len(started) - Len(tracker.order)
TrackInv ==
  /\ Len(tracker.order) <= MaxTasks /\ Len(tracker.order) <= Len(started)
  /\ Len(tracker.order) < Len(started) => Len(tracker.order) = MaxTasks
  /\ \A i \in 1 .. Len(tracker.order) : tracker.order[i] = Oldest + i
  /\ DOMAIN tracker.entries = (Oldest + 1) .. Len(started)
  /\ \A u \in DOMAIN tracker.entries : tracker.entries[u].state = started[u].result

Uncounted == {u \in DOMAIN started : started[u].counted}
CountInv == bg = Cardinality(Uncounted)

(* A poll under way has read no more than the entry tells: what is over    *)
(* stays over, and no entry is evicted under a poll.                       *)
PollInv ==
  /\ poll.status = "failed" => poll.uid \in TaskTracked /\ tracker.entries[poll.uid].state = "failed"
  /\ poll.result \in {"completed", "failed"} =>
       poll.uid \in TaskTracked /\ tracker.entries[poll.uid].state = poll.result
  /\ poll.result # "unread" /\ poll.status = "failed" => poll.result = "failed"

AnswerInv ==
  /\ answer.result \in {"completed", "failed"} =>
       answer.about \in DOMAIN started /\ answer.result = started[answer.about].result /\ answer.out = answer.result
  /\ answer.result # "unread" /\ answer.told = "failed" => answer.result = "failed"

GateInv == GateTypes /\ QueuedWereAllowed /\ TrackInv /\ CountInv /\ PollInv /\ AnswerInv

-----------------------------------------------------------------------------
(* The gate: what a submitting method let through was allowed.             *)

Allowed(p) == ~p.under.readOnly /\ (p.name = NoName \/ PlanAllowed(p.under, p.name))

LEMMA Sizes == MaxTasks \in Nat \ {0} /\ MaxStarted \in Nat /\ MaxGateCalls \in Nat /\ NoKey \notin LockKeys
BY GateAssumption

LEMMA Adds == \A m \in QueueAddMethods : Classify(m) = "queue_add"
<1> SUFFICES ASSUME NEW m \in QueueAddMethods PROVE Classify(m) = "queue_add"
  OBVIOUS
<1>1. m \notin InfoMethods /\ m \notin QueueMutateMethods /\ m \notin AdminMethods /\ m \notin LockMethods
  BY DEF QueueAddMethods, InfoMethods, QueueMutateMethods, AdminMethods, LockMethods
<1> QED
  BY <1>1 DEF Classify

LEMMA PermittedAdds ==
  ASSUME NEW m \in QueueAddMethods, NEW names, NEW group, Permitted(m, names, group), perms.enforced
  PROVE  /\ ~perms.groups[group].readOnly
         /\ \A n \in PlanNamesFromParams(names) : PlanAllowed(perms.groups[group], n)
<1>1. Classify(m) = "queue_add"
  BY Adds
<1> QED
  BY <1>1 DEF Permitted

LEMMA LetInAllowed ==
  ASSUME NEW m \in QueueAddMethods, NEW names, NEW api, Permitted(m, names, ResolveGroup(api)),
         \A i \in DOMAIN names : names[i] \in PlanNames \cup {QueueStop, NoName},
         NEW i \in DOMAIN names
  PROVE  Allowed(Item(i, names[i], api))
<1> DEFINE p == Item(i, names[i], api)
<1>1. p.name = names[i] /\ p.under = Policy(api)
  BY DEF Item
<1>2. CASE ~perms.enforced
  <2>1. p.under = Everything(TRUE)
    BY <1>1, <1>2 DEF Policy
  <2>2. ~p.under.readOnly /\ p.under.plans = PlanNames \cup {QueueStop}
    BY <2>1 DEF Everything
  <2> QED
    BY <2>2, <1>1 DEF Allowed, PlanAllowed
<1>3. CASE perms.enforced
  <2>1. p.under = perms.groups[ResolveGroup(api)]
    BY <1>1, <1>3 DEF Policy
  <2>2. ~p.under.readOnly /\ \A n \in PlanNamesFromParams(names) : PlanAllowed(p.under, n)
    BY <2>1, <1>3, PermittedAdds
  <2>3. names[i] = NoName \/ names[i] \in PlanNamesFromParams(names)
    BY DEF PlanNamesFromParams, ToSet
  <2> QED
    BY <2>2, <2>3, <1>1 DEF Allowed
<1> QED
  BY <1>2, <1>3

LEMMA QueuedAllowed == QueuedWereAllowed <=> \A p \in plans \cup {w.item : w \in atWorker} : Allowed(p)
BY DEF QueuedWereAllowed, Allowed

-----------------------------------------------------------------------------
(* The lock: what it blocks passes with its key alone.                     *)

LEMMA BlockedNeedsKey ==
  ASSUME NEW m, NEW names, NEW api, NEW key, Admitted(m, names, api, key), GateAnswers(key),
         \/ lock.queue /\ m \in QueueMethods
         \/ lock.environment /\ m \in EnvMethods,
         m \notin AlwaysAllowed, answer \in [n : Nat, key : Keys, about : Nat, told : TaskStates \cup {"none"}, result : Read, out : Read]
  PROVE  ByKey
<1>1. key = lock.key
  BY DEF Admitted, PassesGate, LockCheck, Blocked, IsLocked
<1>2. answer'.n = answer.n + 1 /\ answer'.key = key
  BY DEF GateAnswers, NoAnswer
<1> QED
  BY <1>1, <1>2 DEF ByKey

LEMMA BlockedByQueue ==
  \A m \in {"queue_item_add", "queue_item_add_batch", "queue_item_execute", "queue_item_update", "queue_item_remove",
            "queue_item_remove_batch", "queue_clear", "queue_mode_set"} : m \in QueueMethods /\ m \notin AlwaysAllowed
BY DEF QueueMethods, AlwaysAllowed, QueueAddMethods, QueueMutateMethods, EnvMethods

LEMMA BlockedByEnvironment == \A m \in EnvMethods : m \notin AlwaysAllowed
BY DEF EnvMethods, AlwaysAllowed

-----------------------------------------------------------------------------
(* What stays as it is.                                                    *)

NoTask == UNCHANGED taskVars

LEMMA TasksStay ==
  ASSUME TrackInv, CountInv, NoTask
  PROVE  TrackInv' /\ CountInv'
BY DEF TrackInv, CountInv, Uncounted, Oldest, NoTask, taskVars

LEMMA PollStays ==
  ASSUME PollInv, UNCHANGED <<tracker, poll>>
  PROVE  PollInv'
BY DEF PollInv, TaskTracked

(* The answer to a request that asks nothing about a task.                 *)
LEMMA PlainAnswer ==
  ASSUME GateTypes, NEW key \in Keys, GateAnswers(key)
  PROVE  /\ AnswerInv'
         /\ answer' \in [n : Nat, key : Keys, about : Nat, told : TaskStates \cup {"none"}, result : Read, out : Read]
<1>1. answer' = [n |-> answer.n + 1, key |-> key, about |-> 0, told |-> "none", result |-> "unread", out |-> "unread"]
  BY DEF GateAnswers, NoAnswer
<1>2. answer.n \in Nat
  BY DEF GateTypes
<1> QED
  BY <1>1, <1>2 DEF AnswerInv, Read

(* A request about the queue, the environment, the lock or the permissions *)
LEMMA PlainRequest ==
  ASSUME GateInv, NEW key \in Keys, GateAnswers(key), NoTask, UNCHANGED poll, QueuedWereAllowed'
  PROVE  GateInv'
<1>1. GateTypes'
  BY PlainAnswer DEF GateInv, GateTypes, NoTask, taskVars
<1>2. TrackInv' /\ CountInv'
  BY TasksStay DEF GateInv
<1>3. PollInv'
  BY PollStays DEF GateInv, NoTask, taskVars
<1>4. AnswerInv'
  BY PlainAnswer DEF GateInv
<1> QED
  BY <1>1, <1>2, <1>3, <1>4 DEF GateInv

(* A step that is no request and touches no task.                          *)
LEMMA PlainStep ==
  ASSUME GateInv, NoTask, UNCHANGED <<poll, answer>>, QueuedWereAllowed'
  PROVE  GateInv'
<1>1. GateTypes'
  BY DEF GateInv, GateTypes, NoTask, taskVars
<1>2. TrackInv' /\ CountInv'
  BY TasksStay DEF GateInv
<1>3. PollInv'
  BY PollStays DEF GateInv, NoTask, taskVars
<1>4. AnswerInv'
  BY DEF GateInv, AnswerInv, NoTask, taskVars
<1> QED
  BY <1>1, <1>2, <1>3, <1>4 DEF GateInv

(* Nothing new among the items.                                            *)
LEMMA QueuedStay ==
  ASSUME QueuedWereAllowed,
         (plans \cup {w.item : w \in atWorker})' \subseteq plans \cup {w.item : w \in atWorker}
  PROVE  QueuedWereAllowed'
<1> SUFFICES ASSUME NEW p \in (plans \cup {w.item : w \in atWorker})'
             PROVE  ~p.under.readOnly /\ (p.name = NoName \/ PlanAllowed(p.under, p.name))
  BY DEF QueuedWereAllowed, PlanAllowed
<1> QED
  BY DEF QueuedWereAllowed

LEMMA QueuedGrow ==
  ASSUME QueuedWereAllowed, NEW new, \A p \in new : Allowed(p),
         (plans \cup {w.item : w \in atWorker})' \subseteq plans \cup {w.item : w \in atWorker} \cup new
  PROVE  QueuedWereAllowed'
<1> SUFFICES ASSUME NEW p \in (plans \cup {w.item : w \in atWorker})'
             PROVE  ~p.under.readOnly /\ (p.name = NoName \/ PlanAllowed(p.under, p.name))
  BY DEF QueuedWereAllowed, PlanAllowed
<1>1. CASE p \in plans \cup {w.item : w \in atWorker}
  BY <1>1 DEF QueuedWereAllowed
<1>2. CASE p \in new
  BY <1>2 DEF Allowed
<1> QED
  BY <1>1, <1>2

-----------------------------------------------------------------------------
(* The invariant holds at first and every step keeps it.                   *)

LEMMA InitGate == GateInit => GateInv
<1> SUFFICES ASSUME GateInit PROVE GateInv
  OBVIOUS
<1> USE DEF GateInit
<1>1. GateTypes
  BY DEF GateTypes, NewTracker, NoPoll, NoAnswer, TaskStates, Read, Keys
<1>2. QueuedWereAllowed
  BY DEF QueuedWereAllowed
<1>3. TrackInv
  BY Sizes DEF TrackInv, Oldest, NewTracker
<1>4. CountInv
  <2>1. Uncounted = {}
    BY DEF Uncounted
  <2> QED
    BY <2>1, FS_EmptySet DEF CountInv
<1>5. PollInv /\ AnswerInv
  BY DEF PollInv, AnswerInv, NoPoll, NoAnswer
<1> QED
  BY <1>1, <1>2, <1>3, <1>4, <1>5 DEF GateInv

LEMMA RequestKeeps ==
  ASSUME GateInv, NEW m, NEW names, NEW api, NEW key \in Keys, QueueRequest(m, names, api, key),
         QueuedWereAllowed'
  PROVE  GateInv'
BY PlainRequest DEF QueueRequest, NoTask

(* Items let in by a submitting method, whose own place in the queue or    *)
(* with a worker the handler decides.                                      *)
LEMMA NewItems ==
  ASSUME NEW m \in QueueAddMethods, NEW names, NEW api, NEW key, QueueRequest(m, names, api, key),
         \A i \in DOMAIN names : names[i] \in PlanNames \cup {QueueStop, NoName}
  PROVE  \A p \in LetIn(names, api) : Allowed(p)
<1>1. Permitted(m, names, ResolveGroup(api))
  BY DEF QueueRequest, Admitted, PassesGate
<1> QED
  BY <1>1, LetInAllowed DEF LetIn

LEMMA OfOne ==
  ASSUME NEW name, NEW api
  PROVE  /\ DOMAIN <<name>> = {1} /\ <<name>>[1] = name
         /\ Item(1, name, api) \in LetIn(<<name>>, api)
<1>1. DOMAIN <<name>> = {1} /\ <<name>>[1] = name
  OBVIOUS
<1> QED
  BY <1>1 DEF LetIn

LEMMA AddKeeps ==
  ASSUME GateInv, NEW name \in PlanNames \cup {QueueStop}, NEW api, NEW key \in Keys, QueueItemAdd(name, api, key)
  PROVE  GateInv'
<1>1. \A p \in LetIn(<<name>>, api) : Allowed(p)
  BY NewItems, OfOne DEF QueueItemAdd, QueueAddMethods
<1>2. QueuedWereAllowed'
  BY <1>1, QueuedGrow DEF QueueItemAdd, GateInv
<1> QED
  BY <1>2, RequestKeeps DEF QueueItemAdd

LEMMA AddBatchKeeps ==
  ASSUME GateInv, NEW n \in PlanNames, NEW o \in PlanNames, NEW api, NEW key \in Keys,
         QueueItemAddBatch(<<n, o>>, api, key)
  PROVE  GateInv'
<1>1. \A i \in DOMAIN <<n, o>> : <<n, o>>[i] \in PlanNames \cup {QueueStop, NoName}
  OBVIOUS
<1>2. \A p \in LetIn(<<n, o>>, api) : Allowed(p)
  BY <1>1, NewItems DEF QueueItemAddBatch, QueueAddMethods
<1>3. QueuedWereAllowed'
  BY <1>2, QueuedGrow DEF QueueItemAddBatch, GateInv
<1> QED
  BY <1>3, RequestKeeps DEF QueueItemAddBatch

LEMMA ExecuteKeeps ==
  ASSUME GateInv, NEW name \in PlanNames, NEW api, NEW key \in Keys, QueueItemExecute(name, api, key)
  PROVE  GateInv'
<1>1. \A p \in LetIn(<<name>>, api) : Allowed(p)
  BY NewItems, OfOne DEF QueueItemExecute, QueueAddMethods
<1>2. {w.item : w \in atWorker'} = {Item(1, name, api)} /\ plans' = plans
  BY DEF QueueItemExecute
<1>3. QueuedWereAllowed'
  BY <1>1, <1>2, OfOne, QueuedGrow DEF GateInv
<1> QED
  BY <1>3, RequestKeeps DEF QueueItemExecute

LEMMA UpdateKeeps ==
  ASSUME GateInv, NEW p \in plans, NEW name \in PlanNames \cup {NoName}, NEW replace \in BOOLEAN, NEW api,
         NEW key \in Keys, QueueItemUpdate(p, name, replace, api, key)
  PROVE  GateInv'
<1> DEFINE new == Item(1, name, api)
           put == IF replace THEN new ELSE [new EXCEPT !.id = p.id]
<1>1. Allowed(new)
  BY NewItems, OfOne DEF QueueItemUpdate, QueueAddMethods
<1>2. put.name = new.name /\ put.under = new.under
  BY DEF Item
<1>3. Allowed(put)
  BY <1>1, <1>2 DEF Allowed, PlanAllowed
<1>4. plans' = (plans \ {p}) \cup {put} /\ atWorker' = atWorker
  BY DEF QueueItemUpdate
<1>5. QueuedWereAllowed'
  <2> DEFINE S == {put}
  <2>1. \A q \in S : Allowed(q)
    BY <1>3
  <2>2. (plans \cup {w.item : w \in atWorker})' \subseteq plans \cup {w.item : w \in atWorker} \cup S
    BY <1>4
  <2>3. QueuedWereAllowed
    BY DEF GateInv
  <2> HIDE DEF S, put, new
  <2> QED
    BY <2>1, <2>2, <2>3, QueuedGrow
<1> QED
  BY <1>5, RequestKeeps DEF QueueItemUpdate

(* A request that takes items away, or changes the mode.                   *)
LEMMA TakingKeeps ==
  ASSUME GateInv, NEW m, NEW names, NEW api, NEW key \in Keys, QueueRequest(m, names, api, key),
         plans' \subseteq plans, UNCHANGED atWorker
  PROVE  GateInv'
<1>1. QueuedWereAllowed'
  BY QueuedStay DEF GateInv
<1> QED
  BY <1>1, RequestKeeps

LEMMA WorkersKeep ==
  ASSUME GateInv,
         \/ \E p \in plans : WorkerTakes(p)
         \/ \E w \in atWorker, aborted \in BOOLEAN : WorkerEnds(w, aborted)
  PROVE  GateInv'
<1>1. (plans \cup {w.item : w \in atWorker})' \subseteq plans \cup {w.item : w \in atWorker}
  <2>1. ASSUME NEW p \in plans, WorkerTakes(p)
        PROVE  (plans \cup {w.item : w \in atWorker})' \subseteq plans \cup {w.item : w \in atWorker}
    <3>1. \A w \in atWorker' : w \in atWorker \/ w.item = p
      BY <2>1 DEF WorkerTakes
    <3> QED
      BY <3>1, <2>1 DEF WorkerTakes
  <2>2. ASSUME NEW w \in atWorker, NEW aborted \in BOOLEAN, WorkerEnds(w, aborted)
        PROVE  (plans \cup {v.item : v \in atWorker})' \subseteq plans \cup {v.item : v \in atWorker}
    BY <2>2 DEF WorkerEnds
  <2> QED
    BY <2>1, <2>2
<1>2. QueuedWereAllowed'
  BY <1>1, QueuedStay DEF GateInv
<1>3. NoTask /\ UNCHANGED <<poll, answer>>
  BY DEF WorkerTakes, WorkerEnds, NoTask
<1> QED
  BY <1>2, <1>3, PlainStep

-----------------------------------------------------------------------------
(* Tasks.                                                                  *)

LEMMA FullWhenCounted ==
  ASSUME GateInv
  PROVE  /\ Cardinality(DOMAIN tracker.entries) = Len(tracker.order)
         /\ Len(started) \in Nat /\ Len(tracker.order) \in Nat /\ Oldest \in Nat
         /\ Cardinality(DOMAIN tracker.entries) >= MaxTasks <=> Len(tracker.order) = MaxTasks
         /\ Len(tracker.order) = MaxTasks => tracker.order # <<>>
<1>1. Len(started) \in Nat /\ Len(tracker.order) \in Nat /\ Oldest \in Nat
  BY DEF GateInv, GateTypes, TrackInv, Oldest
<1>2. Cardinality((Oldest + 1) .. Len(started)) = Len(started) - Oldest
  <2> DEFINE a == Oldest + 1
             b == Len(started)
  <2>1. a \in Int /\ b \in Int /\ (IF a > b THEN 0 ELSE b - a + 1) = b - Oldest
    <3>1. Len(tracker.order) <= Len(started)
      BY DEF GateInv, TrackInv
    <3>2. Oldest = Len(started) - Len(tracker.order)
      BY DEF Oldest
    <3>3. CASE Len(tracker.order) = 0
      <4>1. Oldest = b
        BY <1>1, <3>2, <3>3
      <4> QED
        BY <1>1, <4>1
    <3>4. CASE Len(tracker.order) # 0
      <4>1. Oldest < b
        BY <1>1, <3>2, <3>4
      <4> QED
        BY <1>1, <4>1
    <3> QED
      BY <3>3, <3>4
  <2> HIDE DEF a, b
  <2>2. Cardinality(a .. b) = IF a > b THEN 0 ELSE b - a + 1
    BY <2>1, FS_Interval
  <2>3. Cardinality(a .. b) = b - Oldest
    BY <2>1, <2>2
  <2> QED
    BY <2>3 DEF a, b
<1>3. Cardinality(DOMAIN tracker.entries) = Len(tracker.order)
  <2>1. DOMAIN tracker.entries = (Oldest + 1) .. Len(started)
    BY DEF GateInv, TrackInv
  <2>2. Len(started) - Oldest = Len(tracker.order)
    BY <1>1 DEF Oldest
  <2> QED
    BY <1>2, <2>1, <2>2
<1>4. Len(tracker.order) = MaxTasks => tracker.order # <<>>
  BY Sizes DEF GateInv, GateTypes
<1> QED
  BY <1>1, <1>3, <1>4, Sizes DEF GateInv, TrackInv

(* start keeps the youngest tasks and no others.                           *)
LEMMA StartTracks ==
  ASSUME GateInv, NEW m \in {"lua_eval", "function_execute"}, NEW api, NEW key, StartTask(m, api, key)
  PROVE  /\ TrackInv'
         /\ DOMAIN tracker' = {"entries", "order"} /\ tracker'.order \in Seq(Nat)
         /\ \A u \in DOMAIN tracker'.entries :
              tracker'.entries[u] \in [state : TaskStates, from : {"lua_eval", "function_execute"}]
<1> DEFINE n   == Len(started)
           k   == Len(tracker.order)
           old == IF k = MaxTasks THEN {Oldest + 1} ELSE {}
<1>1. /\ started' = Append(started, [result |-> "running", counted |-> TRUE])
      /\ tracker' = TrackerStart(tracker, n + 1, m)
  BY DEF StartTask
<1>2. /\ n \in Nat /\ k \in Nat /\ MaxTasks \in Nat \ {0} /\ k <= n /\ k <= MaxTasks /\ (k < n => k = MaxTasks)
      /\ Oldest = n - k
  BY FullWhenCounted, Sizes DEF GateInv, TrackInv, Oldest
<1>14. DOMAIN tracker.entries = (Oldest + 1) .. n /\ Oldest \in Nat /\ Oldest <= n
  BY <1>2, FullWhenCounted DEF GateInv, TrackInv
<1>3. /\ Len(started') = n + 1 /\ started'[n + 1].result = "running"
      /\ \A u \in 1 .. n : started'[u] = started[u]
  BY <1>1 DEF GateInv, GateTypes
<1>4. /\ tracker' = [entries |-> TrackedAfter(tracker, old, n + 1, m),
                     order   |-> IF k = MaxTasks THEN Append(Tail(tracker.order), n + 1)
                                 ELSE Append(tracker.order, n + 1)]
  <2>1. CASE k = MaxTasks
    <3>1. Head(tracker.order) = Oldest + 1
      BY <2>1, FullWhenCounted, Sizes DEF GateInv, GateTypes, TrackInv
    <3>2. tracker' = [entries |-> TrackedAfter(tracker, {Head(tracker.order)}, n + 1, m),
                      order |-> Append(Tail(tracker.order), n + 1)]
      BY <1>1, <2>1, FullWhenCounted DEF TrackerStart
    <3> QED
      BY <3>1, <3>2, <2>1
  <2>2. CASE k # MaxTasks
    BY <1>1, <2>2, FullWhenCounted DEF TrackerStart
  <2> QED
    BY <2>1, <2>2
<1>5. /\ tracker'.order \in Seq(Nat)
      /\ Len(tracker'.order) = (IF k = MaxTasks THEN k ELSE k + 1)
      /\ \A i \in 1 .. Len(tracker'.order) : tracker'.order[i] = (n + 1) - Len(tracker'.order) + i
  <2>1. tracker.order \in Seq(Nat) /\ \A i \in 1 .. k : tracker.order[i] = n - k + i
    BY <1>2 DEF GateInv, GateTypes, TrackInv
  <2>2. CASE k = MaxTasks
    <3>1. tracker.order # <<>> /\ k > 0
      BY <2>2, Sizes, FullWhenCounted
    <3>2. Tail(tracker.order) \in Seq(Nat) /\ Len(Tail(tracker.order)) = k - 1
          /\ \A i \in 1 .. k - 1 : Tail(tracker.order)[i] = tracker.order[i + 1]
      BY <3>1, <2>1
    <3> DEFINE t == Tail(tracker.order)
    <3>3. tracker'.order = Append(t, n + 1)
      BY <1>4, <2>2
    <3>4. t \in Seq(Nat) /\ Len(t) = k - 1 /\ \A i \in 1 .. k - 1 : t[i] = n - k + i + 1
      <4> SUFFICES ASSUME NEW i \in 1 .. k - 1 PROVE t[i] = n - k + i + 1
        BY <3>2
      <4>1. i + 1 \in 1 .. k /\ t[i] = tracker.order[i + 1]
        BY <1>2, <3>2
      <4>2. tracker.order[i + 1] = n - k + (i + 1)
        BY <4>1, <2>1
      <4> HIDE DEF t, n, k
      <4> QED
        BY <4>1, <4>2, <1>2
    <3> HIDE DEF t, n, k
    <3>5. /\ Append(t, n + 1) \in Seq(Nat) /\ Len(Append(t, n + 1)) = k /\ Append(t, n + 1)[k] = n + 1
          /\ \A i \in 1 .. k - 1 : Append(t, n + 1)[i] = t[i]
      BY <1>2, <3>1, <3>4
    <3>6. \A i \in 1 .. k : Append(t, n + 1)[i] = (n + 1) - k + i
      <4> SUFFICES ASSUME NEW i \in 1 .. k PROVE Append(t, n + 1)[i] = (n + 1) - k + i
        OBVIOUS
      <4>1. CASE i = k
        BY <4>1, <3>5, <1>2
      <4>2. CASE i # k
        BY <4>2, <3>4, <3>5, <1>2
      <4> QED
        BY <4>1, <4>2
    <3> QED
      BY <2>2, <3>3, <3>5, <3>6
  <2>3. CASE k # MaxTasks
    <3> DEFINE t == tracker.order
    <3>1. tracker'.order = Append(t, n + 1)
      BY <1>4, <2>3
    <3>3. k = n
      BY <1>2, <2>3
    <3>2. t \in Seq(Nat) /\ Len(t) = k /\ \A i \in 1 .. k : t[i] = i
      <4> SUFFICES ASSUME NEW i \in 1 .. k PROVE t[i] = i
        BY <2>1
      <4>1. t[i] = n - k + i
        BY <2>1
      <4> HIDE DEF t, n, k
      <4> QED
        BY <4>1, <3>3, <1>2
    <3> HIDE DEF t, n, k
    <3>4. /\ Append(t, n + 1) \in Seq(Nat) /\ Len(Append(t, n + 1)) = k + 1 /\ Append(t, n + 1)[k + 1] = n + 1
          /\ \A i \in 1 .. k : Append(t, n + 1)[i] = t[i]
      BY <1>2, <3>2
    <3>5. \A i \in 1 .. k + 1 : Append(t, n + 1)[i] = (n + 1) - (k + 1) + i
      BY <1>2, <3>2, <3>3, <3>4
    <3> QED
      BY <2>3, <3>1, <3>4, <3>5
  <2> QED
    BY <2>2, <2>3
<1>6. Oldest' = (IF k = MaxTasks THEN Oldest + 1 ELSE Oldest)
  BY <1>2, <1>3, <1>5 DEF Oldest
<1>7. tracker'.entries = TrackedAfter(tracker, old, n + 1, m)
  BY <1>4
<1>8. DOMAIN tracker'.entries = (DOMAIN tracker.entries \ old) \cup {n + 1}
  BY <1>7 DEF TrackedAfter
<1>9. DOMAIN tracker'.entries = (Oldest' + 1) .. (n + 1)
  <2>1. CASE k = MaxTasks
    <3>1. Oldest' = Oldest + 1 /\ DOMAIN tracker'.entries = (DOMAIN tracker.entries \ {Oldest + 1}) \cup {n + 1}
      BY <2>1, <1>6, <1>8
    <3>2. Oldest < n
      BY <2>1, <1>2
    <3> HIDE DEF n, k, old
    <3>3. (((Oldest + 1) .. n) \ {Oldest + 1}) \cup {n + 1} = (Oldest + 2) .. (n + 1)
      BY <3>2, <1>2, <1>14
    <3> QED
      BY <3>1, <3>3, <1>2, <1>14
  <2>2. CASE k # MaxTasks
    <3>1. Oldest' = Oldest /\ DOMAIN tracker'.entries = DOMAIN tracker.entries \cup {n + 1}
      BY <2>2, <1>6, <1>8
    <3> HIDE DEF n, k, old
    <3>2. ((Oldest + 1) .. n) \cup {n + 1} = (Oldest + 1) .. (n + 1)
      BY <1>2, <1>14
    <3> QED
      BY <3>1, <3>2, <1>14
  <2> QED
    BY <2>1, <2>2
<1>10. \A u \in DOMAIN tracker'.entries :
         tracker'.entries[u] = IF u = n + 1 THEN [state |-> "running", from |-> m] ELSE tracker.entries[u]
  BY <1>7, <1>8 DEF TrackedAfter
<1>11. \A u \in DOMAIN tracker'.entries :
         /\ tracker'.entries[u].state = started'[u].result
         /\ tracker'.entries[u] \in [state : TaskStates, from : {"lua_eval", "function_execute"}]
  <2> SUFFICES ASSUME NEW u \in DOMAIN tracker'.entries
               PROVE  /\ tracker'.entries[u].state = started'[u].result
                      /\ tracker'.entries[u] \in [state : TaskStates, from : {"lua_eval", "function_execute"}]
    OBVIOUS
  <2>1. CASE u = n + 1
    BY <2>1, <1>3, <1>10 DEF TaskStates
  <2>2. CASE u # n + 1
    <3>1. u \in DOMAIN tracker.entries /\ tracker'.entries[u] = tracker.entries[u]
      BY <2>2, <1>8, <1>10
    <3>2. u \in 1 .. n
      <4> HIDE DEF n, k
      <4> QED
        BY <3>1, <1>2, <1>14
    <3> QED
      BY <3>1, <3>2, <1>3 DEF GateInv, GateTypes, TrackInv
  <2> QED
    BY <2>1, <2>2
<1>12. DOMAIN tracker' = {"entries", "order"}
  BY <1>4
<1>13. Len(tracker'.order) <= MaxTasks /\ Len(tracker'.order) <= n + 1
       /\ (Len(tracker'.order) < n + 1 => Len(tracker'.order) = MaxTasks)
  BY <1>2, <1>5, Sizes
<1> QED
  BY <1>3, <1>5, <1>6, <1>9, <1>11, <1>12, <1>13, <1>2 DEF TrackInv, Oldest

LEMMA Replaced ==
  ASSUME NEW S, NEW q \in Seq(S), NEW i \in DOMAIN q, NEW x \in S
  PROVE  LET w == [q EXCEPT ![i] = x]
         IN  /\ w \in Seq(S) /\ DOMAIN w = DOMAIN q /\ Len(w) = Len(q) /\ w[i] = x
             /\ \A j \in DOMAIN q : j # i => w[j] = q[j]
OBVIOUS

LEMMA CountChanges ==
  ASSUME GateInv
  PROVE  IsFiniteSet(Uncounted) /\ Cardinality(Uncounted) = bg /\ bg \in Nat
<1>1. IsFiniteSet(1 .. Len(started)) /\ Uncounted \in SUBSET (1 .. Len(started))
  <2>1. Len(started) \in Int /\ DOMAIN started = 1 .. Len(started)
    BY DEF GateInv, GateTypes
  <2>2. IsFiniteSet(1 .. Len(started))
    BY <2>1, FS_Interval
  <2> QED
    BY <2>1, <2>2 DEF Uncounted
<1>2. IsFiniteSet(Uncounted)
  BY <1>1, FS_Subset
<1> QED
  BY <1>2, FS_CardinalityType DEF GateInv, CountInv

LEMMA StartCounts ==
  ASSUME GateInv, NEW m, NEW api, NEW key, StartTask(m, api, key)
  PROVE  CountInv'
<1>1. started' = Append(started, [result |-> "running", counted |-> TRUE]) /\ bg' = bg + 1
  BY DEF StartTask
<1>2. Uncounted' = Uncounted \cup {Len(started) + 1} /\ Len(started) + 1 \notin Uncounted
  <2>1. Len(started') = Len(started) + 1 /\ started'[Len(started) + 1].counted
        /\ \A u \in 1 .. Len(started) : started'[u] = started[u]
    BY <1>1 DEF GateInv, GateTypes
  <2>2. DOMAIN started = 1 .. Len(started) /\ DOMAIN started' = 1 .. Len(started) + 1 /\ Len(started) \in Nat
    BY <1>1, <2>1 DEF GateInv, GateTypes
  <2> QED
    BY <2>1, <2>2 DEF Uncounted
<1>3. Cardinality(Uncounted \cup {Len(started) + 1}) = Cardinality(Uncounted) + 1
  BY <1>2, CountChanges, FS_AddElement
<1> QED
  BY <1>1, <1>2, <1>3, CountChanges DEF CountInv

(* A task that ends, or leaves the count, is the same task with another    *)
(* state.                                                                  *)
LEMMA StartKeeps ==
  ASSUME GateInv, NEW m \in AdminMethods, NEW api, NEW key \in Keys, StartTask(m, api, key)
  PROVE  GateInv'
<1>1. m \in {"lua_eval", "function_execute"} /\ poll = NoPoll /\ poll' = poll
  BY DEF StartTask, Admitted, RepIdle
<1>2. TrackInv' /\ CountInv'
  BY <1>1, StartTracks, StartCounts
<1>3. GateAnswers(key) /\ AnswerInv'
  BY PlainAnswer DEF StartTask, GateInv
<1>4. PollInv'
  BY <1>1 DEF PollInv, NoPoll
<1>5. QueuedWereAllowed'
  BY QueuedStay DEF StartTask, queueVars, GateInv
<1>6. GateTypes'
  <2>1. started' \in Seq([result : TaskStates, counted : BOOLEAN])
    BY DEF StartTask, GateInv, GateTypes, TaskStates
  <2>2. /\ DOMAIN tracker' = {"entries", "order"} /\ tracker'.order \in Seq(Nat)
        /\ \A u \in DOMAIN tracker'.entries :
             tracker'.entries[u] \in [state : TaskStates, from : {"lua_eval", "function_execute"}]
    BY <1>1, StartTracks
  <2>3. answer' \in [n : Nat, key : Keys, about : Nat, told : TaskStates \cup {"none"}, result : Read, out : Read]
    BY <1>3, PlainAnswer DEF GateInv
  <2> QED
    BY <2>1, <2>2, <2>3, <1>1 DEF GateTypes, GateInv
<1> QED
  BY <1>2, <1>3, <1>4, <1>5, <1>6 DEF GateInv

LEMMA StoreKeeps ==
  ASSUME GateInv, NEW uid, NEW result \in {"completed", "failed"}, TaskStores(uid, result)
  PROVE  GateInv'
<1>1. /\ uid \in DOMAIN started /\ started[uid].result = "running"
      /\ started' = [started EXCEPT ![uid].result = result]
      /\ tracker' = TrackerComplete(tracker, uid, result)
      /\ UNCHANGED <<bg, poll, answer>>
  BY DEF TaskStores
<1>2. /\ started' \in Seq([result : TaskStates, counted : BOOLEAN])
      /\ DOMAIN started' = DOMAIN started /\ Len(started') = Len(started)
      /\ started'[uid] = [result |-> result, counted |-> started[uid].counted]
      /\ \A u \in DOMAIN started : u # uid => started'[u] = started[u]
  <2>1. started \in Seq([result : TaskStates, counted : BOOLEAN]) /\ started[uid] \in [result : TaskStates, counted : BOOLEAN]
    <3>1. started \in Seq([result : TaskStates, counted : BOOLEAN])
      BY DEF GateInv, GateTypes
    <3>2. \A S, q, i : q \in Seq(S) /\ i \in DOMAIN q => q[i] \in S
      OBVIOUS
    <3> QED
      BY <1>1, <3>1, <3>2
  <2>2. [started[uid] EXCEPT !.result = result] = [result |-> result, counted |-> started[uid].counted]
    BY <2>1
  <2>3. [result |-> result, counted |-> started[uid].counted] \in [result : TaskStates, counted : BOOLEAN]
    BY <2>1 DEF TaskStates
  <2>4. started' = [started EXCEPT ![uid] = [result |-> result, counted |-> started[uid].counted]]
    BY <1>1, <2>2
  <2> QED
    BY <1>1, <2>1, <2>3, <2>4
<1>3. /\ DOMAIN tracker' = {"entries", "order"} /\ tracker'.order = tracker.order
      /\ DOMAIN tracker'.entries = DOMAIN tracker.entries
      /\ \A u \in DOMAIN tracker.entries :
           tracker'.entries[u] = IF u = uid THEN [tracker.entries[u] EXCEPT !.state = result] ELSE tracker.entries[u]
  <2>1. DOMAIN tracker = {"entries", "order"}
    BY DEF GateInv, GateTypes
  <2>2. CASE uid \in DOMAIN tracker.entries
    <3> DEFINE e == [tracker.entries EXCEPT ![uid] = [tracker.entries[uid] EXCEPT !.state = result]]
    <3>1. tracker' = [tracker EXCEPT !.entries = e]
      BY <1>1, <2>2 DEF TrackerComplete
    <3>2. /\ DOMAIN e = DOMAIN tracker.entries
          /\ \A u \in DOMAIN e :
               e[u] = IF u = uid THEN [tracker.entries[u] EXCEPT !.state = result] ELSE tracker.entries[u]
      BY <2>2
    <3> HIDE DEF e
    <3>3. DOMAIN tracker' = {"entries", "order"} /\ tracker'.order = tracker.order /\ tracker'.entries = e
      BY <2>1, <3>1
    <3> QED
      BY <3>2, <3>3
  <2>3. CASE uid \notin DOMAIN tracker.entries
    BY <1>1, <2>1, <2>3 DEF TrackerComplete
  <2> QED
    BY <2>2, <2>3
<1>4. \A u \in DOMAIN tracker.entries :
        /\ tracker'.entries[u] \in [state : TaskStates, from : {"lua_eval", "function_execute"}]
        /\ tracker'.entries[u].state = IF u = uid THEN result ELSE tracker.entries[u].state
  <2> SUFFICES ASSUME NEW u \in DOMAIN tracker.entries
               PROVE  /\ tracker'.entries[u] \in [state : TaskStates, from : {"lua_eval", "function_execute"}]
                      /\ tracker'.entries[u].state = IF u = uid THEN result ELSE tracker.entries[u].state
    OBVIOUS
  <2> DEFINE r == tracker.entries[u]
  <2>1. r \in [state : TaskStates, from : {"lua_eval", "function_execute"}]
    BY DEF GateInv, GateTypes
  <2>2. tracker'.entries[u] = IF u = uid THEN [r EXCEPT !.state = result] ELSE r
    BY <1>3
  <2> HIDE DEF r
  <2>3. /\ [r EXCEPT !.state = result].state = result
        /\ [r EXCEPT !.state = result] \in [state : TaskStates, from : {"lua_eval", "function_execute"}]
    BY <2>1 DEF TaskStates
  <2>4. CASE u = uid
    BY <2>2, <2>3, <2>4
  <2>5. CASE u # uid
    BY <2>1, <2>2, <2>5 DEF r
  <2> QED
    BY <2>4, <2>5
<1>5. GateTypes'
  BY <1>1, <1>2, <1>3, <1>4 DEF GateInv, GateTypes
<1>6. TrackInv'
  <2>1. Oldest' = Oldest
    BY <1>2, <1>3 DEF Oldest
  <2>2. DOMAIN tracker.entries \subseteq DOMAIN started
    BY FullWhenCounted DEF GateInv, GateTypes, TrackInv
  <2>3. \A u \in DOMAIN tracker'.entries : tracker'.entries[u].state = started'[u].result
    BY <1>2, <1>3, <1>4, <2>2 DEF GateInv, TrackInv
  <2> QED
    BY <1>2, <1>3, <2>1, <2>3 DEF GateInv, TrackInv
<1>7. CountInv'
  <2>1. \A u \in DOMAIN started : started'[u].counted = started[u].counted
    BY <1>2
  <2>2. Uncounted' = Uncounted
    BY <1>2, <2>1 DEF Uncounted
  <2> QED
    BY <1>1, <2>2 DEF GateInv, CountInv
<1>8. PollInv'
  <2>1. \A u \in DOMAIN tracker.entries :
          tracker.entries[u].state # "running" => tracker'.entries[u].state = tracker.entries[u].state
    <3>1. uid \in DOMAIN tracker.entries => tracker.entries[uid].state = "running"
      BY <1>1 DEF GateInv, TrackInv
    <3> QED
      BY <3>1, <1>4
  <2> QED
    BY <1>1, <1>3, <2>1 DEF GateInv, PollInv, TaskTracked
<1>9. AnswerInv'
  <2>1. \A u \in DOMAIN started : started[u].result # "running" => started'[u].result = started[u].result
    BY <1>1, <1>2
  <2> QED
    BY <1>1, <1>2, <2>1 DEF GateInv, AnswerInv
<1>10. QueuedWereAllowed'
  BY QueuedStay DEF TaskStores, queueVars, GateInv
<1> QED
  BY <1>5, <1>6, <1>7, <1>8, <1>9, <1>10 DEF GateInv

LEMMA UncountKeeps ==
  ASSUME GateInv, NEW uid, TaskUncounts(uid)
  PROVE  GateInv'
<1>1. /\ uid \in DOMAIN started /\ started[uid].counted
      /\ started' = [started EXCEPT ![uid].counted = FALSE]
      /\ bg' = (IF bg = 0 THEN 0 ELSE bg - 1)
      /\ UNCHANGED <<tracker, poll, answer>>
  BY DEF TaskUncounts
<1>2. /\ started' \in Seq([result : TaskStates, counted : BOOLEAN])
      /\ DOMAIN started' = DOMAIN started /\ Len(started') = Len(started)
      /\ ~started'[uid].counted
      /\ \A u \in DOMAIN started : started'[u].result = started[u].result
      /\ \A u \in DOMAIN started : u # uid => started'[u] = started[u]
  <2>1. started \in Seq([result : TaskStates, counted : BOOLEAN]) /\ started[uid] \in [result : TaskStates, counted : BOOLEAN]
    <3>1. started \in Seq([result : TaskStates, counted : BOOLEAN])
      BY DEF GateInv, GateTypes
    <3>2. \A S, q, i : q \in Seq(S) /\ i \in DOMAIN q => q[i] \in S
      OBVIOUS
    <3> QED
      BY <1>1, <3>1, <3>2
  <2> DEFINE r == [started[uid] EXCEPT !.counted = FALSE]
  <2>2. r \in [result : TaskStates, counted : BOOLEAN] /\ r.result = started[uid].result /\ r.counted = FALSE
    BY <2>1
  <2>3. started' = [started EXCEPT ![uid] = r]
    BY <1>1
  <2> HIDE DEF r
  <2>4. /\ started' \in Seq([result : TaskStates, counted : BOOLEAN])
        /\ DOMAIN started' = DOMAIN started /\ Len(started') = Len(started)
        /\ started'[uid] = r
        /\ \A u \in DOMAIN started : u # uid => started'[u] = started[u]
    <3> DEFINE S == [result : TaskStates, counted : BOOLEAN]
    <3>1. started \in Seq(S) /\ uid \in DOMAIN started /\ r \in S
      BY <1>1, <2>1, <2>2
    <3> HIDE DEF S
    <3>2. LET w == [started EXCEPT ![uid] = r]
          IN  /\ w \in Seq(S) /\ DOMAIN w = DOMAIN started /\ Len(w) = Len(started) /\ w[uid] = r
              /\ \A j \in DOMAIN started : j # uid => w[j] = started[j]
      BY <3>1, Replaced, Zenon
    <3> QED
      BY <2>3, <3>2 DEF S
  <2> QED
    BY <2>2, <2>4
<1>3. GateTypes'
  BY <1>1, <1>2 DEF GateInv, GateTypes
<1>4. TrackInv'
  <2>1. Oldest' = Oldest
    BY <1>1, <1>2 DEF Oldest
  <2>2. DOMAIN tracker.entries \subseteq DOMAIN started
    BY FullWhenCounted DEF GateInv, GateTypes, TrackInv
  <2>3. \A u \in DOMAIN tracker'.entries : tracker'.entries[u].state = started'[u].result
    BY <1>1, <1>2, <2>2 DEF GateInv, TrackInv
  <2> QED
    BY <1>1, <1>2, <2>1, <2>3 DEF GateInv, TrackInv
<1>5. CountInv'
  <2>1. Uncounted' = Uncounted \ {uid} /\ uid \in Uncounted
    BY <1>1, <1>2 DEF Uncounted
  <2>2. Cardinality(Uncounted \ {uid}) = Cardinality(Uncounted) - 1
    BY <2>1, CountChanges, FS_RemoveElement
  <2>3. bg # 0
    BY <2>1, CountChanges, FS_EmptySet
  <2> QED
    BY <1>1, <2>1, <2>2, <2>3, CountChanges DEF CountInv
<1>6. PollInv'
  BY <1>1, PollStays DEF GateInv
<1>7. AnswerInv'
  BY <1>1, <1>2 DEF GateInv, AnswerInv
<1>8. QueuedWereAllowed'
  BY QueuedStay DEF TaskUncounts, queueVars, GateInv
<1> QED
  BY <1>3, <1>4, <1>5, <1>6, <1>7, <1>8 DEF GateInv

-----------------------------------------------------------------------------
(* Polls.                                                                  *)

LEMMA Known ==
  ASSUME GateInv, NEW uid \in TaskTracked
  PROVE  /\ uid \in DOMAIN started /\ tracker.entries[uid].state \in TaskStates
         /\ tracker.entries[uid].state = started[uid].result
<1>1. TaskTracked \subseteq DOMAIN started
  BY FullWhenCounted DEF GateInv, GateTypes, TrackInv, TaskTracked
<1>2. tracker.entries[uid] \in [state : TaskStates, from : {"lua_eval", "function_execute"}]
  BY DEF GateInv, GateTypes, TaskTracked
<1> QED
  BY <1>1, <1>2 DEF GateInv, TrackInv, TaskTracked

LEMMA StatusIs ==
  ASSUME GateInv, NEW uid
  PROVE  /\ TaskStatus(uid) \in TaskStates /\ TaskResult(uid) \in {"none", "completed", "failed"}
         /\ TaskStatus(uid) = "failed" => uid \in TaskTracked /\ tracker.entries[uid].state = "failed"
         /\ TaskResult(uid) # "none" => uid \in TaskTracked /\ tracker.entries[uid].state = TaskResult(uid)
BY Known DEF TaskStatus, TaskResult, TaskStates

LEMMA PollStatusKeeps ==
  ASSUME GateInv, NEW uid, NEW api, PollStatus(uid, api)
  PROVE  GateInv'
<1>1. /\ uid \in Nat /\ UNCHANGED <<queueVars, taskVars, poll>>
      /\ answer' = [n |-> answer.n + 1, key |-> NoKey, about |-> uid, told |-> TaskStatus(uid),
                    result |-> "unread", out |-> "unread"]
  <2>1. DOMAIN started \subseteq Nat
    BY DEF GateInv, GateTypes
  <2>2. answer' = [NoAnswer EXCEPT !.n = answer.n + 1, !.about = uid, !.told = TaskStatus(uid)]
    BY DEF PollStatus
  <2>3. uid \in DOMAIN started /\ UNCHANGED <<queueVars, taskVars, poll>>
    BY DEF PollStatus
  <2> QED
    BY <2>1, <2>2, <2>3 DEF NoAnswer
<1>2. answer' \in [n : Nat, key : Keys, about : Nat, told : TaskStates \cup {"none"}, result : Read, out : Read]
  BY <1>1, StatusIs DEF GateInv, GateTypes, Keys, Read
<1>3. GateTypes'
  BY <1>1, <1>2 DEF GateInv, GateTypes, taskVars
<1>4. AnswerInv'
  BY <1>1 DEF AnswerInv
<1>5. QueuedWereAllowed'
  BY <1>1, QueuedStay DEF queueVars, GateInv
<1> QED
  BY <1>1, <1>3, <1>4, <1>5, TasksStay, PollStays DEF GateInv, NoTask, taskVars

LEMMA PollResultKeeps ==
  ASSUME GateInv, NEW uid, NEW api, PollResult(uid, api)
  PROVE  GateInv'
<1>1. /\ uid \in Nat /\ UNCHANGED <<queueVars, taskVars, answer>>
      /\ poll' = [uid |-> uid, status |-> TaskStatus(uid), result |-> "unread"]
  <2>1. DOMAIN started \subseteq Nat
    BY DEF GateInv, GateTypes
  <2> QED
    BY <2>1 DEF PollResult, NoPoll
<1>2. GateTypes'
  BY <1>1, StatusIs DEF GateInv, GateTypes, taskVars, Read
<1>3. PollInv'
  BY <1>1, StatusIs DEF PollInv, TaskTracked, taskVars
<1>4. AnswerInv'
  BY <1>1 DEF GateInv, AnswerInv, taskVars
<1>5. QueuedWereAllowed'
  BY <1>1, QueuedStay DEF queueVars, GateInv
<1> QED
  BY <1>1, <1>2, <1>3, <1>4, <1>5, TasksStay DEF GateInv, NoTask

LEMMA PollReadsKeeps ==
  ASSUME GateInv, PollReads
  PROVE  GateInv'
<1>1. /\ UNCHANGED <<queueVars, taskVars, answer>>
      /\ poll' = [poll EXCEPT !.result = TaskResult(poll.uid)]
  BY DEF PollReads
<1>2. poll'.uid = poll.uid /\ poll'.status = poll.status /\ poll'.result = TaskResult(poll.uid)
      /\ poll' \in [uid : Nat, status : TaskStates \cup {"none"}, result : Read]
  BY <1>1, StatusIs DEF GateInv, GateTypes, Read
<1>3. GateTypes'
  BY <1>1, <1>2 DEF GateInv, GateTypes, taskVars
<1>4. PollInv'
  <2>1. poll.status = "failed" => TaskResult(poll.uid) = "failed"
    BY DEF GateInv, PollInv, TaskResult
  <2>2. TaskResult(poll.uid) # "none" => poll.uid \in TaskTracked /\ tracker.entries[poll.uid].state = TaskResult(poll.uid)
    BY StatusIs
  <2> QED
    BY <1>1, <1>2, <2>1, <2>2 DEF GateInv, PollInv, TaskTracked, taskVars
<1>5. AnswerInv'
  BY <1>1 DEF GateInv, AnswerInv, taskVars
<1>6. QueuedWereAllowed'
  BY <1>1, QueuedStay DEF queueVars, GateInv
<1> QED
  BY <1>1, <1>3, <1>4, <1>5, <1>6, TasksStay DEF GateInv, NoTask

LEMMA PollEndsKeeps ==
  ASSUME GateInv, PollEnds
  PROVE  GateInv'
<1>1. /\ UNCHANGED <<queueVars, taskVars>> /\ poll' = NoPoll /\ poll.result # "unread"
      /\ answer' = [n |-> answer.n + 1, key |-> NoKey, about |-> poll.uid, told |-> poll.status,
                    result |-> poll.result, out |-> TaskResult(poll.uid)]
  BY DEF PollEnds
<1>2. GateTypes'
  BY <1>1, StatusIs DEF GateInv, GateTypes, taskVars, NoPoll, Read, Keys
<1>3. PollInv'
  BY <1>1 DEF PollInv, NoPoll
<1>4. AnswerInv'
  <2>1. poll.result \in {"completed", "failed"} =>
          /\ poll.uid \in DOMAIN started /\ poll.result = started[poll.uid].result
          /\ TaskResult(poll.uid) = poll.result
    BY Known DEF GateInv, PollInv, TaskResult
  <2> QED
    BY <1>1, <2>1 DEF GateInv, PollInv, AnswerInv, taskVars
<1>5. QueuedWereAllowed'
  BY <1>1, QueuedStay DEF queueVars, GateInv
<1> QED
  BY <1>1, <1>2, <1>3, <1>4, <1>5, TasksStay DEF GateInv, NoTask

LEMMA KeyedKeeps ==
  ASSUME GateInv, NEW api \in ApiKeys, NEW key \in Keys, KeyedNext(api, key)
  PROVE  GateInv'
<1>1. ASSUME NEW name \in PlanNames \cup {QueueStop}, QueueItemAdd(name, api, key) PROVE GateInv'
  BY <1>1, AddKeeps
<1>2. ASSUME NEW n \in PlanNames, NEW o \in PlanNames, QueueItemAddBatch(<<n, o>>, api, key) PROVE GateInv'
  BY <1>2, AddBatchKeeps
<1>3. ASSUME NEW name \in PlanNames, QueueItemExecute(name, api, key) PROVE GateInv'
  BY <1>3, ExecuteKeeps
<1>4. ASSUME NEW p \in plans, NEW n \in PlanNames \cup {NoName}, NEW replace \in BOOLEAN,
             QueueItemUpdate(p, n, replace, api, key)
      PROVE  GateInv'
  BY <1>4, UpdateKeeps
<1>5. ASSUME NEW p \in plans, QueueItemRemove(p, api, key) PROVE GateInv'
  BY <1>5, TakingKeeps DEF QueueItemRemove
<1>6. ASSUME NEW batch \in SUBSET plans, QueueItemRemoveBatch(batch, api, key) PROVE GateInv'
  BY <1>6, TakingKeeps DEF QueueItemRemoveBatch
<1>7. ASSUME ClearQueue(api, key) PROVE GateInv'
  BY <1>7, TakingKeeps DEF ClearQueue
<1>8. ASSUME NEW loops \in BOOLEAN, QueueModeSet(loops, api, key) PROVE GateInv'
  BY <1>8, TakingKeeps DEF QueueModeSet
<1>9. ASSUME NEW m \in EnvMethods, EnvironmentOp(m, api, key) PROVE GateInv'
  BY <1>9, TakingKeeps DEF EnvironmentOp
<1>10. ASSUME \/ PermissionsReload(api, key) \/ LockRelease(api, key)
              \/ \E environment, queue \in BOOLEAN : LockApply(environment, queue, api, key)
       PROVE  GateInv'
  <2>1. GateAnswers(key) /\ NoTask /\ UNCHANGED <<poll, plans, atWorker>>
    BY <1>10 DEF PermissionsReload, LockRelease, LockApply, NoTask, queueVars
  <2>2. QueuedWereAllowed'
    BY <2>1, QueuedStay DEF GateInv
  <2> QED
    BY <2>1, <2>2, PlainRequest
<1> QED
  BY <1>1, <1>2, <1>3, <1>4, <1>5, <1>6, <1>7, <1>8, <1>9, <1>10 DEF KeyedNext

LEMMA NextGate == GateInv /\ [GateNext]_gateVars => GateInv'
<1> SUFFICES ASSUME GateInv, [GateNext]_gateVars PROVE GateInv'
  OBVIOUS
<1>1. ASSUME NEW api \in ApiKeys, NEW key \in Keys, KeyedNext(api, key) PROVE GateInv'
  BY <1>1, KeyedKeeps
<1>2. ASSUME NEW key \in Keys, Refused(key) PROVE GateInv'
  <2>1. GateAnswers(key) /\ NoTask /\ UNCHANGED <<poll, plans, atWorker>>
    BY <1>2 DEF Refused, NoTask, queueVars
  <2>2. QueuedWereAllowed'
    BY <2>1, QueuedStay DEF GateInv
  <2> QED
    BY <2>1, <2>2, PlainRequest
<1>3. ASSUME \/ \E p \in plans : WorkerTakes(p)
             \/ \E w \in atWorker, aborted \in BOOLEAN : WorkerEnds(w, aborted)
      PROVE  GateInv'
  BY <1>3, WorkersKeep
<1>4. ASSUME TasksNext PROVE GateInv'
  <2>1. ASSUME NEW m \in AdminMethods, NEW api \in ApiKeys, NEW key \in Keys, StartTask(m, api, key) PROVE GateInv'
    BY <2>1, StartKeeps
  <2>2. ASSUME NEW uid \in DOMAIN started, TaskNext(uid) PROVE GateInv'
    BY <2>2, StoreKeeps, UncountKeeps, PollStatusKeeps, PollResultKeeps DEF TaskNext
  <2>3. ASSUME PollReads \/ PollEnds PROVE GateInv'
    BY <2>3, PollReadsKeeps, PollEndsKeeps
  <2> QED
    BY <1>4, <2>1, <2>2, <2>3 DEF TasksNext, Keys
<1>5. ASSUME EditFile \/ UNCHANGED gateVars PROVE GateInv'
  <2>1. NoTask /\ UNCHANGED <<poll, answer, plans, atWorker>>
    BY <1>5 DEF EditFile, gateVars, NoTask, queueVars
  <2>2. QueuedWereAllowed'
    BY <2>1, QueuedStay DEF GateInv
  <2> QED
    BY <2>1, <2>2, PlainStep
<1> QED
  BY <1>1, <1>2, <1>3, <1>4, <1>5 DEF GateNext, Keys

THEOREM GateInvariant == GateSpec => []GateInv
BY InitGate, NextGate, PTL DEF GateSpec

-----------------------------------------------------------------------------
(* What the tracker tells.                                                 *)

LEMMA TellsTrue == GateInv => TaskAnswersTrue
<1> SUFFICES ASSUME GateInv PROVE TaskAnswersTrue
  OBVIOUS
<1>1. \A uid \in DOMAIN started : TaskStatus(uid) = started[uid].result \/ Len(started) - uid >= MaxTasks
  <2> SUFFICES ASSUME NEW uid \in DOMAIN started, uid \notin TaskTracked
               PROVE  Len(started) - uid >= MaxTasks
    BY Known DEF TaskStatus
  <2>1. uid \in 1 .. Len(started) /\ Len(started) \in Nat /\ Len(tracker.order) \in Nat /\ Oldest \in Nat
    BY FullWhenCounted DEF GateInv, GateTypes
  <2>2. uid \notin (Oldest + 1) .. Len(started)
    BY DEF GateInv, TrackInv, TaskTracked
  <2>3. uid <= Oldest /\ Oldest = Len(started) - Len(tracker.order)
    <3>1. Oldest = Len(started) - Len(tracker.order)
      BY DEF Oldest
    <3>2. uid <= Oldest
      BY <2>1, <2>2
    <3> QED
      BY <3>1, <3>2
  <2>4. Len(tracker.order) = MaxTasks
    BY <2>1, <2>3 DEF GateInv, TrackInv
  <2> QED
    BY <2>1, <2>3, <2>4
<1>2. answer.result \in {"unread", "none"} \/ answer.result \in {"completed", "failed"}
  BY DEF GateInv, GateTypes, Read
<1>3. bg = Cardinality({uid \in DOMAIN started : started[uid].counted})
  BY DEF GateInv, CountInv, Uncounted
<1> QED
  BY <1>1, <1>2, <1>3 DEF GateInv, AnswerInv, TaskAnswersTrue

-----------------------------------------------------------------------------
(* While something is locked, its key alone changes it.                    *)

LEMMA ByKeySteps == ByKey => LockStep
BY DEF LockStep

LEMMA NothingLocked == ASSUME UNCHANGED <<plans, atWorker, loopMode, env, lock>> PROVE LockStep
BY DEF LockStep

(* A request about the queue: by the key, or the queue is not locked.      *)
LEMMA QueueStep ==
  ASSUME GateInv, NEW m \in {"queue_item_add", "queue_item_add_batch", "queue_item_execute", "queue_item_update",
                             "queue_item_remove", "queue_item_remove_batch", "queue_clear", "queue_mode_set"},
         NEW names, NEW api, NEW key, QueueRequest(m, names, api, key), UNCHANGED env
  PROVE  LockStep
<1>1. Admitted(m, names, api, key) /\ GateAnswers(key) /\ lock' = lock
  BY DEF QueueRequest
<1>2. CASE lock.queue
  <2>1. ByKey
    BY <1>1, <1>2, BlockedByQueue, BlockedNeedsKey DEF GateInv, GateTypes
  <2> QED
    BY <2>1, ByKeySteps
<1>3. CASE ~lock.queue
  BY <1>1, <1>3 DEF LockStep
<1> QED
  BY <1>2, <1>3

LEMMA EnvironmentStep ==
  ASSUME GateInv, NEW m \in EnvMethods, NEW api, NEW key, EnvironmentOp(m, api, key)
  PROVE  LockStep
<1>1. Admitted(m, <<>>, api, key) /\ GateAnswers(key) /\ UNCHANGED <<lock, plans, atWorker, loopMode>>
  BY DEF EnvironmentOp, QueueRequest
<1>2. CASE lock.environment
  <2>1. ByKey
    BY <1>1, <1>2, BlockedByEnvironment, BlockedNeedsKey DEF GateInv, GateTypes
  <2> QED
    BY <2>1, ByKeySteps
<1>3. CASE ~lock.environment
  BY <1>1, <1>3 DEF LockStep
<1> QED
  BY <1>2, <1>3

LEMMA LockStepKeyed ==
  ASSUME GateInv, NEW api \in ApiKeys, NEW key \in Keys,
         \/ LockRelease(api, key)
         \/ \E environment, queue \in BOOLEAN : LockApply(environment, queue, api, key)
  PROVE  LockStep
<1>1. GateAnswers(key) /\ LockAvailable(key) /\ UNCHANGED <<plans, atWorker, loopMode, env>>
  BY DEF LockRelease, LockApply, queueVars
<1>2. CASE IsLocked
  <2>1. key = lock.key
    BY <1>1, <1>2 DEF LockAvailable
  <2>2. ByKey
    BY <1>1, <2>1 DEF GateAnswers, NoAnswer, ByKey
  <2> QED
    BY <2>2, ByKeySteps
<1>3. CASE ~IsLocked
  BY <1>1, <1>3 DEF LockStep
<1> QED
  BY <1>2, <1>3

LEMMA WorkerStep ==
  ASSUME \/ \E p \in plans : WorkerTakes(p)
         \/ \E w \in atWorker, aborted \in BOOLEAN : WorkerEnds(w, aborted)
  PROVE  LockStep
<1>1. ASSUME NEW p \in plans, WorkerTakes(p) PROVE LockStep
  <2>1. plans' = plans \ {p} /\ atWorker' = atWorker \cup {[item |-> p, single |-> FALSE]}
        /\ UNCHANGED <<loopMode, env, lock>>
    BY <1>1 DEF WorkerTakes
  <2>2. plans \ plans' \subseteq {w.item : w \in atWorker'}
    <3> DEFINE v == [item |-> p, single |-> FALSE]
    <3>1. v \in atWorker' /\ v.item = p
      BY <2>1
    <3>2. p \in {w.item : w \in atWorker'}
      BY <3>1
    <3>3. plans \ plans' \subseteq {p}
      BY <2>1
    <3> QED
      BY <3>2, <3>3
  <2>3. \A w \in atWorker' \ atWorker : ~w.single
    BY <2>1
  <2> QED
    BY <2>1, <2>2, <2>3 DEF LockStep
<1>2. ASSUME NEW w \in atWorker, NEW aborted \in BOOLEAN, WorkerEnds(w, aborted) PROVE LockStep
  <2>1. /\ plans \subseteq plans' /\ plans' \subseteq plans \cup {w.item} /\ atWorker' \subseteq atWorker
        /\ UNCHANGED <<loopMode, env, lock>>
    BY <1>2 DEF WorkerEnds
  <2> QED
    BY <2>1 DEF LockStep
<1> QED
  BY <1>1, <1>2

LEMMA NextLock == GateInv /\ [GateNext]_gateVars => LockStep
<1> SUFFICES ASSUME GateInv, [GateNext]_gateVars PROVE LockStep
  OBVIOUS
<1>1. ASSUME NEW api \in ApiKeys, NEW key \in Keys, KeyedNext(api, key) PROVE LockStep
  <2>1. CASE PermissionsReload(api, key)
    BY <2>1, NothingLocked DEF PermissionsReload, queueVars
  <2>2. CASE \/ LockRelease(api, key)
             \/ \E environment, queue \in BOOLEAN : LockApply(environment, queue, api, key)
    BY <2>2, LockStepKeyed
  <2>3. CASE \E m \in EnvMethods : EnvironmentOp(m, api, key)
    BY <2>3, EnvironmentStep
  <2>4. CASE \/ \E name \in PlanNames \cup {QueueStop} : QueueItemAdd(name, api, key)
             \/ \E n, o \in PlanNames : QueueItemAddBatch(<<n, o>>, api, key)
    BY <2>4, QueueStep DEF QueueItemAdd, QueueItemAddBatch
  <2>5. CASE \/ \E name \in PlanNames : QueueItemExecute(name, api, key)
             \/ \E p \in plans, n \in PlanNames \cup {NoName}, replace \in BOOLEAN :
                  QueueItemUpdate(p, n, replace, api, key)
    BY <2>5, QueueStep DEF QueueItemExecute, QueueItemUpdate
  <2>6. CASE \/ \E p \in plans : QueueItemRemove(p, api, key)
             \/ \E batch \in SUBSET plans : QueueItemRemoveBatch(batch, api, key)
    BY <2>6, QueueStep DEF QueueItemRemove, QueueItemRemoveBatch
  <2>7. CASE ClearQueue(api, key) \/ \E loops \in BOOLEAN : QueueModeSet(loops, api, key)
    BY <2>7, QueueStep DEF ClearQueue, QueueModeSet
  <2> QED
    BY <1>1, <2>1, <2>2, <2>3, <2>4, <2>5, <2>6, <2>7 DEF KeyedNext
<1>2. ASSUME NEW key \in Keys, Refused(key) PROVE LockStep
  BY <1>2, NothingLocked DEF Refused, queueVars
<1>3. ASSUME \/ \E p \in plans : WorkerTakes(p)
             \/ \E w \in atWorker, aborted \in BOOLEAN : WorkerEnds(w, aborted)
      PROVE  LockStep
  BY <1>3, WorkerStep
<1>4. ASSUME TasksNext PROVE LockStep
  <2>1. UNCHANGED <<plans, atWorker, loopMode, env, lock>>
    BY <1>4 DEF TasksNext, TaskNext, StartTask, TaskStores, TaskUncounts, PollStatus, PollResult, PollReads, PollEnds,
                queueVars
  <2> QED
    BY <2>1, NothingLocked
<1>5. ASSUME EditFile \/ UNCHANGED gateVars PROVE LockStep
  BY <1>5, NothingLocked DEF EditFile, gateVars, queueVars
<1> QED
  BY <1>1, <1>2, <1>3, <1>4, <1>5 DEF GateNext, Keys

-----------------------------------------------------------------------------
(* Nothing is queued, put back or handed to a worker that the policy in    *)
(* force when it was submitted did not allow (permissions.rs check,        *)
(* the queue_item handlers of dispatch.rs); a locked queue, environment or lock changes  *)
(* for its key alone (lock_check); and what task_status and task_result    *)
(* tell is true of the task, or it was evicted (tasks.rs).                 *)
THEOREM GateIsSound == GateSpec => GateSound
<1>1. GateSpec => []GateInv
  BY GateInvariant
<1>2. GateInv => QueuedWereAllowed /\ TaskAnswersTrue
  BY TellsTrue DEF GateInv
<1>3. GateInv /\ [GateNext]_gateVars => [LockStep]_gateVars
  BY NextLock
<1> QED
  BY <1>1, <1>2, <1>3, PTL DEF GateSpec, GateSound, LockHonoured
=============================================================================
