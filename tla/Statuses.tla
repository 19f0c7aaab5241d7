------------------------------ MODULE Statuses ------------------------------
(***************************************************************************)
(* core/status.rs: a Status resolves once, whoever gets there first (its    *)
(* setter, the settle timer, the timeout timer, a canceller or, for a       *)
(* combination made by `and`, the callbacks of its parts).  finish flips    *)
(* the phase under the lock and runs callbacks and wakers after it has let  *)
(* go, so a callback added, a future polled or a second finish can fall in  *)
(* between.  "a" and "b" are two statuses, "ab" is a.and(b).                *)
(***************************************************************************)
EXTENDS Naturals, Sequences

CONSTANTS StTimeout,   \* the timeout "a" was created with, in ticks
          StSettle,    \* the settle time of "a"
          StHorizon,   \* bound on the clock
          StUpdates,   \* bound on watcher updates
          StUsers,     \* the statuses a user listens to and awaits
          StCancels    \* the statuses that may be cancelled

ASSUME StatusBounds == StTimeout \in Nat /\ StSettle \in Nat /\ StHorizon \in Nat /\ StUpdates \in Nat
                       /\ StUsers \cup StCancels \subseteq {"a", "b", "ab"}

VARIABLES stEnd,      \* phase: "pending" or how the status ended
          stCallbacks,\* callbacks registered while pending, in order
          stDue,      \* callbacks finish has taken out and not yet called
          stHeard,    \* <<status, callback>> -> the outcomes it was called with
          stJoined,   \* the `pending` count of the combination
          stWaiter,   \* the future of the status: "none", "parked", "woken", "ready"
          stToWake,   \* statuses whose wakers finish has taken out and not yet woken
          stSetter,   \* TRUE while the StatusSetter has not been consumed
          stReported, \* when the setter of "a" said success, or NoTime
          stCancel,   \* the cancellation token the operation watches
          stClock,
          stWatch     \* observe_watcher: [count, state, queue, seen]

statusVars == <<stEnd, stCallbacks, stDue, stHeard, stJoined, stWaiter, stToWake,
                stSetter, stReported, stCancel, stClock, stWatch>>

Parts    == {"a", "b"}
StatusIds == Parts \cup {"ab"}
NoTime   == StHorizon + 1
Deadline == StTimeout + StSettle

----------------------------------------------------------------------------
\* and: a callback on each part; the setter of the combination is dropped at once.
StatusInit ==
    /\ stEnd = [s \in StatusIds |-> "pending"]
    /\ stCallbacks = [s \in StatusIds |-> IF s \in Parts THEN <<"join">> ELSE <<>>]
    /\ stDue = [s \in StatusIds |-> <<>>]
    /\ stHeard = [s \in StatusIds |-> <<>>]
    /\ stJoined = 2
    /\ stWaiter = [s \in StatusIds |-> "none"]
    /\ stToWake = {}
    /\ stSetter = [s \in Parts |-> TRUE]
    /\ stReported = NoTime
    /\ stCancel = [s \in StatusIds |-> FALSE]
    /\ stClock = 0
    /\ stWatch = [count |-> 0, state |-> "out", queue |-> <<>>, seen |-> <<>>]

\* Inner::finish up to the unlock, `due` being the callbacks still to be called:
\* only the first end counts.
Finish(s, end, due) ==
    IF stEnd[s] # "pending"
    THEN stDue' = due /\ UNCHANGED <<stEnd, stCallbacks, stToWake>>
    ELSE /\ stEnd' = [stEnd EXCEPT ![s] = end]
         /\ stDue' = [due EXCEPT ![s] = stCallbacks[s]]
         /\ stCallbacks' = [stCallbacks EXCEPT ![s] = <<>>]
         /\ stToWake' = IF stWaiter[s] = "parked" THEN stToWake \cup {s} ELSE stToWake

\* StatusSetter::success; "a" has a settle time, "b" none.
SetterSuccess(s) ==
    /\ stSetter[s]
    /\ stSetter' = [stSetter EXCEPT ![s] = FALSE]
    /\ stReported' = IF s = "a" THEN stClock ELSE stReported
    /\ IF s = "a" /\ StSettle > 0
       THEN UNCHANGED <<stEnd, stCallbacks, stDue, stToWake>>
       ELSE Finish(s, "ok", stDue)
    /\ UNCHANGED <<stHeard, stJoined, stWaiter, stCancel, stClock, stWatch>>

\* StatusSetter::fail.
SetterFail(s) ==
    /\ stSetter[s]
    /\ stSetter' = [stSetter EXCEPT ![s] = FALSE]
    /\ Finish(s, "failed", stDue)
    /\ UNCHANGED <<stHeard, stJoined, stWaiter, stReported, stCancel, stClock, stWatch>>

\* The settle timer that success spawned.
SettleDue == stReported # NoTime /\ StSettle > 0 /\ stClock >= stReported + StSettle
SettleFires ==
    /\ SettleDue /\ stEnd["a"] = "pending"
    /\ Finish("a", "ok", stDue)
    /\ UNCHANGED <<stHeard, stJoined, stWaiter, stSetter, stReported, stCancel, stClock, stWatch>>

\* The timer of with_timeout: timeout plus settle_time.  Timers due at one tick
\* fire in the order they became due, so a settle timer due earlier goes first.
TimeoutDueUnsettled == stClock >= StTimeout
TimeoutDue == stClock >= Deadline
TimeoutFires ==
    /\ TimeoutDue /\ stEnd["a"] = "pending"
    /\ ~(SettleDue /\ stReported < StTimeout)
    /\ Finish("a", "timeout", stDue)
    /\ UNCHANGED <<stHeard, stJoined, stWaiter, stSetter, stReported, stCancel, stClock, stWatch>>

\* Time does not pass a timer that is due.
StatusTick ==
    /\ stClock < StHorizon
    /\ stEnd["a"] = "pending" => ~SettleDue /\ ~TimeoutDue
    /\ stClock' = stClock + 1
    /\ UNCHANGED <<stEnd, stCallbacks, stDue, stHeard, stJoined, stWaiter, stToWake,
                   stSetter, stReported, stCancel, stWatch>>

\* Status::cancel, also the drop of a CancelGuard: the token, then the end.
CancelStatus(s) ==
    /\ s \in StCancels /\ ~stCancel[s]
    /\ stCancel' = [stCancel EXCEPT ![s] = TRUE]
    /\ Finish(s, "cancelled", stDue)
    /\ UNCHANGED <<stHeard, stJoined, stWaiter, stSetter, stReported, stClock, stWatch>>

\* The callback `and` puts on a part: the first failure or the second success
\* ends the combination.
JoinEndsEither(s) == TRUE
JoinEnds(s) == stEnd[s] # "ok" \/ stJoined = 1
JoinCallback(s) ==
    /\ IF JoinEnds(s)
       THEN Finish("ab", stEnd[s], [stDue EXCEPT ![s] = Tail(@)])
       ELSE /\ stDue' = [stDue EXCEPT ![s] = Tail(@)]
            /\ UNCHANGED <<stEnd, stCallbacks, stToWake>>
    /\ stJoined' = IF stEnd[s] = "ok" THEN stJoined - 1 ELSE stJoined
    /\ UNCHANGED stHeard

\* finish after the unlock: one callback.
RunCallback(s) ==
    /\ stDue[s] # <<>>
    /\ IF Head(stDue[s]) = "join"
       THEN JoinCallback(s)
       ELSE /\ stDue' = [stDue EXCEPT ![s] = Tail(@)]
            /\ stHeard' = [stHeard EXCEPT ![s] = Append(@, stEnd[s])]
            /\ UNCHANGED <<stEnd, stCallbacks, stJoined, stToWake>>
    /\ UNCHANGED <<stWaiter, stSetter, stReported, stCancel, stClock, stWatch>>

\* finish after the callbacks: the wakers.
WakeWaiter(s) ==
    /\ s \in stToWake /\ stDue[s] = <<>>
    /\ stToWake' = stToWake \ {s}
    /\ stWaiter' = [stWaiter EXCEPT ![s] = "woken"]
    /\ UNCHANGED <<stEnd, stCallbacks, stDue, stHeard, stJoined, stSetter, stReported,
                   stCancel, stClock, stWatch>>

\* add_callback of the user's callback: queued, or called at once when done.
Adds(s) == stHeard[s] = <<>> /\ "user" \notin {stCallbacks[s][i] : i \in DOMAIN stCallbacks[s]}
                             /\ "user" \notin {stDue[s][i] : i \in DOMAIN stDue[s]}
AddCallback(s) ==
    /\ s \in StUsers /\ Adds(s)
    /\ IF stEnd[s] = "pending"
       THEN stCallbacks' = [stCallbacks EXCEPT ![s] = Append(@, "user")] /\ UNCHANGED stHeard
       ELSE stHeard' = [stHeard EXCEPT ![s] = Append(@, stEnd[s])] /\ UNCHANGED stCallbacks
    /\ UNCHANGED <<stEnd, stDue, stJoined, stWaiter, stToWake, stSetter, stReported, stCancel,
                   stClock, stWatch>>

\* Future::poll and wait: park the waker while pending, else take the outcome.
PollStatus(s) ==
    /\ s \in StUsers /\ stWaiter[s] \in {"none", "woken"}
    /\ stWaiter' = [stWaiter EXCEPT ![s] = IF stEnd[s] = "pending" THEN "parked" ELSE "ready"]
    /\ UNCHANGED <<stEnd, stCallbacks, stDue, stHeard, stJoined, stToWake, stSetter,
                   stReported, stCancel, stClock, stWatch>>

----------------------------------------------------------------------------
\* update_watcher of "a": every observer's queue and the latest update, under
\* one lock.
UpdateWatcher ==
    /\ stSetter["a"] /\ stWatch.count < StUpdates
    /\ stWatch' = [stWatch EXCEPT !.count = @ + 1,
                     !.queue = IF stWatch.state = "in" THEN Append(@, stWatch.count + 1) ELSE @]
    /\ UNCHANGED <<stEnd, stCallbacks, stDue, stHeard, stJoined, stWaiter, stToWake,
                   stSetter, stReported, stCancel, stClock>>

\* observe_watcher, registration: the queue and the latest update under the lock
\* update_watcher holds.
ObserverJoins ==
    /\ stWatch.state = "out"
    /\ stWatch' = [stWatch EXCEPT !.state = "in",
                     !.seen = IF stWatch.count = 0 THEN <<>> ELSE <<stWatch.count>>]
    /\ UNCHANGED <<stEnd, stCallbacks, stDue, stHeard, stJoined, stWaiter, stToWake,
                   stSetter, stReported, stCancel, stClock>>

\* observe_watcher, the loop: the end of the status first, then the queue; at
\* the end what is still queued is delivered too.
ObserverStep ==
    /\ stWatch.state = "in"
    /\ IF stEnd["a"] # "pending"
       THEN stWatch' = [stWatch EXCEPT !.state = "left", !.queue = <<>>, !.seen = @ \o stWatch.queue]
       ELSE /\ stWatch.queue # <<>>
            /\ stWatch' = [stWatch EXCEPT !.queue = Tail(@), !.seen = Append(@, Head(stWatch.queue))]
    /\ UNCHANGED <<stEnd, stCallbacks, stDue, stHeard, stJoined, stWaiter, stToWake,
                   stSetter, stReported, stCancel, stClock>>

StatusNext ==
    \/ \E s \in Parts : SetterSuccess(s) \/ SetterFail(s)
    \/ SettleFires \/ TimeoutFires \/ StatusTick
    \/ \E s \in StatusIds : CancelStatus(s) \/ RunCallback(s) \/ WakeWaiter(s)
                            \/ AddCallback(s) \/ PollStatus(s)
    \/ UpdateWatcher \/ ObserverJoins \/ ObserverStep

StatusSpec == StatusInit /\ [][StatusNext]_statusVars

----------------------------------------------------------------------------
Settled(s) == stDue[s] = <<>>

\* A combination succeeds only when both parts did, fails only as a part or its
\* own canceller made it fail, and never outlives its parts.
JoinAgrees ==
    /\ stEnd["ab"] = "ok" => \A s \in Parts : stEnd[s] = "ok"
    /\ stEnd["ab"] \notin {"ok", "pending"} => stCancel["ab"] \/ \E s \in Parts : stEnd[s] = stEnd["ab"]
    /\ (\A s \in Parts : stEnd[s] # "pending" /\ Settled(s)) => stEnd["ab"] # "pending"

\* A callback hears the status's one outcome, once, whether it was added before,
\* during or after the end.
HeardOnce ==
    \A s \in StatusIds :
        /\ Len(stHeard[s]) <= 1
        /\ stHeard[s] # <<>> => stHeard[s] = <<stEnd[s]>> /\ stEnd[s] # "pending"
        /\ stEnd[s] # "pending" => stCallbacks[s] = <<>>

\* A device that reports success within its timeout is not timed out while it
\* settles; a waiter parked on a finished status is about to be woken.
PromptOutcome ==
    /\ stReported < StTimeout => stEnd["a"] # "timeout"
    /\ \A s \in StatusIds : stWaiter[s] = "parked" /\ stEnd[s] # "pending" => s \in stToWake

\* An observer sees every update from the one current when it joined to the end,
\* each once and in order.
ObserverSeesAll ==
    LET got == stWatch.seen \o stWatch.queue
    IN  /\ \A i \in 1 .. Len(got) - 1 : got[i + 1] = got[i] + 1
        /\ stWatch.state = "in" => IF got = <<>> THEN stWatch.count = 0 ELSE got[Len(got)] = stWatch.count

\* A combined status ends as its parts do and no sooner, every callback is
\* called once with the outcome the status keeps, a success reported in time is
\* not timed out, and an observer sees every update (core/status.rs).
StatusSound == JoinAgrees /\ HeardOnce /\ PromptOutcome /\ ObserverSeesAll
=============================================================================
