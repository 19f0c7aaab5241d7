----------------------------- MODULE SignalStack -----------------------------
(***************************************************************************)
(* One signal over a soft backend: devices/signal.rs and signal_cache.rs    *)
(* (one shared monitor, open while the signal is staged or listened to),    *)
(* core/subscription.rs (the fan-out to listeners) and                      *)
(* backends/soft/signal.rs (a store queues the reading in the monitor's     *)
(* mailbox under the state lock; whoever found the mailbox idle delivers    *)
(* with no lock held).  Values are the numbers of the stores, so order and  *)
(* completeness of what is delivered can be read off them.                  *)
(***************************************************************************)
EXTENDS Naturals, Sequences

CONSTANTS SgThreads,    \* threads that write, stage, listen
          SgListeners,  \* listeners that may be added (each once)
          SgMonitors,   \* bound on the monitors opened
          SgWrites      \* bound on the stores

ASSUME SignalBounds == SgMonitors \in Nat /\ SgWrites \in Nat

VARIABLES sgValue,     \* the backend's value
          sgMonitor,   \* the registered subscriber of the cache's token, 0: none
          sgBox,       \* subscriber -> [pending, draining]
          sgGiven,     \* subscriber -> what its callback has been called with
          sgOpened,    \* subscribers made so far
          sgStaged, sgListening, \* CacheState: staged, the listeners counted
          sgLock,      \* the thread holding the CacheState lock, "free" otherwise
          sgLatest,    \* Fanout: the latest reading, 0: none
          sgQueue,     \* Fanout: listener -> queued readings
          sgLate,      \* a monitor was closed while a reading of it was being delivered
          sgThread     \* thread -> what it is doing

signalVars == <<sgValue, sgMonitor, sgBox, sgGiven, sgOpened, sgStaged, sgListening,
                sgLock, sgLatest, sgQueue, sgLate, sgThread>>

Resting == [at |-> "idle", sub |-> 0, got |-> 0, listener |-> "none"]

SignalInit ==
    /\ sgValue = 1 /\ sgMonitor = 0 /\ sgOpened = 0
    /\ sgBox = [i \in 1 .. SgMonitors |-> [pending |-> <<>>, draining |-> FALSE]]
    /\ sgGiven = [i \in 1 .. SgMonitors |-> <<>>]
    /\ sgStaged = FALSE /\ sgListening = {} /\ sgLock = "free"
    /\ sgLatest = 0 /\ sgQueue = [l \in SgListeners |-> <<>>]
    /\ sgThread = [t \in SgThreads |-> Resting] /\ sgLate = FALSE

SgIdle(t) == sgThread[t].at = "idle"
Heads(l) == l \in sgListening

----------------------------------------------------------------------------
(* backends/soft/signal.rs *)

\* Subscriber::enqueue: TRUE in `claims` when the caller must drain.
ClaimsAlways(i) == TRUE
ClaimsDrain(i) == ~sgBox[i].draining
Enqueue(i, v) == [sgBox EXCEPT ![i] = [pending |-> Append(@.pending, v), draining |-> TRUE]]

\* store: the value and the mailbox under the state lock, the drain after it.
Store(t) ==
    /\ SgIdle(t) /\ sgValue <= SgWrites
    /\ sgValue' = sgValue + 1
    /\ IF sgMonitor = 0
       THEN UNCHANGED <<sgBox, sgThread>>
       ELSE /\ sgBox' = Enqueue(sgMonitor, sgValue + 1)
            /\ sgThread' = IF ClaimsDrain(sgMonitor)
                           THEN [sgThread EXCEPT ![t].at = "drain", ![t].sub = sgMonitor]
                           ELSE sgThread
    /\ UNCHANGED <<sgLate, sgMonitor, sgGiven, sgOpened, sgStaged, sgListening, sgLock, sgLatest, sgQueue>>

\* drain: pop one reading, or release the mailbox in the section that saw it empty.
DrainPop(t) ==
    /\ sgThread[t].at \in {"drain", "opening"} /\ sgThread[t].got = 0
    /\ LET i == sgThread[t].sub
       IN  /\ sgBox[i].pending # <<>>
           /\ sgBox' = [sgBox EXCEPT ![i].pending = Tail(@)]
           /\ sgThread' = [sgThread EXCEPT ![t].got = Head(sgBox[i].pending)]
    /\ UNCHANGED <<sgLate, sgValue, sgMonitor, sgGiven, sgOpened, sgStaged, sgListening, sgLock,
                   sgLatest, sgQueue>>

\* The callback of make_callback: post to every listener, then keep it as latest.
SgPost(v) ==
    /\ sgQueue' = [l \in SgListeners |-> IF Heads(l) THEN Append(sgQueue[l], v) ELSE sgQueue[l]]
    /\ sgLatest' = v
DrainDeliver(t) ==
    /\ sgThread[t].got # 0
    /\ SgPost(sgThread[t].got)
    /\ sgGiven' = [sgGiven EXCEPT ![sgThread[t].sub] = Append(@, sgThread[t].got)]
    /\ sgThread' = [sgThread EXCEPT ![t].got = 0]
    /\ UNCHANGED <<sgLate, sgValue, sgMonitor, sgBox, sgOpened, sgStaged, sgListening, sgLock>>

\* Fanout::listen: the queue starts with the latest reading.
ListenEmpty(l) == sgQueue
Listen(l) == [sgQueue EXCEPT ![l] = IF sgLatest = 0 THEN <<>> ELSE <<sgLatest>>]

\* The mailbox is empty: the drain ends; set_callback returns to ensure_token,
\* and add_listener goes on to Fanout::listen before it unlocks.
DrainEnd(t) ==
    /\ sgThread[t].at \in {"drain", "opening"} /\ sgThread[t].got = 0
    /\ LET i == sgThread[t].sub
           l == sgThread[t].listener
       IN  /\ sgBox[i].pending = <<>>
           /\ sgBox' = [sgBox EXCEPT ![i].draining = FALSE]
           /\ IF sgThread[t].at = "opening"
              THEN /\ sgLock' = "free"
                   /\ IF l = "none" THEN UNCHANGED <<sgQueue, sgListening>>
                      ELSE sgQueue' = Listen(l) /\ sgListening' = sgListening \cup {l}
              ELSE UNCHANGED <<sgLock, sgQueue, sgListening>>
    /\ sgThread' = [sgThread EXCEPT ![t] = Resting]
    /\ UNCHANGED <<sgLate, sgValue, sgMonitor, sgGiven, sgOpened, sgStaged, sgLatest>>

\* set_callback up to the drain: a new subscriber starts with the current reading
\* and is registered in the same critical section.
OpenMonitor(t, l) ==
    /\ sgOpened < SgMonitors
    /\ sgOpened' = sgOpened + 1
    /\ sgMonitor' = sgOpened + 1
    /\ sgBox' = Enqueue(sgOpened + 1, sgValue)
    /\ sgLock' = t
    /\ sgThread' = [sgThread EXCEPT ![t] = [at |-> "opening", sub |-> sgOpened + 1, got |-> 0,
                                            listener |-> l]]

----------------------------------------------------------------------------
(* devices/signal_cache.rs *)

\* set_staged(true) with ensure_token.
StageSignal(t) ==
    /\ SgIdle(t) /\ sgLock = "free" /\ ~sgStaged
    /\ sgStaged' = TRUE
    /\ IF sgMonitor = 0 THEN OpenMonitor(t, "none")
       ELSE UNCHANGED <<sgOpened, sgMonitor, sgBox, sgLock, sgThread>>
    /\ UNCHANGED <<sgLate, sgValue, sgGiven, sgListening, sgLatest, sgQueue>>

\* add_listener with ensure_token (Signal::subscribe).
AddListener(t, l) ==
    /\ SgIdle(t) /\ sgLock = "free" /\ l \notin sgListening /\ sgQueue[l] = <<>>
    /\ IF sgMonitor = 0
       THEN OpenMonitor(t, l) /\ UNCHANGED <<sgQueue, sgListening>>
       ELSE /\ sgQueue' = Listen(l) /\ sgListening' = sgListening \cup {l}
            /\ UNCHANGED <<sgOpened, sgMonitor, sgBox, sgLock, sgThread>>
    /\ UNCHANGED <<sgLate, sgValue, sgGiven, sgStaged, sgLatest>>

\* maybe_teardown: the token is dropped (the subscriber is removed and what it
\* has queued is discarded), then the fan-out is cleared; both under the lock.
LastUser(staged, listening) == ~staged /\ listening = {}
Delivering == \E u \in SgThreads : sgThread[u].got # 0 /\ sgThread[u].sub = sgMonitor
TearDown(t, staged, listening) ==
    /\ sgStaged' = staged /\ sgListening' = listening
    /\ IF LastUser(staged, listening)
       THEN /\ sgMonitor' = 0
            /\ sgBox' = [sgBox EXCEPT ![sgMonitor].pending = <<>>]
            /\ sgLock' = t
            /\ sgThread' = [sgThread EXCEPT ![t].at = "closing"]
            /\ sgLate' = (sgLate \/ Delivering)
       ELSE UNCHANGED <<sgMonitor, sgBox, sgLock, sgThread, sgLate>>
    /\ UNCHANGED <<sgValue, sgGiven, sgOpened, sgLatest, sgQueue>>
UnstageSignal(t) ==
    /\ SgIdle(t) /\ sgLock = "free" /\ sgStaged
    /\ TearDown(t, FALSE, sgListening)
DropListener(t, l) ==
    /\ SgIdle(t) /\ sgLock = "free" /\ l \in sgListening
    /\ TearDown(t, sgStaged, sgListening \ {l})
ClearCache(t) ==
    /\ sgThread[t].at = "closing"
    /\ sgLatest' = 0
    /\ sgLock' = "free"
    /\ sgThread' = [sgThread EXCEPT ![t] = Resting]
    /\ UNCHANGED <<sgLate, sgValue, sgMonitor, sgBox, sgGiven, sgOpened, sgStaged, sgListening, sgQueue>>

\* read_cached(None): the cached reading, else the backend's.
ReadSignal == IF sgLatest # 0 THEN sgLatest ELSE sgValue

SignalNext ==
    \E t \in SgThreads :
        \/ Store(t) \/ DrainPop(t) \/ DrainDeliver(t) \/ DrainEnd(t)
        \/ StageSignal(t) \/ UnstageSignal(t) \/ ClearCache(t)
        \/ \E l \in SgListeners : AddListener(t, l) \/ DropListener(t, l)

----------------------------------------------------------------------------
InFlight(i) == {t \in SgThreads : sgThread[t].sub = i /\ sgThread[t].got # 0}

\* A monitor's callback gets every reading from the one current at its
\* registration on, in the order of the stores, none twice and none left out,
\* however many threads store meanwhile (soft/signal.rs, Subscriber).
StoreOrderKept ==
    \A i \in 1 .. sgOpened :
        LET owed == sgGiven[i] \o (IF InFlight(i) = {} THEN <<>>
                                   ELSE <<sgThread[CHOOSE t \in InFlight(i) : TRUE].got>>)
                               \o sgBox[i].pending
        IN  /\ \A k \in 1 .. Len(owed) - 1 : owed[k + 1] = owed[k] + 1
            /\ i = sgMonitor => owed # <<>> /\ owed[Len(owed)] = sgValue
            /\ i = sgMonitor /\ sgBox[i].pending # <<>> => sgBox[i].draining

\* The backend monitor is alive exactly while the cache is staged or has a
\* listener (signal_cache.rs, CacheState).
MonitorMatchesUsers ==
    sgLock = "free" => ((sgMonitor # 0) <=> (sgStaged \/ sgListening # {}))

\* With nothing under way a read answers the current value, cached or not, and
\* a listener has been given it last.
Current ==
    /\ ReadSignal = sgValue
    /\ \A l \in sgListening : sgQueue[l] # <<>> /\ sgQueue[l][Len(sgQueue[l])] = sgValue
QuietReadsCurrent == ~sgLate /\ (\A t \in SgThreads : SgIdle(t)) => Current

SignalSound == StoreOrderKept /\ MonitorMatchesUsers /\ QuietReadsCurrent

\* cached_reading: "Latest cached reading, or None if no callback has fired yet
\* (or the monitor has been torn down)".
TornDownIsEmpty ==
    sgMonitor = 0 /\ (\A t \in SgThreads : SgIdle(t)) => sgLatest = 0
=============================================================================
