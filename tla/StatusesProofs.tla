--------------------------- MODULE StatusesProofs ---------------------------
(***************************************************************************)
(* Proofs about Statuses, for any timeout, settle time and horizon, any    *)
(* users and cancellers and any number of watcher updates.                 *)
(***************************************************************************)
EXTENDS Statuses, TLAPS, SequenceTheorems

Ends == {"pending", "ok", "failed", "timeout", "cancelled"}

-----------------------------------------------------------------------------
(* The lists of callbacks there can be: a part has the callback of `and`   *)
(* first, and the user's once at most.                                     *)

J  == <<"join">>
U  == <<"user">>
JU == <<"join", "user">>
CallbackLists == {<<>>, J, U, JU}

LEMMA Pairing == \A x, y : Append(<<x>>, y) = <<x, y>>
<1> SUFFICES ASSUME NEW x, NEW y PROVE Append(<<x>>, y) = <<x, y>>
  OBVIOUS
<1> DEFINE S == {x, y}
           s == Append(<<x>>, y)
           t == <<x, y>>
<1>1. <<x>> \in Seq(S) /\ Len(<<x>>) = 1 /\ <<x>>[1] = x /\ y \in S
  OBVIOUS
<1>2. t \in Seq(S) /\ Len(t) = 2 /\ t[1] = x /\ t[2] = y
  OBVIOUS
<1>3. s \in Seq(S) /\ Len(s) = 2 /\ s[1] = x /\ s[2] = y
  OBVIOUS
<1> HIDE DEF s, t, S
<1>4. s = t
  BY <1>2, <1>3, SeqEqual
<1> QED
  BY <1>4 DEF s, t

LEMMA Lists ==
    /\ J # <<>> /\ U # <<>> /\ JU # <<>> /\ J # U /\ J # JU /\ U # JU
    /\ Head(J) = "join" /\ Head(JU) = "join" /\ Head(U) = "user"
    /\ Tail(J) = <<>> /\ Tail(U) = <<>> /\ Tail(JU) = U
    /\ Append(<<>>, "user") = U /\ Append(J, "user") = JU
<1>1. J # <<>> /\ U # <<>> /\ JU # <<>> /\ J # U /\ J # JU /\ U # JU
  <2>1. Len(J) = 1 /\ Len(U) = 1 /\ Len(JU) = 2 /\ Len(<<>>) = 0 /\ J[1] = "join" /\ U[1] = "user"
    BY DEF J, U, JU
  <2> QED
    BY <2>1
<1>2. Head(J) = "join" /\ Head(JU) = "join" /\ Head(U) = "user"
  BY DEF J, U, JU
<1>3. Tail(J) = <<>> /\ Tail(U) = <<>> /\ Tail(JU) = U
  BY DEF J, U, JU
<1>4. Append(<<>>, "user") = U
  BY DEF U
<1>5. Append(J, "user") = JU
  BY Pairing DEF J, JU
<1> QED
  BY <1>1, <1>2, <1>3, <1>4, <1>5

LEMMA Listening ==
    /\ "user" \in {U[i] : i \in DOMAIN U}
    /\ "user" \in {JU[i] : i \in DOMAIN JU}
<1>1. 1 \in DOMAIN U /\ U[1] = "user"
  BY DEF U
<1>2. 2 \in DOMAIN JU /\ JU[2] = "user"
  BY DEF JU
<1> QED
  BY <1>1, <1>2

-----------------------------------------------------------------------------
(* The invariant.                                                          *)

StatusTypes ==
  /\ stEnd \in [StatusIds -> Ends]
  /\ stCallbacks \in [StatusIds -> CallbackLists] /\ stDue \in [StatusIds -> CallbackLists]
  /\ stHeard \in [StatusIds -> {<<>>} \cup {<<e>> : e \in Ends}]
  /\ stWaiter \in [StatusIds -> {"none", "parked", "woken", "ready"}]
  /\ stCancel \in [StatusIds -> BOOLEAN]

(* The user's callback is in one list or has been called, never both.      *)
CallInv ==
  \A s \in StatusIds :
    /\ stEnd[s] = "pending" => stDue[s] = <<>> /\ stHeard[s] = <<>>
    /\ stEnd[s] # "pending" => stCallbacks[s] = <<>> /\ stHeard[s] \in {<<>>, <<stEnd[s]>>}
    /\ stDue[s] \in {U, JU} => stHeard[s] = <<>>
    /\ s \in Parts /\ stEnd[s] = "pending" => stCallbacks[s] \in {J, JU}
    /\ s = "ab" => stCallbacks[s] \in {<<>>, U} /\ stDue[s] \in {<<>>, U}

(* The count of `and` is what is left of two after the parts whose callback *)
(* has run with success.                                                    *)
JoinRun(s) == stEnd[s] # "pending" /\ stDue[s] \in {<<>>, U}
JoinedOk(s) == IF JoinRun(s) /\ stEnd[s] = "ok" THEN 1 ELSE 0
JoinInv ==
  /\ stJoined = 2 - JoinedOk("a") - JoinedOk("b")
  /\ stEnd["ab"] = "ok" => stEnd["a"] = "ok" /\ stEnd["b"] = "ok"
  /\ stEnd["ab"] \notin {"ok", "pending"} => stCancel["ab"] \/ \E s \in Parts : stEnd[s] = stEnd["ab"]
  /\ \A s \in Parts : JoinRun(s) /\ stEnd[s] # "ok" => stEnd["ab"] # "pending"
  /\ JoinRun("a") /\ JoinRun("b") => stEnd["ab"] # "pending"

WakeInv == \A s \in StatusIds : stWaiter[s] = "parked" /\ stEnd[s] # "pending" => s \in stToWake

(* With no settle time a success ends the status at once; a timeout is not *)
(* early.                                                                  *)
TimeInv ==
  /\ stClock \in Nat /\ stClock <= StHorizon
  /\ stReported \in Nat /\ (stReported <= stClock \/ stReported = NoTime)
  /\ StSettle = 0 /\ stReported # NoTime => stEnd["a"] # "pending"
  /\ stEnd["a"] = "timeout" => stClock >= Deadline /\ ~(stReported < StTimeout)

WatchInv ==
  /\ DOMAIN stWatch = {"count", "state", "queue", "seen"}
  /\ stWatch.count \in Nat /\ stWatch.queue \in Seq(Nat) /\ stWatch.seen \in Seq(Nat)
  /\ stWatch.state \in {"out", "in", "left"}
  /\ stWatch.state = "out" => stWatch.queue = <<>> /\ stWatch.seen = <<>>
  /\ stWatch.state = "left" => stWatch.queue = <<>>
  /\ ObserverSeesAll

StatusInv == StatusTypes /\ CallInv /\ JoinInv /\ WakeInv /\ TimeInv /\ WatchInv

LEMMA Bounds == StTimeout \in Nat /\ StSettle \in Nat /\ StHorizon \in Nat
BY StatusBounds

LEMMA StatusStart == StatusInit => StatusInv
<1> SUFFICES ASSUME StatusInit PROVE StatusInv
  OBVIOUS
<1>0. /\ stEnd = [s \in StatusIds |-> "pending"]
      /\ stCallbacks = [s \in StatusIds |-> IF s \in Parts THEN J ELSE <<>>]
      /\ stDue = [s \in StatusIds |-> <<>>] /\ stHeard = [s \in StatusIds |-> <<>>] /\ stJoined = 2
      /\ stWaiter = [s \in StatusIds |-> "none"] /\ stCancel = [s \in StatusIds |-> FALSE]
      /\ stReported = NoTime /\ stClock = 0
  BY DEF StatusInit, J
<1>1. StatusTypes
  BY <1>0 DEF StatusTypes, Ends, CallbackLists
<1>2. CallInv
  BY <1>0, Lists DEF CallInv, StatusIds, Parts
<1>3. JoinInv
  BY <1>0 DEF JoinInv, JoinedOk, JoinRun, StatusIds, Parts
<1>4. WakeInv
  BY <1>0 DEF WakeInv
<1>5. TimeInv
  BY <1>0, Bounds DEF TimeInv, NoTime, StatusIds, Parts
<1>6. WatchInv
  <2>1. stWatch = [count |-> 0, state |-> "out", queue |-> <<>>, seen |-> <<>>]
    BY DEF StatusInit
  <2>2. stWatch.seen \o stWatch.queue = <<>>
    BY <2>1
  <2> QED
    BY <2>1, <2>2 DEF WatchInv, ObserverSeesAll
<1> QED
  BY <1>1, <1>2, <1>3, <1>4, <1>5, <1>6 DEF StatusInv

-----------------------------------------------------------------------------
(* A status ends: only the first end counts, and takes out the callbacks   *)
(* and, when a waiter is parked, the waker.                                *)

LEMMA Ended ==
    ASSUME StatusInv, NEW s \in StatusIds, NEW end \in Ends \ {"pending"},
           Finish(s, end, stDue), UNCHANGED <<stHeard, stJoined, stWaiter>>,
           stCancel' \in [StatusIds -> BOOLEAN], stCancel["ab"] => stCancel'["ab"],
           s \in Parts \/ (end = "cancelled" /\ stCancel'["ab"])
    PROVE  StatusTypes' /\ CallInv' /\ JoinInv' /\ WakeInv'
<1> USE DEF StatusInv
<1>1. CASE stEnd[s] # "pending"
  <2>1. UNCHANGED <<stEnd, stCallbacks, stDue, stToWake>>
    BY <1>1 DEF Finish
  <2> QED
    BY <2>1 DEF StatusTypes, CallInv, JoinInv, JoinedOk, JoinRun, WakeInv
<1>2. CASE stEnd[s] = "pending"
  <2>1. /\ stEnd' = [stEnd EXCEPT ![s] = end]
        /\ stDue' = [stDue EXCEPT ![s] = stCallbacks[s]]
        /\ stCallbacks' = [stCallbacks EXCEPT ![s] = <<>>]
        /\ stToWake' = (IF stWaiter[s] = "parked" THEN stToWake \cup {s} ELSE stToWake)
    BY <1>2 DEF Finish
  <2>2. StatusTypes'
    BY <2>1 DEF StatusTypes, CallbackLists
  <2>3. /\ stEnd'[s] = end /\ stDue'[s] = stCallbacks[s] /\ stCallbacks'[s] = <<>>
        /\ \A t \in StatusIds \ {s} : stEnd'[t] = stEnd[t] /\ stDue'[t] = stDue[t] /\ stCallbacks'[t] = stCallbacks[t]
    BY <2>1 DEF StatusTypes
  <2>4. CallInv'
    BY <1>2, <2>3, Lists DEF CallInv, Parts
  <2>5. JoinInv'
    <3>1. ASSUME s \in Parts PROVE ~JoinRun(s) /\ ~JoinRun(s)'
      BY <1>2, <2>3, <3>1, Lists DEF CallInv, JoinRun
    <3>2. \A t \in StatusIds \ {s} : JoinRun(t)' = JoinRun(t) /\ JoinedOk(t)' = JoinedOk(t)
      BY <2>3 DEF JoinRun, JoinedOk
    <3>3. ASSUME s \in Parts PROVE JoinedOk(s) = 0 /\ JoinedOk(s)' = 0
      BY <3>1, <3>3 DEF JoinedOk
    <3>4. CASE s = "ab"
      BY <1>2, <2>3, <3>2, <3>4 DEF JoinInv, StatusIds, Parts
    <3>5. CASE s = "a"
      BY <1>2, <2>3, <3>1, <3>2, <3>3, <3>5 DEF JoinInv, StatusIds, Parts
    <3>6. CASE s = "b"
      BY <1>2, <2>3, <3>1, <3>2, <3>3, <3>6 DEF JoinInv, StatusIds, Parts
    <3> QED
      BY <3>4, <3>5, <3>6 DEF StatusIds, Parts
  <2>6. WakeInv'
    BY <2>1, <2>3 DEF WakeInv
  <2> QED
    BY <2>2, <2>4, <2>5, <2>6
<1> QED
  BY <1>1, <1>2

(* The callback of `and` runs on a part that has ended. *)
LEMMA Joins ==
    ASSUME StatusInv, NEW s \in StatusIds, stDue[s] # <<>>, Head(stDue[s]) = "join", JoinCallback(s),
           UNCHANGED <<stWaiter, stCancel>>
    PROVE  StatusTypes' /\ CallInv' /\ JoinInv' /\ WakeInv'
<1> USE DEF StatusInv
<1>1. s \in Parts /\ stDue[s] \in {J, JU} /\ stEnd[s] # "pending" /\ ~JoinRun(s)
  BY Lists DEF StatusTypes, CallbackLists, CallInv, StatusIds, Parts, JoinRun
<1>2. UNCHANGED stHeard /\ stJoined' = (IF stEnd[s] = "ok" THEN stJoined - 1 ELSE stJoined)
  BY DEF JoinCallback
<1>3. Tail(stDue[s]) = (IF stDue[s] = J THEN <<>> ELSE U)
  BY <1>1, Lists
<1> DEFINE due == [stDue EXCEPT ![s] = Tail(stDue[s])]
<1>4. due \in [StatusIds -> CallbackLists]
  BY <1>3 DEF StatusTypes, CallbackLists
<1>5. CASE ~JoinEnds(s) \/ stEnd["ab"] # "pending"
  <2>1. stDue' = due /\ UNCHANGED <<stEnd, stCallbacks, stToWake>>
    BY <1>5 DEF JoinCallback, Finish
  <2>2. /\ stDue'[s] = Tail(stDue[s]) /\ \A t \in StatusIds \ {s} : stDue'[t] = stDue[t]
    BY <2>1 DEF StatusTypes
  <2>3. StatusTypes' /\ WakeInv'
    BY <1>2, <1>4, <2>1 DEF StatusTypes, WakeInv
  <2>4. CallInv'
    BY <1>1, <1>2, <1>3, <2>1, <2>2, Lists DEF CallInv, Parts
  <2>5. JoinInv'
    <3>1. JoinRun(s)' /\ JoinedOk(s)' = (IF stEnd[s] = "ok" THEN 1 ELSE 0) /\ JoinedOk(s) = 0
      BY <1>1, <1>3, <2>1, <2>2 DEF JoinRun, JoinedOk
    <3>2. \A t \in StatusIds \ {s} : JoinRun(t)' = JoinRun(t) /\ JoinedOk(t)' = JoinedOk(t)
      BY <2>1, <2>2 DEF JoinRun, JoinedOk
    <3>3. stEnd["ab"] # "pending" \/ (stEnd[s] = "ok" /\ stJoined # 1)
      BY <1>5 DEF JoinEnds
    <3>4. CASE s = "a"
      BY <1>1, <1>2, <2>1, <3>1, <3>2, <3>3, <3>4 DEF JoinInv, StatusIds, Parts, JoinedOk
    <3>5. CASE s = "b"
      BY <1>1, <1>2, <2>1, <3>1, <3>2, <3>3, <3>5 DEF JoinInv, StatusIds, Parts, JoinedOk
    <3> QED
      BY <1>1, <3>4, <3>5 DEF Parts
  <2> QED
    BY <2>3, <2>4, <2>5
<1>6. CASE JoinEnds(s) /\ stEnd["ab"] = "pending"
  <2>1. /\ stEnd' = [stEnd EXCEPT !["ab"] = stEnd[s]]
        /\ stDue' = [due EXCEPT !["ab"] = stCallbacks["ab"]]
        /\ stCallbacks' = [stCallbacks EXCEPT !["ab"] = <<>>]
        /\ stToWake' = (IF stWaiter["ab"] = "parked" THEN stToWake \cup {"ab"} ELSE stToWake)
    BY <1>6 DEF JoinCallback, Finish
  <2>2. s # "ab" /\ s \in StatusIds /\ "ab" \in StatusIds
    BY <1>1 DEF StatusIds, Parts
  <2>3. /\ stEnd'["ab"] = stEnd[s] /\ \A t \in StatusIds \ {"ab"} : stEnd'[t] = stEnd[t]
        /\ stCallbacks'["ab"] = <<>> /\ \A t \in StatusIds \ {"ab"} : stCallbacks'[t] = stCallbacks[t]
    BY <2>1, <2>2 DEF StatusTypes
  <2>4. /\ stDue'["ab"] = stCallbacks["ab"] /\ stDue'[s] = Tail(stDue[s])
        /\ \A t \in StatusIds \ {"ab", s} : stDue'[t] = stDue[t]
    BY <2>1, <2>2, <1>4 DEF StatusTypes
  <2>5. StatusTypes'
    BY <1>2, <1>4, <2>1, <2>2 DEF StatusTypes, CallbackLists
  <2>6. WakeInv'
    BY <2>1, <2>3 DEF WakeInv
  <2>7. CallInv'
    BY <1>1, <1>2, <1>3, <1>6, <2>2, <2>3, <2>4, Lists DEF CallInv, Parts
  <2>8. JoinInv'
    <3>1. JoinRun(s)' /\ JoinedOk(s)' = (IF stEnd[s] = "ok" THEN 1 ELSE 0) /\ JoinedOk(s) = 0
      BY <1>1, <1>3, <2>2, <2>3, <2>4 DEF JoinRun, JoinedOk
    <3>2. \A t \in StatusIds \ {s, "ab"} : JoinRun(t)' = JoinRun(t) /\ JoinedOk(t)' = JoinedOk(t)
      BY <2>3, <2>4 DEF JoinRun, JoinedOk
    <3>3. stEnd[s] # "ok" \/ stJoined = 1
      BY <1>6 DEF JoinEnds
    <3>4. CASE s = "a"
      BY <1>1, <1>2, <2>3, <3>1, <3>2, <3>3, <3>4 DEF JoinInv, StatusIds, Parts, JoinedOk
    <3>5. CASE s = "b"
      BY <1>1, <1>2, <2>3, <3>1, <3>2, <3>3, <3>5 DEF JoinInv, StatusIds, Parts, JoinedOk
    <3> QED
      BY <1>1, <3>4, <3>5 DEF Parts
  <2> QED
    BY <2>5, <2>6, <2>7, <2>8
<1> QED
  BY <1>5, <1>6
(* Everything else that a user does touches no end. *)
LEMMA EndsKept ==
    ASSUME StatusInv, UNCHANGED <<stEnd, stDue, stJoined, stCancel, stToWake>>,
           StatusTypes', CallInv', \A s \in StatusIds : stWaiter'[s] = "parked" => stWaiter[s] = "parked" \/ stEnd[s] = "pending"
    PROVE  JoinInv' /\ WakeInv'
BY DEF StatusInv, JoinInv, JoinedOk, JoinRun, WakeInv

LEMMA Waking ==
    ASSUME StatusInv, NEW s \in StatusIds, WakeWaiter(s)
    PROVE  StatusTypes' /\ CallInv' /\ JoinInv' /\ WakeInv'
<1>0. /\ stToWake' = stToWake \ {s} /\ stWaiter' = [stWaiter EXCEPT ![s] = "woken"]
      /\ UNCHANGED <<stEnd, stCallbacks, stDue, stHeard, stJoined, stCancel>>
  BY DEF WakeWaiter
<1>1. StatusTypes' /\ CallInv' /\ JoinInv'
  BY <1>0 DEF StatusInv, StatusTypes, CallInv, JoinInv, JoinedOk, JoinRun
<1>2. WakeInv'
  BY <1>0 DEF StatusInv, StatusTypes, WakeInv
<1> QED
  BY <1>1, <1>2

LEMMA Adding ==
    ASSUME StatusInv, NEW s \in StatusIds, AddCallback(s)
    PROVE  StatusTypes' /\ CallInv' /\ JoinInv' /\ WakeInv'
<1> USE DEF StatusInv
<1>0. UNCHANGED <<stEnd, stDue, stJoined, stWaiter, stToWake, stCancel>>
  BY DEF AddCallback
<1>1. stHeard[s] = <<>> /\ stCallbacks[s] \notin {U, JU} /\ stDue[s] \notin {U, JU}
  <2>1. Adds(s)
    BY DEF AddCallback
  <2> QED
    BY <2>1, Listening DEF Adds
<1>2. CASE stEnd[s] = "pending"
  <2>1. stCallbacks' = [stCallbacks EXCEPT ![s] = Append(stCallbacks[s], "user")] /\ stHeard' = stHeard
    BY <1>2 DEF AddCallback
  <2>2. stCallbacks[s] = (IF s \in Parts THEN J ELSE <<>>)
    BY <1>1, <1>2 DEF CallInv, StatusIds, Parts
  <2>3. Append(stCallbacks[s], "user") = (IF s \in Parts THEN JU ELSE U)
    BY <2>2, Lists
  <2>4. /\ stCallbacks'[s] = (IF s \in Parts THEN JU ELSE U)
        /\ \A t \in StatusIds \ {s} : stCallbacks'[t] = stCallbacks[t]
    BY <2>1, <2>3 DEF StatusTypes
  <2>5. StatusTypes'
    BY <1>0, <2>1, <2>3 DEF StatusTypes, CallbackLists
  <2>6. CallInv'
    BY <1>0, <1>2, <2>1, <2>4, Lists DEF CallInv, Parts
  <2> QED
    BY <1>0, <2>5, <2>6, EndsKept
<1>3. CASE stEnd[s] # "pending"
  <2>1. stHeard' = [stHeard EXCEPT ![s] = Append(stHeard[s], stEnd[s])] /\ stCallbacks' = stCallbacks
    BY <1>3 DEF AddCallback
  <2>2. Append(stHeard[s], stEnd[s]) = <<stEnd[s]>>
    BY <1>1
  <2>3. stHeard'[s] = <<stEnd[s]>> /\ \A t \in StatusIds \ {s} : stHeard'[t] = stHeard[t]
    BY <2>1, <2>2 DEF StatusTypes
  <2>4. StatusTypes'
    BY <1>0, <2>1, <2>2 DEF StatusTypes
  <2>5. CallInv'
    BY <1>0, <1>1, <1>3, <2>1, <2>3 DEF CallInv
  <2> QED
    BY <1>0, <2>4, <2>5, EndsKept
<1> QED
  BY <1>2, <1>3

(* The user's callback runs: it was in the list, so it has heard nothing. *)
LEMMA Hearing ==
    ASSUME StatusInv, NEW s \in StatusIds, RunCallback(s), Head(stDue[s]) # "join"
    PROVE  StatusTypes' /\ CallInv' /\ JoinInv' /\ WakeInv'
<1> USE DEF StatusInv
<1>0. /\ stDue' = [stDue EXCEPT ![s] = Tail(stDue[s])]
      /\ stHeard' = [stHeard EXCEPT ![s] = Append(stHeard[s], stEnd[s])]
      /\ UNCHANGED <<stEnd, stCallbacks, stJoined, stToWake, stWaiter, stCancel>>
  BY DEF RunCallback
<1>1. stDue[s] = U /\ stHeard[s] = <<>> /\ stEnd[s] # "pending" /\ Tail(stDue[s]) = <<>>
  BY Lists DEF RunCallback, StatusTypes, CallbackLists, CallInv
<1>2. Append(stHeard[s], stEnd[s]) = <<stEnd[s]>>
  BY <1>1
<1>3. /\ stDue'[s] = <<>> /\ stHeard'[s] = <<stEnd[s]>>
      /\ \A t \in StatusIds \ {s} : stDue'[t] = stDue[t] /\ stHeard'[t] = stHeard[t]
  BY <1>0, <1>1, <1>2 DEF StatusTypes
<1>4. StatusTypes'
  BY <1>0, <1>1, <1>2 DEF StatusTypes, CallbackLists
<1>5. CallInv'
  BY <1>0, <1>1, <1>3, Lists DEF CallInv
<1>6. \A t \in StatusIds : JoinRun(t)' = JoinRun(t) /\ JoinedOk(t)' = JoinedOk(t)
  BY <1>0, <1>1, <1>3 DEF JoinRun, JoinedOk
<1>7. JoinInv' /\ WakeInv'
  BY <1>0, <1>6 DEF JoinInv, WakeInv, StatusIds, Parts
<1> QED
  BY <1>4, <1>5, <1>7

LEMMA Polling ==
    ASSUME StatusInv, NEW s \in StatusIds, PollStatus(s)
    PROVE  StatusTypes' /\ CallInv' /\ JoinInv' /\ WakeInv'
<1>0. /\ stWaiter' = [stWaiter EXCEPT ![s] = IF stEnd[s] = "pending" THEN "parked" ELSE "ready"]
      /\ UNCHANGED <<stEnd, stCallbacks, stDue, stHeard, stJoined, stToWake, stCancel>>
  BY DEF PollStatus
<1>1. StatusTypes' /\ CallInv'
  BY <1>0 DEF StatusInv, StatusTypes, CallInv
<1>2. \A t \in StatusIds : stWaiter'[t] = "parked" => stWaiter[t] = "parked" \/ stEnd[t] = "pending"
  BY <1>0 DEF StatusInv, StatusTypes
<1> QED
  BY <1>0, <1>1, <1>2, EndsKept
-----------------------------------------------------------------------------
(* The clock.                                                              *)

LEMMA TimeKept ==
    ASSUME TimeInv, UNCHANGED <<stClock, stReported>>,
           stEnd'["a"] = stEnd["a"] \/ (stEnd["a"] = "pending" /\ stEnd'["a"] \notin {"pending", "timeout"})
    PROVE  TimeInv'
BY DEF TimeInv

LEMMA FinishEnds ==
    ASSUME StatusTypes, NEW s \in StatusIds, NEW end, NEW due, Finish(s, end, due)
    PROVE  /\ stEnd[s] # "pending" => stEnd'[s] = stEnd[s]
           /\ stEnd[s] = "pending" => stEnd'[s] = end
           /\ \A t \in StatusIds \ {s} : stEnd'[t] = stEnd[t]
BY DEF Finish, StatusTypes

LEMMA Succeeding ==
    ASSUME StatusInv, NEW s \in Parts, SetterSuccess(s)
    PROVE  TimeInv'
<1> USE DEF StatusInv
<1>0. s \in StatusIds /\ "a" \in StatusIds
  BY DEF StatusIds, Parts
<1>1. CASE s = "a"
  <2>1. stReported' = stClock /\ stClock' = stClock
    BY <1>1 DEF SetterSuccess
  <2>2. CASE StSettle > 0
    <3>1. stEnd' = stEnd
      BY <1>1, <2>2 DEF SetterSuccess
    <3> QED
      BY <2>1, <2>2, <3>1, Bounds DEF TimeInv, Deadline
  <2>3. CASE ~(StSettle > 0)
    <3>1. Finish(s, "ok", stDue)
      BY <1>1, <2>3 DEF SetterSuccess
    <3>2. stEnd'["a"] # "pending" /\ (stEnd'["a"] = "timeout" => stEnd["a"] = "timeout")
      BY <1>0, <1>1, <3>1, FinishEnds
    <3> QED
      BY <2>1, <3>2, Bounds DEF TimeInv, Deadline
  <2> QED
    BY <2>2, <2>3
<1>2. CASE s # "a"
  <2>1. Finish(s, "ok", stDue) /\ UNCHANGED <<stClock, stReported>>
    BY <1>2 DEF SetterSuccess
  <2>2. stEnd'["a"] = stEnd["a"]
    BY <1>0, <1>2, <2>1, FinishEnds
  <2> QED
    BY <2>1, <2>2, TimeKept
<1> QED
  BY <1>1, <1>2

(* A success reported within the timeout has its settle timer due by the    *)
(* time the timeout is, and that one goes first.                            *)
LEMMA TimingOut ==
    ASSUME StatusInv, TimeoutFires
    PROVE  TimeInv'
<1>1. /\ stClock >= Deadline /\ stEnd["a"] = "pending" /\ ~(SettleDue /\ stReported < StTimeout)
      /\ UNCHANGED <<stClock, stReported>> /\ Finish("a", "timeout", stDue)
  BY DEF TimeoutFires, TimeoutDue
<1>2. stEnd'["a"] = "timeout"
  BY <1>1, FinishEnds DEF StatusInv, StatusIds, Parts
<1>3. TimeInv
  BY DEF StatusInv
<1>4. ~(stReported < StTimeout)
  <2> SUFFICES ASSUME stReported < StTimeout PROVE FALSE
    OBVIOUS
  <2>1. stReported # NoTime
    BY <1>1, <1>3, Bounds DEF TimeInv, NoTime, Deadline
  <2>2. StSettle > 0 /\ stClock >= stReported + StSettle
    BY <1>1, <1>3, <2>1, Bounds DEF TimeInv, Deadline
  <2> QED
    BY <1>1, <2>1, <2>2 DEF SettleDue
<1> QED
  BY <1>1, <1>2, <1>3, <1>4 DEF TimeInv

LEMMA Ticking ==
    ASSUME StatusInv, StatusTick
    PROVE  TimeInv'
<1>1. TimeInv /\ stClock' = stClock + 1 /\ stClock < StHorizon /\ UNCHANGED <<stEnd, stReported>>
  BY DEF StatusTick, StatusInv
<1> QED
  BY <1>1, Bounds DEF TimeInv, Deadline

-----------------------------------------------------------------------------
(* The observer.                                                           *)

LEMMA JoinedThrice ==
    ASSUME NEW a \in Seq(Nat), NEW b \in Seq(Nat), NEW c \in Seq(Nat)
    PROVE  (a \o b) \o c = a \o (b \o c)
BY ConcatAssociative

LEMMA QueueGrows ==
    ASSUME NEW s \in Seq(Nat), NEW q \in Seq(Nat), NEW n \in Nat
    PROVE  s \o Append(q, n) = Append(s \o q, n)
<1>1. <<n>> \in Seq(Nat) /\ s \o q \in Seq(Nat)
  BY ConcatProperties
<1>2. Append(q, n) = q \o <<n>> /\ Append(s \o q, n) = (s \o q) \o <<n>>
  BY <1>1, AppendIsConcat
<1> QED
  BY <1>1, <1>2, JoinedThrice

LEMMA HeadMoves ==
    ASSUME NEW s \in Seq(Nat), NEW q \in Seq(Nat), q # <<>>
    PROVE  Append(s, Head(q)) \o Tail(q) = s \o q
<1> DEFINE h == <<Head(q)>>
           t == Tail(q)
           u == h \o t
<1>1. /\ Head(q) \in Nat /\ t \in Seq(Nat) /\ Len(t) = Len(q) - 1 /\ Len(q) \in Nat \ {0}
      /\ Head(q) = q[1] /\ \A i \in 1 .. Len(t) : t[i] = q[i + 1]
  BY HeadTailProperties
<1>2. h \in Seq(Nat) /\ Len(h) = 1 /\ h[1] = q[1]
  BY <1>1
<1>5. Append(s, Head(q)) = s \o h
  BY <1>1, AppendIsConcat
<1> HIDE DEF h, t
<1>3. /\ u \in Seq(Nat) /\ Len(u) = Len(h) + Len(t)
      /\ \A i \in 1 .. Len(h) + Len(t) : u[i] = IF i <= Len(h) THEN h[i] ELSE t[i - Len(h)]
  BY <1>1, <1>2, ConcatProperties
<1>7. s \in Seq(Nat) /\ h \in Seq(Nat) /\ t \in Seq(Nat)
  BY <1>1, <1>2
<1>6. (s \o h) \o t = s \o (h \o t)
  BY <1>7, JoinedThrice, Zenon
<1> HIDE DEF u
<1>4. u = q
  <2>1. Len(u) = Len(q)
    BY <1>1, <1>2, <1>3
  <2>2. ASSUME NEW i \in 1 .. Len(q) PROVE u[i] = q[i]
    <3>1. CASE i = 1
      BY <1>1, <1>2, <1>3, <3>1
    <3>2. CASE i # 1
      <4>1. i - 1 \in 1 .. Len(t) /\ i \in 1 .. Len(h) + Len(t) /\ ~(i <= Len(h)) /\ i - Len(h) = i - 1
        BY <1>1, <1>2, <3>2
      <4>2. t[i - 1] = q[(i - 1) + 1] /\ (i - 1) + 1 = i
        BY <1>1, <4>1
      <4> QED
        BY <1>3, <4>1, <4>2
    <3> QED
      BY <3>1, <3>2
  <2> QED
    BY <1>3, <2>1, <2>2, SeqEqual
<1> QED
  BY <1>4, <1>5, <1>6 DEF t, u

Consecutive(t) == \A i \in 1 .. Len(t) - 1 : t[i + 1] = t[i] + 1
UpTo(t, n) == IF t = <<>> THEN n = 0 ELSE t[Len(t)] = n

LEMMA NextUpdate ==
    ASSUME NEW t \in Seq(Nat), NEW n \in Nat, Consecutive(t), UpTo(t, n)
    PROVE  Consecutive(Append(t, n + 1)) /\ UpTo(Append(t, n + 1), n + 1)
<1> DEFINE u == Append(t, n + 1)
<1>1. /\ u \in Seq(Nat) /\ Len(u) = Len(t) + 1 /\ u[Len(t) + 1] = n + 1 /\ \A i \in 1 .. Len(t) : u[i] = t[i]
      /\ u # <<>> /\ Len(t) \in Nat
  BY AppendProperties
<1> HIDE DEF u
<1>2. UpTo(u, n + 1)
  BY <1>1 DEF UpTo
<1>3. ASSUME NEW i \in 1 .. Len(u) - 1 PROVE u[i + 1] = u[i] + 1
  <2>1. i \in 1 .. Len(t) /\ u[i] = t[i]
    BY <1>1
  <2>2. CASE i = Len(t)
    <3>1. t # <<>> /\ t[Len(t)] = n
      BY <2>1, <2>2 DEF UpTo
    <3> QED
      BY <1>1, <2>1, <2>2, <3>1
  <2>3. CASE i # Len(t)
    <3>1. i \in 1 .. Len(t) - 1 /\ i + 1 \in 1 .. Len(t)
      BY <1>1, <2>1, <2>3
    <3> QED
      BY <1>1, <2>1, <3>1 DEF Consecutive
  <2> QED
    BY <2>2, <2>3
<1> QED
  BY <1>2, <1>3 DEF Consecutive, u

LEMMA Watching ==
    ASSUME StatusInv, UpdateWatcher \/ ObserverJoins \/ ObserverStep
    PROVE  WatchInv'
<1> DEFINE got == stWatch.seen \o stWatch.queue
<1>0. /\ DOMAIN stWatch = {"count", "state", "queue", "seen"}
      /\ stWatch.count \in Nat /\ stWatch.queue \in Seq(Nat) /\ stWatch.seen \in Seq(Nat)
      /\ stWatch.state \in {"out", "in", "left"}
      /\ stWatch.state = "out" => stWatch.queue = <<>> /\ stWatch.seen = <<>>
      /\ stWatch.state = "left" => stWatch.queue = <<>>
      /\ got \in Seq(Nat) /\ Consecutive(got) /\ (stWatch.state = "in" => UpTo(got, stWatch.count))
  <2>1. got \in Seq(Nat)
    BY ConcatProperties DEF StatusInv, WatchInv
  <2> QED
    BY <2>1 DEF StatusInv, WatchInv, ObserverSeesAll, Consecutive, UpTo
<1>s. ASSUME /\ DOMAIN stWatch' = {"count", "state", "queue", "seen"}
             /\ stWatch'.count \in Nat /\ stWatch'.queue \in Seq(Nat) /\ stWatch'.seen \in Seq(Nat)
             /\ stWatch'.state \in {"out", "in", "left"}
             /\ stWatch'.state = "out" => stWatch'.queue = <<>> /\ stWatch'.seen = <<>>
             /\ stWatch'.state = "left" => stWatch'.queue = <<>>
             /\ Consecutive(got') /\ (stWatch'.state = "in" => UpTo(got', stWatch'.count))
      PROVE  WatchInv'
  BY <1>s DEF WatchInv, ObserverSeesAll, Consecutive, UpTo
<1>1. CASE UpdateWatcher
  <2>1. CASE stWatch.state = "in"
    <3>1. stWatch' = [stWatch EXCEPT !.count = stWatch.count + 1, !.queue = Append(stWatch.queue, stWatch.count + 1)]
      BY <1>1, <2>1 DEF UpdateWatcher
    <3>2. /\ DOMAIN stWatch' = {"count", "state", "queue", "seen"} /\ stWatch'.count = stWatch.count + 1
          /\ stWatch'.queue = Append(stWatch.queue, stWatch.count + 1)
          /\ stWatch'.seen = stWatch.seen /\ stWatch'.state = "in"
      BY <1>0, <2>1, <3>1
    <3>0. stWatch.count + 1 \in Nat
      BY <1>0
    <3>6. stWatch.seen \in Seq(Nat) /\ stWatch.queue \in Seq(Nat)
      BY <1>0
    <3>5. stWatch.seen \o Append(stWatch.queue, stWatch.count + 1) = Append(got, stWatch.count + 1)
      BY <3>0, <3>6, QueueGrows
    <3>7. Append(stWatch.queue, stWatch.count + 1) \in Seq(Nat)
      BY <3>0, <3>6
    <3>3. got' = Append(got, stWatch.count + 1) /\ Append(stWatch.queue, stWatch.count + 1) \in Seq(Nat)
      BY <3>2, <3>5, <3>7
    <3>4. Consecutive(got') /\ UpTo(got', stWatch'.count)
      BY <1>0, <2>1, <3>2, <3>3, NextUpdate
    <3> HIDE DEF got
    <3> QED
      BY <1>0, <1>s, <3>2, <3>3, <3>4
  <2>2. CASE stWatch.state # "in"
    <3>1. stWatch' = [stWatch EXCEPT !.count = stWatch.count + 1]
      BY <1>0, <1>1, <2>2 DEF UpdateWatcher
    <3>2. /\ DOMAIN stWatch' = {"count", "state", "queue", "seen"} /\ stWatch'.count = stWatch.count + 1
          /\ stWatch'.queue = stWatch.queue /\ stWatch'.seen = stWatch.seen /\ stWatch'.state = stWatch.state
      BY <1>0, <3>1
    <3>3. got' = got
      BY <3>2
    <3> HIDE DEF got
    <3> QED
      BY <1>0, <1>s, <2>2, <3>2, <3>3
  <2> QED
    BY <2>1, <2>2
<1>2. CASE ObserverJoins
  <2> DEFINE first == IF stWatch.count = 0 THEN <<>> ELSE <<stWatch.count>>
  <2>1. /\ stWatch.state = "out" /\ stWatch' = [stWatch EXCEPT !.state = "in", !.seen = first]
    BY <1>2 DEF ObserverJoins
  <2>2. /\ first \in Seq(Nat) /\ Consecutive(first) /\ UpTo(first, stWatch.count)
    BY <1>0 DEF Consecutive, UpTo
  <2> HIDE DEF first
  <2>3. /\ DOMAIN stWatch' = {"count", "state", "queue", "seen"} /\ stWatch'.count = stWatch.count
        /\ stWatch'.queue = <<>> /\ stWatch'.seen = first /\ stWatch'.state = "in"
    BY <1>0, <2>1
  <2>4. got' = first
    BY <2>2, <2>3, ConcatEmptySeq
  <2> HIDE DEF got
  <2> QED
    BY <1>0, <1>s, <2>2, <2>3, <2>4
<1>3. CASE ObserverStep
  <2>1. CASE stEnd["a"] # "pending"
    <3>1. stWatch' = [stWatch EXCEPT !.state = "left", !.queue = <<>>, !.seen = got]
      BY <1>3, <2>1 DEF ObserverStep
    <3>2. /\ DOMAIN stWatch' = {"count", "state", "queue", "seen"} /\ stWatch'.count = stWatch.count
          /\ stWatch'.queue = <<>> /\ stWatch'.seen = got /\ stWatch'.state = "left"
      BY <1>0, <3>1
    <3>3. got' = got
      BY <1>0, <3>2, ConcatEmptySeq
    <3> HIDE DEF got
    <3> QED
      BY <1>0, <1>s, <3>2, <3>3
  <2>2. CASE stEnd["a"] = "pending"
    <3>1. /\ stWatch.queue # <<>> /\ stWatch.state = "in"
          /\ stWatch' = [stWatch EXCEPT !.queue = Tail(stWatch.queue), !.seen = Append(stWatch.seen, Head(stWatch.queue))]
      BY <1>3, <2>2 DEF ObserverStep
    <3>2. /\ DOMAIN stWatch' = {"count", "state", "queue", "seen"} /\ stWatch'.count = stWatch.count
          /\ stWatch'.queue = Tail(stWatch.queue) /\ stWatch'.seen = Append(stWatch.seen, Head(stWatch.queue))
          /\ stWatch'.state = "in"
      BY <1>0, <3>1
    <3>3. got' = got
      BY <1>0, <3>1, <3>2, HeadMoves
    <3>4. Tail(stWatch.queue) \in Seq(Nat) /\ Append(stWatch.seen, Head(stWatch.queue)) \in Seq(Nat)
      BY <1>0, <3>1, HeadTailProperties, AppendProperties
    <3> HIDE DEF got
    <3> QED
      BY <1>0, <1>s, <3>1, <3>2, <3>3, <3>4
  <2> QED
    BY <2>1, <2>2
<1> QED
  BY <1>1, <1>2, <1>3

-----------------------------------------------------------------------------
(* Every step.                                                             *)

LEMMA StatusStep == StatusInv /\ [StatusNext]_statusVars => StatusInv'
<1> SUFFICES ASSUME StatusInv, [StatusNext]_statusVars PROVE StatusInv'
  OBVIOUS
<1> DEFINE Lives == StatusTypes' /\ CallInv' /\ JoinInv' /\ WakeInv'
<1>w. stWatch' = stWatch => WatchInv'
  BY DEF StatusInv, WatchInv, ObserverSeesAll
<1>t. /\ "a" \in StatusIds /\ Parts \subseteq StatusIds /\ StatusTypes /\ stCancel \in [StatusIds -> BOOLEAN]
  BY DEF StatusIds, Parts, StatusInv, StatusTypes
<1>e. {"ok", "failed", "timeout", "cancelled"} = Ends \ {"pending"}
  BY DEF Ends
<1>1. ASSUME NEW s \in Parts, SetterSuccess(s) PROVE StatusInv'
  <2>1. UNCHANGED <<stHeard, stJoined, stWaiter, stCancel, stWatch>>
    BY <1>1 DEF SetterSuccess
  <2>2. CASE s = "a" /\ StSettle > 0
    <3>1. UNCHANGED <<stEnd, stCallbacks, stDue, stToWake>>
      BY <1>1, <2>2 DEF SetterSuccess
    <3>2. Lives
      BY <2>1, <3>1 DEF StatusInv, StatusTypes, CallInv, JoinInv, JoinedOk, JoinRun, WakeInv
    <3> QED
      BY <1>1, <1>w, <2>1, <3>2, Succeeding DEF StatusInv
  <2>3. CASE ~(s = "a" /\ StSettle > 0)
    <3>1. Finish(s, "ok", stDue)
      BY <1>1, <2>3 DEF SetterSuccess
    <3>2. Lives
      BY <1>t, <1>e, <2>1, <3>1, Ended
    <3> QED
      BY <1>1, <1>w, <2>1, <3>2, Succeeding DEF StatusInv
  <2> QED
    BY <2>2, <2>3
<1>2. ASSUME NEW s \in Parts, SetterFail(s) PROVE StatusInv'
  <2>1. Finish(s, "failed", stDue) /\ UNCHANGED <<stHeard, stJoined, stWaiter, stCancel, stWatch, stClock, stReported>>
    BY <1>2 DEF SetterFail
  <2>2. Lives
    BY <1>t, <1>e, <2>1, Ended
  <2>3. TimeInv'
    BY <1>t, <2>1, FinishEnds, TimeKept DEF StatusInv
  <2> QED
    BY <1>w, <2>1, <2>2, <2>3 DEF StatusInv
<1>3. CASE SettleFires
  <2>1. Finish("a", "ok", stDue) /\ UNCHANGED <<stHeard, stJoined, stWaiter, stCancel, stWatch, stClock, stReported>>
    BY <1>3 DEF SettleFires
  <2>2. Lives
    BY <1>t, <1>e, <2>1, Ended DEF Parts
  <2>3. TimeInv'
    BY <1>t, <2>1, FinishEnds, TimeKept DEF StatusInv
  <2> QED
    BY <1>w, <2>1, <2>2, <2>3 DEF StatusInv
<1>4. CASE TimeoutFires
  <2>1. Finish("a", "timeout", stDue) /\ UNCHANGED <<stHeard, stJoined, stWaiter, stCancel, stWatch>>
    BY <1>4 DEF TimeoutFires
  <2>2. Lives
    BY <1>t, <1>e, <2>1, Ended DEF Parts
  <2> QED
    BY <1>4, <1>w, <2>1, <2>2, TimingOut DEF StatusInv
<1>5. CASE StatusTick
  <2>1. UNCHANGED <<stEnd, stCallbacks, stDue, stHeard, stJoined, stWaiter, stToWake, stCancel, stWatch>>
    BY <1>5 DEF StatusTick
  <2>2. Lives
    BY <2>1 DEF StatusInv, StatusTypes, CallInv, JoinInv, JoinedOk, JoinRun, WakeInv
  <2> QED
    BY <1>5, <1>w, <2>1, <2>2, Ticking DEF StatusInv
<1>6. ASSUME NEW s \in StatusIds, CancelStatus(s) PROVE StatusInv'
  <2>1. /\ Finish(s, "cancelled", stDue) /\ stCancel' = [stCancel EXCEPT ![s] = TRUE]
        /\ UNCHANGED <<stHeard, stJoined, stWaiter, stWatch, stClock, stReported>>
    BY <1>6 DEF CancelStatus
  <2>2. /\ stCancel' \in [StatusIds -> BOOLEAN] /\ (stCancel["ab"] => stCancel'["ab"])
        /\ s \in Parts \/ stCancel'["ab"]
    BY <1>t, <2>1 DEF StatusIds
  <2>3. Lives
    BY <1>t, <1>e, <2>1, <2>2, Ended
  <2>4. TimeInv'
    BY <1>t, <2>1, FinishEnds, TimeKept DEF StatusInv
  <2> QED
    BY <1>w, <2>1, <2>3, <2>4 DEF StatusInv
<1>7. ASSUME NEW s \in StatusIds, RunCallback(s) PROVE StatusInv'
  <2>1. stDue[s] # <<>> /\ UNCHANGED <<stWaiter, stCancel, stWatch, stClock, stReported>>
    BY <1>7 DEF RunCallback
  <2>2. CASE Head(stDue[s]) = "join"
    <3>1. JoinCallback(s)
      BY <1>7, <2>2 DEF RunCallback
    <3>2. Lives
      BY <2>1, <2>2, <3>1, Joins
    <3>3. stEnd'["a"] = stEnd["a"]
      <4>1. CASE JoinEnds(s)
        <5>1. Finish("ab", stEnd[s], [stDue EXCEPT ![s] = Tail(@)])
          BY <3>1, <4>1 DEF JoinCallback
        <5> QED
          BY <1>t, <5>1, FinishEnds DEF StatusIds, Parts
      <4>2. CASE ~JoinEnds(s)
        BY <3>1, <4>2 DEF JoinCallback
      <4> QED
        BY <4>1, <4>2
    <3> QED
      BY <1>w, <2>1, <3>2, <3>3, TimeKept DEF StatusInv
  <2>3. CASE Head(stDue[s]) # "join"
    <3>1. Lives
      BY <1>7, <2>3, Hearing
    <3>2. stEnd' = stEnd
      BY <1>7, <2>3 DEF RunCallback
    <3> QED
      BY <1>w, <2>1, <3>1, <3>2, TimeKept DEF StatusInv
  <2> QED
    BY <2>2, <2>3
<1>8. ASSUME NEW s \in StatusIds, WakeWaiter(s) \/ AddCallback(s) \/ PollStatus(s) PROVE StatusInv'
  <2>1. UNCHANGED <<stEnd, stWatch, stClock, stReported>>
    BY <1>8 DEF WakeWaiter, AddCallback, PollStatus
  <2>2. Lives
    BY <1>8, Waking, Adding, Polling
  <2> QED
    BY <1>w, <2>1, <2>2, TimeKept DEF StatusInv
<1>9. CASE UpdateWatcher \/ ObserverJoins \/ ObserverStep
  <2>1. UNCHANGED <<stEnd, stCallbacks, stDue, stHeard, stJoined, stWaiter, stToWake, stCancel, stClock, stReported>>
    BY <1>9 DEF UpdateWatcher, ObserverJoins, ObserverStep
  <2>2. Lives
    BY <2>1 DEF StatusInv, StatusTypes, CallInv, JoinInv, JoinedOk, JoinRun, WakeInv
  <2> QED
    BY <1>9, <2>1, <2>2, TimeKept, Watching DEF StatusInv
<1>10. CASE UNCHANGED statusVars
  <2>1. UNCHANGED <<stEnd, stCallbacks, stDue, stHeard, stJoined, stWaiter, stToWake, stCancel, stClock, stReported, stWatch>>
    BY <1>10 DEF statusVars
  <2>2. Lives
    BY <2>1 DEF StatusInv, StatusTypes, CallInv, JoinInv, JoinedOk, JoinRun, WakeInv
  <2> QED
    BY <1>w, <2>1, <2>2, TimeKept DEF StatusInv
<1> QED
  BY <1>1, <1>2, <1>3, <1>4, <1>5, <1>6, <1>7, <1>8, <1>9, <1>10 DEF StatusNext

(* However setters, timers, cancellers, callbacks and waiters interleave, a *)
(* status has one outcome that each callback hears once, a combination     *)
(* agrees with its parts, a success reported in time is not timed out      *)
(* while it settles, no waiter sleeps on a finished status, and an         *)
(* observer misses no update (core/status.rs).                             *)
THEOREM StatusesAreSound == StatusSpec => []StatusSound
<1>1. ASSUME StatusInv PROVE StatusSound
  <2>1. JoinAgrees
    <3>1. \A s \in Parts : stEnd[s] # "pending" /\ Settled(s) => JoinRun(s)
      BY DEF Settled, JoinRun
    <3> QED
      BY <1>1, <3>1 DEF StatusInv, JoinInv, JoinAgrees, Parts
  <2>2. HeardOnce
    <3>1. \A s \in StatusIds : stHeard[s] = <<>> \/ \E e \in Ends : stHeard[s] = <<e>>
      BY <1>1 DEF StatusInv, StatusTypes
    <3>0. Len(<<>>) = 0 /\ \A e : Len(<<e>>) = 1
      OBVIOUS
    <3>2. \A s \in StatusIds : Len(stHeard[s]) = 0 \/ Len(stHeard[s]) = 1
      BY <3>0, <3>1
    <3>3. ASSUME NEW s \in StatusIds PROVE Len(stHeard[s]) <= 1
      <4>1. CASE Len(stHeard[s]) = 0
        BY <4>1
      <4>2. CASE Len(stHeard[s]) = 1
        BY <4>2
      <4> QED
        BY <3>2, <4>1, <4>2
    <3>4. \A s \in StatusIds : stHeard[s] # <<>> => stHeard[s] = <<stEnd[s]>> /\ stEnd[s] # "pending"
      BY <1>1 DEF StatusInv, CallInv
    <3>5. \A s \in StatusIds : stEnd[s] # "pending" => stCallbacks[s] = <<>>
      BY <1>1 DEF StatusInv, CallInv
    <3> QED
      BY <3>3, <3>4, <3>5 DEF HeardOnce
  <2>3. PromptOutcome
    BY <1>1 DEF StatusInv, TimeInv, WakeInv, PromptOutcome
  <2> QED
    BY <1>1, <2>1, <2>2, <2>3 DEF StatusInv, WatchInv, StatusSound
<1> QED
  BY <1>1, StatusStart, StatusStep, PTL DEF StatusSpec
=============================================================================
