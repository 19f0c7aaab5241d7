--------------------------- MODULE CommandsProofs ---------------------------
(***************************************************************************)
(* Proofs about Commands, for any callers, any number of executes and lost *)
(* channels and every backend.                                             *)
(***************************************************************************)
EXTENDS Commands, TLAPS, SequenceTheorems

Executes == 1 .. CmRunsMax
Places == {"idle", "lock", "channel", "open", "body", "put"}

CommandTypes ==
  /\ cmBackend \in {"ca", "pva", "soft", "mock of soft", "mock of hardware"}
  /\ cmAt \in [CmCallers -> Places] /\ cmRun \in [CmCallers -> 0 .. cmRuns]
  /\ cmQueue \in Seq(CmCallers) /\ cmRuns \in Nat /\ cmRuns <= CmRunsMax
  /\ cmFlight \subseteq 1 .. cmRuns /\ cmHeld \in 0 .. cmRuns
  /\ cmAnswer \in [Executes -> {"none", "ok", "failed", "timeout"}]

(* Executes are numbered in the order they begin and each has one caller.  *)
(* What is under way is under way for the caller that waits for it, or for *)
(* nobody; a guard is held from the lock to the end of the execute.        *)
RunsInv ==
  /\ \A c \in CmCallers : cmAt[c] # "idle" => cmRun[c] # 0
  /\ \A c, d \in CmCallers : cmRun[c] = cmRun[d] /\ cmRun[c] # 0 => c = d
  /\ \A c \in CmCallers : cmAt[c] \in {"lock", "channel", "open"} => cmRun[c] \notin cmFlight
  /\ \A c \in CmCallers : cmAt[c] \in {"put", "body"} => cmRun[c] \in cmFlight
  /\ ~Serial => cmHeld = 0
  /\ Serial => cmFlight \subseteq {cmHeld}
  /\ Serial => \A c \in CmCallers : cmAt[c] \in {"channel", "open"} => cmHeld = cmRun[c]

CommandInv == CommandTypes /\ RunsInv /\ AnswerIsOwn /\ LockFreed /\ QueueTrue

-----------------------------------------------------------------------------
LEMMA RunsBound == CmRunsMax \in Nat
BY CommandBounds

(* The queue of the lock: a caller joins at the end, the first one leaves  *)
(* with the lock, and one that gives up leaves from where it stands.       *)

LEMMA Joined ==
    ASSUME NEW S, NEW s \in Seq(S), NEW c \in S, c \notin ToSet(s), IsInjective(s)
    PROVE  /\ Append(s, c) \in Seq(S) /\ ToSet(Append(s, c)) = ToSet(s) \cup {c}
           /\ IsInjective(Append(s, c))
<1> DEFINE t == Append(s, c)
<1>1. /\ t \in Seq(S) /\ Len(t) = Len(s) + 1 /\ t[Len(s) + 1] = c /\ \A i \in 1 .. Len(s) : t[i] = s[i]
      /\ Len(s) \in Nat /\ DOMAIN s = 1 .. Len(s) /\ DOMAIN t = 1 .. Len(t)
  OBVIOUS
<1> HIDE DEF t
<1>2. DOMAIN t = DOMAIN s \cup {Len(s) + 1}
  BY <1>1
<1>3. ToSet(t) = ToSet(s) \cup {c}
  BY <1>1, <1>2 DEF ToSet
<1>4. \A i \in DOMAIN s : s[i] # c
  BY DEF ToSet
<1>5. IsInjective(t)
  BY <1>1, <1>2, <1>4 DEF IsInjective
<1> QED
  BY <1>1, <1>3, <1>5 DEF t

LEMMA HeadLeaves ==
    ASSUME NEW S, NEW s \in Seq(S), s # <<>>, IsInjective(s)
    PROVE  /\ Tail(s) \in Seq(S) /\ ToSet(Tail(s)) = ToSet(s) \ {Head(s)}
           /\ IsInjective(Tail(s)) /\ Head(s) \in ToSet(s)
<1> DEFINE t == Tail(s)
<1>1. /\ t \in Seq(S) /\ Len(t) = Len(s) - 1 /\ \A i \in 1 .. Len(t) : t[i] = s[i + 1]
      /\ Len(s) \in Nat \ {0} /\ DOMAIN s = 1 .. Len(s) /\ DOMAIN t = 1 .. Len(t) /\ Head(s) = s[1]
  OBVIOUS
<1> HIDE DEF t
<1>i. \A i, j \in 1 .. Len(s) : s[i] = s[j] => i = j
  BY <1>1 DEF IsInjective
<1>2. ASSUME NEW i \in 1 .. Len(t) PROVE t[i] \in ToSet(s) \ {s[1]}
  <2>1. i + 1 \in 1 .. Len(s) /\ 1 \in 1 .. Len(s) /\ i + 1 # 1
    BY <1>1
  <2>2. s[i + 1] # s[1]
    BY <1>i, <2>1
  <2> QED
    BY <1>1, <2>1, <2>2 DEF ToSet
<1>3. ASSUME NEW i \in 1 .. Len(s), s[i] # s[1] PROVE s[i] \in ToSet(t)
  <2>1. i - 1 \in 1 .. Len(t) /\ (i - 1) + 1 = i
    BY <1>1, <1>3
  <2>2. t[i - 1] = s[i]
    BY <1>1, <2>1
  <2> QED
    BY <1>1, <2>1, <2>2 DEF ToSet
<1>4. ToSet(t) = ToSet(s) \ {s[1]} /\ s[1] \in ToSet(s)
  <2>1. ToSet(t) = {t[i] : i \in 1 .. Len(t)} /\ ToSet(s) = {s[i] : i \in 1 .. Len(s)} /\ 1 \in 1 .. Len(s)
    BY <1>1 DEF ToSet
  <2> QED
    BY <1>2, <1>3, <2>1
<1>5. IsInjective(t)
  <2> SUFFICES ASSUME NEW i \in 1 .. Len(t), NEW j \in 1 .. Len(t), t[i] = t[j] PROVE i = j
    BY <1>1 DEF IsInjective
  <2>1. i + 1 \in 1 .. Len(s) /\ j + 1 \in 1 .. Len(s) /\ s[i + 1] = s[j + 1]
    BY <1>1
  <2>2. i + 1 = j + 1
    BY <1>i, <2>1
  <2> QED
    BY <1>1, <2>2
<1> QED
  BY <1>1, <1>4, <1>5 DEF t

LEMMA LeavesFrom ==
    ASSUME NEW S, NEW s \in Seq(S), NEW c, IsInjective(s)
    PROVE  /\ RemoveFirst(s, c) \in Seq(S) /\ ToSet(RemoveFirst(s, c)) = ToSet(s) \ {c}
           /\ IsInjective(RemoveFirst(s, c))
<1>0. Len(s) \in Nat /\ DOMAIN s = 1 .. Len(s) /\ \A i, j \in 1 .. Len(s) : s[i] = s[j] => i = j
  BY DEF IsInjective
<1>1. CASE c \notin ToSet(s)
  <2>1. RemoveFirst(s, c) = s
    BY <1>0, <1>1 DEF RemoveFirst, ToSet
  <2> QED
    BY <1>1, <2>1
<1>2. CASE c \in ToSet(s)
  <2>1. PICK p \in 1 .. Len(s) : s[p] = c
    BY <1>0, <1>2 DEF ToSet
  <2>2. {i \in 1 .. Len(s) : s[i] = c} = {p}
    BY <1>0, <2>1
  <2>3. Min({p}) = p
    BY DEF Min
  <2>4. SelectInSeq(s, LAMBDA v : v = c) = p
    BY <2>2, <2>3 DEF SelectInSeq
  <2> DEFINE a == SubSeq(s, 1, p - 1)
             b == SubSeq(s, p + 1, Len(s))
             t == a \o b
  <2>5. RemoveFirst(s, c) = t
    BY <2>1, <2>4 DEF RemoveFirst, RemoveAt
  <2>6. a \in Seq(S) /\ Len(a) = p - 1 /\ \A k \in 1 .. p - 1 : a[k] = s[k]
    BY SubSeqProperties
  <2>7. b \in Seq(S) /\ Len(b) = Len(s) - p /\ \A k \in 1 .. Len(s) - p : b[k] = s[p + k]
    BY SubSeqProperties
  <2> HIDE DEF a, b
  <2>c. /\ t \in Seq(S) /\ Len(t) = Len(a) + Len(b)
        /\ \A k \in 1 .. Len(a) + Len(b) : t[k] = IF k <= Len(a) THEN a[k] ELSE b[k - Len(a)]
    BY <2>6, <2>7, ConcatProperties
  <2> HIDE DEF t
  <2>p. p \in Nat /\ p >= 1 /\ p <= Len(s)
    BY <1>0
  <2>8. t \in Seq(S) /\ Len(t) = Len(s) - 1 /\ Len(t) \in Nat /\ DOMAIN t = 1 .. Len(t)
    BY <1>0, <2>6, <2>7, <2>c, <2>p
  <2>9. ASSUME NEW k \in 1 .. Len(t) PROVE t[k] = IF k < p THEN s[k] ELSE s[k + 1]
    <3>0. k \in 1 .. Len(a) + Len(b) /\ t[k] = IF k <= Len(a) THEN a[k] ELSE b[k - Len(a)]
      BY <2>8, <2>c
    <3>1. CASE k < p
      <4>1. k <= Len(a) /\ k \in 1 .. p - 1
        BY <2>6, <2>8, <2>p, <3>1
      <4> QED
        BY <2>6, <3>0, <3>1, <4>1
    <3>2. CASE ~(k < p)
      <4>0. ~(k <= Len(a)) /\ k - Len(a) = k - p + 1 /\ k - p + 1 \in 1 .. Len(s) - p
        BY <1>0, <2>6, <2>8, <2>p, <3>2
      <4>1. t[k] = b[k - p + 1] /\ k - p + 1 \in 1 .. Len(s) - p
        BY <3>0, <4>0
      <4>2. b[k - p + 1] = s[p + (k - p + 1)] /\ p + (k - p + 1) = k + 1
        BY <2>7, <4>1
      <4> QED
        BY <3>2, <4>1, <4>2
    <3> QED
      BY <3>1, <3>2
  <2> DEFINE f(k) == IF k < p THEN k ELSE k + 1
  <2>10. \A k \in 1 .. Len(t) : t[k] = s[f(k)] /\ f(k) \in 1 .. Len(s) /\ f(k) # p
    BY <1>0, <2>8, <2>9, <2>p
  <2>11. \A j, k \in 1 .. Len(t) : f(j) = f(k) => j = k
    BY <2>8, <2>p
  <2>12. \A i \in 1 .. Len(s) : i # p => \E k \in 1 .. Len(t) : f(k) = i
    <3> SUFFICES ASSUME NEW i \in 1 .. Len(s), i # p PROVE \E k \in 1 .. Len(t) : f(k) = i
      OBVIOUS
    <3>1. CASE i < p
      <4>1. i \in 1 .. Len(t) /\ f(i) = i
        BY <1>0, <2>8, <2>p, <3>1
      <4> QED
        BY <4>1
    <3>2. CASE i > p
      <4>1. i - 1 \in 1 .. Len(t) /\ f(i - 1) = i
        BY <1>0, <2>8, <2>p, <3>2
      <4> QED
        BY <4>1
    <3> QED
      BY <1>0, <3>1, <3>2
  <2> HIDE DEF f
  <2>13. IsInjective(t)
    BY <1>0, <2>8, <2>10, <2>11 DEF IsInjective
  <2>14. ToSet(t) = ToSet(s) \ {c}
    <3>1. ASSUME NEW x \in ToSet(t) PROVE x \in ToSet(s) \ {c}
      <4>1. PICK k \in 1 .. Len(t) : x = t[k]
        BY <2>8 DEF ToSet
      <4> QED
        BY <1>0, <2>1, <2>10, <4>1 DEF ToSet
    <3>2. ASSUME NEW x \in ToSet(s) \ {c} PROVE x \in ToSet(t)
      <4>1. PICK i \in 1 .. Len(s) : x = s[i]
        BY <1>0 DEF ToSet
      <4>2. PICK k \in 1 .. Len(t) : f(k) = i
        BY <2>1, <2>12, <4>1
      <4> QED
        BY <2>8, <2>10, <4>1, <4>2 DEF ToSet
    <3> QED
      BY <3>1, <3>2
  <2> QED
    BY <2>5, <2>8, <2>13, <2>14
<1> QED
  BY <1>1, <1>2

-----------------------------------------------------------------------------
(* The steps.                                                              *)

LEMMA CommandStart == CommandInit => CommandInv
<1> SUFFICES ASSUME CommandInit PROVE CommandInv
  OBVIOUS
<1>1. CommandTypes
  <2>0. /\ cmAt = [c \in CmCallers |-> "idle"] /\ cmRun = [c \in CmCallers |-> 0]
        /\ cmQueue = <<>> /\ cmFlight = {} /\ cmHeld = 0 /\ cmRuns = 0
    BY DEF CommandInit
  <2>1. cmAt \in [CmCallers -> Places] /\ cmQueue \in Seq(CmCallers)
    BY <2>0 DEF Places
  <2>2. cmRun \in [CmCallers -> 0 .. cmRuns] /\ cmRuns \in Nat /\ cmRuns <= CmRunsMax
    BY <2>0, RunsBound
  <2>3. cmFlight \subseteq 1 .. cmRuns /\ cmHeld \in 0 .. cmRuns
    BY <2>0
  <2>4. cmAnswer \in [Executes -> {"none", "ok", "failed", "timeout"}]
    BY DEF CommandInit, Executes
  <2> QED
    BY <2>1, <2>2, <2>3, <2>4 DEF CommandInit, CommandTypes
<1>2. RunsInv /\ AnswerIsOwn /\ LockFreed
  BY DEF CommandInit, RunsInv, AnswerIsOwn, LockFreed
<1>3. QueueTrue
  <2>0. cmQueue = <<>> /\ cmAt = [c \in CmCallers |-> "idle"]
    BY DEF CommandInit
  <2>1. DOMAIN cmQueue = {} /\ \A c \in CmCallers : cmAt[c] # "lock"
    BY <2>0
  <2> QED
    BY <2>1 DEF QueueTrue, ToSet, IsInjective
<1> QED
  BY <1>1, <1>2, <1>3 DEF CommandInv

(* Connecting and the channel touch no execute. *)
LEMMA Connecting ==
    ASSUME CommandInv, UNCHANGED <<cmBackend, cmAt, cmRun, cmQueue, cmHeld, cmFlight, cmDone, cmAnswer, cmRuns>>
    PROVE  CommandInv'
BY DEF CommandInv, CommandTypes, RunsInv, AnswerIsOwn, LockFreed, QueueTrue, Serial, PvaCommandBackend

LEMMA ExecuteBegins ==
    ASSUME CommandInv, NEW c \in CmCallers, CmExecute(c)
    PROVE  CommandInv'
<1> DEFINE r == cmRuns + 1
<1>0. /\ cmAt[c] = "idle" /\ cmRuns' = r /\ cmRun' = [cmRun EXCEPT ![c] = r]
      /\ cmAt' = [cmAt EXCEPT ![c] = IF Serial THEN "lock" ELSE "channel"]
      /\ cmQueue' = IF Serial THEN Append(cmQueue, c) ELSE cmQueue
      /\ UNCHANGED <<cmBackend, cmHeld, cmFlight, cmDone, cmAnswer>>
  BY DEF CmExecute, connectVars
<1>b. cmRuns \in Nat /\ r \in Nat /\ r <= CmRunsMax
  <2>1. cmRuns \in Nat /\ cmRuns < CmRunsMax
    BY DEF CmExecute, CommandInv, CommandTypes
  <2> QED
    BY <2>1, RunsBound
<1>t. /\ cmAt \in [CmCallers -> Places] /\ cmRun \in [CmCallers -> 0 .. cmRuns] /\ cmQueue \in Seq(CmCallers)
      /\ cmRuns \in Nat /\ cmFlight \subseteq 1 .. cmRuns /\ cmHeld \in 0 .. cmRuns
  BY RunsBound DEF CommandInv, CommandTypes
<1>s. Serial' = Serial
  BY <1>0 DEF Serial, PvaCommandBackend
<1>q. QueueTrue' /\ cmQueue' \in Seq(CmCallers)
  <2>1. c \notin ToSet(cmQueue) /\ IsInjective(cmQueue)
    BY <1>0 DEF CommandInv, QueueTrue
  <2>2. CASE Serial
    BY <1>0, <1>t, <2>1, <2>2, Joined DEF CommandInv, QueueTrue
  <2>3. CASE ~Serial
    BY <1>0, <1>t, <2>3 DEF CommandInv, QueueTrue
  <2> QED
    BY <2>2, <2>3
<1>1. CommandTypes'
  <2>1. cmAt' \in [CmCallers -> Places]
    BY <1>0, <1>t, <1>q DEF Places
  <2>2. cmRun' \in [CmCallers -> 0 .. cmRuns'] /\ cmRuns' \in Nat /\ cmRuns' <= CmRunsMax
    <3>1. \A d \in CmCallers : [cmRun EXCEPT ![c] = r][d] \in 0 .. r
      BY <1>b, <1>t
    <3> QED
      BY <1>0, <1>b, <1>t, <3>1
  <2>3. cmFlight' \subseteq 1 .. cmRuns' /\ cmHeld' \in 0 .. cmRuns'
    BY <1>0, <1>b, <1>t
  <2>4. cmAnswer' \in [Executes -> {"none", "ok", "failed", "timeout"}]
    BY <1>0, <1>t, <1>q DEF CommandInv, CommandTypes
  <2>5. cmQueue' \in Seq(CmCallers) /\ cmBackend' = cmBackend
    BY <1>0, <1>t, <1>q DEF CommandInv, CommandTypes
  <2>6. cmBackend \in {"ca", "pva", "soft", "mock of soft", "mock of hardware"}
    BY DEF CommandInv, CommandTypes
  <2> QED
    BY <2>1, <2>2, <2>3, <2>4, <2>5, <2>6 DEF CommandTypes
<1>n. /\ r \notin cmFlight /\ r # cmHeld /\ r # 0 /\ \A d \in CmCallers : cmRun[d] # r
  BY <1>t
<1>u. /\ cmRun'[c] = r /\ cmAt'[c] = (IF Serial THEN "lock" ELSE "channel")
      /\ \A d \in CmCallers : d # c => cmRun'[d] = cmRun[d] /\ cmAt'[d] = cmAt[d]
  BY <1>0, <1>t
<1> HIDE DEF r
<1>2. RunsInv'
  BY <1>0, <1>n, <1>s, <1>u DEF CommandInv, RunsInv
<1>3. AnswerIsOwn' /\ LockFreed'
  BY <1>0, <1>u DEF CommandInv, AnswerIsOwn, LockFreed
<1> QED
  BY <1>1, <1>2, <1>3, <1>q DEF CommandInv

(* The lock passes to the first in the queue, whose execute is nobody      *)
(* else's: at its channel, or in its body at once.                         *)
LEMMA LockTaken ==
    ASSUME CommandInv, NEW c \in CmCallers, TakesLock(c), ~PvaCommandBackend,
           \/ cmAt' = [cmAt EXCEPT ![c] = "channel"] /\ cmFlight' = cmFlight
           \/ cmAt' = [cmAt EXCEPT ![c] = "body"] /\ cmFlight' = cmFlight \cup {cmRun[c]}
    PROVE  CommandInv'
<1>0. /\ cmAt[c] = "lock" /\ cmHeld = 0 /\ Head(cmQueue) = c /\ cmQueue' = Tail(cmQueue) /\ cmHeld' = cmRun[c]
      /\ UNCHANGED <<cmBackend, cmRun, cmDone, cmAnswer, cmRuns>>
  BY DEF TakesLock, connectVars
<1>t. /\ cmAt \in [CmCallers -> Places] /\ cmRun \in [CmCallers -> 0 .. cmRuns] /\ cmQueue \in Seq(CmCallers)
      /\ cmRuns \in Nat /\ cmFlight \subseteq 1 .. cmRuns
  BY RunsBound DEF CommandInv, CommandTypes
<1>s. Serial' = Serial /\ Serial
  BY <1>0 DEF Serial, PvaCommandBackend
<1>f. cmFlight = {} /\ cmRun[c] # 0
  BY <1>0, <1>s, <1>t DEF CommandInv, RunsInv
<1>u. /\ cmAt'[c] \in {"channel", "body"} /\ \A d \in CmCallers : d # c => cmAt'[d] = cmAt[d]
      /\ cmAt'[c] = "body" => cmRun[c] \in cmFlight'
      /\ cmAt'[c] = "channel" => cmFlight' = {}
      /\ cmFlight' \subseteq {cmRun[c]}
  BY <1>t, <1>f
<1>q. QueueTrue' /\ cmQueue' \in Seq(CmCallers)
  <2>1. IsInjective(cmQueue) /\ cmQueue # <<>> /\ \A d \in CmCallers : cmAt[d] = "lock" <=> d \in ToSet(cmQueue)
    <3>1. cmQueue = <<>> => ToSet(cmQueue) = {}
      BY DEF ToSet
    <3> QED
      BY <1>0, <3>1 DEF CommandInv, QueueTrue
  <2>2. /\ cmQueue' \in Seq(CmCallers) /\ ToSet(cmQueue') = ToSet(cmQueue) \ {c} /\ IsInjective(cmQueue')
    BY <1>0, <1>t, <2>1, HeadLeaves
  <2> QED
    BY <1>u, <2>1, <2>2 DEF QueueTrue
<1>1. CommandTypes'
  <2>1. cmAt' \in [CmCallers -> Places]
    BY <1>0, <1>t, <1>q, <1>f DEF Places
  <2>2. cmRun' \in [CmCallers -> 0 .. cmRuns'] /\ cmRuns' \in Nat /\ cmRuns' <= CmRunsMax
    BY <1>0, <1>t, <1>q, <1>f DEF CommandInv, CommandTypes
  <2>3. cmFlight' \subseteq 1 .. cmRuns' /\ cmHeld' \in 0 .. cmRuns'
    BY <1>0, <1>t, <1>q, <1>f
  <2>4. cmAnswer' \in [Executes -> {"none", "ok", "failed", "timeout"}]
    BY <1>0, <1>t, <1>q, <1>f DEF CommandInv, CommandTypes
  <2>5. cmQueue' \in Seq(CmCallers) /\ cmBackend' = cmBackend
    BY <1>0, <1>t, <1>q, <1>f DEF CommandInv, CommandTypes
  <2>6. cmBackend \in {"ca", "pva", "soft", "mock of soft", "mock of hardware"}
    BY DEF CommandInv, CommandTypes
  <2> QED
    BY <2>1, <2>2, <2>3, <2>4, <2>5, <2>6 DEF CommandTypes
<1>2. RunsInv'
  BY <1>0, <1>f, <1>s, <1>u DEF CommandInv, RunsInv
<1>3. AnswerIsOwn' /\ LockFreed'
  BY <1>0, <1>u DEF CommandInv, AnswerIsOwn, LockFreed
<1> QED
  BY <1>1, <1>2, <1>3, <1>q DEF CommandInv

LEMMA ChannelOpens ==
    ASSUME CommandInv, NEW c \in CmCallers, ChannelOpen(c) \/ PutsOut(c)
    PROVE  CommandInv'
<1>0. /\ cmAt[c] \in {"channel", "open"}
      /\ \/ cmAt' = [cmAt EXCEPT ![c] = "open"] /\ cmFlight' = cmFlight
         \/ cmAt' = [cmAt EXCEPT ![c] = "put"] /\ cmFlight' = cmFlight \cup {cmRun[c]}
      /\ UNCHANGED <<cmBackend, cmRun, cmQueue, cmHeld, cmDone, cmAnswer, cmRuns>>
  BY DEF ChannelOpen, PutsOut, connectVars
<1>t. /\ cmAt \in [CmCallers -> Places] /\ cmRun \in [CmCallers -> 0 .. cmRuns]
      /\ cmRuns \in Nat /\ cmFlight \subseteq 1 .. cmRuns /\ cmHeld \in 0 .. cmRuns
  BY RunsBound DEF CommandInv, CommandTypes
<1>s. Serial' = Serial
  BY <1>0 DEF Serial, PvaCommandBackend
<1>u. /\ cmAt'[c] \in {"open", "put"} /\ \A d \in CmCallers : d # c => cmAt'[d] = cmAt[d]
      /\ cmAt'[c] = "open" => cmFlight' = cmFlight
      /\ cmAt'[c] = "put" => cmFlight' = cmFlight \cup {cmRun[c]}
      /\ cmFlight \subseteq cmFlight' /\ cmFlight' \subseteq cmFlight \cup {cmRun[c]}
  BY <1>0, <1>t
<1>p. cmRun[c] # 0
  BY <1>0 DEF CommandInv, RunsInv
<1>1. CommandTypes'
  <2>1. cmAt' \in [CmCallers -> Places]
    BY <1>0, <1>t, <1>p DEF Places
  <2>2. cmRun' \in [CmCallers -> 0 .. cmRuns'] /\ cmRuns' \in Nat /\ cmRuns' <= CmRunsMax
    BY <1>0, <1>t, <1>p DEF CommandInv, CommandTypes
  <2>3. cmFlight' \subseteq 1 .. cmRuns' /\ cmHeld' \in 0 .. cmRuns'
    <3>1. cmRun[c] \in 1 .. cmRuns
      BY <1>t, <1>p
    <3> QED
      BY <1>0, <1>t, <1>u, <3>1
  <2>4. cmAnswer' \in [Executes -> {"none", "ok", "failed", "timeout"}]
    BY <1>0, <1>t, <1>p DEF CommandInv, CommandTypes
  <2>5. cmQueue' \in Seq(CmCallers) /\ cmBackend' = cmBackend
    BY <1>0, <1>t, <1>p DEF CommandInv, CommandTypes
  <2>6. cmBackend \in {"ca", "pva", "soft", "mock of soft", "mock of hardware"}
    BY DEF CommandInv, CommandTypes
  <2> QED
    BY <2>1, <2>2, <2>3, <2>4, <2>5, <2>6 DEF CommandTypes
<1>2. RunsInv'
  BY <1>0, <1>p, <1>s, <1>u DEF CommandInv, RunsInv
<1>3. AnswerIsOwn' /\ LockFreed' /\ QueueTrue'
  BY <1>0, <1>t, <1>u DEF CommandInv, AnswerIsOwn, LockFreed, QueueTrue
<1> QED
  BY <1>1, <1>2, <1>3 DEF CommandInv

LEMMA FailsAtChannel ==
    ASSUME CommandInv, NEW c \in CmCallers, cmAt[c] \in {"channel", "open"}, ExecuteFails(c)
    PROVE  CommandInv'
<1>0. /\ cmAt' = [cmAt EXCEPT ![c] = "idle"] /\ cmAnswer' = [cmAnswer EXCEPT ![cmRun[c]] = "failed"]
      /\ cmHeld' = (IF cmHeld = cmRun[c] THEN 0 ELSE cmHeld)
      /\ UNCHANGED <<cmBackend, cmRun, cmQueue, cmFlight, cmDone, cmRuns>>
  BY DEF ExecuteFails, connectVars
<1>t. /\ cmAt \in [CmCallers -> Places] /\ cmRun \in [CmCallers -> 0 .. cmRuns]
      /\ cmRuns \in Nat /\ cmFlight \subseteq 1 .. cmRuns /\ cmHeld \in 0 .. cmRuns
      /\ cmAnswer \in [Executes -> {"none", "ok", "failed", "timeout"}]
  BY RunsBound DEF CommandInv, CommandTypes
<1>s. Serial' = Serial
  BY <1>0 DEF Serial, PvaCommandBackend
<1>u. cmAt'[c] = "idle" /\ \A d \in CmCallers : d # c => cmAt'[d] = cmAt[d]
  BY <1>0, <1>t
<1>1. CommandTypes'
  <2>1. cmAt' \in [CmCallers -> Places]
    BY <1>0, <1>t DEF Places
  <2>2. cmRun' \in [CmCallers -> 0 .. cmRuns'] /\ cmRuns' \in Nat /\ cmRuns' <= CmRunsMax
    BY <1>0, <1>t DEF CommandInv, CommandTypes
  <2>3. cmFlight' \subseteq 1 .. cmRuns' /\ cmHeld' \in 0 .. cmRuns'
    BY <1>0, <1>t
  <2>4. cmAnswer' \in [Executes -> {"none", "ok", "failed", "timeout"}]
    BY <1>0, <1>t DEF CommandInv, CommandTypes
  <2>5. cmQueue' \in Seq(CmCallers) /\ cmBackend' = cmBackend
    BY <1>0, <1>t DEF CommandInv, CommandTypes
  <2>6. cmBackend \in {"ca", "pva", "soft", "mock of soft", "mock of hardware"}
    BY DEF CommandInv, CommandTypes
  <2> QED
    BY <2>1, <2>2, <2>3, <2>4, <2>5, <2>6 DEF CommandTypes
<1>2. RunsInv'
  BY <1>0, <1>s, <1>u DEF CommandInv, RunsInv
<1>3. LockFreed' /\ QueueTrue'
  BY <1>0, <1>t, <1>u DEF CommandInv, LockFreed, QueueTrue
<1>4. AnswerIsOwn'
  BY <1>0, <1>t DEF CommandInv, AnswerIsOwn, Executes
<1> QED
  BY <1>1, <1>2, <1>3, <1>4 DEF CommandInv

(* A caller that gives up takes its guard with it only when nothing of its *)
(* execute goes on.                                                        *)
LEMMA GivesUp ==
    ASSUME CommandInv, NEW c \in CmCallers, GiveUp(c)
    PROVE  CommandInv'
<1>0. /\ cmAt[c] # "idle" /\ cmAt' = [cmAt EXCEPT ![c] = "idle"]
      /\ cmAnswer' = [cmAnswer EXCEPT ![cmRun[c]] = "timeout"]
      /\ cmQueue' = RemoveFirst(cmQueue, c)
      /\ cmHeld' = (IF cmAt[c] \in {"channel", "open", "body"} /\ cmHeld = cmRun[c] THEN 0 ELSE cmHeld)
      /\ cmFlight' = (IF cmAt[c] = "body" THEN cmFlight \ {cmRun[c]} ELSE cmFlight)
      /\ UNCHANGED <<cmBackend, cmRun, cmDone, cmRuns>>
  BY DEF GiveUp, GuardGoes, connectVars
<1>t. /\ cmAt \in [CmCallers -> Places] /\ cmRun \in [CmCallers -> 0 .. cmRuns] /\ cmQueue \in Seq(CmCallers)
      /\ cmRuns \in Nat /\ cmFlight \subseteq 1 .. cmRuns /\ cmHeld \in 0 .. cmRuns
      /\ cmAnswer \in [Executes -> {"none", "ok", "failed", "timeout"}]
  BY RunsBound DEF CommandInv, CommandTypes
<1>s. Serial' = Serial
  BY <1>0 DEF Serial, PvaCommandBackend
<1>u. cmAt'[c] = "idle" /\ \A d \in CmCallers : d # c => cmAt'[d] = cmAt[d]
  BY <1>0, <1>t
<1>d. \A d \in CmCallers : d # c /\ cmAt[d] # "idle" => cmRun[d] # cmRun[c]
  BY DEF CommandInv, RunsInv
<1>q. QueueTrue' /\ cmQueue' \in Seq(CmCallers)
  <2>1. IsInjective(cmQueue) /\ \A d \in CmCallers : cmAt[d] = "lock" <=> d \in ToSet(cmQueue)
    BY DEF CommandInv, QueueTrue
  <2>2. cmQueue' \in Seq(CmCallers) /\ ToSet(cmQueue') = ToSet(cmQueue) \ {c} /\ IsInjective(cmQueue')
    BY <1>0, <1>t, <2>1, LeavesFrom
  <2> QED
    BY <1>u, <2>1, <2>2 DEF QueueTrue
<1>1. CommandTypes'
  <2>1. cmAt' \in [CmCallers -> Places]
    BY <1>0, <1>t, <1>q DEF Places
  <2>2. cmRun' \in [CmCallers -> 0 .. cmRuns'] /\ cmRuns' \in Nat /\ cmRuns' <= CmRunsMax
    BY <1>0, <1>t, <1>q DEF CommandInv, CommandTypes
  <2>3. cmFlight' \subseteq 1 .. cmRuns' /\ cmHeld' \in 0 .. cmRuns'
    <3>1. cmFlight' \subseteq cmFlight /\ cmHeld' \in {0, cmHeld} /\ cmRuns' = cmRuns
      BY <1>0
    <3> QED
      BY <1>t, <3>1
  <2>4. cmAnswer' \in [Executes -> {"none", "ok", "failed", "timeout"}]
    BY <1>0, <1>t, <1>q DEF CommandInv, CommandTypes
  <2>5. cmQueue' \in Seq(CmCallers) /\ cmBackend' = cmBackend
    BY <1>0, <1>t, <1>q DEF CommandInv, CommandTypes
  <2>6. cmBackend \in {"ca", "pva", "soft", "mock of soft", "mock of hardware"}
    BY DEF CommandInv, CommandTypes
  <2> QED
    BY <2>1, <2>2, <2>3, <2>4, <2>5, <2>6 DEF CommandTypes
<1>2. RunsInv'
  BY <1>0, <1>d, <1>s, <1>u DEF CommandInv, RunsInv
<1>3. LockFreed'
  BY <1>0, <1>t, <1>u DEF CommandInv, LockFreed
<1>4. AnswerIsOwn'
  BY <1>0, <1>t DEF CommandInv, AnswerIsOwn, Executes
<1> QED
  BY <1>1, <1>2, <1>3, <1>4, <1>q DEF CommandInv

LEMMA EndsWell ==
    ASSUME CommandInv, NEW r \in cmFlight, NEW ok \in BOOLEAN, ExecuteEnds(r, ok)
    PROVE  CommandInv'
<1>0. /\ cmFlight' = cmFlight \ {r} /\ cmHeld' = (IF cmHeld = r THEN 0 ELSE cmHeld)
      /\ cmDone' = (IF ok THEN cmDone \cup {r} ELSE cmDone)
      /\ cmAt' = [c \in CmCallers |-> IF c \in Waiting(r) THEN "idle" ELSE cmAt[c]]
      /\ cmAnswer' = cmAnswer \/ cmAnswer' = [cmAnswer EXCEPT ![r] = IF ok THEN "ok" ELSE "failed"]
      /\ UNCHANGED <<cmBackend, cmRun, cmQueue, cmRuns>>
  BY DEF ExecuteEnds, connectVars
<1>t. /\ cmAt \in [CmCallers -> Places] /\ cmRun \in [CmCallers -> 0 .. cmRuns]
      /\ cmRuns \in Nat /\ cmFlight \subseteq 1 .. cmRuns /\ cmHeld \in 0 .. cmRuns
      /\ cmAnswer \in [Executes -> {"none", "ok", "failed", "timeout"}]
  BY RunsBound DEF CommandInv, CommandTypes
<1>s. Serial' = Serial
  BY <1>0 DEF Serial, PvaCommandBackend
<1>u. \A c \in CmCallers :
        \/ cmAt'[c] = cmAt[c] /\ ~(cmRun[c] = r /\ cmAt[c] \in {"put", "body"})
        \/ cmAt'[c] = "idle" /\ cmAt[c] \in {"put", "body"}
  BY <1>0 DEF Waiting
<1>1. CommandTypes'
  <2>1. cmAnswer' \in [Executes -> {"none", "ok", "failed", "timeout"}]
    BY <1>0, <1>t
  <2>2. cmAt' \in [CmCallers -> Places]
    BY <1>0, <1>t DEF Places
  <2>3. /\ cmFlight' \subseteq cmFlight /\ cmHeld' \in {0, cmHeld}
        /\ UNCHANGED <<cmBackend, cmRun, cmQueue, cmRuns>>
    BY <1>0
  <2>4. cmFlight' \subseteq 1 .. cmRuns' /\ cmHeld' \in 0 .. cmRuns'
    BY <1>t, <2>3
  <2> QED
    BY <2>1, <2>2, <2>3, <2>4 DEF CommandInv, CommandTypes
<1>2. RunsInv'
  BY <1>0, <1>s, <1>u DEF CommandInv, RunsInv
<1>3. LockFreed'
  BY <1>0, <1>u DEF CommandInv, LockFreed
<1>5. QueueTrue'
  BY <1>0, <1>u DEF CommandInv, QueueTrue
<1>4. AnswerIsOwn'
  BY <1>0, <1>t DEF CommandInv, AnswerIsOwn, Executes
<1> QED
  BY <1>1, <1>2, <1>3, <1>4, <1>5 DEF CommandInv

LEMMA CommandStep == CommandInv /\ [CommandNext]_commandVars => CommandInv'
<1> SUFFICES ASSUME CommandInv, [CommandNext]_commandVars PROVE CommandInv'
  OBVIOUS
<1> USE DEF OverEpics, PvaCommandBackend, CaCommandBackend, SoftCommandBackend, MockCommandBackend, MockOfSoft, MockOfHardware
<1>1. CASE \/ \E force \in BOOLEAN : JoinConnect(force)
           \/ CaConnectOpen \/ CaConnect \/ CaConnectFails \/ PvaConnectOpen \/ PvaConnect \/ PvaConnectFails
           \/ ChannelUp \/ ChannelDown
  BY <1>1, Connecting DEF JoinConnect, CaConnectOpen, CaConnect, CaConnectFails, PvaConnectOpen, PvaConnect,
     PvaConnectFails, ConnectEnds, ChannelUp, ChannelDown, executeVars
<1>2. CASE \E cb \in {"none", "sync", "async"} : SetExecuteCallback(cb)
  BY <1>2, Connecting DEF SetExecuteCallback, connectVars
<1>3. ASSUME NEW c \in CmCallers, CallerNext(c) PROVE CommandInv'
  <2>1. CASE CmExecute(c)
    BY <2>1, ExecuteBegins
  <2>2. CASE CaAcquire(c)
    BY <2>2, LockTaken DEF CaAcquire
  <2>3. CASE SoftExecute(c) \/ MockExecute(c)
    BY <2>3, LockTaken DEF SoftExecute, MockExecute, RunsBody
  <2>4. CASE ChannelOpen(c)
    BY <2>4, ChannelOpens
  <2>5. CASE CaPut(c) \/ PvaPut(c)
    BY <2>5, ChannelOpens DEF CaPut, PvaPut
  <2>6. CASE CaChannelFails(c) \/ PvaPutFails(c)
    BY <2>6, FailsAtChannel DEF CaChannelFails, PvaPutFails
  <2>7. CASE GiveUp(c)
    BY <2>7, GivesUp
  <2> QED
    BY <1>3, <2>1, <2>2, <2>3, <2>4, <2>5, <2>6, <2>7 DEF CallerNext
<1>4. ASSUME NEW r \in cmFlight,
             PutLost(r) \/ \E ok \in BOOLEAN : CmPutAnswered(r, ok) \/ CallbackReturns(r, ok)
      PROVE  CommandInv'
  BY <1>4, EndsWell DEF PutLost, CmPutAnswered, CallbackReturns
<1>5. CASE UNCHANGED commandVars
  BY <1>5, Connecting DEF commandVars
<1> QED
  BY <1>1, <1>2, <1>3, <1>4, <1>5 DEF CommandNext

(* Whatever its callers, timeouts and lost channels do, a serial command   *)
(* has one execute under way, a caller told "ok" had its own completed,    *)
(* the lock is held only by an execute that goes on, and the queue of the  *)
(* lock is true (CaCommandBackend, PvaCommandBackend, SoftCommandBackend   *)
(* and MockCommandBackend).                                                *)
THEOREM CommandsAreSound == CommandSpec => []CommandsSound
<1>1. CommandInv => CommandsSound
  BY DEF CommandInv, RunsInv, CommandsSound, OneAtATime
<1> QED
  BY <1>1, CommandStart, CommandStep, PTL DEF CommandSpec
=============================================================================
