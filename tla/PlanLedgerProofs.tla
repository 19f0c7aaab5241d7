-------------------------- MODULE PlanLedgerProofs --------------------------
(***************************************************************************)
(* The queue server implements PlanLedger: the refinement ImplementsLedger *)
(* of QueueServer, proved for any number of items, requests, environments  *)
(* and workers.                                                            *)
(*                                                                         *)
(* A step is first described by what it does to the item a worker has in   *)
(* its hands, to the pending uids and to the history sets; the invariant   *)
(* and the ledger's step follow from that description alone.               *)
(***************************************************************************)
EXTENDS QueueServerProofs

(* The uid a worker has in its hands, 0 when there is none: from the claim *)
(* or the pop until it is archived and, in loop mode, queued again.        *)
InHand(w) == IF workers[w].pc \in Holding \cup {"loop"} THEN workers[w].item.uid ELSE 0
Loops(w)  == InHand(w) # 0 /\ workers[w].pc = "loop"

Gone == items.withdrawn \cup items.revoked

(* Uids are handed out in order, an item is pending once, and an item in   *)
(* hand is in nobody else's, not pending and not gone.                     *)
PlaceInv ==
  /\ items.submitted = 1 .. (FreshUid - 1)
  /\ rep.single => rep.item.uid = FreshUid
  /\ Gone \cup items.archived \subseteq items.submitted
  /\ Distinct(q)
  /\ Pending(q) \subseteq items.submitted \ Gone
  /\ \A w \in DOMAIN workers :
       /\ InHand(w) # 0 => InHand(w) \in items.submitted \ (Gone \cup Pending(q))
       /\ Loops(w) => InHand(w) \in items.archived
  /\ \A v, w \in DOMAIN workers : InHand(v) = InHand(w) /\ InHand(v) # 0 => v = w

(* Between claim and registration the slot holds the new worker or none.   *)
RegInv == RepAt("register") => slot.gen \in {0, Len(workers)}

LedgerInv == ServerInv /\ LossInv /\ PlaceInv /\ RegInv

(* A worker that was not told to stop is alone. *)
LEMMA OneUnforced ==
    ASSUME ServerInv, RegInv,
           NEW v \in DOMAIN workers, ~workers[v].aborted, workers[v].pc \notin Leaving,
           NEW w \in DOMAIN workers, ~workers[w].aborted, workers[w].pc \notin Leaving
    PROVE  v = w
<1>1. Len(workers) \in Nat /\ DOMAIN workers = 1 .. Len(workers)
  BY DEF ServerInv, TypeInv, TypeOK
<1> QED
  BY <1>1 DEF ServerInv, SlotInv, RegInv

-----------------------------------------------------------------------------
(* Stages.                                                                 *)

LEMMA HolderHands ==
    ASSUME NEW uid \in Uids, NEW w
    PROVE  w \in Holders(uid) <=> w \in DOMAIN workers /\ InHand(w) = uid /\ ~Loops(w)
BY ServerAssumption DEF Holders, InHand, Loops, Holding, Uids

LEMMA StageOfPending ==
    ASSUME NEW uid \in Pending(q)
    PROVE  LedgerStage(uid) = "pending"
BY DEF LedgerStage

LEMMA StageOfHeld ==
    ASSUME PlaceInv, NEW w \in DOMAIN workers, InHand(w) \in Uids, ~Loops(w)
    PROVE  LedgerStage(InHand(w)) = IF workers[w].aborted THEN "orphan" ELSE "running"
<1> DEFINE uid == InHand(w)
<1>1. uid \notin Pending(q)
  BY ServerAssumption DEF PlaceInv, Uids
<1>2. Holders(uid) = {w}
  BY HolderHands, ServerAssumption DEF PlaceInv, Uids, Holders
<1> QED
  BY <1>1, <1>2 DEF LedgerStage

LEMMA StageOfRest ==
    ASSUME Gone \cup items.archived \subseteq items.submitted,
           NEW uid \in Uids, uid \notin Pending(q),
           \A w \in DOMAIN workers : InHand(w) = uid => Loops(w)
    PROVE  /\ uid \in Gone => LedgerStage(uid) = "gone"
           /\ uid \in items.archived \ Gone => LedgerStage(uid) = "done"
           /\ uid \notin items.submitted => LedgerStage(uid) = "none"
<1>1. Holders(uid) = {}
  BY HolderHands DEF Holders
<1>2. ASSUME uid \in items.withdrawn \cup items.revoked PROVE LedgerStage(uid) = "gone"
  BY <1>1, <1>2 DEF LedgerStage, Gone
<1>3. ASSUME uid \notin items.withdrawn \cup items.revoked, uid \in items.archived PROVE LedgerStage(uid) = "done"
  BY <1>1, <1>3 DEF LedgerStage, Gone
<1>4. ASSUME uid \notin items.submitted PROVE LedgerStage(uid) = "none"
  BY <1>1, <1>4 DEF LedgerStage, Gone
<1> QED
  BY <1>2, <1>3, <1>4 DEF Gone

LEMMA RunningIsHeld ==
    ASSUME NEW uid, LedgerStage(uid) = "running"
    PROVE  \E w \in Holders(uid) : ~workers[w].aborted
BY DEF LedgerStage

(* A stage depends on the holders, on who told them to stop, and on the    *)
(* sets the uid is in.                                                     *)
LEMMA StageSame ==
    ASSUME NEW uid \in Uids,
           uid \in Pending(q) <=> uid \in Pending(q'),
           \A w : w \in Holders(uid) <=> w \in Holders(uid)',
           \A w \in Holders(uid) : workers'[w].aborted = workers[w].aborted,
           uid \in Gone <=> uid \in Gone',
           uid \in items.archived <=> uid \in items'.archived,
           uid \in items.submitted <=> uid \in items'.submitted
    PROVE  LedgerStage(uid)' = LedgerStage(uid)
<1>1. Holders(uid)' = Holders(uid)
  OBVIOUS
<1>2. (\E w \in Holders(uid)' : workers'[w].aborted) <=> (\E w \in Holders(uid) : workers[w].aborted)
  BY <1>1
<1> QED
  BY <1>1, <1>2 DEF LedgerStage, Gone

(* The items of S move from one stage to another, the others stay. *)
LEMMA LedgerMoves ==
    ASSUME NEW S, NEW from, NEW to, S # {}, S \subseteq Uids,
           \A u \in S : LedgerStage(u) = from /\ LedgerStage(u)' = to,
           \A u \in Uids \ S : LedgerStage(u)' = LedgerStage(u)
    PROVE  Ledger!Moves(S, from, to)
BY DEF Ledger!Moves, Ledger!InStage

LEMMA LedgerStutters ==
    ASSUME \A u \in Uids : LedgerStage(u)' = LedgerStage(u)
    PROVE  UNCHANGED [uid \in Uids |-> LedgerStage(uid)]
OBVIOUS

-----------------------------------------------------------------------------
(* Steps of a worker: it keeps what it has, takes an item from the queue,  *)
(* records it, is dropped with it, or lets go of it.                       *)

Keeps(w) ==
  /\ Pending(q') = Pending(q) /\ items' = items
  /\ InHand(w)' = InHand(w) /\ (Loops(w)' <=> Loops(w))
Takes(w) ==
  /\ InHand(w) = 0 /\ InHand(w)' \in Pending(q) /\ ~Loops(w)'
  /\ Pending(q') = Pending(q) \ {InHand(w)'} /\ items' = items
Records(w) ==
  /\ InHand(w) # 0 /\ ~Loops(w)
  /\ InHand(w)' = 0 \/ (InHand(w)' = InHand(w) /\ Loops(w)')
  /\ Pending(q') = Pending(q) /\ items' = [items EXCEPT !.archived = @ \cup {InHand(w)}]
Loses(w) ==
  /\ InHand(w) # 0 /\ ~Loops(w) /\ workers[w].aborted /\ InHand(w)' = 0
  /\ Pending(q') = Pending(q) /\ items' = [items EXCEPT !.revoked = @ \cup {InHand(w)}]
LetsGo(w) ==
  /\ Loops(w) /\ InHand(w)' = 0 /\ items' = items
  /\ Pending(q') = Pending(q) \/ Pending(q') = Pending(q) \cup {InHand(w)}

(* The head of a queue without repetitions, taken off. *)
LEMMA PoppedHead ==
    ASSUME NEW r \in QueueRecords, Distinct(r), r.items # <<>>
    PROVE  LET x == PopFront(r) IN
           /\ Head(r.items) \in Items /\ Head(r.items).uid \in Pending(r)
           /\ Pending(x) = Pending(r) \ {Head(r.items).uid} /\ Distinct(x)
<1> DEFINE s == r.items
           t == Tail(r.items)
           x == PopFront(r)
<1>1. s \in Seq(Items) /\ Len(s) \in Nat /\ Len(s) > 0 /\ DOMAIN s = 1 .. Len(s)
  BY DEF QueueRecords
<1>2. t \in Seq(Items) /\ Len(t) = Len(s) - 1 /\ \A i \in 1 .. Len(t) : t[i] = s[i + 1]
  BY <1>1
<1>3. x = WithItems(r, t) /\ x.items = t
  BY DEF PopFront, WithItems, QueueRecords
<1>4. Head(s) = s[1] /\ s[1] \in Items
  BY <1>1
<1>5. Pending(x) = {t[i].uid : i \in 1 .. Len(t)}
  BY <1>2, <1>3, ItemsReplaced
<1>6. Pending(r) = {s[i].uid : i \in 1 .. Len(s)}
  BY <1>1 DEF Pending
<1> HIDE DEF s, t, x
<1>7. Distinct(x)
  <2> SUFFICES ASSUME NEW i \in 1 .. Len(t), NEW j \in 1 .. Len(t), t[i].uid = t[j].uid PROVE i = j
    BY <1>3 DEF Distinct
  <2>1. i + 1 \in 1 .. Len(s) /\ j + 1 \in 1 .. Len(s) /\ s[i + 1].uid = s[j + 1].uid
    BY <1>1, <1>2
  <2>2. i + 1 = j + 1
    BY <2>1 DEF Distinct, s
  <2> QED
    BY <1>1, <1>2, <2>2
<1>8. ASSUME NEW i \in 1 .. Len(t) PROVE t[i].uid \in Pending(r) \ {s[1].uid}
  <2>1. i + 1 \in 1 .. Len(s) /\ 1 \in 1 .. Len(s) /\ i + 1 # 1
    BY <1>1, <1>2
  <2>2. s[i + 1].uid # s[1].uid
    BY <2>1 DEF Distinct, s
  <2> QED
    BY <1>2, <1>6, <2>1, <2>2
<1>9. ASSUME NEW i \in 1 .. Len(s), s[i].uid # s[1].uid PROVE s[i].uid \in Pending(x)
  <2>1. i - 1 \in 1 .. Len(t) /\ (i - 1) + 1 = i
    BY <1>1, <1>2, <1>9
  <2>2. t[i - 1] = s[i]
    BY <1>2, <2>1
  <2> QED
    BY <1>5, <2>1, <2>2
<1>10. Pending(x) = Pending(r) \ {s[1].uid}
  BY <1>5, <1>6, <1>8, <1>9
<1>11. s[1].uid \in Pending(r)
  BY <1>1, <1>6
<1> QED
  BY <1>4, <1>7, <1>10, <1>11 DEF s, x

LEMMA PushedBack ==
    ASSUME NEW r \in QueueRecords, NEW it \in Items
    PROVE  /\ Pending(PushBack(r, it)) = Pending(r) \cup {it.uid}
           /\ Distinct(r) /\ it.uid \notin Pending(r) => Distinct(PushBack(r, it))
<1> DEFINE s == r.items
           t == Append(r.items, it)
           x == PushBack(r, it)
<1>1. s \in Seq(Items) /\ Len(s) \in Nat /\ DOMAIN s = 1 .. Len(s)
  BY DEF QueueRecords
<1>2. /\ t \in Seq(Items) /\ Len(t) = Len(s) + 1 /\ t[Len(s) + 1] = it
      /\ \A i \in 1 .. Len(s) : t[i] = s[i]
  BY <1>1
<1>3. x = WithItems(r, t) /\ x.items = t
  BY DEF PushBack, WithItems, QueueRecords
<1>4. Pending(x) = {t[i].uid : i \in 1 .. Len(t)} /\ Pending(r) = {s[i].uid : i \in 1 .. Len(s)}
  BY <1>1, <1>2, <1>3, ItemsReplaced DEF Pending
<1> HIDE DEF s, t, x
<1>5. 1 .. Len(t) = (1 .. Len(s)) \cup {Len(s) + 1}
  BY <1>1, <1>2
<1>6. Pending(x) = Pending(r) \cup {it.uid}
  BY <1>2, <1>4, <1>5
<1>7. ASSUME Distinct(r), it.uid \notin Pending(r) PROVE Distinct(x)
  <2>1. \A i \in 1 .. Len(s) : s[i].uid # it.uid
    BY <1>4, <1>7
  <2>2. \A i, j \in 1 .. Len(s) : s[i].uid = s[j].uid => i = j
    BY <1>7 DEF Distinct, s
  <2>3. Distinct(x) <=> \A i, j \in 1 .. Len(t) : t[i].uid = t[j].uid => i = j
    BY <1>3 DEF Distinct
  <2> QED
    BY <1>2, <1>3, <1>5, <2>1, <2>2, <2>3
<1> QED
  BY <1>6, <1>7 DEF x

LEMMA WorkerShapes ==
    ASSUME TypeInv, LossInv, PlaceInv, NEW w \in 1 .. MaxWorkers, WorkerStep(w)
    PROVE  /\ Keeps(w) \/ Takes(w) \/ Records(w) \/ Loses(w) \/ LetsGo(w)
           /\ Distinct(q')
<1> USE DEF WorkerAt, InHand, Loops, Holding
<1>0. /\ workers \in Seq(Workers) /\ w \in DOMAIN workers /\ workers[w] \in Workers
      /\ items \in [{"submitted", "withdrawn", "archived", "revoked"} -> SUBSET Uids]
      /\ q \in QueueRecords /\ Distinct(q)
      /\ workers[w].pc = "spawned" /\ ~workers[w].single => workers[w].item = NoItem
  BY WorkerStepMoves DEF TypeInv, TypeOK, WorkerMoves, QueueRecords, LossInv, PlaceInv
<1>c. /\ workers[w].pc \in Carrying \/ (workers[w].pc = "spawned" /\ workers[w].single) => workers[w].item \in Items
      /\ \A it \in Items : it.uid # 0
  BY <1>0, ServerAssumption DEF TypeInv, Carries, Items, Uids
<1>h. ASSUME NEW it PROVE Pending(PushHistory(q, it)) = Pending(q) /\ (Distinct(q) => Distinct(PushHistory(q, it)))
  BY <1>0 DEF PushHistory, Pending, QueueRecords, Distinct
<1>1. CASE Dropped(w)
  <2>1. CASE workers[w].item.uid = 0
    <3>1. items' = items
      BY <1>0, <1>1, <2>1 DEF Dropped, NoItem
    <3> QED
      BY <1>0, <1>1, <2>1, <3>1 DEF Dropped, WorkerGoes, Workers, Keeps
  <2>2. CASE workers[w].item.uid # 0
    <3>1. items' = [items EXCEPT !.revoked = @ \cup {workers[w].item.uid}]
      BY <1>0, <1>1, <2>2 DEF Dropped, NoItem
    <3> QED
      BY <1>0, <1>1, <2>2, <3>1 DEF Dropped, WorkerGoes, Workers, Loses
  <2> QED
    BY <2>1, <2>2
<1>k. ASSUME UNCHANGED <<q, items>>, workers[w].pc \in Holding, workers'[w].pc \in Holding,
             workers'[w].item = workers[w].item
      PROVE  Keeps(w) /\ Distinct(q')
  BY <1>0, <1>k DEF Keeps
<1>2. CASE Begins(w)
  <2>1. CASE workers[w].single
    <3>1. workers[w].pc = "spawned" /\ workers'[w].pc = "begin" /\ workers'[w].item = workers[w].item
      BY <1>0, <1>2, <2>1 DEF Begins, WorkerGoes, Workers
    <3> QED
      BY <1>2, <1>k, <3>1 DEF Begins
  <2>2. CASE ~workers[w].single
    <3>1. workers[w].item.uid = 0 /\ workers'[w].pc = "top"
      BY <1>0, <1>2, <2>2 DEF Begins, WorkerGoes, Workers, NoItem
    <3> QED
      BY <1>0, <1>2, <3>1 DEF Begins, Keeps
  <2> QED
    BY <2>1, <2>2
<1>3. CASE Top(w)
  BY <1>0, <1>3 DEF Top, WorkerGoes, Workers, Keeps
<1>4. CASE ClearStop(w)
  BY <1>0, <1>4 DEF ClearStop, Workers, Keeps
<1>5. CASE StopDone(w)
  BY <1>0, <1>5, <1>h, <1>c DEF StopDone, Archives, Workers, Records, Carrying
<1>6. CASE StopSet(w)
  BY <1>0, <1>6 DEF StopSet, WorkerGoes, Workers, Keeps
<1>7. CASE Reject(w)
  BY <1>0, <1>7, <1>h, <1>c DEF Reject, Archives, Workers, Records, Carrying
<1>8. CASE BeginItem(w)
  BY <1>0, <1>8 DEF BeginItem, WorkerGoes, Workers, Keeps
<1>9. CASE EnterRun(w)
  <2>1. workers'[w].pc \in {"run", "book"} /\ workers'[w].item = workers[w].item
    BY <1>0, <1>9 DEF EnterRun, WorkerGoes, Workers
  <2> QED
    BY <1>9, <1>k, <2>1 DEF EnterRun
<1>10. CASE RunEnds(w)
  <2>1. workers'[w].pc = "book" /\ workers'[w].item = workers[w].item
    BY <1>0, <1>10 DEF RunEnds, Workers
  <2> QED
    BY <1>10, <1>k, <2>1 DEF RunEnds
<1>11. CASE Book(w)
  BY <1>0, <1>11 DEF Book, WorkerGoes, Workers, Keeps
<1>12. CASE Archive(w)
  BY <1>0, <1>12, <1>h, <1>c DEF Archive, Archives, Workers, Records, Carrying
<1>13. CASE IdleOut(w)
  BY <1>0, <1>13 DEF IdleOut, WorkerGoes, Workers, Keeps
<1>14. CASE Release(w)
  BY <1>0, <1>14 DEF Release, Workers, Keeps
<1>15. CASE LoopItem(w)
  <2>1. workers[w].item \in Items /\ InHand(w) = workers[w].item.uid /\ Loops(w)
    BY <1>15, <1>c DEF LoopItem, Carrying
  <2>2. workers[w].item.uid \notin Pending(q)
    BY <1>0, <2>1 DEF PlaceInv
  <2>3. /\ Pending(PushBack(q, workers[w].item)) = Pending(q) \cup {workers[w].item.uid}
        /\ Distinct(PushBack(q, workers[w].item))
    BY <1>0, <2>1, <2>2, PushedBack
  <2>4. /\ q' = PushBack(q, workers[w].item) \/ q' = q
        /\ items' = items
    BY <1>15 DEF LoopItem
  <2>5. InHand(w)' = 0
    BY <1>0, <1>15 DEF LoopItem, Workers
  <2> QED
    BY <1>0, <2>1, <2>3, <2>4, <2>5 DEF LetsGo
<1>16. CASE \E builds \in BOOLEAN : Pop(w, builds)
  <2>1. PICK builds \in BOOLEAN : Pop(w, builds)
    BY <1>16
  <2>2. CASE q.items = <<>>
    <3>1. q' = q
      BY <2>1, <2>2 DEF Pop, PopFront
    <3> QED
      BY <1>0, <2>1, <2>2, <3>1 DEF Pop, Workers, Keeps
  <2>3. CASE q.items # <<>>
    <3> DEFINE it == Head(q.items)
               pc == AfterPop(it, builds)
    <3>1. /\ it \in Items /\ it.uid \in Pending(q)
          /\ Pending(PopFront(q)) = Pending(q) \ {it.uid} /\ Distinct(PopFront(q))
      BY <1>0, <2>3, PoppedHead
    <3>2. pc \in {"stopdone", "begin", "reject"}
      BY <3>1 DEF AfterPop, Items, Kinds
    <3>3. workers' = [workers EXCEPT ![w].pc = pc, ![w].item = it] /\ q' = PopFront(q) /\ items' = items
      BY <2>1, <2>3 DEF Pop
    <3> HIDE DEF pc, it
    <3>4. workers'[w].pc = pc /\ workers'[w].item = it
      BY <1>0, <3>2, <3>3 DEF Workers
    <3>5. InHand(w) = 0
      BY <2>1 DEF Pop
    <3>6. InHand(w)' = it.uid /\ ~Loops(w)'
      BY <3>2, <3>4
    <3> QED
      BY <3>1, <3>3, <3>5, <3>6 DEF Takes
  <2> QED
    BY <2>2, <2>3
<1> QED
  BY <1>1, <1>2, <1>3, <1>4, <1>5, <1>6, <1>7, <1>8, <1>9, <1>10, <1>11, <1>12, <1>13, <1>14,
     <1>15, <1>16 DEF WorkerStep

WorkerShape(w) ==
  /\ WorkerMoves(w) /\ Distinct(q')
  /\ Keeps(w) \/ Takes(w) \/ Records(w) \/ Loses(w) \/ LetsGo(w)

LEMMA OtherHands ==
    ASSUME NEW w, WorkerMoves(w)
    PROVE  \A v \in DOMAIN workers : v # w => InHand(v)' = InHand(v) /\ (Loops(v)' <=> Loops(v))
BY DEF WorkerMoves, InHand, Loops

LEMMA WorkerPlaces ==
    ASSUME TypeInv, PlaceInv, NEW w, WorkerShape(w)
    PROVE  PlaceInv'
<1>0. /\ w \in DOMAIN workers /\ DOMAIN workers' = DOMAIN workers /\ rep' = rep /\ Distinct(q')
      /\ \A v \in DOMAIN workers : v # w => InHand(v)' = InHand(v) /\ (Loops(v)' <=> Loops(v))
  BY OtherHands DEF WorkerShape, WorkerMoves
<1>t. /\ items \in [{"submitted", "withdrawn", "archived", "revoked"} -> SUBSET Uids]
      /\ \A v \in DOMAIN workers : Loops(v) => InHand(v) # 0
  BY DEF TypeInv, TypeOK, Loops
<1>p. /\ items.submitted = 1 .. (FreshUid - 1)
      /\ rep.single => rep.item.uid = FreshUid
      /\ items.withdrawn \cup items.revoked \cup items.archived \subseteq items.submitted
      /\ Pending(q) \subseteq items.submitted \ (items.withdrawn \cup items.revoked)
      /\ \A v \in DOMAIN workers :
           /\ InHand(v) # 0 => InHand(v) \in items.submitted \ (items.withdrawn \cup items.revoked \cup Pending(q))
           /\ Loops(v) => InHand(v) \in items.archived
      /\ \A v, u \in DOMAIN workers : InHand(v) = InHand(u) /\ InHand(v) # 0 => v = u
  BY DEF PlaceInv, Gone
<1>q. ASSUME items'.submitted = items.submitted,
             items'.withdrawn \cup items'.revoked \cup items'.archived \subseteq items'.submitted,
             Pending(q') \subseteq items'.submitted \ (items'.withdrawn \cup items'.revoked),
             \A v \in DOMAIN workers :
               /\ InHand(v)' # 0 => InHand(v)' \in items'.submitted \ (items'.withdrawn \cup items'.revoked \cup Pending(q'))
               /\ Loops(v)' => InHand(v)' \in items'.archived,
             \A v, u \in DOMAIN workers : InHand(v)' = InHand(u)' /\ InHand(v)' # 0 => v = u
      PROVE  PlaceInv'
  <2>1. FreshUid' = FreshUid
    BY <1>q DEF FreshUid
  <2> QED
    BY <1>0, <1>p, <1>q, <2>1 DEF PlaceInv, Gone
<1> HIDE DEF InHand, Loops
<1>1. CASE Keeps(w)
  <2>1. /\ items' = items /\ Pending(q') = Pending(q)
        /\ \A v \in DOMAIN workers : InHand(v)' = InHand(v) /\ (Loops(v)' <=> Loops(v))
    BY <1>0, <1>1 DEF Keeps
  <2> QED
    BY <1>p, <1>q, <2>1
<1>2. CASE Takes(w)
  <2>1. /\ items' = items /\ InHand(w)' \in Pending(q) /\ ~Loops(w)'
        /\ Pending(q') = Pending(q) \ {InHand(w)'}
    BY <1>2 DEF Takes
  <2>2. \A v \in DOMAIN workers :
          /\ InHand(v)' # 0 => InHand(v)' \in items'.submitted \ (items'.withdrawn \cup items'.revoked \cup Pending(q'))
          /\ Loops(v)' => InHand(v)' \in items'.archived
    <3> SUFFICES ASSUME NEW v \in DOMAIN workers
                 PROVE  /\ InHand(v)' # 0 => InHand(v)' \in items'.submitted \ (items'.withdrawn \cup items'.revoked \cup Pending(q'))
                        /\ Loops(v)' => InHand(v)' \in items'.archived
      OBVIOUS
    <3>1. CASE v = w
      BY <1>0, <1>p, <2>1, <3>1
    <3>2. CASE v # w
      <4>1. InHand(v)' = InHand(v) /\ (Loops(v)' <=> Loops(v)) /\ (InHand(v) # 0 => InHand(v) # InHand(w))
        BY <1>0, <1>p, <3>2
      <4>2. /\ InHand(v) # 0 => InHand(v) \in items.submitted \ (items.withdrawn \cup items.revoked \cup Pending(q))
            /\ Loops(v) => InHand(v) \in items.archived
        BY <1>p
      <4> QED
        BY <2>1, <4>1, <4>2
    <3> QED
      BY <3>1, <3>2
  <2>3. \A v, u \in DOMAIN workers : InHand(v)' = InHand(u)' /\ InHand(v)' # 0 => v = u
    BY <1>0, <1>p, <2>1
  <2> QED
    BY <1>p, <1>q, <2>1, <2>2, <2>3
<1>3. CASE Records(w)
  <2>1. /\ items'.submitted = items.submitted /\ items'.withdrawn = items.withdrawn /\ items'.revoked = items.revoked
        /\ items'.archived = items.archived \cup {InHand(w)}
        /\ Pending(q') = Pending(q) /\ InHand(w) # 0
        /\ InHand(w)' = 0 \/ (InHand(w)' = InHand(w) /\ Loops(w)')
    BY <1>3, <1>t DEF Records
  <2>2. Loops(w)' => InHand(w)' = InHand(w)
    BY <2>1 DEF Loops
  <2> QED
    BY <1>0, <1>p, <1>q, <2>1, <2>2
<1>4. CASE Loses(w)
  <2>1. /\ items'.submitted = items.submitted /\ items'.withdrawn = items.withdrawn /\ items'.archived = items.archived
        /\ items'.revoked = items.revoked \cup {InHand(w)}
        /\ Pending(q') = Pending(q) /\ InHand(w) # 0 /\ InHand(w)' = 0
    BY <1>4, <1>t DEF Loses
  <2>2. ~Loops(w)'
    BY <2>1 DEF Loops
  <2> QED
    BY <1>0, <1>p, <1>q, <2>1, <2>2
<1>5. CASE LetsGo(w)
  <2>1. /\ items' = items /\ Loops(w) /\ InHand(w) # 0 /\ InHand(w)' = 0
        /\ Pending(q') = Pending(q) \/ Pending(q') = Pending(q) \cup {InHand(w)}
    BY <1>5, <1>0, <1>t DEF LetsGo
  <2>2. ~Loops(w)'
    BY <2>1 DEF Loops
  <2>3. \A v \in DOMAIN workers :
          /\ InHand(v)' # 0 => InHand(v)' \in items'.submitted \ (items'.withdrawn \cup items'.revoked \cup Pending(q'))
          /\ Loops(v)' => InHand(v)' \in items'.archived
    <3> SUFFICES ASSUME NEW v \in DOMAIN workers
                 PROVE  /\ InHand(v)' # 0 => InHand(v)' \in items'.submitted \ (items'.withdrawn \cup items'.revoked \cup Pending(q'))
                        /\ Loops(v)' => InHand(v)' \in items'.archived
      OBVIOUS
    <3>1. CASE v = w
      BY <1>0, <1>p, <2>1, <2>2, <3>1
    <3>2. CASE v # w
      <4>1. InHand(v)' = InHand(v) /\ (Loops(v)' <=> Loops(v)) /\ (InHand(v) # 0 => InHand(v) # InHand(w))
        BY <1>0, <1>p, <3>2
      <4>2. /\ InHand(v) # 0 => InHand(v) \in items.submitted \ (items.withdrawn \cup items.revoked \cup Pending(q))
            /\ Loops(v) => InHand(v) \in items.archived
        BY <1>p
      <4> QED
        BY <2>1, <2>2, <4>1, <4>2
    <3> QED
      BY <3>1, <3>2
  <2>4. \A v, u \in DOMAIN workers : InHand(v)' = InHand(u)' /\ InHand(v)' # 0 => v = u
    BY <1>0, <1>p, <2>1
  <2>5. PlaceInv'
    <3>1. /\ items'.submitted = items.submitted
          /\ items'.withdrawn \cup items'.revoked \cup items'.archived \subseteq items'.submitted
      BY <1>p, <2>1
    <3>2. Pending(q') \subseteq items'.submitted \ (items'.withdrawn \cup items'.revoked)
      <4>1. InHand(w) \in items.submitted \ (items.withdrawn \cup items.revoked)
        BY <1>0, <1>p, <2>1
      <4> QED
        BY <1>p, <2>1, <4>1
    <3> QED
      BY <1>q, <2>3, <2>4, <3>1, <3>2
  <2> QED
    BY <2>5
<1> QED
  BY <1>1, <1>2, <1>3, <1>4, <1>5 DEF WorkerShape

(* A worker's step leaves the stage of every other item alone. *)
LEMMA OtherStages ==
    ASSUME TypeInv, NEW w, WorkerMoves(w), NEW uid \in Uids,
           uid \notin {InHand(w), InHand(w)'},
           uid \in Pending(q) <=> uid \in Pending(q'),
           uid \in Gone <=> uid \in Gone',
           uid \in items.archived <=> uid \in items'.archived,
           items'.submitted = items.submitted
    PROVE  LedgerStage(uid)' = LedgerStage(uid)
<1>1. \A v : v \in Holders(uid) <=> v \in DOMAIN workers /\ InHand(v) = uid /\ ~Loops(v)
  BY HolderHands
<1>2. \A v : v \in Holders(uid)' <=> v \in DOMAIN workers' /\ InHand(v)' = uid /\ ~Loops(v)'
  BY ServerAssumption DEF Holders, InHand, Loops, Holding, Uids
<1>3. DOMAIN workers' = DOMAIN workers /\ \A v \in DOMAIN workers : v # w => workers'[v] = workers[v]
  BY DEF WorkerMoves
<1>4. \A v : v \in Holders(uid) <=> v \in Holders(uid)'
  BY <1>1, <1>2, <1>3, OtherHands
<1>5. \A v \in Holders(uid) : workers'[v].aborted = workers[v].aborted
  BY <1>1, <1>3
<1> QED
  BY <1>4, <1>5, StageSame

LEMMA WorkerLedger ==
    ASSUME ServerInv, PlaceInv, RegInv, PlaceInv', NEW w, WorkerShape(w)
    PROVE  Ledger!LedgerNext \/ UNCHANGED [uid \in Uids |-> LedgerStage(uid)]
<1>0. /\ TypeInv /\ WorkerMoves(w) /\ w \in DOMAIN workers /\ DOMAIN workers' = DOMAIN workers
      /\ workers'[w].aborted = workers[w].aborted
      /\ \A v \in DOMAIN workers : v # w => workers'[v] = workers[v]
      /\ items \in [{"submitted", "withdrawn", "archived", "revoked"} -> SUBSET Uids]
  BY DEF ServerInv, TypeInv, TypeOK, WorkerShape, WorkerMoves
<1>s. items.submitted \subseteq Uids /\ items'.submitted \subseteq Uids /\ 0 \notin Uids
  <2>1. items'.submitted = items.submitted
    BY <1>0 DEF WorkerShape, Keeps, Takes, Records, Loses, LetsGo
  <2> QED
    BY <1>0, <2>1, ServerAssumption DEF Uids
<1>h. ASSUME NEW uid \in Uids, PlaceInv, InHand(w) = uid, ~Loops(w)
      PROVE  LedgerStage(uid) = IF workers[w].aborted THEN "orphan" ELSE "running"
  BY <1>0, <1>h, StageOfHeld
<1>1. CASE Keeps(w)
  <2>1. ASSUME NEW uid \in Uids PROVE LedgerStage(uid)' = LedgerStage(uid)
    <3>1. \A v \in DOMAIN workers : InHand(v)' = InHand(v) /\ (Loops(v)' <=> Loops(v))
      BY <1>0, <1>1, OtherHands DEF Keeps
    <3>2. \A v : v \in Holders(uid) <=> v \in DOMAIN workers /\ InHand(v) = uid /\ ~Loops(v)
      BY HolderHands
    <3>3. \A v : v \in Holders(uid)' <=> v \in DOMAIN workers' /\ InHand(v)' = uid /\ ~Loops(v)'
      BY ServerAssumption DEF Holders, InHand, Loops, Holding, Uids
    <3>4. \A v : v \in Holders(uid) <=> v \in Holders(uid)'
      BY <1>0, <3>1, <3>2, <3>3
    <3>5. \A v \in Holders(uid) : workers'[v].aborted = workers[v].aborted
      BY <1>0, <3>2
    <3> QED
      BY <1>1, <3>4, <3>5, StageSame DEF Keeps, Gone
  <2> QED
    BY <2>1, LedgerStutters
<1>n. ASSUME NEW uid \in Uids, NEW v
      PROVE  v \in Holders(uid)' <=> v \in DOMAIN workers' /\ InHand(v)' = uid /\ ~Loops(v)'
  BY ServerAssumption DEF Holders, InHand, Loops, Holding, Uids
<1>2. CASE Takes(w)
  <2>0. PICK u : u = InHand(w)'
    OBVIOUS
  <2>1. /\ items' = items /\ u \in Pending(q) /\ ~Loops(w)' /\ InHand(w) = 0
        /\ Pending(q') = Pending(q) \ {u}
    BY <1>2, <2>0 DEF Takes
  <2>2. u \in Uids
    BY <1>s, <2>1 DEF PlaceInv
  <2>3. LedgerStage(u) = "pending"
    BY <2>1, StageOfPending
  <2>4. Holders(u)' = {w}
    <3>1. \A v \in DOMAIN workers' : InHand(v)' = u => v = w
      BY <1>0, <1>s, <2>0, <2>2 DEF PlaceInv
    <3>2. \A v : v \in Holders(u)' <=> v = w
      BY <1>0, <1>n, <2>0, <2>1, <2>2, <3>1
    <3> QED
      BY <3>2
  <2>5. LedgerStage(u)' = IF workers[w].aborted THEN "orphan" ELSE "running"
    BY <1>0, <2>1, <2>4 DEF LedgerStage
  <2>6. ASSUME NEW uid \in Uids \ {u} PROVE LedgerStage(uid)' = LedgerStage(uid)
    <3>1. uid \notin {InHand(w), InHand(w)'} /\ (uid \in Pending(q) <=> uid \in Pending(q'))
      BY <1>s, <2>0, <2>1, <2>6
    <3> QED
      BY <1>0, <2>1, <3>1, OtherStages DEF Gone
  <2>7. CASE workers[w].aborted
    <3>1. Ledger!Moves({u}, "pending", "orphan")
      BY <2>2, <2>3, <2>5, <2>6, <2>7, LedgerMoves
    <3> QED
      BY <2>2, <3>1 DEF Ledger!LedgerNext, Ledger!Force
  <2>8. CASE ~workers[w].aborted
    <3>1. Ledger!Moves({u}, "pending", "running")
      BY <2>2, <2>3, <2>5, <2>6, <2>8, LedgerMoves
    <3>2. ASSUME NEW uid \in Uids PROVE LedgerStage(uid) # "running"
      <4>1. SUFFICES ASSUME LedgerStage(uid) = "running" PROVE FALSE
        OBVIOUS
      <4>2. PICK v \in Holders(uid) : ~workers[v].aborted
        BY <4>1, RunningIsHeld
      <4>3. v \in DOMAIN workers /\ workers[v].pc \notin Leaving /\ InHand(v) = uid
        BY HolderHands DEF Holders, Holding, Leaving
      <4>4. workers[w].pc \notin Leaving
        BY <1>0, <1>s, <2>0, <2>2 DEF WorkerMoves, InHand, Holding
      <4>5. v = w
        BY <1>0, <2>8, <4>2, <4>3, <4>4, OneUnforced
      <4> QED
        BY <1>s, <2>1, <4>3, <4>5
    <3> QED
      BY <2>2, <3>1, <3>2 DEF Ledger!LedgerNext, Ledger!Start, Ledger!InStage
  <2> QED
    BY <2>7, <2>8
<1>r. ASSUME NEW u \in Uids, InHand(w) = u, ~Loops(w),
             InHand(w)' = 0 \/ Loops(w)',
             Gone' \cup items'.archived \subseteq items'.submitted, Pending(q') = Pending(q)
      PROVE  /\ LedgerStage(u) \in {"running", "orphan"}
             /\ workers[w].aborted => LedgerStage(u) = "orphan"
             /\ u \in Gone' => LedgerStage(u)' = "gone"
             /\ u \in items'.archived \ Gone' => LedgerStage(u)' = "done"
  <2>1. /\ LedgerStage(u) \in {"running", "orphan"}
        /\ workers[w].aborted => LedgerStage(u) = "orphan"
    BY <1>0, <1>r, <1>h
  <2>2. u \notin Pending(q')
    BY <1>0, <1>r, <1>s DEF PlaceInv
  <2>3. \A v : v \notin Holders(u)'
    <3> SUFFICES ASSUME NEW v, v \in Holders(u)' PROVE FALSE
      OBVIOUS
    <3>1. v \in DOMAIN workers /\ InHand(v)' = u /\ ~Loops(v)'
      BY <1>0, <1>n
    <3>2. v # w
      BY <1>r, <1>s, <3>1
    <3>3. InHand(v) = u
      BY <1>0, <3>1, <3>2, OtherHands
    <3> QED
      BY <1>0, <1>r, <1>s, <3>1, <3>2, <3>3 DEF PlaceInv
  <2>4. Holders(u)' = {}
    BY <2>3
  <2>5. ASSUME u \in items'.withdrawn \cup items'.revoked PROVE LedgerStage(u)' = "gone"
    BY <1>r, <2>2, <2>4, <2>5 DEF LedgerStage, Gone
  <2>6. ASSUME u \notin items'.withdrawn \cup items'.revoked, u \in items'.archived PROVE LedgerStage(u)' = "done"
    BY <1>r, <2>2, <2>4, <2>6 DEF LedgerStage, Gone
  <2> QED
    BY <2>1, <2>5, <2>6 DEF Gone
<1>g. Gone' \cup items'.archived \subseteq items'.submitted
  BY DEF PlaceInv
<1>3. CASE Records(w)
  <2>0. PICK u : u = InHand(w)
    OBVIOUS
  <2>1. /\ items'.submitted = items.submitted /\ items'.withdrawn = items.withdrawn /\ items'.revoked = items.revoked
        /\ items'.archived = items.archived \cup {u}
        /\ Pending(q') = Pending(q) /\ u # 0 /\ ~Loops(w)
        /\ InHand(w)' = 0 \/ (InHand(w)' = u /\ Loops(w)')
    BY <1>0, <1>3, <2>0 DEF Records
  <2>2. u \in Uids /\ u \notin Gone' /\ Gone' = Gone
    BY <1>0, <1>s, <2>0, <2>1 DEF PlaceInv, Gone
  <2>3. LedgerStage(u) \in {"running", "orphan"} /\ LedgerStage(u)' = "done"
    BY <1>r, <1>g, <2>0, <2>1, <2>2
  <2>4. ASSUME NEW uid \in Uids \ {u} PROVE LedgerStage(uid)' = LedgerStage(uid)
    <3>1. uid \notin {InHand(w), InHand(w)'} /\ (uid \in items.archived <=> uid \in items'.archived)
      BY <1>s, <2>0, <2>1, <2>4
    <3> QED
      BY <1>0, <2>1, <2>2, <3>1, OtherStages
  <2>5. Ledger!Moves({u}, LedgerStage(u), "done")
    BY <2>2, <2>3, <2>4, LedgerMoves
  <2> QED
    BY <2>2, <2>3, <2>5 DEF Ledger!LedgerNext, Ledger!Finish
<1>4. CASE Loses(w)
  <2>0. PICK u : u = InHand(w)
    OBVIOUS
  <2>1. /\ items'.submitted = items.submitted /\ items'.withdrawn = items.withdrawn /\ items'.archived = items.archived
        /\ items'.revoked = items.revoked \cup {u}
        /\ Pending(q') = Pending(q) /\ u # 0 /\ ~Loops(w) /\ InHand(w)' = 0 /\ workers[w].aborted
    BY <1>0, <1>4, <2>0 DEF Loses
  <2>2. u \in Uids /\ u \in Gone'
    BY <1>0, <1>s, <2>0, <2>1 DEF PlaceInv, Gone
  <2>3. LedgerStage(u) = "orphan" /\ LedgerStage(u)' = "gone"
    BY <1>r, <1>g, <2>0, <2>1, <2>2
  <2>4. ASSUME NEW uid \in Uids \ {u} PROVE LedgerStage(uid)' = LedgerStage(uid)
    <3>1. uid \notin {InHand(w), InHand(w)'} /\ (uid \in Gone <=> uid \in Gone')
      BY <1>s, <2>0, <2>1, <2>4 DEF Gone
    <3> QED
      BY <1>0, <2>1, <3>1, OtherStages
  <2>5. Ledger!Moves({u}, "orphan", "gone")
    BY <2>2, <2>3, <2>4, LedgerMoves
  <2> QED
    BY <2>2, <2>5 DEF Ledger!LedgerNext, Ledger!Lose
<1>5. CASE LetsGo(w)
  <2>0. PICK u : u = InHand(w)
    OBVIOUS
  <2>1. /\ items' = items /\ Loops(w) /\ u # 0 /\ InHand(w)' = 0
        /\ Pending(q') = Pending(q) \/ Pending(q') = Pending(q) \cup {u}
    BY <1>5, <2>0 DEF LetsGo, Loops
  <2>2. u \in Uids /\ u \in items.archived \ Gone /\ u \notin Pending(q)
    BY <1>0, <1>s, <2>0, <2>1 DEF PlaceInv
  <2>3. \A v \in DOMAIN workers : InHand(v) = u => Loops(v)
    BY <1>0, <2>0, <2>1 DEF PlaceInv
  <2>4. LedgerStage(u) = "done"
    BY <2>2, <2>3, StageOfRest DEF PlaceInv
  <2>5. ASSUME NEW uid \in Uids \ {u} PROVE LedgerStage(uid)' = LedgerStage(uid)
    <3>1. uid \notin {InHand(w), InHand(w)'} /\ (uid \in Pending(q) <=> uid \in Pending(q'))
      BY <1>s, <2>0, <2>1, <2>5
    <3> QED
      BY <1>0, <2>1, <3>1, OtherStages DEF Gone
  <2>6. CASE Pending(q') = Pending(q) \cup {u}
    <3>1. LedgerStage(u)' = "pending"
      BY <2>6 DEF LedgerStage
    <3>2. Ledger!Moves({u}, "done", "pending")
      BY <2>2, <2>4, <2>5, <3>1, LedgerMoves
    <3> QED
      BY <2>2, <3>2 DEF Ledger!LedgerNext, Ledger!Repeat
  <2>7. CASE Pending(q') = Pending(q)
    <3>1. \A v : v \notin Holders(u)'
      <4> SUFFICES ASSUME NEW v, v \in Holders(u)' PROVE FALSE
        OBVIOUS
      <4>1. v \in DOMAIN workers /\ InHand(v)' = u /\ ~Loops(v)'
        BY <1>0, <1>n, <2>2
      <4>2. v # w
        BY <2>1, <4>1
      <4>3. InHand(v) = u
        BY <1>0, <4>1, <4>2, OtherHands
      <4> QED
        BY <1>0, <2>0, <2>1, <4>1, <4>2, <4>3 DEF PlaceInv
    <3>2. Holders(u)' = {}
      BY <3>1
    <3>3. /\ u \notin Pending(q') /\ u \notin items'.withdrawn \cup items'.revoked
          /\ u \in items'.archived /\ u \in items'.submitted
      BY <1>g, <2>1, <2>2, <2>7 DEF Gone
    <3>4. LedgerStage(u)' = "done"
      BY <3>2, <3>3 DEF LedgerStage
    <3> QED
      BY <2>4, <2>5, <3>4, LedgerStutters
  <2> QED
    BY <2>1, <2>6, <2>7
<1> QED
  BY <1>1, <1>2, <1>3, <1>4, <1>5 DEF WorkerShape

-----------------------------------------------------------------------------
(* Steps of the other threads.  The workers keep their items; at most one  *)
(* of them is told to stop.                                                *)

LEMMA FreshCount ==
    ASSUME NEW n \in Nat, items'.submitted = 1 .. n
    PROVE  FreshUid' = n + 1
<1>1. Cardinality(1 .. n) = n
  BY FS_Interval
<1> QED
  BY <1>1 DEF FreshUid

LEMMA KeptHands ==
    ASSUME WorkersKept
    PROVE  \A w \in DOMAIN workers : InHand(w)' = InHand(w) /\ (Loops(w)' <=> Loops(w))
BY DEF WorkersKept, InHand, Loops

LEMMA KeptPlaces ==
    ASSUME PlaceInv, WorkersKept, Distinct(q'),
           rep'.single => rep'.item.uid = FreshUid',
           items'.submitted = 1 .. (FreshUid' - 1), items.submitted \subseteq items'.submitted,
           items'.archived = items.archived, items'.revoked = items.revoked,
           items'.withdrawn \subseteq items.withdrawn \cup Pending(q),
           Pending(q') \subseteq (Pending(q) \cup (items'.submitted \ items.submitted)) \ items'.withdrawn
    PROVE  PlaceInv'
<1>1. DOMAIN workers' = DOMAIN workers /\ \A w \in DOMAIN workers : InHand(w)' = InHand(w) /\ (Loops(w)' <=> Loops(w))
  BY KeptHands DEF WorkersKept
<1>2. Gone' \cup items'.archived \subseteq items'.submitted
  BY DEF PlaceInv, Gone
<1>3. Pending(q') \subseteq items'.submitted \ Gone'
  BY DEF PlaceInv, Gone
<1>4. ASSUME NEW w \in DOMAIN workers
      PROVE  /\ InHand(w) # 0 => InHand(w) \in items'.submitted \ (Gone' \cup Pending(q'))
             /\ Loops(w) => InHand(w) \in items'.archived
  BY DEF PlaceInv, Gone
<1>5. \A v, w \in DOMAIN workers : InHand(v) = InHand(w) /\ InHand(v) # 0 => v = w
  BY DEF PlaceInv
<1>6. \A w \in DOMAIN workers' :
        /\ InHand(w)' # 0 => InHand(w)' \in items'.submitted \ (Gone' \cup Pending(q'))
        /\ Loops(w)' => InHand(w)' \in items'.archived
  BY <1>1, <1>4
<1>7. \A v, w \in DOMAIN workers' : InHand(v)' = InHand(w)' /\ InHand(v)' # 0 => v = w
  BY <1>1, <1>5
<1> QED
  BY <1>2, <1>3, <1>6, <1>7 DEF PlaceInv

LEMMA KeptHolders ==
    ASSUME WorkersKept, NEW uid
    PROVE  Holders(uid)' = Holders(uid)
BY DEF WorkersKept, Holders

LEMMA KeptStages ==
    ASSUME WorkersKept, NEW uid \in Uids,
           \A w \in Holders(uid) : workers'[w].aborted = workers[w].aborted,
           uid \in Pending(q) <=> uid \in Pending(q'),
           uid \in Gone <=> uid \in Gone',
           items'.archived = items.archived,
           uid \in items.submitted <=> uid \in items'.submitted
    PROVE  LedgerStage(uid)' = LedgerStage(uid)
<1>1. \A w : w \in Holders(uid) <=> w \in Holders(uid)'
  BY KeptHolders
<1> QED
  BY <1>1, StageSame

(* No uid is submitted, withdrawn or moved between queue and workers: what *)
(* is left is that a worker may be told to stop.                           *)
Quiet ==
  /\ WorkersKept /\ Pending(q') = Pending(q) /\ Distinct(q') /\ items' = items
  /\ rep'.single => rep'.item.uid = FreshUid
  /\ \E g : \A w \in DOMAIN workers :
       workers'[w].aborted = workers[w].aborted \/ (w = g /\ workers'[w].aborted = TRUE)

LEMMA QuietPlaces ==
    ASSUME PlaceInv, Quiet
    PROVE  PlaceInv'
<1>1. items' = items /\ FreshUid' = FreshUid
  BY DEF Quiet, FreshUid
<1>2. /\ items.submitted = 1 .. (FreshUid - 1) /\ Pending(q) \cap items.withdrawn = {}
  BY DEF PlaceInv, Gone
<1> QED
  BY <1>1, <1>2, KeptPlaces DEF Quiet

LEMMA QuietLedger ==
    ASSUME PlaceInv, Quiet, TypeInv
    PROVE  Ledger!LedgerNext \/ UNCHANGED [uid \in Uids |-> LedgerStage(uid)]
<1>0. WorkersKept /\ Pending(q') = Pending(q) /\ items' = items /\ Gone' = Gone
  BY DEF Quiet, Gone
<1>1. PICK g : \A w \in DOMAIN workers :
        workers'[w].aborted = workers[w].aborted \/ (w = g /\ workers'[w].aborted = TRUE)
  BY DEF Quiet
<1>2. ASSUME NEW uid \in Uids, g \notin Holders(uid) \/ workers[g].aborted
      PROVE  LedgerStage(uid)' = LedgerStage(uid)
  <2>1. \A w \in Holders(uid) : w \in DOMAIN workers /\ workers[w].aborted \in BOOLEAN
    <3>1. workers \in Seq(Workers) /\ \A w \in Holders(uid) : w \in DOMAIN workers
      BY DEF Holders, TypeInv, TypeOK
    <3>2. \A w \in Holders(uid) : workers[w] \in Workers
      BY <3>1
    <3> QED
      BY <3>1, <3>2 DEF Workers
  <2>2. \A w \in Holders(uid) : workers'[w].aborted = workers[w].aborted
    BY <1>1, <1>2, <2>1
  <2> QED
    BY <1>0, <2>2, KeptStages
<1>3. CASE \A uid \in Uids : g \notin Holders(uid) \/ workers[g].aborted
  BY <1>2, <1>3, LedgerStutters
<1>4. CASE \E uid \in Uids : g \in Holders(uid) /\ ~workers[g].aborted
  <2>1. PICK u \in Uids : g \in Holders(u) /\ ~workers[g].aborted
    BY <1>4
  <2>2. g \in DOMAIN workers /\ InHand(g) = u /\ ~Loops(g)
    BY <2>1, HolderHands
  <2>3. \A uid \in Uids \ {u} : g \notin Holders(uid)
    BY <2>2, HolderHands
  <2>4. LedgerStage(u) = "running"
    BY <2>1, <2>2, StageOfHeld
  <2>5. CASE workers'[g].aborted = TRUE
    <3>1. Holders(u)' = Holders(u) /\ u \notin Pending(q')
      BY <1>0, <2>2, KeptHolders, ServerAssumption DEF PlaceInv, Uids
    <3>2. LedgerStage(u)' = "orphan"
      BY <2>1, <2>5, <3>1 DEF LedgerStage
    <3>3. Ledger!Moves({u}, "running", "orphan")
      BY <1>2, <2>3, <2>4, <3>2, LedgerMoves
    <3> QED
      BY <3>3 DEF Ledger!LedgerNext, Ledger!Force
  <2>6. CASE workers'[g].aborted # TRUE
    <3>1. \A w \in Holders(u) : workers'[w].aborted = workers[w].aborted
      BY <1>1, <2>6 DEF Holders
    <3>2. LedgerStage(u)' = LedgerStage(u)
      BY <1>0, <3>1, KeptStages
    <3> QED
      BY <1>2, <2>3, <3>2, LedgerStutters
  <2> QED
    BY <2>5, <2>6
<1> QED
  BY <1>3, <1>4

(* The steps that only change pending items and what clients submitted or  *)
(* withdrew.                                                               *)
Submits(U) ==
  /\ U # {} /\ U \cap items.submitted = {}
  /\ items'.submitted = items.submitted \cup U /\ items'.withdrawn = items.withdrawn
  /\ Pending(q') = Pending(q) \cup U
Withdraws(U) ==
  /\ U \subseteq Pending(q)
  /\ items'.submitted = items.submitted /\ items'.withdrawn = items.withdrawn \cup U
  /\ Pending(q') = Pending(q) \ U
Replaces(u, v) ==
  /\ u \in Pending(q) /\ v \notin items.submitted
  /\ items'.submitted = items.submitted \cup {v} /\ items'.withdrawn = items.withdrawn \cup {u}
  /\ Pending(q') = (Pending(q) \ {u}) \cup {v}

Edits ==
  /\ UNCHANGED workers /\ ~rep'.single /\ Distinct(q')
  /\ items' \in [{"submitted", "withdrawn", "archived", "revoked"} -> SUBSET Uids]
  /\ items'.submitted = 1 .. (FreshUid' - 1)
  /\ items'.archived = items.archived /\ items'.revoked = items.revoked

LEMMA EditPlaces ==
    ASSUME TypeInv, PlaceInv, Edits,
           (\E U : Submits(U) \/ Withdraws(U)) \/ (\E u, v : Replaces(u, v))
    PROVE  PlaceInv'
<1>0. WorkersKept
  BY SameWorkersKept DEF TypeInv, Edits
<1>p. Pending(q) \subseteq items.submitted \ items.withdrawn /\ items.withdrawn \subseteq items.submitted
  BY DEF PlaceInv, Gone
<1>1. ASSUME NEW U, Submits(U) PROVE PlaceInv'
  <2>1. Pending(q') \subseteq (Pending(q) \cup (items'.submitted \ items.submitted)) \ items'.withdrawn
    BY <1>p, <1>1 DEF Submits
  <2> QED
    BY <1>0, <1>1, <2>1, KeptPlaces DEF Submits, Edits
<1>2. ASSUME NEW U, Withdraws(U) PROVE PlaceInv'
  <2>1. Pending(q') \subseteq (Pending(q) \cup (items'.submitted \ items.submitted)) \ items'.withdrawn
    BY <1>p, <1>2 DEF Withdraws
  <2> QED
    BY <1>0, <1>2, <2>1, KeptPlaces DEF Withdraws, Edits
<1>3. ASSUME NEW u, NEW v, Replaces(u, v) PROVE PlaceInv'
  <2>1. Pending(q') \subseteq (Pending(q) \cup (items'.submitted \ items.submitted)) \ items'.withdrawn
    BY <1>p, <1>3 DEF Replaces
  <2> QED
    BY <1>0, <1>3, <2>1, KeptPlaces DEF Replaces, Edits
<1> QED
  BY <1>1, <1>2, <1>3

LEMMA EditLedger ==
    ASSUME TypeInv, PlaceInv, Edits,
           (\E U : Submits(U) \/ Withdraws(U)) \/ (\E u, v : Replaces(u, v))
    PROVE  Ledger!LedgerNext \/ UNCHANGED [uid \in Uids |-> LedgerStage(uid)]
<1>0. WorkersKept /\ workers' = workers
  BY SameWorkersKept DEF TypeInv, Edits
<1>u. items.submitted \subseteq Uids /\ items'.submitted \subseteq Uids
  BY DEF TypeInv, TypeOK, Edits
<1>p. /\ Pending(q) \subseteq items.submitted \ Gone /\ Gone \cup items.archived \subseteq items.submitted
      /\ \A w \in DOMAIN workers : InHand(w) # 0 => InHand(w) \in items.submitted \ Pending(q)
  BY DEF PlaceInv
<1>h. ASSUME NEW uid \in Uids, uid \in Pending(q) \/ uid \notin items.submitted PROVE Holders(uid) = {} /\ Holders(uid)' = {}
  <2>1. \A w : w \notin Holders(uid)
    BY <1>p, <1>h, HolderHands, ServerAssumption DEF Uids
  <2> QED
    BY <1>0, <2>1, KeptHolders
<1>n. ASSUME NEW uid \in Uids, uid \notin items.submitted PROVE LedgerStage(uid) = "none"
  <2>1. uid \notin Pending(q) /\ \A w \in DOMAIN workers : InHand(w) = uid => Loops(w)
    BY <1>p, <1>n, ServerAssumption DEF Uids
  <2> QED
    BY <1>p, <1>n, <2>1, StageOfRest
<1>s. ASSUME NEW uid \in Uids, uid \in Pending(q) <=> uid \in Pending(q'),
             uid \in items.withdrawn <=> uid \in items'.withdrawn,
             uid \in items.submitted <=> uid \in items'.submitted
      PROVE  LedgerStage(uid)' = LedgerStage(uid)
  BY <1>0, <1>s, KeptStages DEF Gone, Edits
<1>g. ASSUME NEW uid \in Uids, uid \in Pending(q), uid \notin Pending(q'), uid \in items'.withdrawn, uid \in items'.submitted
      PROVE  LedgerStage(uid)' = "gone"
  BY <1>g, <1>h DEF LedgerStage
<1>q. ASSUME NEW uid \in Pending(q') PROVE LedgerStage(uid)' = "pending"
  BY DEF LedgerStage
<1>1. ASSUME NEW U, Submits(U) PROVE Ledger!LedgerNext
  <2>1. /\ U # {} /\ U \subseteq Uids /\ \A uid \in U : uid \notin items.submitted /\ uid \in Pending(q')
        /\ \A uid \in Uids \ U : /\ uid \in Pending(q) <=> uid \in Pending(q')
                                 /\ uid \in items.withdrawn <=> uid \in items'.withdrawn
                                 /\ uid \in items.submitted <=> uid \in items'.submitted
    BY <1>1, <1>u DEF Submits
  <2>2. \A uid \in U : LedgerStage(uid) = "none" /\ LedgerStage(uid)' = "pending"
    BY <1>n, <1>q, <2>1
  <2>3. \A uid \in Uids \ U : LedgerStage(uid)' = LedgerStage(uid)
    BY <1>s, <2>1
  <2>4. Ledger!Moves(U, "none", "pending")
    BY <2>1, <2>2, <2>3, LedgerMoves
  <2> QED
    BY <2>4 DEF Ledger!LedgerNext, Ledger!Submit, Ledger!Moves
<1>2. ASSUME NEW U, Withdraws(U) PROVE Ledger!LedgerNext \/ UNCHANGED [uid \in Uids |-> LedgerStage(uid)]
  <2>1. /\ U \subseteq Uids
        /\ \A uid \in U : uid \in Pending(q) /\ uid \notin Pending(q') /\ uid \in items'.withdrawn /\ uid \in items'.submitted
        /\ \A uid \in Uids \ U : /\ uid \in Pending(q) <=> uid \in Pending(q')
                                 /\ uid \in items.withdrawn <=> uid \in items'.withdrawn
                                 /\ uid \in items.submitted <=> uid \in items'.submitted
    BY <1>2, <1>u, <1>p DEF Withdraws
  <2>2. \A uid \in U : LedgerStage(uid) = "pending" /\ LedgerStage(uid)' = "gone"
    BY <1>g, <2>1, StageOfPending
  <2>3. \A uid \in Uids \ U : LedgerStage(uid)' = LedgerStage(uid)
    BY <1>s, <2>1
  <2>4. CASE U = {}
    BY <2>3, <2>4, LedgerStutters
  <2>5. CASE U # {}
    <3>1. Ledger!Moves(U, "pending", "gone")
      BY <2>1, <2>2, <2>3, <2>5, LedgerMoves
    <3> QED
      BY <3>1 DEF Ledger!LedgerNext, Ledger!Withdraw, Ledger!Moves
  <2> QED
    BY <2>4, <2>5
<1>3. ASSUME NEW u, NEW v, Replaces(u, v) PROVE Ledger!LedgerNext
  <2>1. /\ u \in Uids /\ v \in Uids /\ u # v /\ v \notin items.submitted /\ v \in Pending(q')
        /\ u \in Pending(q) /\ u \notin Pending(q') /\ u \in items'.withdrawn /\ u \in items'.submitted
        /\ \A uid \in Uids \ {u, v} : /\ uid \in Pending(q) <=> uid \in Pending(q')
                                      /\ uid \in items.withdrawn <=> uid \in items'.withdrawn
                                      /\ uid \in items.submitted <=> uid \in items'.submitted
    BY <1>3, <1>u, <1>p DEF Replaces
  <2>2. LedgerStage(u) = "pending" /\ LedgerStage(u)' = "gone" /\ LedgerStage(v) = "none" /\ LedgerStage(v)' = "pending"
    BY <1>n, <1>q, <1>g, <2>1, StageOfPending
  <2>3. \A uid \in Uids \ {u, v} : LedgerStage(uid)' = LedgerStage(uid)
    BY <1>s, <2>1
  <2>4. Ledger!Replace
    BY <2>1, <2>2, <2>3 DEF Ledger!Replace
  <2> QED
    BY <2>4 DEF Ledger!LedgerNext
<1> QED
  BY <1>1, <1>2, <1>3

(* Quiet, or an edit of the queue. *)
QueueShape ==
  \/ Quiet
  \/ Edits /\ ((\E U : Submits(U) \/ Withdraws(U)) \/ (\E u, v : Replaces(u, v)))

LEMMA QueueShapes ==
    ASSUME TypeInv, PlaceInv, StrictMoves,
           \/ \E kind \in {"plan", "stop"}, place \in Places : QueueItemAdd(kind, place)
           \/ \E place \in Places : QueueItemAddBatchOf2(place)
           \/ \E uid \in Uids, kind \in Kinds, replace \in BOOLEAN : QueueItemUpdate(uid, kind, replace)
           \/ \E u, v \in Uids : QueueItemRemove(u, v)
           \/ QueueClear
           \/ \E uid \in Uids, place \in Places : QueueItemMove(uid, place)
           \/ \E u1, u2 \in Uids, place \in Places, reorder \in BOOLEAN :
                QueueItemMoveBatchOf2(u1, u2, place, reorder)
           \/ HistoryClear
    PROVE  QueueShape /\ rep'.pc # "register"
<1>q. /\ q \in QueueRecords /\ Distinct(q)
      /\ items \in [{"submitted", "withdrawn", "archived", "revoked"} -> SUBSET Uids]
  BY DEF TypeInv, TypeOK, QueueRecords, PlaceInv
<1>p. \A place \in Places : IsPlace(place)
  BY ServerAssumption DEF IsPlace
<1>i. \A uid \in Uids, kind \in Kinds : [uid |-> uid, kind |-> kind] \in Items
  BY DEF Items
<1>f. /\ FreshUid \in Nat \ {0} /\ MaxItems \in Nat
      /\ items.submitted = 1 .. (FreshUid - 1) /\ Pending(q) \subseteq items.submitted
  BY FreshUidNatural, ServerAssumption DEF TypeInv, PlaceInv
<1>o. FreshUid \notin items.submitted /\ FreshUid + 1 \notin items.submitted
  BY <1>f
<1>r. ASSUME NEW pc \in {"poll", "auto"}, RepGoes(pc) PROVE rep'.single = FALSE /\ rep'.pc # "register"
  BY <1>r DEF RepGoes
<1>z. ASSUME OnlyQueue, ~rep'.single, Pending(q') = Pending(q), Distinct(q'), items' = items PROVE Quiet
  <2>1. WorkersKept /\ workers' = workers
    BY <1>z, SameWorkersKept DEF OnlyQueue, TypeInv
  <2> QED
    BY <1>z, <2>1 DEF Quiet
<1>e. ASSUME OnlyQueue, ~rep'.single, Distinct(q'), NEW n \in Nat, items'.submitted = 1 .. n, n \in Uids \/ n = FreshUid - 1,
             items' = [items EXCEPT !.submitted = items'.submitted, !.withdrawn = items'.withdrawn],
             items'.withdrawn \subseteq Uids
      PROVE  Edits
  <2>1. FreshUid' = n + 1
    BY <1>e, FreshCount
  <2>2. 1 .. n \subseteq Uids
    BY <1>e, <1>f, <1>q DEF Uids
  <2> PICK S : S = items'.submitted
    OBVIOUS
  <2> PICK W : W = items'.withdrawn
    OBVIOUS
  <2>3. S \subseteq Uids /\ W \subseteq Uids /\ items' = [items EXCEPT !.submitted = S, !.withdrawn = W]
    BY <1>e, <2>2
  <2>4. /\ items' \in [{"submitted", "withdrawn", "archived", "revoked"} -> SUBSET Uids]
        /\ items'.archived = items.archived /\ items'.revoked = items.revoked
    BY <1>q, <2>3
  <2>5. items'.submitted = 1 .. (FreshUid' - 1)
    BY <1>e, <2>1
  <2> QED
    BY <1>e, <2>4, <2>5 DEF Edits, OnlyQueue
<1>1. ASSUME NEW kind \in {"plan", "stop"}, NEW place \in Places, QueueItemAdd(kind, place)
      PROVE  QueueShape /\ rep'.pc # "register"
  <2> DEFINE it == [uid |-> FreshUid, kind |-> kind]
             r == InsertPositioned(q, it, place)
  <2>1. it \in Items /\ it.uid = FreshUid /\ FreshUid \in Uids
    BY <1>1, <1>i DEF QueueItemAdd, Kinds
  <2>2. r.ok /\ q' = r.q /\ items' = [items EXCEPT !.submitted = @ \cup {FreshUid}]
    BY <1>1 DEF QueueItemAdd
  <2>0. OnlyQueue /\ RepGoes("auto")
    BY <1>1 DEF QueueItemAdd
  <2> HIDE DEF it
  <2>u. it.uid \notin Pending(q)
    BY <1>f, <1>o, <2>1
  <2>3. Pending(q') = Pending(q) \cup {FreshUid} /\ Distinct(q')
    BY <1>q, <1>p, <2>1, <2>2, <2>u, PositionedAdds DEF Extended
  <2>4. items'.submitted = items.submitted \cup {FreshUid} /\ items'.withdrawn = items.withdrawn
    BY <1>q, <2>2
  <2>5. items'.submitted = 1 .. FreshUid
    BY <1>f, <2>4
  <2>6. items' = [items EXCEPT !.submitted = items'.submitted, !.withdrawn = items'.withdrawn]
    BY <1>q, <2>2
  <2>7. Edits
    BY <1>e, <1>f, <1>q, <1>r, <2>0, <2>1, <2>3, <2>4, <2>5, <2>6
  <2>8. Submits({FreshUid})
    BY <1>o, <2>3, <2>4 DEF Submits
  <2> QED
    BY <1>r, <2>0, <2>7, <2>8 DEF QueueShape
<1>2. ASSUME NEW place \in Places, QueueItemAddBatchOf2(place)
      PROVE  QueueShape /\ rep'.pc # "register"
  <2> DEFINE a == [uid |-> FreshUid, kind |-> "plan"]
             b == [uid |-> FreshUid + 1, kind |-> "plan"]
             r == QueueItemAddBatch(q, a, b, place)
  <2>n. ASSUME NEW n \in Nat \ {0}, n + 1 \in Uids PROVE n \in Uids
    BY <1>f, <2>n DEF Uids
  <2>m. FreshUid \in Uids /\ FreshUid + 1 \in Uids /\ FreshUid # FreshUid + 1
    BY <1>2, <1>f, <2>n DEF QueueItemAddBatchOf2
  <2>1. a \in Items /\ b \in Items /\ a.uid = FreshUid /\ b.uid = FreshUid + 1
    BY <1>i, <2>m DEF Kinds
  <2>2. r.ok /\ q' = r.q /\ items' = [items EXCEPT !.submitted = @ \cup {FreshUid, FreshUid + 1}]
    BY <1>2 DEF QueueItemAddBatchOf2
  <2>0. OnlyQueue /\ RepGoes("auto")
    BY <1>2 DEF QueueItemAddBatchOf2
  <2> HIDE DEF a, b
  <2>u. {a.uid, b.uid} \cap Pending(q) = {} /\ a.uid # b.uid
    BY <1>f, <1>o, <2>1, <2>m
  <2>e. Extended(q, r.q, {a.uid, b.uid}) /\ Distinct(r.q)
    BY <1>q, <1>p, <2>1, <2>2, <2>u, AddBatchAdds
  <2>3. Pending(q') = Pending(q) \cup {FreshUid, FreshUid + 1} /\ Distinct(q')
    BY <2>1, <2>2, <2>e DEF Extended
  <2>4. items'.submitted = items.submitted \cup {FreshUid, FreshUid + 1} /\ items'.withdrawn = items.withdrawn
    BY <1>q, <2>2
  <2>5. items'.submitted = 1 .. (FreshUid + 1)
    BY <1>f, <2>4
  <2>6. items' = [items EXCEPT !.submitted = items'.submitted, !.withdrawn = items'.withdrawn]
    BY <1>q, <2>2
  <2>w. FreshUid + 1 \in Nat /\ items'.withdrawn \subseteq Uids
    BY <1>f, <1>q, <2>4
  <2>x. ~rep'.single
    BY <1>r, <2>0
  <2>7. Edits
    BY <1>e, <2>0, <2>m, <2>w, <2>x, <2>3, <2>5, <2>6
  <2>8. Submits({FreshUid, FreshUid + 1})
    BY <1>o, <2>3, <2>4 DEF Submits
  <2> QED
    BY <1>r, <2>0, <2>7, <2>8 DEF QueueShape
<1>3. ASSUME NEW uid \in Uids, NEW kind \in Kinds, NEW replace \in BOOLEAN, QueueItemUpdate(uid, kind, replace)
      PROVE  QueueShape /\ rep'.pc # "register"
  <2>0. OnlyQueue /\ RepGoes("poll")
    BY <1>3 DEF QueueItemUpdate
  <2>1. CASE replace
    <3> DEFINE it == [uid |-> FreshUid, kind |-> kind]
               r == ReplaceAtUid(q, uid, it)
    <3>1. it \in Items /\ it.uid = FreshUid /\ FreshUid \in Uids
      BY <1>3, <1>i, <2>1 DEF QueueItemUpdate
    <3>2. r.ok /\ q' = r.q /\ items' = [items EXCEPT !.submitted = @ \cup {FreshUid}, !.withdrawn = @ \cup {uid}]
      BY <1>3, <2>1 DEF QueueItemUpdate
    <3> HIDE DEF it
    <3>u. it.uid \notin Pending(q)
      BY <1>f, <1>o, <3>1
    <3>3. /\ uid \in Pending(q) /\ Pending(q) \subseteq Pending(q') \cup {uid} /\ FreshUid \in Pending(q')
          /\ Pending(q') \subseteq Pending(q) \cup {FreshUid} /\ Distinct(q')
          /\ FreshUid = uid \/ uid \notin Pending(q')
      BY <1>q, <3>1, <3>2, <3>u, ReplaceAtKeeps
    <3>4. items'.submitted = items.submitted \cup {FreshUid} /\ items'.withdrawn = items.withdrawn \cup {uid}
      BY <1>q, <3>2
    <3>5. items'.submitted = 1 .. FreshUid
      BY <1>f, <3>4
    <3>6. items' = [items EXCEPT !.submitted = items'.submitted, !.withdrawn = items'.withdrawn]
      BY <1>q, <3>2
    <3>7. Edits
      BY <1>e, <1>f, <1>q, <1>r, <2>0, <3>1, <3>3, <3>4, <3>5, <3>6
    <3>8. Replaces(uid, FreshUid)
      BY <1>o, <1>f, <3>3, <3>4 DEF Replaces
    <3> QED
      BY <1>r, <2>0, <3>7, <3>8 DEF QueueShape
  <2>2. CASE ~replace
    <3> DEFINE it == [uid |-> uid, kind |-> kind]
               r == ReplaceAtUid(q, uid, it)
    <3>1. it \in Items /\ it.uid = uid
      BY <1>i
    <3>2. UpdateItem(q, uid, it) = r
      BY <3>1 DEF UpdateItem, ReplaceAtUid, Items
    <3>3. r.ok /\ q' = r.q /\ items' = items
      BY <1>3, <2>2, <3>2 DEF QueueItemUpdate
    <3> HIDE DEF it
    <3>5. /\ uid \in Pending(q) /\ Pending(q) \subseteq Pending(q') \cup {uid} /\ uid \in Pending(q')
          /\ Pending(q') \subseteq Pending(q) \cup {uid} /\ Distinct(q')
      BY <1>q, <3>1, <3>3, ReplaceAtKeeps
    <3>4. Pending(q') = Pending(q) /\ Distinct(q')
      BY <3>5
    <3> QED
      BY <1>r, <1>z, <2>0, <3>3, <3>4 DEF QueueShape
  <2> QED
    BY <2>1, <2>2
<1>4. ASSUME NEW u \in Uids, NEW v \in Uids, QueueItemRemove(u, v) PROVE QueueShape /\ rep'.pc # "register"
  <2> DEFINE r == RemoveByUid(q, u).q
  <2>0. OnlyQueue /\ RepGoes("poll")
    BY <1>4 DEF QueueItemRemove
  <2>1. /\ r \in QueueRecords /\ Pending(q) \subseteq Pending(r) \cup {u} /\ Pending(r) \subseteq Pending(q)
        /\ Distinct(r) /\ u \notin Pending(r)
    BY <1>q, RemoveByUidTakes
  <2>2. q' = RemoveByUid(r, v).q /\ items' = [items EXCEPT !.withdrawn = @ \cup (Pending(q) \cap {u, v})]
    BY <1>4 DEF QueueItemRemove, QueueItemRemoveBatch
  <2> HIDE DEF r
  <2>3. Pending(r) \subseteq Pending(q') \cup {v} /\ Pending(q') \subseteq Pending(r) /\ Distinct(q') /\ v \notin Pending(q')
    BY <2>1, <2>2, RemoveByUidTakes
  <2>4. /\ items'.withdrawn = items.withdrawn \cup (Pending(q) \cap {u, v}) /\ items'.submitted = items.submitted
        /\ items' = [items EXCEPT !.submitted = items'.submitted, !.withdrawn = items'.withdrawn]
        /\ items'.withdrawn \subseteq Uids
    BY <1>q, <2>2
  <2>w. FreshUid - 1 \in Nat /\ items'.submitted = 1 .. (FreshUid - 1)
    BY <1>f, <2>4
  <2>x. ~rep'.single
    BY <1>r, <2>0
  <2>5. Edits
    BY <1>e, <2>0, <2>w, <2>x, <2>3, <2>4
  <2>6. Withdraws(Pending(q) \cap {u, v})
    BY <2>1, <2>3, <2>4 DEF Withdraws
  <2> QED
    BY <1>r, <2>0, <2>5, <2>6 DEF QueueShape
<1>5. ASSUME QueueClear PROVE QueueShape /\ rep'.pc # "register"
  <2>0. OnlyQueue /\ RepGoes("poll") /\ q' = ClearItems(q) /\ items' = [items EXCEPT !.withdrawn = @ \cup Pending(q)]
    BY <1>5 DEF QueueClear
  <2>1. q'.items = <<>>
    BY <1>q, <2>0 DEF ClearItems, WithItems, QueueRecords
  <2>2. Pending(q') = {} /\ Distinct(q')
    BY <2>1 DEF Pending, Distinct
  <2>4. /\ items'.withdrawn = items.withdrawn \cup Pending(q) /\ items'.submitted = items.submitted
        /\ items' = [items EXCEPT !.submitted = items'.submitted, !.withdrawn = items'.withdrawn]
        /\ items'.withdrawn \subseteq Uids
    BY <1>q, <1>f, <2>0
  <2>w. FreshUid - 1 \in Nat /\ items'.submitted = 1 .. (FreshUid - 1)
    BY <1>f, <2>4
  <2>x. ~rep'.single
    BY <1>r, <2>0
  <2>5. Edits
    BY <1>e, <2>0, <2>w, <2>x, <2>2, <2>4
  <2>6. Withdraws(Pending(q))
    BY <2>2, <2>4 DEF Withdraws
  <2> QED
    BY <1>r, <2>0, <2>5, <2>6 DEF QueueShape
<1>6. ASSUME NEW uid \in Uids, NEW place \in Places, QueueItemMove(uid, place) PROVE QueueShape /\ rep'.pc # "register"
  <2>1. Pending(q') = Pending(q) /\ Distinct(q')
    BY <1>6, <1>q, <1>p, MoveKeeps DEF QueueItemMove, Rearranged
  <2> QED
    BY <1>6, <1>r, <1>z, <2>1 DEF QueueItemMove, QueueShape
<1>7. ASSUME NEW u1 \in Uids, NEW u2 \in Uids, NEW place \in Places, NEW reorder \in BOOLEAN,
             QueueItemMoveBatchOf2(u1, u2, place, reorder)
      PROVE  QueueShape /\ rep'.pc # "register"
  <2>1. Pending(q') = Pending(q) /\ Distinct(q')
    BY <1>7, <1>q, <1>p, MoveBatchKeeps DEF QueueItemMoveBatchOf2, Rearranged
  <2> QED
    BY <1>7, <1>r, <1>z, <2>1 DEF QueueItemMoveBatchOf2, QueueShape
<1>8. ASSUME HistoryClear PROVE QueueShape /\ rep'.pc # "register"
  <2>1. Pending(q') = Pending(q) /\ Distinct(q')
    BY <1>8, <1>q DEF HistoryClear, ClearHistory, Pending, QueueRecords, Distinct
  <2> QED
    BY <1>8, <1>r, <1>z, <2>1 DEF HistoryClear, QueueShape
<1> QED
  BY <1>1, <1>2, <1>3, <1>4, <1>5, <1>6, <1>7, <1>8

RepStays ==
  \/ rep'.pc # "register"
  \/ rep' = rep /\ Len(workers') = Len(workers) /\ (slot' = slot \/ slot'.gen = 0)

LEMMA OneAborted ==
    ASSUME TypeInv, NEW g,
           workers' = workers \/ workers' = [workers EXCEPT ![g].aborted = TRUE]
    PROVE  \A w \in DOMAIN workers :
             workers'[w].aborted = workers[w].aborted \/ (w = g /\ workers'[w].aborted = TRUE)
<1>1. workers \in Seq(Workers) /\ \A w \in DOMAIN workers : workers[w] \in Workers
  BY DEF TypeInv, TypeOK
<1> QED
  BY <1>1 DEF Workers

LEMMA RepShapes ==
    ASSUME ServerInv, LossInv, PlaceInv,
           \/ RepStep \/ Shutdown \/ ConsoleRun \/ ConsoleEnds
           \/ EnvOpen \/ EnvClose \/ EnvDestroy \/ QueueStart \/ QueueItemExecute
           \/ \E m, field, value : SetFlag(m, field, value)
           \/ RePause \/ (\E m, intr : ReWith(m, intr)) \/ ManagerStop,
           ~(StartClaim /\ MayClaim)
    PROVE  Quiet /\ RepStays
<1>t. TypeInv
  BY DEF ServerInv
<1>0. /\ rep \in [pc : RepPCs, single : BOOLEAN, item : Items \cup {NoItem}]
      /\ workers \in Seq(Workers) /\ Len(workers) \in Nat
      /\ slot \in [next : Nat, gen : Nat, handle : BOOLEAN]
      /\ Distinct(q) /\ (rep.single => rep.item.uid = FreshUid)
      /\ RepAt("register") => Len(workers) \in DOMAIN workers
  BY <1>t DEF TypeInv, TypeOK, PlaceInv, ServerInv, SlotInv
<1>w. ASSUME UNCHANGED <<q, items>>, WorkersKept, rep'.single => rep'.item.uid = FreshUid,
             NEW g, workers' = workers \/ workers' = [workers EXCEPT ![g].aborted = TRUE]
      PROVE  Quiet
  <2>1. \A w \in DOMAIN workers :
          workers'[w].aborted = workers[w].aborted \/ (w = g /\ workers'[w].aborted = TRUE)
    BY <1>t, <1>w, OneAborted
  <2> QED
    BY <1>0, <1>w, <2>1 DEF Quiet
<1>k. ASSUME UNCHANGED <<q, items, workers>>, rep'.single => rep'.item.uid = FreshUid PROVE Quiet
  BY <1>k, <1>t, <1>w, SameWorkersKept DEF TypeInv
<1>v. ASSUME UNCHANGED <<q, items>>, workers' = Revoked(workers, slot), slot' = Emptied(slot),
             rep'.single => rep'.item.uid = FreshUid
      PROVE  Quiet /\ slot'.gen = 0 /\ Len(workers') = Len(workers)
  <2>1. WorkersKept
    BY <1>t, <1>v, RevokedKeeps DEF TypeInv
  <2>2. workers' = workers \/ workers' = [workers EXCEPT ![slot.gen].aborted = TRUE]
    BY <1>v DEF Revoked
  <2>3. Len(workers') = Len(workers)
    BY <1>0, <2>1 DEF WorkersKept
  <2> QED
    BY <1>0, <1>v, <1>w, <2>1, <2>2, <2>3 DEF Emptied
<1>r. ASSUME NEW pc, RepGoes(pc) PROVE ~rep'.single /\ rep'.pc = pc
  BY <1>r DEF RepGoes
<1>g. ASSUME NEW pc, RepGoes(pc), pc # "register", UNCHANGED <<q, items, workers>> PROVE Quiet /\ RepStays
  BY <1>g, <1>k, <1>r DEF RepStays
<1>d. ASSUME NEW pc, RepGoes(pc), pc # "register", UNCHANGED <<q, items>>,
             workers' = Revoked(workers, slot), slot' = Emptied(slot)
      PROVE  Quiet /\ RepStays
  <2>1. ~rep'.single /\ rep'.pc # "register"
    BY <1>d, <1>r
  <2> QED
    BY <1>d, <1>v, <2>1 DEF RepStays
<1>s. ASSUME rep' = rep PROVE rep'.single => rep'.item.uid = FreshUid
  BY <1>0, <1>s
<1>1. CASE StartClaim
  BY <1>1, <1>g DEF StartClaim
<1>2. CASE StartRegister
  <2>1. RegisterHandle(Len(workers)) /\ UNCHANGED <<q, items>> /\ Len(workers) \in DOMAIN workers
    BY <1>0, <1>2 DEF StartRegister
  <2>2. ~rep'.single /\ rep'.pc = "poll"
    BY <1>2, <1>r DEF StartRegister
  <2>3. CASE workers' = workers
    BY <1>k, <2>1, <2>2, <2>3 DEF RepStays
  <2>4. CASE workers' = [workers EXCEPT ![Len(workers)].aborted = TRUE]
    <3>1. WorkersKept
      BY <1>t, <2>1, <2>4, AbortKeeps DEF TypeInv
    <3> QED
      BY <1>w, <2>1, <2>2, <2>4, <3>1 DEF RepStays
  <2> QED
    BY <2>1, <2>3, <2>4 DEF RegisterHandle
<1>3. CASE StartCheck
  <2>1. UNCHANGED <<q, items, workers>>
    BY <1>3 DEF StartCheck
  <2>2. CASE env # 0 /\ mgr.state = "idle"
    <3>1. rep'.pc = "claim" /\ rep'.single = rep.single /\ rep'.item = rep.item
      BY <1>0, <1>3, <2>2 DEF StartCheck
    <3> QED
      BY <1>0, <1>k, <2>1, <3>1 DEF RepStays
  <2>3. CASE ~(env # 0 /\ mgr.state = "idle")
    BY <1>3, <1>g, <2>1, <2>3 DEF StartCheck
  <2> QED
    BY <2>2, <2>3
<1>4. CASE QueueItemExecute
  <2>1. rep'.pc = "check" /\ rep'.item.uid = FreshUid /\ UNCHANGED <<q, items, workers>>
    BY <1>4 DEF QueueItemExecute
  <2> QED
    BY <1>k, <2>1 DEF RepStays
<1>5. CASE LoopExits \/ EnvDestroy \/ ManagerStop
  BY <1>5, <1>d DEF LoopExits, EnvDestroy, ManagerStop
<1>6. CASE Shutdown
  BY <1>6, <1>s, <1>v DEF Shutdown, RepStays
<1>11. CASE ConsoleRun \/ ConsoleEnds
  <2>1. rep' = rep /\ UNCHANGED <<q, items, workers, slot>>
    BY <1>11 DEF ConsoleRun, ConsoleEnds
  <2> QED
    BY <1>k, <1>s, <2>1 DEF RepStays
<1>7. CASE Poll \/ RecvTimeout \/ MaybeAutostart \/ EnvDestroyed \/ EnvOpen \/ EnvClose \/ QueueStart \/ RePause
  BY <1>7, <1>g DEF Poll, RecvTimeout, MaybeAutostart, EnvDestroyed, EnvOpen, EnvClose, QueueStart, RePause
<1>8. CASE \E hookFails \in BOOLEAN : EnvOpened(hookFails)
  BY <1>8, <1>g DEF EnvOpened
<1>9. CASE \E m, field, value : SetFlag(m, field, value)
  BY <1>9, <1>g DEF SetFlag
<1>10. CASE \E m, intr : ReWith(m, intr)
  BY <1>10, <1>g DEF ReWith
<1> QED
  BY <1>1, <1>2, <1>3, <1>4, <1>5, <1>6, <1>7, <1>8, <1>9, <1>10, <1>11 DEF RepStep

LEMMA StaysRegistered ==
    ASSUME RegInv, RepStays
    PROVE  RegInv'
BY DEF RegInv, RepStays, RepAt

(* The claim of the slot spawns a worker, with the next uid in its hands   *)
(* when it executes one item.                                              *)
LEMMA ClaimShape ==
    ASSUME TypeInv, LossInv, PlaceInv, StartClaim, MayClaim, NEW n, n = Len(workers) + 1
    PROVE  /\ n \notin DOMAIN workers /\ DOMAIN workers' = DOMAIN workers \cup {n}
           /\ Len(workers') = n
           /\ \A w \in DOMAIN workers : workers'[w] = workers[w]
           /\ ~Loops(n)' /\ ~workers'[n].aborted
           /\ q' = q /\ ~rep'.single /\ FreshUid' \in Nat
           /\ items'.submitted = 1 .. (FreshUid' - 1)
           /\ items'.archived = items.archived /\ Gone' = Gone
           /\ \/ InHand(n)' = 0 /\ items'.submitted = items.submitted
              \/ /\ InHand(n)' = FreshUid /\ FreshUid \in Uids
                 /\ items'.submitted = items.submitted \cup {FreshUid}
<1> DEFINE x == [pc |-> "spawned", single |-> rep.single, item |-> rep.item,
                 env |-> env, aborted |-> FALSE, status |-> "none", disarm |-> FALSE]
<1>0. /\ workers \in Seq(Workers) /\ Len(workers) \in Nat /\ FreshUid \in Nat \ {0}
      /\ items \in [{"submitted", "withdrawn", "archived", "revoked"} -> SUBSET Uids]
      /\ items.submitted = 1 .. (FreshUid - 1)
  BY FreshUidNatural DEF TypeInv, TypeOK, PlaceInv
<1>1. /\ workers' = Append(workers, x) /\ q' = q /\ RepGoes("register")
      /\ items' = [items EXCEPT !.submitted = @ \cup (IF rep.single THEN {rep.item.uid} ELSE {})]
  BY DEF StartClaim
<1>2. x.pc = "spawned" /\ x.item = rep.item /\ x.single = rep.single /\ ~x.aborted
  OBVIOUS
<1>r. ~rep'.single
  BY <1>1 DEF RepGoes
<1> HIDE DEF x
<1>3. /\ n \notin DOMAIN workers /\ DOMAIN workers' = DOMAIN workers \cup {n} /\ Len(workers') = n
      /\ workers'[n] = x /\ \A w \in DOMAIN workers : workers'[w] = workers[w]
  BY <1>0, <1>1
<1>4. ~Loops(n)' /\ ~workers'[n].aborted /\ InHand(n)' = rep.item.uid
  BY <1>2, <1>3 DEF Loops, InHand, Holding
<1>5. items'.archived = items.archived /\ Gone' = Gone
  BY <1>0, <1>1 DEF Gone
<1>6. CASE rep.single
  <2>1. rep.item \in Items /\ rep.item.uid = FreshUid /\ FreshUid \in Uids
    BY <1>6 DEF TypeInv, Carries, PlaceInv, Items
  <2>2. items'.submitted = items.submitted \cup {FreshUid}
    BY <1>0, <1>1, <1>6, <2>1
  <2>3. items'.submitted = 1 .. FreshUid
    BY <1>0, <2>2
  <2>4. FreshUid' = FreshUid + 1
    BY <1>0, <2>3, FreshCount
  <2>5. items'.submitted = 1 .. (FreshUid' - 1) /\ FreshUid' \in Nat
    BY <1>0, <2>3, <2>4
  <2> QED
    BY <1>1, <1>r, <1>3, <1>4, <1>5, <2>1, <2>2, <2>5
<1>7. CASE ~rep.single
  <2>1. rep.item = NoItem
    BY <1>7 DEF LossInv
  <2>2. items'.submitted = items.submitted
    BY <1>0, <1>1, <1>7
  <2>3. FreshUid' = FreshUid
    BY <2>2 DEF FreshUid
  <2>4. InHand(n)' = 0
    BY <1>4, <2>1 DEF NoItem
  <2> QED
    BY <1>0, <1>1, <1>r, <1>3, <1>4, <1>5, <2>2, <2>3, <2>4
<1> QED
  BY <1>6, <1>7

LEMMA ClaimPlaces ==
    ASSUME TypeInv, LossInv, PlaceInv, StartClaim, MayClaim
    PROVE  PlaceInv'
<1> PICK n : n = Len(workers) + 1
  OBVIOUS
<1>1. /\ n \notin DOMAIN workers /\ DOMAIN workers' = DOMAIN workers \cup {n}
      /\ \A w \in DOMAIN workers : workers'[w] = workers[w]
      /\ ~Loops(n)' /\ q' = q /\ ~rep'.single
      /\ items'.submitted = 1 .. (FreshUid' - 1) /\ items'.archived = items.archived /\ Gone' = Gone
      /\ \/ InHand(n)' = 0 /\ items'.submitted = items.submitted
         \/ InHand(n)' = FreshUid /\ items'.submitted = items.submitted \cup {FreshUid}
  BY ClaimShape
<1>2. FreshUid \notin items.submitted /\ FreshUid # 0
  BY FreshUidNatural DEF PlaceInv, TypeInv
<1>3. \A w \in DOMAIN workers : InHand(w)' = InHand(w) /\ (Loops(w)' <=> Loops(w))
  BY <1>1 DEF InHand, Loops
<1>p. /\ Gone \cup items.archived \subseteq items.submitted /\ Distinct(q)
      /\ Pending(q) \subseteq items.submitted \ Gone
      /\ \A w \in DOMAIN workers :
           /\ InHand(w) # 0 => InHand(w) \in items.submitted \ (Gone \cup Pending(q))
           /\ Loops(w) => InHand(w) \in items.archived
      /\ \A v, w \in DOMAIN workers : InHand(v) = InHand(w) /\ InHand(v) # 0 => v = w
  BY DEF PlaceInv
<1>4. /\ Gone' \cup items'.archived \subseteq items'.submitted /\ Distinct(q')
      /\ Pending(q') \subseteq items'.submitted \ Gone'
  BY <1>1, <1>p
<1>5. \A w \in DOMAIN workers' :
        /\ InHand(w)' # 0 => InHand(w)' \in items'.submitted \ (Gone' \cup Pending(q'))
        /\ Loops(w)' => InHand(w)' \in items'.archived
  <2>1. /\ InHand(n)' # 0 => InHand(n)' \in items'.submitted \ (Gone' \cup Pending(q'))
        /\ ~Loops(n)'
    BY <1>1, <1>2, <1>p
  <2>2. \A w \in DOMAIN workers :
          /\ InHand(w) # 0 => InHand(w) \in items'.submitted \ (Gone' \cup Pending(q'))
          /\ Loops(w) => InHand(w) \in items'.archived
    BY <1>1, <1>p
  <2> QED
    BY <1>1, <1>3, <2>1, <2>2
<1>6. \A v, w \in DOMAIN workers' : InHand(v)' = InHand(w)' /\ InHand(v)' # 0 => v = w
  <2>1. \A w \in DOMAIN workers : InHand(w) # InHand(n)' \/ InHand(n)' = 0
    BY <1>1, <1>2, <1>p
  <2> QED
    BY <1>1, <1>3, <1>p, <2>1
<1> QED
  BY <1>1, <1>4, <1>5, <1>6 DEF PlaceInv

LEMMA ClaimLedger ==
    ASSUME ServerInv, LossInv, PlaceInv, PlaceInv', StartClaim, MayClaim
    PROVE  Ledger!LedgerNext \/ UNCHANGED [uid \in Uids |-> LedgerStage(uid)]
<1> PICK n : n = Len(workers) + 1
  OBVIOUS
<1>0. TypeInv /\ Len(workers) \in Nat
  BY DEF ServerInv, TypeInv, TypeOK
<1>1. /\ n \notin DOMAIN workers /\ DOMAIN workers' = DOMAIN workers \cup {n}
      /\ \A w \in DOMAIN workers : workers'[w] = workers[w]
      /\ ~Loops(n)' /\ ~workers'[n].aborted /\ q' = q
      /\ items'.archived = items.archived /\ Gone' = Gone
      /\ \/ InHand(n)' = 0 /\ items'.submitted = items.submitted
         \/ InHand(n)' = FreshUid /\ FreshUid \in Uids /\ items'.submitted = items.submitted \cup {FreshUid}
  BY <1>0, ClaimShape
<1>2. FreshUid \notin items.submitted /\ FreshUid # 0 /\ 0 \notin Uids
  BY <1>0, FreshUidNatural, ServerAssumption DEF PlaceInv, TypeInv, Uids
<1>p. /\ Gone \cup items.archived \subseteq items.submitted
      /\ Pending(q) \subseteq items.submitted \ Gone
      /\ \A w \in DOMAIN workers : InHand(w) # 0 => InHand(w) \in items.submitted \ (Gone \cup Pending(q))
  BY DEF PlaceInv
<1>3. \A w \in DOMAIN workers : InHand(w)' = InHand(w) /\ (Loops(w)' <=> Loops(w))
  BY <1>1 DEF InHand, Loops
<1>h. ASSUME NEW uid \in Uids, NEW v
      PROVE  /\ v \in Holders(uid) <=> v \in DOMAIN workers /\ InHand(v) = uid /\ ~Loops(v)
             /\ v \in Holders(uid)' <=> v \in DOMAIN workers' /\ InHand(v)' = uid /\ ~Loops(v)'
  BY HolderHands, ServerAssumption DEF Holders, InHand, Loops, Holding, Uids
<1>s. ASSUME NEW uid \in Uids, uid # InHand(n)' PROVE LedgerStage(uid)' = LedgerStage(uid)
  <2>1. \A v : v \in Holders(uid) <=> v \in Holders(uid)'
    BY <1>h, <1>s, <1>1, <1>3
  <2>2. \A v \in Holders(uid) : workers'[v].aborted = workers[v].aborted
    BY <1>h, <1>1
  <2>3. uid \in items.submitted <=> uid \in items'.submitted
    BY <1>s, <1>1
  <2> QED
    BY <1>1, <2>1, <2>2, <2>3, StageSame
<1>4. CASE InHand(n)' = 0
  <2>1. \A uid \in Uids : LedgerStage(uid)' = LedgerStage(uid)
    BY <1>s, <1>2, <1>4
  <2> QED
    BY <2>1, LedgerStutters
<1>5. CASE InHand(n)' # 0
  <2>0. PICK u : u = FreshUid
    OBVIOUS
  <2>1. u = InHand(n)' /\ u \in Uids /\ u \notin items.submitted /\ u # 0
    BY <1>1, <1>2, <1>5, <2>0
  <2>2. LedgerStage(u) = "none"
    <3>1. u \notin Pending(q) /\ \A w \in DOMAIN workers : InHand(w) = u => Loops(w)
      BY <1>p, <2>1
    <3> QED
      BY <1>p, <2>1, <3>1, StageOfRest
  <2>3. LedgerStage(u)' = "running"
    <3>1. \A v : v \in Holders(u)' <=> v = n
      BY <1>h, <1>1, <1>3, <1>p, <2>1
    <3>2. Holders(u)' = {n}
      BY <3>1
    <3>3. u \notin Pending(q')
      BY <1>1, <1>p, <2>1
    <3> QED
      BY <1>1, <3>2, <3>3 DEF LedgerStage
  <2>4. \A uid \in Uids \ {u} : LedgerStage(uid)' = LedgerStage(uid)
    BY <1>s, <2>1
  <2>5. Ledger!Moves({u}, "none", "running")
    BY <2>1, <2>2, <2>3, <2>4, LedgerMoves
  <2>6. ASSUME NEW uid \in Uids PROVE LedgerStage(uid) # "running"
    <3> SUFFICES ASSUME LedgerStage(uid) = "running" PROVE FALSE
      OBVIOUS
    <3>1. PICK v \in Holders(uid) : ~workers[v].aborted
      BY RunningIsHeld
    <3>2. v \in DOMAIN workers /\ workers[v].pc \notin Leaving
      BY DEF Holders, Holding, Leaving
    <3>3. slot.gen = v
      BY <3>1, <3>2 DEF ServerInv, SlotInv, StartClaim, RepAt
    <3>4. v # 0
      BY <1>0, <3>2 DEF TypeInv, TypeOK
    <3> QED
      BY <3>3, <3>4 DEF MayClaim
  <2> QED
    BY <2>1, <2>5, <2>6 DEF Ledger!LedgerNext, Ledger!Start, Ledger!InStage
<1> QED
  BY <1>4, <1>5

LEMMA ClaimRegisters ==
    ASSUME ServerInv, LossInv, PlaceInv, StartClaim, MayClaim
    PROVE  RegInv'
<1>1. Len(workers') = Len(workers) + 1
  BY ClaimShape DEF ServerInv
<1>2. slot' = Claim(slot) /\ slot.next = Len(workers) + 1
  BY DEF StartClaim, ServerInv, SlotInv
<1> QED
  BY <1>1, <1>2 DEF RegInv, Claim

LEMMA WorkerRegisters ==
    ASSUME TypeInv, RegInv, NEW w, WorkerMoves(w)
    PROVE  RegInv'
<1>1. slot' = slot \/ slot'.gen = 0
  BY DEF WorkerMoves, Emptied, TypeInv, TypeOK
<1> QED
  BY <1>1 DEF RegInv, WorkerMoves, RepAt

-----------------------------------------------------------------------------
LEMMA LedgerInitial ==
    ASSUME Init
    PROVE  LedgerInv /\ Ledger!LedgerInit
<1>1. ServerInv
  BY ServerInit
<1>2. /\ items.submitted = {} /\ items.withdrawn = {} /\ items.archived = {} /\ items.revoked = {}
      /\ workers = <<>> /\ q.items = <<>> /\ ~rep.single /\ rep.item = NoItem /\ rep.pc = "poll"
  BY DEF Init, EmptyQueue
<1>3. LossInv
  BY <1>2 DEF LossInv, NoItemLost
<1>4. Pending(q) = {} /\ Distinct(q) /\ Gone = {}
  BY <1>2 DEF Pending, Distinct, Gone
<1>5. FreshUid = 1
  BY <1>2, FS_EmptySet DEF FreshUid
<1>6. items.submitted = 1 .. (FreshUid - 1)
  BY <1>2, <1>5
<1>d. DOMAIN workers = {}
  BY <1>2
<1>a. Gone \cup items.archived \subseteq items.submitted /\ Pending(q) \subseteq items.submitted \ Gone
  BY <1>2, <1>4
<1>7. PlaceInv
  BY <1>2, <1>4, <1>6, <1>a, <1>d DEF PlaceInv
<1>8. RegInv
  BY <1>2 DEF RegInv, RepAt
<1>9. ASSUME NEW uid \in Uids PROVE LedgerStage(uid) = "none"
  BY <1>2, <1>4, StageOfRest
<1>10. Ledger!LedgerInit
  BY <1>9 DEF Ledger!LedgerInit
<1> QED
  BY <1>1, <1>3, <1>7, <1>8, <1>10 DEF LedgerInv

(* What is known of an item's whereabouts survives every step, and every   *)
(* step moves items as the ledger allows or leaves them where they are.    *)
LEMMA LedgerStep ==
    ASSUME StrictMoves, LedgerInv, [Next]_vars
    PROVE  /\ LedgerInv'
           /\ Ledger!LedgerNext \/ UNCHANGED [uid \in Uids |-> LedgerStage(uid)]
<1>0. ServerInv /\ TypeInv /\ LossInv /\ PlaceInv /\ RegInv
  BY DEF LedgerInv, ServerInv
<1>1. ServerInv' /\ LossInv'
  BY <1>0, ServerStep, LossStep
<1>2. CASE \E w \in 1 .. MaxWorkers : WorkerStep(w)
  <2>1. PICK w \in 1 .. MaxWorkers : WorkerStep(w)
    BY <1>2
  <2>2. WorkerMoves(w) /\ WorkerShape(w)
    BY <1>0, <2>1, WorkerStepMoves, WorkerShapes DEF WorkerShape
  <2>3. PlaceInv' /\ RegInv'
    BY <1>0, <2>2, WorkerPlaces, WorkerRegisters
  <2> QED
    BY <1>0, <1>1, <2>2, <2>3, WorkerLedger DEF LedgerInv
<1>3. CASE StartClaim /\ MayClaim
  <2>1. PlaceInv' /\ RegInv'
    BY <1>0, <1>3, ClaimPlaces, ClaimRegisters
  <2> QED
    BY <1>0, <1>1, <1>3, <2>1, ClaimLedger DEF LedgerInv
<1>4. CASE Quiet /\ (RepStays \/ rep'.pc # "register")
  <2>1. PlaceInv' /\ RegInv'
    BY <1>0, <1>4, QuietPlaces, StaysRegistered DEF RepStays
  <2> QED
    BY <1>0, <1>1, <1>4, <2>1, QuietLedger DEF LedgerInv
<1>5. CASE QueueShape /\ rep'.pc # "register"
  <2>1. CASE Quiet
    BY <1>4, <1>5, <2>1
  <2>2. CASE ~Quiet
    <3>1. PlaceInv' /\ RegInv'
      BY <1>0, <1>5, <2>2, EditPlaces, StaysRegistered DEF QueueShape, RepStays
    <3> QED
      BY <1>0, <1>1, <1>5, <2>2, <3>1, EditLedger DEF LedgerInv, QueueShape
  <2> QED
    BY <2>1, <2>2
<1>6. CASE (RepStep \/ Shutdown \/ ConsoleRun \/ ConsoleEnds) /\ ~(StartClaim /\ MayClaim)
  BY <1>0, <1>4, <1>6, RepShapes
<1>7. CASE Request /\ ~(StartClaim /\ MayClaim)
  BY <1>0, <1>4, <1>5, <1>7, RepShapes, QueueShapes DEF Request
<1>8. CASE UNCHANGED vars
  <2>1. UNCHANGED <<q, items, workers, rep, slot>>
    BY <1>8 DEF vars
  <2>2. Quiet
    BY <1>0, <2>1, SameWorkersKept DEF Quiet, PlaceInv, TypeInv
  <2> QED
    BY <1>4, <2>1, <2>2 DEF RepStays
<1> QED
  BY <1>2, <1>3, <1>6, <1>7, <1>8 DEF Next

(* The queue server implements PlanLedger: an item runs at most once for   *)
(* each time it is queued, one that was not stopped by force runs at a     *)
(* time, and what was started is recorded or lost only with a worker that  *)
(* was stopped by force (the handlers of qs/server.rs, the workers and the *)
(* claim slot between them), for clients that move items next to pending   *)
(* ones.                                                                   *)
THEOREM ServerImplementsLedger == StrictMoves /\ Spec => ImplementsLedger
<1>1. Init => LedgerInv /\ Ledger!LedgerInit
  BY LedgerInitial
<1>2. StrictMoves /\ LedgerInv /\ [Next]_vars => LedgerInv'
  BY LedgerStep
<1>3. StrictMoves /\ LedgerInv /\ [Next]_vars => [Ledger!LedgerNext]_([uid \in Uids |-> LedgerStage(uid)])
  BY LedgerStep
<1>4. StrictMoves => StrictMoves'
  OBVIOUS
<1> QED
  BY <1>1, <1>2, <1>3, <1>4, PTL DEF Spec, ImplementsLedger, Ledger!LedgerSpec
=============================================================================
