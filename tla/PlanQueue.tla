----------------------------- MODULE PlanQueue -----------------------------
(***************************************************************************)
(* The plan queue of the queue server (qs/queue.rs) and the operations     *)
(* that the request handlers of qs/dispatch.rs build from it.              *)
(*                                                                         *)
(* A queue is a record: the pending items and the uids in the history      *)
(* (loop mode may archive one many times).  The random uid that names the  *)
(* current contents is left out.  An item is a record [uid, kind].  An     *)
(* operation that may fail returns [ok, q]; q is the queue it leaves       *)
(* behind in either case.                                                  *)
(***************************************************************************)
EXTENDS Integers, Sequences, SequencesExt

Done(q)   == [ok |-> TRUE,  q |-> q]
Failed(q) == [ok |-> FALSE, q |-> q]

EmptyQueue == [items |-> <<>>, history |-> {}]

\* Position of an item, 0 when it is not pending.
IndexOfUid(q, uid) == SelectInSeq(q.items, LAMBDA it : it.uid = uid)

Pending(q) == {q.items[i].uid : i \in DOMAIN q.items}

WithItems(q, s) == [q EXCEPT !.items = s]

PushBack(q, it) == WithItems(q, Append(q.items, it))

PopFront(q) == IF q.items = <<>> THEN q ELSE WithItems(q, Tail(q.items))

\* insert_at and push_front: a 0-based index clamped to the length.
InsertItem(q, idx, it) ==
  LET at == IF idx > Len(q.items) THEN Len(q.items) ELSE idx
  IN  WithItems(q, InsertAt(q.items, at + 1, it))

InsertBeforeUid(q, ref, it) ==
  LET pos == IndexOfUid(q, ref)
  IN  IF pos = 0 THEN Failed(q) ELSE Done(InsertItem(q, pos - 1, it))

InsertAfterUid(q, ref, it) ==
  LET pos == IndexOfUid(q, ref)
  IN  IF pos = 0 THEN Failed(q) ELSE Done(InsertItem(q, pos, it))

\* update keeps the uid it addresses, replace_at_uid installs the new item's.
UpdateItem(q, uid, it) ==
  LET pos == IndexOfUid(q, uid)
  IN  IF pos = 0 THEN Failed(q)
      ELSE Done(WithItems(q, ReplaceAt(q.items, pos, [it EXCEPT !.uid = uid])))

ReplaceAtUid(q, uid, it) ==
  LET pos == IndexOfUid(q, uid)
  IN  IF pos = 0 THEN Failed(q)
      ELSE Done(WithItems(q, ReplaceAt(q.items, pos, it)))

RemoveByUid(q, uid) ==
  LET pos == IndexOfUid(q, uid)
  IN  IF pos = 0 THEN Failed(q)
      ELSE Done(WithItems(q, RemoveAt(q.items, pos)))

\* The three moves take the item out before they look for its new place.
MoveTo(q, uid, dest) ==
  LET pos == IndexOfUid(q, uid)
      out == [q EXCEPT !.items = RemoveAt(@, pos)]
  IN  IF pos = 0 THEN Failed(q) ELSE Done(InsertItem(out, dest, q.items[pos]))

MoveBeforeUid(q, uid, ref) ==
  LET pos == IndexOfUid(q, uid)
      out == [q EXCEPT !.items = RemoveAt(@, pos)]
  IN  IF pos = 0 THEN Failed(q) ELSE InsertBeforeUid(out, ref, q.items[pos])

MoveAfterUid(q, uid, ref) ==
  LET pos == IndexOfUid(q, uid)
      out == [q EXCEPT !.items = RemoveAt(@, pos)]
  IN  IF pos = 0 THEN Failed(q) ELSE InsertAfterUid(out, ref, q.items[pos])

ClearItems(q) == IF q.items = <<>> THEN q ELSE WithItems(q, <<>>)

PushHistory(q, it) == [q EXCEPT !.history = @ \cup {it.uid}]

ClearHistory(q) == [q EXCEPT !.history = {}]

-----------------------------------------------------------------------------
(* The handlers.  A place is [at |-> "before" | "after", ref |-> uid] or   *)
(* [at |-> "pos", n |-> integer]; "front" is the position 0, "back" and an *)
(* absent position are -1.                                                 *)

Before(uid) == [at |-> "before", ref |-> uid]
After(uid)  == [at |-> "after", ref |-> uid]
Pos(n)      == [at |-> "pos", n |-> n]

\* insert_positioned: nothing is changed when the place does not exist.
InsertPositioned(q, it, place) ==
  LET size == Len(q.items) IN
  CASE place.at = "before" -> InsertBeforeUid(q, place.ref, it)
    [] place.at = "after"  -> InsertAfterUid(q, place.ref, it)
    [] place.at = "pos" ->
         Done(IF place.n = 0 \/ place.n < -size THEN InsertItem(q, 0, it)
              ELSE IF place.n = -1 \/ place.n >= size THEN PushBack(q, it)
              ELSE InsertItem(q, IF place.n > 0 THEN place.n ELSE size + place.n + 1, it))

\* A batch is two items a and b: the first goes to the place, the second
\* after it (of more, each after its predecessor).
PlaceBlock(r, b, PutAfter(_, _)) == IF r.ok THEN PutAfter(r.q, b) ELSE r

QueueItemAddBatch(q, a, b, place) ==
  PlaceBlock(InsertPositioned(q, a, place), b, LAMBDA qq, it : InsertPositioned(qq, it, After(a.uid)))

\* queue_item_remove_batch, and queue_item_remove when u = v.
QueueItemRemoveBatch(q, u, v) == RemoveByUid(RemoveByUid(q, u).q, v).q

\* resolve_pos_q and move_to; a destination is a place with n >= 0 or -1 (back).
MoveTowards(q, uid, place) ==
  CASE place.at = "before" -> MoveBeforeUid(q, uid, place.ref)
    [] place.at = "after"  -> MoveAfterUid(q, uid, place.ref)
    [] place.at = "pos"    -> MoveTo(q, uid, IF place.n < 0 THEN Len(q.items) ELSE place.n)

MoveBatchUnchecked(q, u, v, place) ==
  /\ u # v /\ {u, v} \subseteq Pending(q)
  /\ place.at # "pos" => place.ref \in Pending(q)

\* Every check of the batch precedes the first move.
MoveBatchAccepted(q, u, v, place) ==
  /\ u # v /\ {u, v} \subseteq Pending(q)
  /\ place.at # "pos" => place.ref \in Pending(q) \ {u, v}

\* With `reorder` the batch is put in queue order first.
QueueItemMoveBatch(q, u, v, place, reorder) ==
  LET swap   == reorder /\ IndexOfUid(q, v) < IndexOfUid(q, u)
      first  == IF swap THEN v ELSE u
      second == IF swap THEN u ELSE v
  IN  IF MoveBatchAccepted(q, u, v, place)
      THEN PlaceBlock(MoveTowards(q, first, place), second, LAMBDA qq, w : MoveAfterUid(qq, w, first))
      ELSE Failed(q)
=============================================================================
