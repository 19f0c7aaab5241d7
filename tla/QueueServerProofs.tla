------------------------- MODULE QueueServerProofs -------------------------
(***************************************************************************)
(* Proofs about QueueServer, for any number of items, requests, workers    *)
(* and environments, any profiles and any places.                          *)
(***************************************************************************)
EXTENDS QueueServer, TLAPS, NaturalsInduction, WellFoundedInduction, SequenceTheorems, FiniteSetTheorems

-----------------------------------------------------------------------------
(* The queue.                                                              *)

QueueRecords == [items : Seq(Items), history : SUBSET Uids]

(* A non-empty set of naturals has a least element. *)
LEMMA LeastNatural ==
    ASSUME NEW S \in SUBSET Nat, S # {}
    PROVE  Min(S) \in S /\ \A y \in S : Min(S) <= y
<1> DEFINE R == {p \in Nat \X Nat : p[1] < p[2]}
<1>1. IsWellFoundedOn(R, Nat)
  BY NatLessThanWellFounded, Zenon DEF OpToRel
<1>2. PICK x \in S : \A y \in S : <<y, x>> \notin R
  <2> HIDE DEF R
  <2> QED
    BY <1>1, WFMin
<1>3. ASSUME NEW y \in S PROVE x <= y
  <2>1. x \in Nat /\ y \in Nat /\ <<y, x>> \notin R
    BY <1>2
  <2>2. ~(y < x)
    BY <2>1
  <2> QED
    BY <2>1, <2>2
<1> QED
  BY <1>3 DEF Min

(* IndexOfUid finds an item when there is one. *)
LEMMA IndexFinds ==
    ASSUME NEW r \in QueueRecords, NEW uid
    PROVE  LET i == IndexOfUid(r, uid) IN
           /\ i \in 0 .. Len(r.items)
           /\ i = 0 <=> uid \notin Pending(r)
           /\ i # 0 => r.items[i].uid = uid
<1> DEFINE I == {i \in 1 .. Len(r.items) : r.items[i].uid = uid}
<1>1. IndexOfUid(r, uid) = IF I # {} THEN Min(I) ELSE 0
  BY DEF IndexOfUid, SelectInSeq
<1>2. I # {} => Min(I) \in I
  BY LeastNatural, I \in SUBSET Nat
<1>3. uid \in Pending(r) <=> I # {}
  BY DEF Pending, QueueRecords
<1> QED
  BY <1>1, <1>2, <1>3 DEF QueueRecords

LEMMA InsertedElements ==
    ASSUME NEW S, NEW s \in Seq(S), NEW e \in S, NEW i \in 1 .. Len(s) + 1
    PROVE  LET t == InsertAt(s, i, e) IN
           /\ t \in Seq(S) /\ Len(t) = Len(s) + 1
           /\ \A k \in 1 .. Len(s) + 1 :
                t[k] = IF k < i THEN s[k] ELSE IF k = i THEN e ELSE s[k - 1]
<1> DEFINE a == SubSeq(s, 1, i - 1)
           b == SubSeq(s, i, Len(s))
<1>1. a \in Seq(S) /\ Len(a) = i - 1 /\ \A k \in 1 .. i - 1 : a[k] = s[k]
  BY SubSeqProperties
<1>2. b \in Seq(S) /\ Len(b) = Len(s) - i + 1 /\ \A k \in 1 .. Len(s) - i + 1 : b[k] = s[i + k - 1]
  BY SubSeqProperties
<1> DEFINE ae == a \o <<e>>
<1> HIDE DEF a, b
<1>3. ae \in Seq(S) /\ Len(ae) = i /\ \A k \in 1 .. i : ae[k] = IF k < i THEN a[k] ELSE e
  BY <1>1
<1> HIDE DEF ae
<1>4. /\ ae \o b \in Seq(S) /\ Len(ae \o b) = Len(s) + 1
      /\ \A k \in 1 .. Len(s) + 1 : (ae \o b)[k] = IF k <= i THEN ae[k] ELSE b[k - i]
  BY <1>2, <1>3, ConcatProperties
<1>5. InsertAt(s, i, e) = ae \o b
  BY DEF InsertAt, ae, a, b
<1> QED
  BY <1>1, <1>2, <1>3, <1>4, <1>5

LEMMA RemovedElements ==
    ASSUME NEW S, NEW s \in Seq(S), NEW i \in 1 .. Len(s)
    PROVE  LET t == RemoveAt(s, i) IN
           /\ t \in Seq(S) /\ Len(t) = Len(s) - 1
           /\ \A k \in 1 .. Len(s) - 1 : t[k] = IF k < i THEN s[k] ELSE s[k + 1]
<1> DEFINE a == SubSeq(s, 1, i - 1)
           b == SubSeq(s, i + 1, Len(s))
<1>1. a \in Seq(S) /\ Len(a) = i - 1 /\ \A k \in 1 .. i - 1 : a[k] = s[k]
  BY SubSeqProperties
<1>2. b \in Seq(S) /\ Len(b) = Len(s) - i /\ \A k \in 1 .. Len(s) - i : b[k] = s[i + k]
  BY SubSeqProperties
<1>3. RemoveAt(s, i) = a \o b
  BY DEF RemoveAt
<1> HIDE DEF a, b
<1>4. /\ a \o b \in Seq(S) /\ Len(a \o b) = Len(a) + Len(b)
      /\ \A k \in 1 .. Len(a) + Len(b) : (a \o b)[k] = IF k <= Len(a) THEN a[k] ELSE b[k - Len(a)]
  BY <1>1, <1>2, ConcatProperties
<1>5. ASSUME NEW k \in 1 .. Len(s) - 1
      PROVE  (a \o b)[k] = IF k < i THEN s[k] ELSE s[k + 1]
  <2>1. CASE k < i
    BY <1>1, <1>2, <1>4, <2>1
  <2>2. CASE ~(k < i)
    <3>1. (a \o b)[k] = b[k - i + 1] /\ k - i + 1 \in 1 .. Len(s) - i
      BY <1>1, <1>2, <1>4, <2>2
    <3>2. b[k - i + 1] = s[i + (k - i + 1)] /\ i + (k - i + 1) = k + 1
      BY <1>2, <3>1
    <3> QED
      BY <2>2, <3>1, <3>2
  <2> QED
    BY <2>1, <2>2
<1> QED
  BY <1>1, <1>2, <1>3, <1>4, <1>5

(* No uid is queued twice. *)
Distinct(r) == \A i, j \in 1 .. Len(r.items) : r.items[i].uid = r.items[j].uid => i = j

LEMMA PendingUids ==
    ASSUME NEW r \in QueueRecords
    PROVE  Pending(r) \subseteq Uids
<1>1. ASSUME NEW i \in DOMAIN r.items PROVE r.items[i].uid \in Uids
  <2>1. r.items[i] \in Items
    BY DEF QueueRecords
  <2> QED
    BY <2>1 DEF Items
<1> QED
  BY <1>1 DEF Pending

LEMMA ItemsReplaced ==
    ASSUME NEW r \in QueueRecords, NEW t \in Seq(Items)
    PROVE  /\ WithItems(r, t) \in QueueRecords
           /\ WithItems(r, t).items = t
           /\ Pending(WithItems(r, t)) = {t[i].uid : i \in 1 .. Len(t)}
BY DEF QueueRecords, WithItems, Pending

LEMMA InsertItemAdds ==
    ASSUME NEW r \in QueueRecords, NEW idx \in Nat, NEW it \in Items
    PROVE  /\ InsertItem(r, idx, it) \in QueueRecords
           /\ Pending(InsertItem(r, idx, it)) = Pending(r) \cup {it.uid}
           /\ Distinct(r) /\ it.uid \notin Pending(r) => Distinct(InsertItem(r, idx, it))
<1> DEFINE s == r.items
           at == (IF idx > Len(s) THEN Len(s) ELSE idx) + 1
           t == InsertAt(s, at, it)
<1>1. s \in Seq(Items) /\ at \in 1 .. Len(s) + 1 /\ InsertItem(r, idx, it) = WithItems(r, t)
  BY DEF QueueRecords, InsertItem
<1>2. r.items = s /\ t = InsertAt(s, at, it)
  OBVIOUS
<1> HIDE DEF s, t, at
<1>a. /\ t \in Seq(Items) /\ Len(t) = Len(s) + 1
      /\ \A k \in 1 .. Len(s) + 1 :
           t[k] = IF k < at THEN s[k] ELSE IF k = at THEN it ELSE s[k - 1]
  BY <1>1, <1>2, InsertedElements
<1>3. Pending(r) = {s[i].uid : i \in 1 .. Len(s)}
  BY <1>1, <1>2 DEF Pending
<1>4. {t[i].uid : i \in 1 .. Len(t)} = Pending(r) \cup {it.uid}
  <2>1. \A i \in 1 .. Len(s) : \E k \in 1 .. Len(t) : t[k] = s[i]
    <3> SUFFICES ASSUME NEW i \in 1 .. Len(s) PROVE \E k \in 1 .. Len(t) : t[k] = s[i]
      OBVIOUS
    <3>1. CASE i < at
      BY <1>1, <1>a, <3>1
    <3>2. CASE ~(i < at)
      <4>1. i + 1 \in 1 .. Len(t) /\ t[i + 1] = s[i]
        BY <1>1, <1>a, <3>2
      <4> QED
        BY <4>1
    <3> QED
      BY <3>1, <3>2
  <2>2. t[at] = it /\ at \in 1 .. Len(t)
    BY <1>1, <1>a
  <2>3. \A k \in 1 .. Len(t) : t[k] = it \/ \E i \in 1 .. Len(s) : t[k] = s[i]
    <3> SUFFICES ASSUME NEW k \in 1 .. Len(t) PROVE t[k] = it \/ \E i \in 1 .. Len(s) : t[k] = s[i]
      OBVIOUS
    <3>1. CASE k > at
      <4>1. k - 1 \in 1 .. Len(s) /\ t[k] = s[k - 1]
        BY <1>1, <1>a, <3>1
      <4> QED
        BY <4>1
    <3> QED
      BY <1>1, <1>a, <3>1
  <2> QED
    BY <1>3, <2>1, <2>2, <2>3
<1>5. ASSUME Distinct(r), it.uid \notin Pending(r) PROVE Distinct(InsertItem(r, idx, it))
  <2> SUFFICES ASSUME NEW i \in 1 .. Len(t), NEW j \in 1 .. Len(t), i < j, t[i].uid = t[j].uid
               PROVE  FALSE
    BY <1>1, <1>a, ItemsReplaced DEF Distinct
  <2>1. \A m, n \in 1 .. Len(s) : s[m].uid = s[n].uid => m = n
    BY <1>2, <1>5 DEF Distinct
  <2>2. \A m \in 1 .. Len(s) : s[m].uid # it.uid
    BY <1>3, <1>5
  <2>3. CASE j < at
    BY <1>1, <1>a, <2>1, <2>3
  <2>4. CASE j = at
    BY <1>1, <1>a, <2>2, <2>4
  <2>5. CASE j > at
    <3>1. j - 1 \in 1 .. Len(s) /\ t[j] = s[j - 1]
      BY <1>1, <1>a, <2>5
    <3>2. CASE i < at
      <4>1. i \in 1 .. Len(s) /\ t[i] = s[i] /\ i # j - 1
        BY <1>1, <1>a, <2>5, <3>1, <3>2
      <4> QED
        BY <2>1, <3>1, <4>1
    <3>3. CASE i = at
      BY <1>1, <1>a, <2>2, <3>1, <3>3
    <3>4. CASE i > at
      <4>1. i - 1 \in 1 .. Len(s) /\ t[i] = s[i - 1]
        BY <1>1, <1>a, <3>4
      <4> QED
        BY <2>1, <3>1, <4>1
    <3> QED
      BY <1>1, <3>2, <3>3, <3>4
  <2> QED
    BY <1>1, <1>a, <2>3, <2>4, <2>5
<1> QED
  BY <1>1, <1>a, <1>4, <1>5, ItemsReplaced

LEMMA RemoveTakesOut ==
    ASSUME NEW r \in QueueRecords, NEW pos \in 1 .. Len(r.items)
    PROVE  LET t == WithItems(r, RemoveAt(r.items, pos)) IN
           /\ t \in QueueRecords
           /\ Pending(r) = Pending(t) \cup {r.items[pos].uid}
           /\ Distinct(r) => Distinct(t) /\ r.items[pos].uid \notin Pending(t)
<1> DEFINE s == r.items
           t == RemoveAt(s, pos)
           out == WithItems(r, t)
<1>1. s \in Seq(Items)
  BY DEF QueueRecords
<1>2. /\ t \in Seq(Items) /\ Len(t) = Len(s) - 1
      /\ \A k \in 1 .. Len(s) - 1 : t[k] = IF k < pos THEN s[k] ELSE s[k + 1]
  BY <1>1, RemovedElements
<1>a. Pending(r) = {s[i].uid : i \in 1 .. Len(s)}
  BY DEF Pending
<1> HIDE DEF t
<1>b. t \in Seq(Items)
  BY <1>2
<1>3. /\ out \in QueueRecords /\ out.items = t
      /\ Pending(out) = {t[i].uid : i \in 1 .. Len(t)}
  BY <1>b, ItemsReplaced
<1> HIDE DEF out
<1>4. Pending(r) = Pending(out) \cup {s[pos].uid}
  <2>1. \A i \in 1 .. Len(s) : i = pos \/ \E k \in 1 .. Len(t) : t[k] = s[i]
    <3> SUFFICES ASSUME NEW i \in 1 .. Len(s), i # pos PROVE \E k \in 1 .. Len(t) : t[k] = s[i]
      OBVIOUS
    <3>1. CASE i < pos
      BY <1>1, <1>2, <3>1
    <3>2. CASE i > pos
      <4>1. i - 1 \in 1 .. Len(t) /\ t[i - 1] = s[i]
        BY <1>1, <1>2, <3>2
      <4> QED
        BY <4>1
    <3> QED
      BY <3>1, <3>2
  <2>2. \A k \in 1 .. Len(t) : \E i \in 1 .. Len(s) : t[k] = s[i]
    <3> SUFFICES ASSUME NEW k \in 1 .. Len(t) PROVE \E i \in 1 .. Len(s) : t[k] = s[i]
      OBVIOUS
    <3>1. k + 1 \in 1 .. Len(s) /\ k \in 1 .. Len(s) /\ t[k] \in {s[k], s[k + 1]}
      BY <1>1, <1>2
    <3> QED
      BY <3>1
  <2>3. pos \in 1 .. Len(s)
    OBVIOUS
  <2> HIDE DEF s
  <2>4. ASSUME NEW u \in Pending(r) PROVE u \in Pending(out) \cup {s[pos].uid}
    BY <1>a, <1>3, <2>1
  <2>5. ASSUME NEW u \in Pending(out) PROVE u \in Pending(r)
    BY <1>a, <1>3, <2>2
  <2> QED
    BY <1>a, <1>3, <2>3, <2>4, <2>5
<1>5. ASSUME Distinct(r) PROVE Distinct(out) /\ s[pos].uid \notin Pending(out)
  <2>1. /\ \A m, n \in 1 .. Len(s) : s[m].uid = s[n].uid => m = n
        /\ pos \in 1 .. Len(s)
    BY <1>5 DEF Distinct
  <2> HIDE DEF s
  <2>2. \A k \in 1 .. Len(t) : \E m \in 1 .. Len(s) :
          t[k] = s[m] /\ m # pos /\ ((k < pos /\ m = k) \/ (k >= pos /\ m = k + 1))
    <3> SUFFICES ASSUME NEW k \in 1 .. Len(t)
                 PROVE  \E m \in 1 .. Len(s) :
                          t[k] = s[m] /\ m # pos /\ ((k < pos /\ m = k) \/ (k >= pos /\ m = k + 1))
      OBVIOUS
    <3>1. CASE k < pos
      BY <1>1, <1>2, <2>1, <3>1
    <3>2. CASE ~(k < pos)
      <4>1. k + 1 \in 1 .. Len(s) /\ t[k] = s[k + 1]
        BY <1>1, <1>2, <2>1, <3>2
      <4> QED
        BY <2>1, <3>2, <4>1
    <3> QED
      BY <3>1, <3>2
  <2>3. ASSUME NEW i \in 1 .. Len(t), NEW j \in 1 .. Len(t), t[i].uid = t[j].uid
        PROVE  i = j
    <3>1. PICK m \in 1 .. Len(s) : t[i] = s[m] /\ ((i < pos /\ m = i) \/ (i >= pos /\ m = i + 1))
      BY <2>2
    <3>2. PICK n \in 1 .. Len(s) : t[j] = s[n] /\ ((j < pos /\ n = j) \/ (j >= pos /\ n = j + 1))
      BY <2>2
    <3>3. m = n
      BY <2>1, <2>3, <3>1, <3>2
    <3> QED
      BY <2>1, <3>1, <3>2, <3>3
  <2>4. s[pos].uid \notin Pending(out)
    BY <1>3, <2>1, <2>2
  <2> QED
    BY <1>3, <2>3, <2>4 DEF Distinct
<1> QED
  BY <1>3, <1>4, <1>5 DEF out, t

IsPlace(p) == p.at \in {"before", "after"} \/ (p.at = "pos" /\ p.n \in Int)

(* x is r with the items U added. *)
Extended(r, x, U) ==
  /\ x \in QueueRecords
  /\ Pending(x) = Pending(r) \cup U

(* An insertion that succeeds adds the item, one that fails adds nothing. *)
LEMMA PositionedAdds ==
    ASSUME NEW r \in QueueRecords, NEW it \in Items, NEW place, IsPlace(place)
    PROVE  LET x == InsertPositioned(r, it, place) IN
           /\ x.ok \in BOOLEAN
           /\ ~x.ok => x.q = r
           /\ x.ok => Extended(r, x.q, {it.uid})
           /\ x.ok /\ Distinct(r) /\ it.uid \notin Pending(r) => Distinct(x.q)
<1> DEFINE Good(x) == /\ Extended(r, x, {it.uid})
                      /\ Distinct(r) /\ it.uid \notin Pending(r) => Distinct(x)
<1>1. \A idx \in Nat : Good(InsertItem(r, idx, it))
  BY InsertItemAdds DEF Extended
<1>2. Good(PushBack(r, it))
  <2> DEFINE s == r.items
             t == Append(s, it)
  <2>1. s \in Seq(Items) /\ PushBack(r, it) = WithItems(r, t)
    BY DEF QueueRecords, PushBack
  <2>2. t \in Seq(Items) /\ Len(t) = Len(s) + 1 /\ t[Len(s) + 1] = it /\ \A i \in 1 .. Len(s) : t[i] = s[i]
    BY <2>1
  <2>3. Pending(r) = {s[i].uid : i \in 1 .. Len(s)}
    BY <2>1 DEF Pending
  <2>4. PushBack(r, it) \in QueueRecords /\ Pending(PushBack(r, it)) = {t[i].uid : i \in 1 .. Len(t)}
        /\ PushBack(r, it).items = t
    BY <2>1, <2>2, ItemsReplaced
  <2> HIDE DEF t
  <2>5. Pending(PushBack(r, it)) = Pending(r) \cup {it.uid}
    BY <2>1, <2>2, <2>3, <2>4
  <2>6. ASSUME Distinct(r), it.uid \notin Pending(r) PROVE Distinct(PushBack(r, it))
    BY <2>1, <2>2, <2>3, <2>4, <2>6 DEF Distinct
  <2> QED
    BY <2>4, <2>5, <2>6 DEF Extended
<1> HIDE DEF Good
<1>3. CASE place.at \in {"before", "after"}
  <2> DEFINE pos == IndexOfUid(r, place.ref)
  <2>1. pos \in Nat
    BY IndexFinds
  <2> HIDE DEF pos
  <2>2. InsertPositioned(r, it, place) \in
          {IF pos = 0 THEN Failed(r) ELSE Done(InsertItem(r, pos - 1, it)),
           IF pos = 0 THEN Failed(r) ELSE Done(InsertItem(r, pos, it))}
    BY <1>3 DEF InsertPositioned, InsertBeforeUid, InsertAfterUid, pos
  <2>3. pos # 0 => Good(InsertItem(r, pos - 1, it)) /\ Good(InsertItem(r, pos, it))
    BY <1>1, <2>1
  <2>4. \/ InsertPositioned(r, it, place) = Failed(r)
        \/ \E x : Good(x) /\ InsertPositioned(r, it, place) = Done(x)
    BY <2>2, <2>3
  <2>5. CASE InsertPositioned(r, it, place) = Failed(r)
    BY <2>5 DEF Failed
  <2>6. ASSUME NEW x, Good(x), InsertPositioned(r, it, place) = Done(x)
        PROVE  /\ InsertPositioned(r, it, place).ok = TRUE
               /\ InsertPositioned(r, it, place).q = x
    BY <2>6 DEF Done
  <2> QED
    BY <2>4, <2>5, <2>6 DEF Good
<1>4. CASE place.at = "pos"
  <2> DEFINE size == Len(r.items)
  <2>1. place.n \in Int /\ size \in Nat
    BY <1>4 DEF IsPlace, QueueRecords
  <2>2. \E x : Good(x) /\ InsertPositioned(r, it, place) = Done(x)
    <3>1. CASE place.n = 0 \/ place.n < -size
      <4>1. InsertPositioned(r, it, place) = Done(InsertItem(r, 0, it))
        BY <1>4, <2>1, <3>1 DEF InsertPositioned
      <4> QED
        BY <1>1, <4>1
    <3>2. CASE ~(place.n = 0 \/ place.n < -size) /\ (place.n = -1 \/ place.n >= size)
      BY <1>2, <1>4, <2>1, <3>2 DEF InsertPositioned
    <3>3. CASE place.n > 0 /\ place.n < size
      BY <1>1, <1>4, <2>1, <3>3 DEF InsertPositioned
    <3>4. CASE place.n < -1 /\ place.n >= -size
      <4>1. InsertPositioned(r, it, place) = Done(InsertItem(r, size + place.n + 1, it))
        BY <1>4, <2>1, <3>4 DEF InsertPositioned
      <4> QED
        BY <1>1, <2>1, <3>4, <4>1
    <3> QED
      BY <2>1, <3>1, <3>2, <3>3, <3>4
  <2>3. PICK x : Good(x) /\ InsertPositioned(r, it, place) = Done(x)
    BY <2>2
  <2>4. InsertPositioned(r, it, place).ok = TRUE /\ InsertPositioned(r, it, place).q = x
    BY <2>3 DEF Done
  <2> QED
    BY <2>3, <2>4 DEF Good
<1> QED
  BY <1>3, <1>4 DEF IsPlace

(* What a removal leaves. *)
LEMMA RemoveByUidTakes ==
    ASSUME NEW r \in QueueRecords, NEW uid
    PROVE  LET x == RemoveByUid(r, uid).q IN
           /\ x \in QueueRecords
           /\ Pending(x) \subseteq Pending(r) /\ Pending(r) \subseteq Pending(x) \cup {uid}
           /\ Distinct(r) => Distinct(x) /\ uid \notin Pending(x)
<1> DEFINE pos == IndexOfUid(r, uid)
<1>1. /\ pos \in 0 .. Len(r.items) /\ (pos = 0 <=> uid \notin Pending(r))
      /\ pos # 0 => r.items[pos].uid = uid
  BY IndexFinds
<1>2. RemoveByUid(r, uid).q = IF pos = 0 THEN r ELSE WithItems(r, RemoveAt(r.items, pos))
  BY DEF RemoveByUid, Failed, Done
<1> HIDE DEF pos
<1>3. CASE pos = 0
  BY <1>1, <1>2, <1>3
<1>4. CASE pos # 0
  <2>1. pos \in 1 .. Len(r.items)
    BY <1>1, <1>4 DEF QueueRecords
  <2> QED
    BY <1>1, <1>2, <1>4, <2>1, RemoveTakesOut
<1> QED
  BY <1>3, <1>4

(* An update that succeeds keeps the uids. *)
LEMMA ReplaceAtKeeps ==
    ASSUME NEW r \in QueueRecords, NEW uid, NEW it \in Items
    PROVE  LET x == ReplaceAtUid(r, uid, it) IN
           x.ok => /\ uid \in Pending(r)
                   /\ x.q \in QueueRecords
                   /\ Pending(r) \subseteq Pending(x.q) \cup {uid}
                   /\ it.uid \in Pending(x.q) /\ Pending(x.q) \subseteq Pending(r) \cup {it.uid}
                   /\ (Distinct(r) /\ (it.uid = uid \/ it.uid \notin Pending(r)) =>
                         Distinct(x.q) /\ (it.uid = uid \/ uid \notin Pending(x.q)))
<1> DEFINE pos == IndexOfUid(r, uid)
           s == r.items
           t == [s EXCEPT ![pos] = it]
<1>1. /\ pos \in 0 .. Len(r.items) /\ (pos = 0 <=> uid \notin Pending(r))
      /\ pos # 0 => r.items[pos].uid = uid
  BY IndexFinds
<1>2. ReplaceAtUid(r, uid, it) = IF pos = 0 THEN Failed(r) ELSE Done(WithItems(r, t))
  BY DEF ReplaceAtUid, ReplaceAt
<1>3. CASE pos = 0
  BY <1>2, <1>3 DEF Failed
<1>4. CASE pos # 0
  <2>1. s \in Seq(Items) /\ pos \in 1 .. Len(s) /\ s[pos].uid = uid
    BY <1>1, <1>4 DEF QueueRecords
  <2> HIDE DEF pos
  <2>2. t \in Seq(Items) /\ Len(t) = Len(s) /\ \A i \in 1 .. Len(s) : t[i] = IF i = pos THEN it ELSE s[i]
    BY <2>1
  <2> DEFINE x == WithItems(r, t)
  <2>3. Pending(r) = {s[i].uid : i \in 1 .. Len(s)}
    BY <2>1 DEF Pending
  <2>4. x \in QueueRecords /\ x.items = t /\ Pending(x) = {t[i].uid : i \in 1 .. Len(t)}
    BY <2>2, ItemsReplaced
  <2> HIDE DEF t, x
  <2>5. /\ Pending(r) \subseteq Pending(x) \cup {uid}
        /\ it.uid \in Pending(x) /\ Pending(x) \subseteq Pending(r) \cup {it.uid}
    <3>1. ASSUME NEW u \in Pending(r) PROVE u \in Pending(x) \cup {uid}
      BY <2>1, <2>2, <2>3, <2>4
    <3>2. it.uid \in Pending(x)
      BY <2>1, <2>2, <2>4
    <3>3. ASSUME NEW u \in Pending(x) PROVE u \in Pending(r) \cup {it.uid}
      BY <2>1, <2>2, <2>3, <2>4
    <3> QED
      BY <3>1, <3>2, <3>3
  <2>6. ASSUME Distinct(r), it.uid = uid \/ it.uid \notin Pending(r)
        PROVE  Distinct(x) /\ (it.uid = uid \/ uid \notin Pending(x))
    <3>1. \A i, j \in 1 .. Len(s) : s[i].uid = s[j].uid => i = j
      BY <2>6 DEF Distinct
    <3>2. \A i \in 1 .. Len(s) : i # pos => s[i].uid # it.uid /\ s[i].uid # uid
      BY <2>1, <2>3, <2>6, <3>1
    <3>3. Distinct(x)
      BY <2>1, <2>2, <2>4, <3>1, <3>2 DEF Distinct
    <3>4. it.uid # uid => uid \notin Pending(x)
      BY <2>1, <2>2, <2>4, <3>2
    <3> QED
      BY <3>3, <3>4
  <2>7. ReplaceAtUid(r, uid, it).q = x /\ uid \in Pending(r)
    BY <1>1, <1>2, <1>4, <2>1, <2>3 DEF Done, x
  <2> QED
    BY <2>4, <2>5, <2>6, <2>7
<1> QED
  BY <1>3, <1>4

(* x holds the items of r, each as often. *)
Rearranged(r, x) ==
  /\ x \in QueueRecords
  /\ Pending(x) = Pending(r)
  /\ Distinct(r) => Distinct(x)

LEMMA OutAndIn ==
    ASSUME NEW r \in QueueRecords, NEW pos \in 1 .. Len(r.items), NEW dest \in Nat
    PROVE  Rearranged(r, InsertItem(WithItems(r, RemoveAt(r.items, pos)), dest, r.items[pos]))
<1> DEFINE out == WithItems(r, RemoveAt(r.items, pos))
           it == r.items[pos]
<1>1. it \in Items
  BY DEF QueueRecords
<1>2. /\ out \in QueueRecords /\ Pending(r) = Pending(out) \cup {it.uid}
      /\ Distinct(r) => Distinct(out) /\ it.uid \notin Pending(out)
  BY RemoveTakesOut
<1> HIDE DEF out, it
<1>3. Rearranged(r, InsertItem(out, dest, it))
  BY <1>1, <1>2, InsertItemAdds DEF Rearranged
<1> QED
  BY <1>3 DEF out, it

(* A move of a pending item to a position, or next to another pending      *)
(* item, keeps every item.                                                 *)
LEMMA MoveKeeps ==
    ASSUME NEW r \in QueueRecords, NEW uid \in Pending(r), NEW place, IsPlace(place),
           place.at # "pos" => place.ref \in Pending(r) \ {uid}
    PROVE  /\ Rearranged(r, MoveTowards(r, uid, place).q)
           /\ MoveTowards(r, uid, place).ok
<1> DEFINE pos == IndexOfUid(r, uid)
           out == WithItems(r, RemoveAt(r.items, pos))
           x == MoveTowards(r, uid, place)
<1>1. pos \in 1 .. Len(r.items) /\ r.items[pos].uid = uid
  BY IndexFinds DEF QueueRecords
<1>2. out = [r EXCEPT !.items = RemoveAt(@, pos)]
  BY DEF WithItems, QueueRecords
<1>3. out \in QueueRecords /\ Pending(r) = Pending(out) \cup {uid}
  BY <1>1, RemoveTakesOut
<1> HIDE DEF pos, out
<1>4. CASE place.at = "pos"
  <2> DEFINE dest == IF place.n < 0 THEN Len(r.items) ELSE place.n
  <2>1. dest \in Nat
    BY <1>4 DEF IsPlace, QueueRecords
  <2>2. x = Done(InsertItem(out, dest, r.items[pos]))
    BY <1>1, <1>2, <1>4 DEF MoveTowards, MoveTo, pos
  <2> HIDE DEF dest
  <2> QED
    BY <1>1, <2>1, <2>2, OutAndIn DEF Done, out
<1>5. CASE place.at \in {"before", "after"}
  <2> DEFINE at == IndexOfUid(out, place.ref)
  <2>1. at \in 1 .. Len(out.items)
    <3>1. place.ref \in Pending(out)
      BY <1>3, <1>5
    <3> QED
      BY <1>3, <3>1, IndexFinds DEF QueueRecords
  <2>2. x = IF place.at = "before" THEN InsertBeforeUid(out, place.ref, r.items[pos])
            ELSE InsertAfterUid(out, place.ref, r.items[pos])
    BY <1>1, <1>2, <1>5 DEF MoveTowards, MoveBeforeUid, MoveAfterUid, pos
  <2>3. \E dest \in Nat : x = Done(InsertItem(out, dest, r.items[pos]))
    BY <1>5, <2>1, <2>2 DEF InsertBeforeUid, InsertAfterUid
  <2> QED
    BY <1>1, <2>3, OutAndIn DEF Done, out
<1> QED
  BY <1>4, <1>5 DEF IsPlace

(* A move with any reference: nothing is added, nothing doubled. *)
LEMMA MoveTyped ==
    ASSUME NEW r \in QueueRecords, NEW uid \in Pending(r), NEW place, IsPlace(place)
    PROVE  /\ MoveTowards(r, uid, place).q \in QueueRecords
           /\ Pending(MoveTowards(r, uid, place).q) \subseteq Pending(r)
           /\ Distinct(r) => Distinct(MoveTowards(r, uid, place).q)
<1>1. CASE place.at # "pos" => place.ref \in Pending(r) \ {uid}
  BY <1>1, MoveKeeps DEF Rearranged
<1>2. CASE place.at \in {"before", "after"} /\ place.ref \notin Pending(r) \ {uid}
  <2> DEFINE pos == IndexOfUid(r, uid)
             out == WithItems(r, RemoveAt(r.items, pos))
             x == MoveTowards(r, uid, place)
  <2>1. pos \in 1 .. Len(r.items) /\ r.items[pos].uid = uid /\ r.items[pos] \in Items
    BY IndexFinds DEF QueueRecords
  <2>2. out = [r EXCEPT !.items = RemoveAt(@, pos)]
    BY DEF WithItems, QueueRecords
  <2>3. /\ out \in QueueRecords /\ Pending(r) = Pending(out) \cup {uid}
        /\ Distinct(r) => Distinct(out) /\ uid \notin Pending(out)
    BY <2>1, RemoveTakesOut
  <2> HIDE DEF pos, out
  <2>4. x = IF place.at = "before" THEN InsertBeforeUid(out, place.ref, r.items[pos])
            ELSE InsertAfterUid(out, place.ref, r.items[pos])
    BY <1>2, <2>1, <2>2 DEF MoveTowards, MoveBeforeUid, MoveAfterUid, pos
  <2>5. IndexOfUid(out, place.ref) \in Nat
    BY <2>3, IndexFinds
  <2>6. x = Failed(out) \/ \E dest \in Nat : x = Done(InsertItem(out, dest, r.items[pos]))
    BY <2>4, <2>5 DEF InsertBeforeUid, InsertAfterUid
  <2>7. CASE x = Failed(out)
    BY <2>3, <2>7 DEF Failed
  <2>8. CASE \E dest \in Nat : x = Done(InsertItem(out, dest, r.items[pos]))
    BY <2>1, <2>8, OutAndIn DEF Done, out, Rearranged
  <2> QED
    BY <2>6, <2>7, <2>8
<1> QED
  BY <1>1, <1>2 DEF IsPlace

(* The batches: both items are there afterwards, or none. *)
LEMMA AddBatchAdds ==
    ASSUME NEW r \in QueueRecords, NEW a \in Items, NEW b \in Items, NEW place, IsPlace(place),
           QueueItemAddBatch(r, a, b, place).ok
    PROVE  LET x == QueueItemAddBatch(r, a, b, place).q IN
           /\ Extended(r, x, {a.uid, b.uid})
           /\ Distinct(r) /\ a.uid # b.uid /\ {a.uid, b.uid} \cap Pending(r) = {} => Distinct(x)
<1> DEFINE y == InsertPositioned(r, a, place)
<1>1. /\ y.ok => Extended(r, y.q, {a.uid})
      /\ y.ok /\ Distinct(r) /\ a.uid \notin Pending(r) => Distinct(y.q)
  BY PositionedAdds
<1>2. QueueItemAddBatch(r, a, b, place) =
        IF y.ok THEN InsertPositioned(y.q, b, After(a.uid)) ELSE y
  BY DEF QueueItemAddBatch, PlaceBlock
<1>3. IsPlace(After(a.uid))
  BY DEF IsPlace, After
<1> HIDE DEF y
<1>4. y.ok
  BY <1>2
<1>5. LET x == InsertPositioned(y.q, b, After(a.uid)) IN
      /\ x.ok => Extended(y.q, x.q, {b.uid})
      /\ x.ok /\ Distinct(y.q) /\ b.uid \notin Pending(y.q) => Distinct(x.q)
  BY <1>1, <1>3, <1>4, PositionedAdds DEF Extended
<1> QED
  BY <1>1, <1>2, <1>4, <1>5 DEF Extended

LEMMA MoveBatchKeeps ==
    ASSUME NEW r \in QueueRecords, NEW u, NEW v, NEW place, IsPlace(place), NEW reorder
    PROVE  Rearranged(r, QueueItemMoveBatch(r, u, v, place, reorder).q)
<1> DEFINE swap == reorder /\ IndexOfUid(r, v) < IndexOfUid(r, u)
           first == IF swap THEN v ELSE u
           second == IF swap THEN u ELSE v
           y == MoveTowards(r, first, place)
<1>1. CASE ~MoveBatchAccepted(r, u, v, place)
  BY <1>1 DEF QueueItemMoveBatch, Failed, Rearranged
<1>2. CASE MoveBatchAccepted(r, u, v, place)
  <2>1. /\ first # second /\ {first, second} \subseteq Pending(r)
        /\ place.at # "pos" => place.ref \in Pending(r) \ {first, second}
    BY <1>2 DEF MoveBatchAccepted
  <2>2. QueueItemMoveBatch(r, u, v, place, reorder) =
          IF y.ok THEN MoveAfterUid(y.q, second, first) ELSE y
    BY <1>2 DEF QueueItemMoveBatch, PlaceBlock
  <2> HIDE DEF first, second
  <2>3. y.ok /\ Rearranged(r, y.q)
    BY <2>1, MoveKeeps
  <2>5. IsPlace(After(first)) /\ After(first).ref = first /\ After(first).at = "after"
    BY DEF IsPlace, After
  <2>4. ASSUME NEW r2, NEW p, p.at = "after" PROVE MoveTowards(r2, second, p) = MoveAfterUid(r2, second, p.ref)
    BY <2>4 DEF MoveTowards
  <2>6. Rearranged(y.q, MoveTowards(y.q, second, After(first)).q)
    BY <2>1, <2>3, <2>5, MoveKeeps DEF Rearranged
  <2> QED
    BY <2>2, <2>3, <2>4, <2>5, <2>6 DEF Rearranged
<1> QED
  BY <1>1, <1>2

-----------------------------------------------------------------------------
(* Types.  The type invariant is not inductive: that environment numbers   *)
(* stay in range needs the room left when one is being opened, that a      *)
(* worker's engine exists needs the environment it was started in, and     *)
(* that what is archived is an item needs who carries one.                 *)

Carrying == {"stopdone", "reject", "begin", "enter", "run", "book", "archive", "loop"}

EnvsOpen ==
  /\ env <= Len(engines)
  /\ RepAt("claim") => env # 0
  /\ RepAt("opening") => Len(engines) < MaxEnvs
  /\ \A w \in DOMAIN workers : workers[w].env \in DOMAIN engines

Carries ==
  /\ rep.single => rep.item \in Items
  /\ \A w \in DOMAIN workers :
       /\ workers[w].pc \in Carrying => workers[w].item \in Items
       /\ workers[w].pc = "spawned" /\ workers[w].single => workers[w].item \in Items

TypeInv == TypeOK /\ EnvsOpen /\ Carries

LEMMA SeqUpdated ==
    ASSUME NEW S, NEW s \in Seq(S), NEW i \in DOMAIN s, NEW x \in S
    PROVE  LET t == [s EXCEPT ![i] = x] IN
           /\ t \in Seq(S) /\ Len(t) = Len(s) /\ DOMAIN t = DOMAIN s
           /\ t[i] = x /\ \A k \in DOMAIN s : k # i => t[k] = s[k]
<1> DEFINE t == [s EXCEPT ![i] = x]
<1>1. t \in [1 .. Len(s) -> S] /\ DOMAIN t = 1 .. Len(s)
  OBVIOUS
<1>2. t \in Seq(S) /\ Len(t) = Len(s)
  BY <1>1, Len(s) \in Nat
<1> QED
  BY <1>1, <1>2

(* What a worker's step may change besides the workers and the engines. *)
SharedOK ==
  /\ q \in QueueRecords
  /\ mgr \in [state : States, current : Items \cup {NoItem}, stopPending : BOOLEAN,
              pausePending : BOOLEAN, autostart : BOOLEAN, loop : BOOLEAN]
  /\ slot \in [next : Nat, gen : Nat, handle : BOOLEAN]
  /\ finished \in BOOLEAN
  /\ items \in [{"submitted", "withdrawn", "archived", "revoked"} -> SUBSET Uids]

LEMMA SharedTyped == TypeOK => SharedOK
BY DEF TypeOK, SharedOK, QueueRecords

LEMMA WorkerUpdated ==
    ASSUME TypeInv, NEW w \in DOMAIN workers, NEW x \in Workers,
           workers' = [workers EXCEPT ![w] = x],
           x.env = workers[w].env, x.pc # "spawned",
           x.pc \in Carrying => x.item \in Items,
           UNCHANGED <<env, rep, down, budget>>, SharedOK',
           engines' \in Seq(Engines), Len(engines') = Len(engines)
    PROVE  TypeInv'
<1>1. /\ workers' \in Seq(Workers) /\ DOMAIN workers' = DOMAIN workers
      /\ workers'[w] = x /\ \A k \in DOMAIN workers : k # w => workers'[k] = workers[k]
  BY SeqUpdated DEF TypeInv, TypeOK
<1>2. DOMAIN engines' = DOMAIN engines
  BY DEF TypeInv, TypeOK
<1>3. EnvsOpen' /\ Carries'
  BY <1>1, <1>2 DEF TypeInv, EnvsOpen, Carries, RepAt
<1>4. TypeOK'
  BY <1>1 DEF TypeInv, TypeOK, SharedOK, QueueRecords
<1> QED
  BY <1>3, <1>4 DEF TypeInv

LEMMA WorkerTypes ==
    ASSUME TypeInv, NEW w \in 1 .. MaxWorkers, WorkerStep(w)
    PROVE  TypeInv'
<1> USE DEF WorkerAt
<1>0. /\ w \in DOMAIN workers /\ workers[w] \in Workers
      /\ workers[w].env \in DOMAIN engines /\ engines \in Seq(Engines) /\ engines[workers[w].env] \in Engines
  <2>1. w \in DOMAIN workers
    BY DEF WorkerStep, Dropped, Begins, Top, ClearStop, Pop, StopDone, StopSet,
           Reject, BeginItem, EnterRun, RunEnds, Book, Archive, LoopItem, IdleOut, Release
  <2> QED
    BY <2>1 DEF TypeInv, TypeOK, EnvsOpen
<1>c. /\ workers[w].pc \in Carrying => workers[w].item \in Items /\ workers[w].item.uid \in Uids
      /\ workers[w].pc = "spawned" /\ workers[w].single => workers[w].item \in Items
      /\ {workers[w].item.uid} \ {NoItem.uid} \in SUBSET Uids
  BY <1>0 DEF TypeInv, Carries, Items, Workers, NoItem
<1>s. SharedOK
  BY SharedTyped DEF TypeInv
<1>h. ASSUME NEW it, it.uid \in Uids PROVE PushHistory(q, it) \in QueueRecords
  BY <1>h, <1>s DEF SharedOK, PushHistory, QueueRecords
<1>a. ASSUME workers[w].item.uid \in Uids
      PROVE  [items EXCEPT !.archived = @ \cup {workers[w].item.uid}] \in
               [{"submitted", "withdrawn", "archived", "revoked"} -> SUBSET Uids]
  BY <1>a, <1>s DEF SharedOK
<1>1. CASE Dropped(w)
  <2> DEFINE x == [workers[w] EXCEPT !.pc = "release"]
  <2>1. workers' = [workers EXCEPT ![w] = x]
    BY <1>0, <1>1 DEF Dropped, WorkerGoes
  <2>2. x \in Workers /\ x.env = workers[w].env /\ x.pc # "spawned" /\ (x.pc \in Carrying => x.item \in Items)
    BY <1>0, <1>c, <1>1 DEF Dropped, Workers, WorkerPCs, ItemCompleted, Statuses, Carrying
  <2>3. SharedOK'
    BY <1>s, <1>1, <1>c DEF Dropped, SharedOK, NoItem
  <2> HIDE DEF x
  <2> QED
    BY <1>0, <1>1, <2>1, <2>2, <2>3, WorkerUpdated DEF Dropped
<1>2. CASE Begins(w)
  <2> DEFINE x == [workers[w] EXCEPT !.pc = IF workers[w].single THEN "begin" ELSE "top"]
  <2>1. workers' = [workers EXCEPT ![w] = x]
    BY <1>0, <1>2 DEF Begins, WorkerGoes
  <2>2. x \in Workers /\ x.env = workers[w].env /\ x.pc # "spawned" /\ (x.pc \in Carrying => x.item \in Items)
    BY <1>0, <1>c, <1>2 DEF Begins, Workers, WorkerPCs, ItemCompleted, Statuses, Carrying
  <2>3. SharedOK'
    BY <1>s, <1>2 DEF Begins, SharedOK
  <2> HIDE DEF x
  <2> QED
    BY <1>0, <1>2, <2>1, <2>2, <2>3, WorkerUpdated DEF Begins
<1>3. CASE Top(w)
  <2> DEFINE x == [workers[w] EXCEPT !.pc = IF mgr.stopPending THEN "clear" ELSE "pop"]
  <2>1. workers' = [workers EXCEPT ![w] = x]
    BY <1>0, <1>3 DEF Top, WorkerGoes
  <2>2. x \in Workers /\ x.env = workers[w].env /\ x.pc # "spawned" /\ (x.pc \in Carrying => x.item \in Items)
    BY <1>0, <1>c, <1>3 DEF Top, Workers, WorkerPCs, ItemCompleted, Statuses, Carrying
  <2>3. SharedOK'
    BY <1>s, <1>3 DEF Top, SharedOK
  <2> HIDE DEF x
  <2> QED
    BY <1>0, <1>3, <2>1, <2>2, <2>3, WorkerUpdated DEF Top
<1>4. CASE ClearStop(w)
  <2> DEFINE x == [workers[w] EXCEPT !.pc = "idle", !.disarm = TRUE]
  <2>1. workers' = [workers EXCEPT ![w] = x]
    BY <1>0, <1>4 DEF ClearStop
  <2>2. x \in Workers /\ x.env = workers[w].env /\ x.pc # "spawned" /\ (x.pc \in Carrying => x.item \in Items)
    BY <1>0, <1>c, <1>4 DEF ClearStop, Workers, WorkerPCs, ItemCompleted, Statuses, Carrying
  <2>3. SharedOK'
    BY <1>s, <1>4 DEF ClearStop, SharedOK
  <2> HIDE DEF x
  <2> QED
    BY <1>0, <1>4, <2>1, <2>2, <2>3, WorkerUpdated DEF ClearStop
<1>5. CASE StopDone(w)
  <2> DEFINE x == [workers[w] EXCEPT !.pc = "stopset", !.item = NoItem]
  <2>1. workers' = [workers EXCEPT ![w] = x]
    BY <1>0, <1>5 DEF StopDone
  <2>2. x \in Workers /\ x.env = workers[w].env /\ x.pc # "spawned" /\ (x.pc \in Carrying => x.item \in Items)
    BY <1>0, <1>c, <1>5 DEF StopDone, Workers, WorkerPCs, ItemCompleted, Statuses, Carrying
  <2>3. SharedOK'
    BY <1>s, <1>5, <1>c, <1>h, <1>a DEF StopDone, SharedOK, Archives, Carrying
  <2> HIDE DEF x
  <2> QED
    BY <1>0, <1>5, <2>1, <2>2, <2>3, WorkerUpdated DEF StopDone
<1>6. CASE StopSet(w)
  <2> DEFINE x == [workers[w] EXCEPT !.pc = "top"]
  <2>1. workers' = [workers EXCEPT ![w] = x]
    BY <1>0, <1>6 DEF StopSet, WorkerGoes
  <2>2. x \in Workers /\ x.env = workers[w].env /\ x.pc # "spawned" /\ (x.pc \in Carrying => x.item \in Items)
    BY <1>0, <1>c, <1>6 DEF StopSet, Workers, WorkerPCs, ItemCompleted, Statuses, Carrying
  <2>3. SharedOK'
    BY <1>s, <1>6 DEF StopSet, SharedOK
  <2> HIDE DEF x
  <2> QED
    BY <1>0, <1>6, <2>1, <2>2, <2>3, WorkerUpdated DEF StopSet
<1>7. CASE Reject(w)
  <2> DEFINE x == [workers[w] EXCEPT !.pc = "idle", !.disarm = TRUE, !.item = NoItem]
  <2>1. workers' = [workers EXCEPT ![w] = x]
    BY <1>0, <1>7 DEF Reject
  <2>2. x \in Workers /\ x.env = workers[w].env /\ x.pc # "spawned" /\ (x.pc \in Carrying => x.item \in Items)
    BY <1>0, <1>c, <1>7 DEF Reject, Workers, WorkerPCs, ItemCompleted, Statuses, Carrying
  <2>3. SharedOK'
    BY <1>s, <1>7, <1>c, <1>h, <1>a DEF Reject, SharedOK, Archives, Carrying
  <2> HIDE DEF x
  <2> QED
    BY <1>0, <1>7, <2>1, <2>2, <2>3, WorkerUpdated DEF Reject
<1>8. CASE BeginItem(w)
  <2> DEFINE x == [workers[w] EXCEPT !.pc = "enter"]
  <2>1. workers' = [workers EXCEPT ![w] = x]
    BY <1>0, <1>8 DEF BeginItem, WorkerGoes
  <2>2. x \in Workers /\ x.env = workers[w].env /\ x.pc # "spawned" /\ (x.pc \in Carrying => x.item \in Items)
    BY <1>0, <1>c, <1>8 DEF BeginItem, Workers, WorkerPCs, ItemCompleted, Statuses, Carrying
  <2>3. SharedOK'
    BY <1>s, <1>8, <1>c DEF BeginItem, SharedOK, Carrying, States, NoItem
  <2> HIDE DEF x
  <2> QED
    BY <1>0, <1>8, <2>1, <2>2, <2>3, WorkerUpdated DEF BeginItem
<1>9. CASE Book(w)
  <2> DEFINE x == [workers[w] EXCEPT !.pc = "archive"]
  <2>1. workers' = [workers EXCEPT ![w] = x]
    BY <1>0, <1>9 DEF Book, WorkerGoes
  <2>2. x \in Workers /\ x.env = workers[w].env /\ x.pc # "spawned" /\ (x.pc \in Carrying => x.item \in Items)
    BY <1>0, <1>c, <1>9 DEF Book, Workers, WorkerPCs, ItemCompleted, Statuses, Carrying
  <2>3. SharedOK'
    BY <1>s, <1>9 DEF Book, SharedOK, NoItem
  <2> HIDE DEF x
  <2> QED
    BY <1>0, <1>9, <2>1, <2>2, <2>3, WorkerUpdated DEF Book
<1>10. CASE Archive(w)
  <2> DEFINE x == [workers[w] EXCEPT !.pc = IF workers[w].single THEN "idle" ELSE "loop", !.disarm = ~ItemCompleted(workers[w].status)]
  <2>1. workers' = [workers EXCEPT ![w] = x]
    BY <1>0, <1>10 DEF Archive
  <2>2. x \in Workers /\ x.env = workers[w].env /\ x.pc # "spawned" /\ (x.pc \in Carrying => x.item \in Items)
    BY <1>0, <1>c, <1>10 DEF Archive, Workers, WorkerPCs, ItemCompleted, Statuses, Carrying
  <2>3. SharedOK'
    BY <1>s, <1>10, <1>c, <1>h, <1>a DEF Archive, SharedOK, Archives, Carrying
  <2> HIDE DEF x
  <2> QED
    BY <1>0, <1>10, <2>1, <2>2, <2>3, WorkerUpdated DEF Archive
<1>11. CASE IdleOut(w)
  <2> DEFINE x == [workers[w] EXCEPT !.pc = "release"]
  <2>1. workers' = [workers EXCEPT ![w] = x]
    BY <1>0, <1>11 DEF IdleOut, WorkerGoes
  <2>2. x \in Workers /\ x.env = workers[w].env /\ x.pc # "spawned" /\ (x.pc \in Carrying => x.item \in Items)
    BY <1>0, <1>c, <1>11 DEF IdleOut, Workers, WorkerPCs, ItemCompleted, Statuses, Carrying
  <2>3. SharedOK'
    BY <1>s, <1>11 DEF IdleOut, SharedOK, States, NoItem
  <2> HIDE DEF x
  <2> QED
    BY <1>0, <1>11, <2>1, <2>2, <2>3, WorkerUpdated DEF IdleOut
<1>12. CASE Release(w)
  <2> DEFINE x == [workers[w] EXCEPT !.pc = "done", !.item = NoItem, !.status = "none"]
  <2>1. workers' = [workers EXCEPT ![w] = x]
    BY <1>0, <1>12 DEF Release
  <2>2. x \in Workers /\ x.env = workers[w].env /\ x.pc # "spawned" /\ (x.pc \in Carrying => x.item \in Items)
    BY <1>0, <1>c, <1>12 DEF Release, Workers, WorkerPCs, ItemCompleted, Statuses, Carrying
  <2>3. Emptied(slot) \in [next : Nat, gen : Nat, handle : BOOLEAN]
    BY <1>s DEF SharedOK, Emptied
  <2>4. SharedOK'
    BY <1>s, <1>12, <2>3 DEF Release, SharedOK
  <2> HIDE DEF x
  <2> QED
    BY <1>0, <1>12, <2>1, <2>2, <2>4, WorkerUpdated DEF Release
<1>13. CASE LoopItem(w)
  <2> DEFINE x == [workers[w] EXCEPT !.pc = IF workers[w].disarm THEN "idle" ELSE "top",
                                     !.item = NoItem, !.status = "none"]
  <2>1. workers' = [workers EXCEPT ![w] = x]
    BY <1>0, <1>13 DEF LoopItem
  <2>2. x \in Workers /\ x.env = workers[w].env /\ x.pc # "spawned" /\ (x.pc \in Carrying => x.item \in Items)
    BY <1>0, <1>c, <1>13 DEF LoopItem, Workers, WorkerPCs, ItemCompleted, Statuses, Carrying
  <2>3. workers[w].item \in Items /\ q.items \in Seq(Items) /\ Append(q.items, workers[w].item) \in Seq(Items)
    BY <1>13, <1>c, <1>s DEF LoopItem, SharedOK, QueueRecords, Carrying
  <2>4. q' \in QueueRecords
    BY <1>13, <1>s, <2>3, ItemsReplaced DEF LoopItem, PushBack, SharedOK
  <2>5. SharedOK'
    BY <1>13, <1>s, <2>4 DEF LoopItem, SharedOK
  <2> HIDE DEF x
  <2> QED
    BY <1>0, <1>13, <2>1, <2>2, <2>5, WorkerUpdated DEF LoopItem
<1>14. CASE \E builds \in BOOLEAN : Pop(w, builds)
  <2>1. PICK builds \in BOOLEAN : Pop(w, builds)
    BY <1>14
  <2>2. CASE q.items = <<>>
    <3> DEFINE x == [workers[w] EXCEPT !.pc = "idle", !.disarm = FALSE]
    <3>1. workers' = [workers EXCEPT ![w] = x] /\ q' = q
      BY <1>0, <2>1, <2>2 DEF Pop, PopFront
    <3>2. x \in Workers /\ x.env = workers[w].env /\ x.pc \notin Carrying \cup {"spawned"}
      BY <1>0 DEF Workers, WorkerPCs, Carrying
    <3>3. SharedOK'
      BY <1>s, <2>1, <3>1 DEF Pop, SharedOK
    <3> HIDE DEF x
    <3> QED
      BY <1>0, <2>1, <3>1, <3>2, <3>3, WorkerUpdated DEF Pop
  <2>3. CASE q.items # <<>>
    <3> DEFINE it == Head(q.items)
               pc == AfterPop(it, builds)
               x == [workers[w] EXCEPT !.pc = pc, !.item = it]
    <3>1. it \in Items /\ Tail(q.items) \in Seq(Items)
      BY <1>s, <2>3 DEF SharedOK, QueueRecords
    <3>2. pc \in {"stopdone", "begin", "reject"}
      BY <3>1 DEF AfterPop, Items, Kinds
    <3>3. workers' = [workers EXCEPT ![w] = x] /\ q' = WithItems(q, Tail(q.items))
      BY <1>0, <2>1, <2>3 DEF Pop, PopFront
    <3> HIDE DEF pc, it
    <3>4. x \in Workers /\ x.env = workers[w].env /\ x.pc # "spawned" /\ x.item \in Items
      BY <1>0, <3>1, <3>2 DEF Workers, WorkerPCs
    <3> HIDE DEF x
    <3>q. q' \in QueueRecords
      BY <1>s, <3>1, <3>3, ItemsReplaced DEF SharedOK
    <3>5. SharedOK'
      BY <1>s, <2>1, <3>q DEF Pop, SharedOK
    <3> QED
      BY <1>0, <2>1, <3>3, <3>4, <3>5, WorkerUpdated DEF Pop
  <2> QED
    BY <2>2, <2>3
<1>15. CASE EnterRun(w)
  <2> DEFINE e == workers[w].env
  <2>s. SharedOK'
    BY <1>s, <1>15 DEF EnterRun, SharedOK
  <2>2. CASE engines[e].busy = NoOne
    <3> DEFINE x == [workers[w] EXCEPT !.pc = "run"]
               y == [engines[e] EXCEPT !.busy = w, !.intr = "none"]
    <3>1. workers' = [workers EXCEPT ![w] = x] /\ engines' = [engines EXCEPT ![e] = y]
      BY <1>0, <1>15, <2>2 DEF EnterRun, WorkerGoes
    <3>2. x \in Workers /\ x.env = workers[w].env /\ x.pc # "spawned" /\ x.item \in Items
      BY <1>0, <1>c, <1>15 DEF EnterRun, Workers, WorkerPCs, Carrying
    <3>y. y \in Engines
      BY <1>0, w \in Nat DEF Engines
    <3> HIDE DEF x, y
    <3>3. engines' \in Seq(Engines) /\ Len(engines') = Len(engines)
      BY <1>0, <3>1, <3>y, SeqUpdated
    <3> QED
      BY <1>0, <1>15, <2>s, <3>1, <3>2, <3>3, WorkerUpdated DEF EnterRun
  <2>3. CASE engines[e].busy # NoOne
    <3> DEFINE x == [workers[w] EXCEPT !.pc = "book", !.status = "fail"]
    <3>1. workers' = [workers EXCEPT ![w] = x] /\ engines' = engines
      BY <1>0, <1>15, <2>3 DEF EnterRun
    <3>2. x \in Workers /\ x.env = workers[w].env /\ x.pc # "spawned" /\ x.item \in Items
      BY <1>0, <1>c, <1>15 DEF EnterRun, Workers, WorkerPCs, Statuses, Carrying
    <3> HIDE DEF x
    <3> QED
      BY <1>0, <1>15, <2>s, <3>1, <3>2, WorkerUpdated DEF EnterRun
  <2> QED
    BY <2>2, <2>3
<1>16. CASE RunEnds(w)
  <2> DEFINE e == workers[w].env
             y == [engines[e] EXCEPT !.busy = NoOne]
             S == IF engines[e].intr = "none" THEN {"success", "no-run", "fail"} ELSE {engines[e].intr}
  <2>s. SharedOK'
    BY <1>s, <1>16 DEF RunEnds, SharedOK
  <2>2. PICK s \in S : workers' = [workers EXCEPT ![w].pc = "book", ![w].status = s]
    BY <1>16 DEF RunEnds
  <2>3. s \in Statuses
    BY <1>0, <2>2 DEF Engines, Statuses
  <2> DEFINE x == [workers[w] EXCEPT !.pc = "book", !.status = s]
  <2>4. workers' = [workers EXCEPT ![w] = x] /\ engines' = [engines EXCEPT ![e] = y]
    BY <1>0, <1>16, <2>2 DEF RunEnds
  <2>5. x \in Workers /\ x.env = workers[w].env /\ x.pc # "spawned" /\ x.item \in Items
    BY <1>0, <1>c, <1>16, <2>3 DEF RunEnds, Workers, WorkerPCs, Carrying
  <2>y. y \in Engines
    BY <1>0 DEF Engines, NoOne
  <2> HIDE DEF x, y
  <2>6. engines' \in Seq(Engines) /\ Len(engines') = Len(engines)
    BY <1>0, <2>4, <2>y, SeqUpdated
  <2> QED
    BY <1>0, <1>16, <2>s, <2>4, <2>5, <2>6, WorkerUpdated DEF RunEnds
<1> QED
  BY <1>1, <1>2, <1>3, <1>4, <1>5, <1>6, <1>7, <1>8, <1>9, <1>10, <1>11, <1>12, <1>13, <1>14,
     <1>15, <1>16 DEF WorkerStep

(* What the rep thread, a request or the console may do to the workers:    *)
(* tell one to stop.                                                       *)
WorkersKept ==
  /\ workers' \in Seq(Workers) /\ DOMAIN workers' = DOMAIN workers
  /\ \A w \in DOMAIN workers :
       /\ workers'[w].pc = workers[w].pc /\ workers'[w].env = workers[w].env
       /\ workers'[w].item = workers[w].item /\ workers'[w].single = workers[w].single

LEMMA SameWorkersKept == TypeOK /\ UNCHANGED workers => WorkersKept
BY DEF TypeOK, WorkersKept

LEMMA OneKept ==
    ASSUME workers \in Seq(Workers), NEW g \in DOMAIN workers, NEW x \in Workers,
           x.pc = workers[g].pc, x.env = workers[g].env, x.item = workers[g].item, x.single = workers[g].single,
           workers' = [workers EXCEPT ![g] = x]
    PROVE  WorkersKept
<1>1. /\ workers' \in Seq(Workers) /\ DOMAIN workers' = DOMAIN workers
      /\ workers'[g] = x /\ \A k \in DOMAIN workers : k # g => workers'[k] = workers[k]
  BY SeqUpdated
<1> QED
  BY <1>1 DEF WorkersKept

LEMMA AbortKeeps ==
    ASSUME TypeOK, NEW g \in DOMAIN workers, workers' = [workers EXCEPT ![g].aborted = TRUE]
    PROVE  WorkersKept
<1> DEFINE x == [workers[g] EXCEPT !.aborted = TRUE]
<1>1. workers' = [workers EXCEPT ![g] = x]
  BY DEF TypeOK
<1>2. workers \in Seq(Workers) /\ workers[g] \in Workers
  BY DEF TypeOK
<1>3. /\ x \in Workers /\ x.pc = workers[g].pc /\ x.env = workers[g].env
      /\ x.item = workers[g].item /\ x.single = workers[g].single
  BY <1>2 DEF Workers
<1> HIDE DEF x
<1> QED
  BY <1>1, <1>2, <1>3, OneKept

LEMMA RevokedKeeps ==
    ASSUME TypeOK, workers' = Revoked(workers, slot), slot' = Emptied(slot)
    PROVE  WorkersKept /\ slot' \in [next : Nat, gen : Nat, handle : BOOLEAN]
<1>1. slot' \in [next : Nat, gen : Nat, handle : BOOLEAN]
  BY DEF TypeOK, Emptied
<1>2. CASE slot.gen # 0 /\ slot.handle /\ slot.gen \in DOMAIN workers
  BY <1>1, <1>2, AbortKeeps DEF Revoked
<1>3. CASE ~(slot.gen # 0 /\ slot.handle /\ slot.gen \in DOMAIN workers)
  <2>1. workers' = workers
    BY <1>3 DEF Revoked, TypeOK
  <2> QED
    BY <1>1, <2>1, SameWorkersKept
<1> QED
  BY <1>2, <1>3

LEMMA RepUpdated ==
    ASSUME TypeInv, WorkersKept, SharedOK', down' \in BOOLEAN,
           env' \in 0 .. MaxEnvs, budget' \in 0 .. MaxRequests,
           engines' \in Seq(Engines), Len(engines) <= Len(engines'), env' <= Len(engines'),
           rep' \in [pc : RepPCs, single : BOOLEAN, item : Items \cup {NoItem}],
           rep'.single => rep'.item \in Items,
           rep'.pc = "claim" => env' # 0,
           rep'.pc = "opening" => Len(engines') < MaxEnvs
    PROVE  TypeInv'
<1>1. DOMAIN engines \subseteq DOMAIN engines'
  BY DEF TypeInv, TypeOK
<1>2. EnvsOpen' /\ Carries'
  BY <1>1 DEF TypeInv, EnvsOpen, Carries, WorkersKept, RepAt
<1>3. TypeOK'
  BY DEF TypeInv, TypeOK, SharedOK, QueueRecords, WorkersKept
<1> QED
  BY <1>2, <1>3 DEF TypeInv

(* A handler that only touches the queue and goes back to the loop. *)
LEMMA QueueTyped ==
    ASSUME TypeInv, NEW m, Receives(m), OnlyQueue, NEW pc \in {"poll", "auto"}, RepGoes(pc),
           q' \in QueueRecords,
           items' \in [{"submitted", "withdrawn", "archived", "revoked"} -> SUBSET Uids]
    PROVE  TypeInv'
<1>1. SharedOK'
  BY SharedTyped DEF SharedOK, TypeInv, OnlyQueue
<1>2. WorkersKept
  BY SameWorkersKept DEF OnlyQueue, TypeInv
<1>3. budget' \in 0 .. MaxRequests
  BY ServerAssumption DEF Receives, TypeInv, TypeOK
<1>4. rep' \in [pc : RepPCs, single : BOOLEAN, item : Items \cup {NoItem}] /\ ~rep'.single /\ rep'.pc = pc
  BY DEF RepGoes, RepPCs
<1>5. env' \in 0 .. MaxEnvs /\ engines' \in Seq(Engines) /\ engines' = engines /\ env' <= Len(engines') /\ down' \in BOOLEAN
  BY DEF OnlyQueue, TypeInv, TypeOK, EnvsOpen
<1>6. Len(engines) <= Len(engines')
  BY <1>5 DEF TypeInv, TypeOK
<1> QED
  BY <1>1, <1>2, <1>3, <1>4, <1>5, <1>6, RepUpdated

LEMMA FreshUidNatural == TypeOK => FreshUid \in Nat \ {0}
<1> SUFFICES ASSUME TypeOK PROVE FreshUid \in Nat \ {0}
  OBVIOUS
<1>1. IsFiniteSet(Uids)
  BY FS_Interval, ServerAssumption DEF Uids
<1>2. items.submitted \subseteq Uids
  BY DEF TypeOK
<1> QED
  BY <1>1, <1>2, FS_Subset, FS_CardinalityType DEF FreshUid

(* The requests that act on the queue. *)
LEMMA QueueRequestTypes ==
    ASSUME TypeInv
    PROVE  /\ \A kind \in {"plan", "stop"}, place \in Places : QueueItemAdd(kind, place) => TypeInv'
           /\ \A place \in Places : QueueItemAddBatchOf2(place) => TypeInv'
           /\ \A uid \in Uids, kind \in Kinds, replace \in BOOLEAN :
                QueueItemUpdate(uid, kind, replace) => TypeInv'
           /\ \A u, v \in Uids : QueueItemRemove(u, v) => TypeInv'
           /\ QueueClear => TypeInv'
           /\ \A uid \in Uids, place \in Places : QueueItemMove(uid, place) => TypeInv'
           /\ \A u1, u2 \in Uids, place \in Places, reorder \in BOOLEAN :
                QueueItemMoveBatchOf2(u1, u2, place, reorder) => TypeInv'
           /\ HistoryClear => TypeInv'
<1> DEFINE Ledgers == [{"submitted", "withdrawn", "archived", "revoked"} -> SUBSET Uids]
<1>q. q \in QueueRecords /\ items \in Ledgers
  BY DEF TypeInv, TypeOK, QueueRecords
<1>p. \A place \in Places : IsPlace(place)
  BY ServerAssumption DEF IsPlace
<1>g. ASSUME NEW S \in SUBSET Uids, NEW T \in SUBSET Uids
      PROVE  [items EXCEPT !.submitted = @ \cup S, !.withdrawn = @ \cup T] \in Ledgers
  BY <1>q
<1>s. ASSUME NEW S \in SUBSET Uids PROVE [items EXCEPT !.submitted = @ \cup S] \in Ledgers
  BY <1>q
<1>w. ASSUME NEW S \in SUBSET Uids PROVE [items EXCEPT !.withdrawn = @ \cup S] \in Ledgers
  BY <1>q
<1>i. \A uid \in Uids, kind \in Kinds : [uid |-> uid, kind |-> kind] \in Items
  BY DEF Items
<1>f. FreshUid \in Nat \ {0}
  BY FreshUidNatural DEF TypeInv
<1> HIDE DEF Ledgers
<1>1. ASSUME NEW kind \in {"plan", "stop"}, NEW place \in Places, QueueItemAdd(kind, place) PROVE TypeInv'
  <2> DEFINE it == [uid |-> FreshUid, kind |-> kind]
             r == InsertPositioned(q, it, place)
  <2>1. it \in Items /\ {FreshUid} \in SUBSET Uids
    BY <1>1, <1>i DEF QueueItemAdd, Kinds
  <2>2. r.ok /\ q' = r.q /\ items' = [items EXCEPT !.submitted = @ \cup {FreshUid}]
    BY <1>1 DEF QueueItemAdd
  <2> HIDE DEF it
  <2>3. q' \in QueueRecords
    BY <1>q, <1>p, <2>1, <2>2, PositionedAdds DEF Extended
  <2>4. items' \in Ledgers
    BY <1>s, <2>1, <2>2
  <2> QED
    BY <1>1, <2>3, <2>4, QueueTyped DEF QueueItemAdd, Ledgers
<1>2. ASSUME NEW place \in Places, QueueItemAddBatchOf2(place) PROVE TypeInv'
  <2> DEFINE a == [uid |-> FreshUid, kind |-> "plan"]
             b == [uid |-> FreshUid + 1, kind |-> "plan"]
             r == QueueItemAddBatch(q, a, b, place)
  <2>m. MaxItems \in Nat
    BY ServerAssumption
  <2>n. ASSUME NEW n \in Nat \ {0}, n + 1 \in Uids PROVE n \in Uids
    BY <2>m, <2>n DEF Uids
  <2>0. FreshUid \in Uids /\ FreshUid + 1 \in Uids
    BY <1>2, <1>f, <2>n DEF QueueItemAddBatchOf2
  <2>1. a \in Items /\ b \in Items /\ {FreshUid, FreshUid + 1} \in SUBSET Uids
    BY <1>i, <2>0 DEF Kinds
  <2>2. r.ok /\ q' = r.q /\ items' = [items EXCEPT !.submitted = @ \cup {FreshUid, FreshUid + 1}]
    BY <1>2 DEF QueueItemAddBatchOf2
  <2> HIDE DEF a, b
  <2>3. q' \in QueueRecords
    BY <1>q, <1>p, <2>1, <2>2, AddBatchAdds DEF Extended
  <2>4. items' \in Ledgers
    BY <1>s, <2>1, <2>2
  <2> QED
    BY <1>2, <2>3, <2>4, QueueTyped DEF QueueItemAddBatchOf2, Ledgers
<1>3. ASSUME NEW uid \in Uids, NEW kind \in Kinds, NEW replace \in BOOLEAN, QueueItemUpdate(uid, kind, replace)
      PROVE  TypeInv'
  <2>1. q' \in QueueRecords /\ items' \in Ledgers
    <3>1. CASE replace
      <4> DEFINE it == [uid |-> FreshUid, kind |-> kind]
                 r == ReplaceAtUid(q, uid, it)
      <4>1. it \in Items /\ {FreshUid} \in SUBSET Uids /\ {uid} \in SUBSET Uids
        BY <1>3, <1>i, <3>1 DEF QueueItemUpdate
      <4>2. r.ok /\ q' = r.q /\ items' = [items EXCEPT !.submitted = @ \cup {FreshUid}, !.withdrawn = @ \cup {uid}]
        BY <1>3, <3>1 DEF QueueItemUpdate
      <4> HIDE DEF it
      <4> QED
        BY <1>q, <1>g, <4>1, <4>2, ReplaceAtKeeps
    <3>2. CASE ~replace
      <4> DEFINE it == [uid |-> uid, kind |-> kind]
                 r == ReplaceAtUid(q, uid, it)
      <4>1. it \in Items
        BY <1>i
      <4>2. UpdateItem(q, uid, it) = r
        BY <4>1 DEF UpdateItem, ReplaceAtUid, Items
      <4>3. r.ok /\ q' = r.q /\ items' = items
        BY <1>3, <3>2, <4>2 DEF QueueItemUpdate
      <4> HIDE DEF it
      <4> QED
        BY <1>q, <4>1, <4>3, ReplaceAtKeeps
    <3> QED
      BY <3>1, <3>2
  <2> QED
    BY <1>3, <2>1, QueueTyped DEF QueueItemUpdate, Ledgers
<1>4. ASSUME NEW u \in Uids, NEW v \in Uids, QueueItemRemove(u, v) PROVE TypeInv'
  <2>1. RemoveByUid(q, u).q \in QueueRecords
    BY <1>q, RemoveByUidTakes
  <2>2. q' \in QueueRecords
    BY <1>4, <2>1, RemoveByUidTakes DEF QueueItemRemove, QueueItemRemoveBatch
  <2>3. items' \in Ledgers
    BY <1>4, <1>w, Pending(q) \cap {u, v} \in SUBSET Uids DEF QueueItemRemove
  <2> QED
    BY <1>4, <2>2, <2>3, QueueTyped DEF QueueItemRemove, Ledgers
<1>5. ASSUME QueueClear PROVE TypeInv'
  <2>1. q' \in QueueRecords
    <3>1. <<>> \in Seq(Items)
      OBVIOUS
    <3> QED
      BY <1>5, <1>q, <3>1, ItemsReplaced DEF QueueClear, ClearItems
  <2>2. Pending(q) \in SUBSET Uids
    BY <1>q, PendingUids
  <2>3. items' \in Ledgers
    BY <1>5, <1>w, <2>2 DEF QueueClear
  <2> QED
    BY <1>5, <2>1, <2>3, QueueTyped DEF QueueClear, Ledgers
<1>6. ASSUME NEW uid \in Uids, NEW place \in Places, QueueItemMove(uid, place) PROVE TypeInv'
  <2>1. q' \in QueueRecords /\ items' \in Ledgers
    BY <1>6, <1>q, <1>p, MoveTyped DEF QueueItemMove
  <2> QED
    BY <1>6, <2>1, QueueTyped DEF QueueItemMove, Ledgers
<1>7. ASSUME NEW u1 \in Uids, NEW u2 \in Uids, NEW place \in Places, NEW reorder \in BOOLEAN,
             QueueItemMoveBatchOf2(u1, u2, place, reorder)
      PROVE  TypeInv'
  <2>1. q' \in QueueRecords /\ items' \in Ledgers
    BY <1>7, <1>q, <1>p, MoveBatchKeeps DEF QueueItemMoveBatchOf2, Rearranged
  <2> QED
    BY <1>7, <2>1, QueueTyped DEF QueueItemMoveBatchOf2, Ledgers
<1>8. ASSUME HistoryClear PROVE TypeInv'
  <2>1. q' \in QueueRecords /\ items' \in Ledgers
    BY <1>8, <1>q DEF HistoryClear, ClearHistory, QueueRecords
  <2> QED
    BY <1>8, <2>1, QueueTyped DEF HistoryClear, Ledgers
<1> QED
  BY <1>1, <1>2, <1>3, <1>4, <1>5, <1>6, <1>7, <1>8

(* The other requests, the steps of the rep thread and of the console. *)
LEMMA RepTypes ==
    ASSUME TypeInv,
           \/ RepStep \/ Shutdown \/ ConsoleRun \/ ConsoleEnds
           \/ EnvOpen \/ EnvClose \/ EnvDestroy \/ QueueStart \/ QueueItemExecute
           \/ \E m, field, value :
                SetFlag(m, field, value) /\ field \in {"stopPending", "autostart", "loop"} /\ value \in BOOLEAN
           \/ RePause
           \/ \E m, intr : ReWith(m, intr) /\ intr \in {"none", "abort", "halt"}
           \/ ManagerStop
    PROVE  TypeInv'
<1> DEFINE Reps == [pc : RepPCs, single : BOOLEAN, item : Items \cup {NoItem}]
           Slots == [next : Nat, gen : Nat, handle : BOOLEAN]
<1>0. /\ TypeOK /\ SharedOK /\ EnvsOpen /\ engines \in Seq(Engines) /\ Len(engines) \in Nat
      /\ rep \in Reps /\ (rep.single => rep.item \in Items)
      /\ env \in 0 .. MaxEnvs /\ MaxEnvs \in Nat /\ env <= Len(engines) /\ slot \in Slots
  BY SharedTyped, ServerAssumption DEF TypeInv, TypeOK, EnvsOpen, Carries
<1>b. ASSUME NEW m, Receives(m) PROVE budget' \in 0 .. MaxRequests
  BY <1>b, ServerAssumption DEF Receives, TypeInv, TypeOK
<1>u. budget \in 0 .. MaxRequests /\ down \in BOOLEAN
  BY DEF TypeInv, TypeOK
<1>r. ASSUME NEW pc \in RepPCs, RepGoes(pc) PROVE rep' \in Reps /\ ~rep'.single /\ rep'.pc = pc
  BY <1>r DEF RepGoes
<1>k. UNCHANGED workers => WorkersKept
  BY <1>0, SameWorkersKept
<1>v. workers' = Revoked(workers, slot) /\ slot' = Emptied(slot) => WorkersKept /\ slot' \in Slots
  BY <1>0, RevokedKeeps
<1>e. ASSUME NEW e \in DOMAIN engines, NEW y \in Engines, engines' = [engines EXCEPT ![e] = y]
      PROVE  engines' \in Seq(Engines) /\ Len(engines') = Len(engines)
  BY <1>0, <1>e, SeqUpdated
<1> USE DEF RepPCs
<1>1. CASE Poll
  <2>1. SharedOK'
    BY <1>0, <1>1 DEF Poll, SharedOK
  <2>2. rep' \in Reps /\ ~rep'.single /\ rep'.pc \in {"auto", "recv"}
    BY <1>1, <1>r DEF Poll
  <2> QED
    BY <1>0, <1>1, <1>u, <1>k, <2>1, <2>2, RepUpdated DEF Poll
<1>2. CASE RecvTimeout
  BY <1>0, <1>2, <1>u, <1>r, <1>k, RepUpdated DEF RecvTimeout, SharedOK
<1>3. CASE LoopExits
  BY <1>0, <1>3, <1>u, <1>r, <1>v, RepUpdated DEF LoopExits, SharedOK
<1>4. CASE Shutdown
  BY <1>0, <1>4, <1>u, <1>v, RepUpdated DEF Shutdown, SharedOK, EnvsOpen, RepAt
<1>5. CASE MaybeAutostart
  BY <1>0, <1>5, <1>u, <1>r, <1>k, RepUpdated DEF MaybeAutostart, SharedOK
<1>6. CASE StartCheck
  <2>1. [rep EXCEPT !.pc = "claim"] \in Reps /\ [rep EXCEPT !.pc = "claim"].pc = "claim"
        /\ [rep EXCEPT !.pc = "claim"].single = rep.single /\ [rep EXCEPT !.pc = "claim"].item = rep.item
    BY <1>0
  <2>2. CASE env # 0 /\ mgr.state = "idle"
    BY <1>0, <1>6, <1>u, <1>k, <2>1, <2>2, RepUpdated DEF StartCheck, SharedOK
  <2>3. CASE ~(env # 0 /\ mgr.state = "idle")
    BY <1>0, <1>6, <1>u, <1>r, <1>k, <2>3, RepUpdated DEF StartCheck, SharedOK
  <2> QED
    BY <2>2, <2>3
<1>8. CASE StartRegister
  <2>1. WorkersKept /\ slot' \in Slots
    <3>1. CASE IsCurrent(slot, Len(workers))
      BY <1>0, <1>8, <1>k, <3>1 DEF StartRegister, RegisterHandle
    <3>2. CASE ~IsCurrent(slot, Len(workers)) /\ Len(workers) \in DOMAIN workers
      BY <1>0, <1>8, <3>2, AbortKeeps DEF StartRegister, RegisterHandle
    <3>3. CASE ~IsCurrent(slot, Len(workers)) /\ Len(workers) \notin DOMAIN workers
      <4>1. workers' = workers /\ slot' = slot
        BY <1>8, <3>3 DEF StartRegister, RegisterHandle, TypeInv, TypeOK
      <4> QED
        BY <1>0, <1>k, <4>1
    <3> QED
      BY <3>1, <3>2, <3>3
  <2> QED
    BY <1>0, <1>8, <1>u, <1>r, <2>1, RepUpdated DEF StartRegister, SharedOK
<1>9. CASE \E hookFails \in BOOLEAN : EnvOpened(hookFails)
  <2>1. PICK hookFails \in BOOLEAN : EnvOpened(hookFails)
    BY <1>9
  <2>2. CASE hookFails
    <3>1. mgr' = [mgr EXCEPT !.state = "closed"] /\ SharedOK'
      BY <1>0, <2>1, <2>2 DEF EnvOpened, SharedOK, States
    <3> QED
      BY <1>0, <1>u, <1>r, <1>k, <2>1, <2>2, <3>1, RepUpdated DEF EnvOpened
  <2>3. CASE ~hookFails
    <3>1. SharedOK'
      BY <1>0, <2>1, <2>3 DEF EnvOpened, SharedOK, States
    <3>n. NewEngine(FALSE) \in Engines
      BY DEF NewEngine, Engines, NoOne
    <3>a. ASSUME NEW y \in Engines
          PROVE  Append(engines, y) \in Seq(Engines) /\ Len(Append(engines, y)) = Len(engines) + 1
      BY <1>0
    <3>2. engines' \in Seq(Engines) /\ Len(engines') = Len(engines) + 1 /\ env' = Len(engines) + 1
      BY <2>1, <2>3, <3>n, <3>a DEF EnvOpened
    <3>3. env' \in 0 .. MaxEnvs /\ env' <= Len(engines') /\ Len(engines) <= Len(engines')
      BY <1>0, <2>1, <3>2 DEF EnvOpened, EnvsOpen
    <3> QED
      BY <1>0, <1>u, <1>r, <1>k, <2>1, <2>3, <3>1, <3>2, <3>3, RepUpdated DEF EnvOpened
  <2> QED
    BY <2>2, <2>3
<1>10. CASE EnvDestroyed
  <2>1. SharedOK'
    BY <1>0, <1>10 DEF EnvDestroyed, SharedOK, States
  <2> QED
    BY <1>0, <1>10, <1>u, <1>r, <1>k, <2>1, RepUpdated DEF EnvDestroyed
<1>11. CASE EnvOpen
  <2>1. SharedOK'
    BY <1>0, <1>11 DEF EnvOpen, SharedOK, States
  <2> QED
    BY <1>0, <1>11, <1>b, <1>u, <1>r, <1>k, <2>1, RepUpdated DEF EnvOpen
<1>12. CASE EnvClose
  <2>1. SharedOK'
    BY <1>0, <1>12 DEF EnvClose, SharedOK, States
  <2> QED
    BY <1>0, <1>12, <1>b, <1>u, <1>r, <1>k, <2>1, RepUpdated DEF EnvClose
<1>13. CASE EnvDestroy
  <2>1. SharedOK'
    BY <1>0, <1>13, <1>v DEF EnvDestroy, SharedOK, States
  <2> QED
    BY <1>0, <1>13, <1>b, <1>u, <1>r, <1>v, <2>1, RepUpdated DEF EnvDestroy
<1>14. CASE QueueStart
  BY <1>0, <1>14, <1>b, <1>u, <1>r, <1>k, RepUpdated DEF QueueStart, SharedOK
<1>15. CASE QueueItemExecute
  <2>1. rep' \in Reps /\ rep'.item \in Items /\ rep'.pc = "check"
    BY <1>15 DEF QueueItemExecute, Items, Kinds
  <2> QED
    BY <1>0, <1>15, <1>b, <1>u, <1>k, <2>1, RepUpdated DEF QueueItemExecute, SharedOK
<1>16. ASSUME NEW m, NEW field \in {"stopPending", "autostart", "loop"}, NEW value \in BOOLEAN, SetFlag(m, field, value)
       PROVE TypeInv'
  <2>1. SharedOK'
    BY <1>0, <1>16 DEF SetFlag, SharedOK
  <2>2. (IF field = "autostart" /\ value THEN "auto" ELSE "poll") \in {"auto", "poll"}
    OBVIOUS
  <2> QED
    BY <1>0, <1>16, <1>b, <1>u, <1>r, <1>k, <2>1, <2>2, RepUpdated DEF SetFlag
<1>17. CASE RePause
  <2>1. SharedOK'
    BY <1>0, <1>17 DEF RePause, SharedOK
  <2> DEFINE y == [engines[env] EXCEPT !.paused = TRUE]
  <2>2. env \in DOMAIN engines
    BY <1>0, <1>17 DEF RePause
  <2>3. engines[env] \in Engines
    BY <1>0, <2>2
  <2>4. y \in Engines /\ engines' = [engines EXCEPT ![env] = y]
    BY <1>17, <2>2, <2>3 DEF RePause, Engines
  <2> HIDE DEF y
  <2>5. engines' \in Seq(Engines) /\ Len(engines') = Len(engines)
    BY <1>e, <2>2, <2>4
  <2> QED
    BY <1>0, <1>17, <1>b, <1>u, <1>r, <1>k, <2>1, <2>5, RepUpdated DEF RePause
<1>18. ASSUME NEW m, NEW intr \in {"none", "abort", "halt"}, ReWith(m, intr) PROVE TypeInv'
  <2>1. SharedOK'
    BY <1>0, <1>18 DEF ReWith, SharedOK
  <2>2. engines' \in Seq(Engines) /\ Len(engines') = Len(engines)
    <3>1. CASE env = 0
      BY <1>0, <1>18, <3>1 DEF ReWith
    <3>2. CASE env # 0
      <4> DEFINE y == [engines[env] EXCEPT !.paused = FALSE, !.intr = IF intr = "none" THEN @ ELSE intr]
      <4>1. env \in DOMAIN engines
        BY <1>0, <3>2
      <4>2. engines[env] \in Engines
        BY <1>0, <4>1
      <4>3. y \in Engines
        BY <4>2 DEF Engines
      <4>4. engines' = [engines EXCEPT ![env] = y]
        BY <1>0, <1>18, <3>2, <4>1, <4>2 DEF ReWith
      <4> HIDE DEF y
      <4> QED
        BY <1>e, <4>1, <4>3, <4>4
    <3> QED
      BY <3>1, <3>2
  <2> QED
    BY <1>0, <1>18, <1>b, <1>u, <1>r, <1>k, <2>1, <2>2, RepUpdated DEF ReWith
<1>19. CASE ManagerStop
  BY <1>0, <1>19, <1>b, <1>u, <1>r, <1>v, RepUpdated DEF ManagerStop, SharedOK
<1>20. CASE ConsoleRun \/ ConsoleEnds
  <2>1. PICK e \in DOMAIN engines :
          \/ engines' = [engines EXCEPT ![e].busy = Console, ![e].intr = "none"]
          \/ engines' = [engines EXCEPT ![e].busy = NoOne]
    BY <1>20 DEF ConsoleRun, ConsoleEnds
  <2>2. engines[e] \in Engines
    BY <1>0
  <2> DEFINE y1 == [engines[e] EXCEPT !.busy = Console, !.intr = "none"]
             y2 == [engines[e] EXCEPT !.busy = NoOne]
  <2>3. y1 \in Engines /\ y2 \in Engines
    BY <2>2 DEF Engines, Console, NoOne
  <2>4. engines' = [engines EXCEPT ![e] = y1] \/ engines' = [engines EXCEPT ![e] = y2]
    BY <2>1
  <2> HIDE DEF y1, y2
  <2>5. engines' \in Seq(Engines) /\ Len(engines') = Len(engines)
    BY <1>e, <2>3, <2>4
  <2>6. UNCHANGED <<q, mgr, slot, finished, env, workers, rep, down, budget, items>>
    BY <1>20 DEF ConsoleRun, ConsoleEnds
  <2> QED
    BY <1>0, <1>u, <1>k, <2>5, <2>6, RepUpdated DEF SharedOK, EnvsOpen, RepAt
<1>7. CASE StartClaim
  <2>1. CASE ~MayClaim
    BY <1>0, <1>7, <1>u, <1>r, <1>k, <2>1, RepUpdated DEF StartClaim, SharedOK
  <2>2. CASE MayClaim
    <3> DEFINE x == [pc |-> "spawned", single |-> rep.single, item |-> rep.item,
                     env |-> env, aborted |-> FALSE, status |-> "none", disarm |-> FALSE]
    <3>1. x \in Workers /\ env \in DOMAIN engines
      BY <1>0, <1>7 DEF Workers, WorkerPCs, Statuses, EnvsOpen, StartClaim
    <3>2. workers' = Append(workers, x) /\ UNCHANGED <<q, mgr, finished, env, engines, down, budget>>
      BY <1>7, <2>2 DEF StartClaim
    <3> HIDE DEF x
    <3>3. /\ workers' \in Seq(Workers) /\ DOMAIN workers' = DOMAIN workers \cup {Len(workers) + 1}
          /\ \A w \in DOMAIN workers : workers'[w] = workers[w]
          /\ workers'[Len(workers) + 1] = x
      BY <3>1, <3>2 DEF TypeInv, TypeOK
    <3>4. rep' \in Reps /\ ~rep'.single /\ rep'.pc = "register"
      BY <1>7, <1>r, <2>2 DEF StartClaim
    <3>c. Claim(slot) \in Slots
      BY <1>0 DEF Claim
    <3>5. slot' \in Slots
      BY <1>7, <2>2, <3>c DEF StartClaim
    <3>6. (IF rep.single THEN {rep.item.uid} ELSE {}) \in SUBSET Uids
      BY <1>0 DEF Items
    <3>7. items' \in [{"submitted", "withdrawn", "archived", "revoked"} -> SUBSET Uids]
      BY <1>0, <1>7, <2>2, <3>6 DEF StartClaim, SharedOK
    <3>8. TypeOK'
      BY <1>0, <3>2, <3>3, <3>4, <3>5, <3>7 DEF TypeOK
    <3>9. EnvsOpen'
      BY <1>0, <3>1, <3>2, <3>3, <3>4 DEF EnvsOpen, RepAt, x
    <3>10. Carries'
      BY <1>0, <3>3, <3>4 DEF Carries, TypeInv, x, Carrying
    <3> QED
      BY <3>8, <3>9, <3>10 DEF TypeInv
  <2> QED
    BY <2>1, <2>2
<1> QED
  BY <1>1, <1>2, <1>3, <1>4, <1>5, <1>6, <1>7, <1>8, <1>9, <1>10, <1>11, <1>12, <1>13, <1>14, <1>15,
     <1>16, <1>17, <1>18, <1>19, <1>20 DEF RepStep

LEMMA TypeInit == Init => TypeInv
<1> SUFFICES ASSUME Init PROVE TypeInv
  OBVIOUS
<1>1. NewEngine(TRUE) \in Engines
  BY DEF NewEngine, Engines, NoOne
<1>2. engines \in Seq(Engines) /\ env = Len(engines) /\ env \in 0 .. 1
  <2>0. ASSUME NEW y \in Engines PROVE <<y>> \in Seq(Engines) /\ Len(<<y>>) = 1
    OBVIOUS
  <2>1. CASE "console" \in methods
    <3>1. PICK y \in Engines : engines = <<y>> /\ env = 1
      BY <1>1, <2>1, Zenon DEF Init
    <3> QED
      BY <2>0, <3>1
  <2>2. CASE "console" \notin methods
    BY <2>2 DEF Init
  <2> QED
    BY <2>1, <2>2
<1>3. MaxEnvs \in Nat \ {0} /\ MaxRequests \in Nat
  BY ServerAssumption
<1>4. TypeOK
  <2>1. workers \in Seq(Workers) /\ q \in [items : Seq(Items), history : SUBSET Uids]
    BY DEF Init, EmptyQueue
  <2>2. env \in 0 .. MaxEnvs /\ budget \in 0 .. MaxRequests
    BY <1>2, <1>3 DEF Init
  <2>3. mgr \in [state : States, current : Items \cup {NoItem}, stopPending : BOOLEAN,
                pausePending : BOOLEAN, autostart : BOOLEAN, loop : BOOLEAN]
    BY DEF Init, States
  <2>4. slot \in [next : Nat, gen : Nat, handle : BOOLEAN] /\ finished \in BOOLEAN /\ down \in BOOLEAN
    BY DEF Init
  <2>5. rep \in [pc : RepPCs, single : BOOLEAN, item : Items \cup {NoItem}]
    BY DEF Init, RepPCs
  <2>6. items \in [{"submitted", "withdrawn", "archived", "revoked"} -> SUBSET Uids]
    BY DEF Init
  <2> QED
    BY <1>2, <2>1, <2>2, <2>3, <2>4, <2>5, <2>6 DEF TypeOK
<1>5. EnvsOpen /\ Carries
  BY <1>2, <1>3 DEF Init, EnvsOpen, Carries, RepAt
<1> QED
  BY <1>4, <1>5 DEF TypeInv

LEMMA TypeStep == TypeInv /\ [Next]_vars => TypeInv'
<1> SUFFICES ASSUME TypeInv, [Next]_vars PROVE TypeInv'
  OBVIOUS
<1>1. CASE \E w \in 1 .. MaxWorkers : WorkerStep(w)
  BY <1>1, WorkerTypes
<1>2. CASE RepStep \/ Shutdown \/ ConsoleRun \/ ConsoleEnds
  BY <1>2, RepTypes
<1>3. CASE Request
  BY <1>3, QueueRequestTypes, RepTypes DEF Request
<1>4. CASE UNCHANGED vars
  BY <1>4 DEF vars, TypeInv, TypeOK, EnvsOpen, Carries, RepAt
<1> QED
  BY <1>1, <1>2, <1>3, <1>4 DEF Next

(* Every request, worker and environment keeps the types: in particular    *)
(* what is archived is an item, and a worker's engine exists.              *)
THEOREM TypeCorrect == Spec => []TypeOK
<1>1. TypeInv => TypeOK
  BY DEF TypeInv
<1> QED
  BY <1>1, TypeInit, TypeStep, PTL DEF Spec

-----------------------------------------------------------------------------
(* The claim slot.  What makes rule K1 hold is the pairing of the slot     *)
(* with the worker it was claimed for: a worker that was not told to stop  *)
(* is the one in the slot, or the one just spawned whose abort handle is   *)
(* still to be registered.                                                 *)

Leaving == {"release", "done"}

SlotInv ==
  /\ slot.next = Len(workers) + 1
  /\ slot.gen \in 0 .. Len(workers)
  /\ slot.gen # 0 /\ ~slot.handle => RepAt("register") /\ slot.gen = Len(workers)
  /\ RepAt("register") => Len(workers) > 0
  /\ RepAt("down") => slot.gen = 0
  /\ slot.gen # 0 => Live(slot.gen)
  /\ \A w \in DOMAIN workers :
       ~workers[w].aborted /\ workers[w].pc \notin Leaving =>
         slot.gen = w \/ (RepAt("register") /\ w = Len(workers))

(* The manager is idle or executing in an open environment, and while it   *)
(* is executing some worker is still to call idle_out.                     *)
StateInv ==
  /\ RepAt("opening") => env = 0
  /\ env # 0 => mgr.state \in {"idle", "executing"} \/ RepAt("destroying")
  /\ mgr.state = "executing" =>
       \E w \in DOMAIN workers : workers[w].aborted \/ workers[w].pc \notin Leaving \cup {"spawned"}

ServerInv == TypeInv /\ SlotInv /\ StateInv

(* One step of a worker, as the slot and the manager see it. *)
WorkerMoves(w) ==
  /\ w \in DOMAIN workers /\ DOMAIN workers' = DOMAIN workers /\ Len(workers') = Len(workers)
  /\ \A v \in DOMAIN workers : v # w => workers'[v] = workers[v]
  /\ workers'[w].aborted = workers[w].aborted
  /\ UNCHANGED <<rep, env, down>>
  /\ \/ /\ workers[w].pc = "release" /\ workers'[w].pc = "done"
        /\ slot' = (IF slot.gen = w THEN Emptied(slot) ELSE slot)
        /\ UNCHANGED mgr
     \/ /\ workers[w].pc \notin Leaving /\ workers'[w].pc \notin {"done", "spawned"}
        /\ UNCHANGED slot
        /\ \/ mgr'.state = mgr.state /\ (workers'[w].pc = "release" => workers[w].aborted)
           \/ mgr'.state = "executing" /\ workers'[w].pc = "enter"
           \/ mgr'.state = "idle" /\ workers[w].pc # "spawned"

LEMMA WorkerStepMoves ==
    ASSUME TypeInv, NEW w \in 1 .. MaxWorkers, WorkerStep(w)
    PROVE  WorkerMoves(w)
<1> USE DEF WorkerAt, WorkerMoves, Leaving
<1>0. /\ workers \in Seq(Workers) /\ w \in DOMAIN workers /\ workers[w] \in Workers
      /\ mgr \in [state : States, current : Items \cup {NoItem}, stopPending : BOOLEAN,
                  pausePending : BOOLEAN, autostart : BOOLEAN, loop : BOOLEAN]
      /\ workers[w].env \in DOMAIN engines
  <2>1. w \in DOMAIN workers
    BY DEF WorkerStep, Dropped, Begins, Top, ClearStop, Pop, StopDone, StopSet,
           Reject, BeginItem, EnterRun, RunEnds, Book, Archive, LoopItem, IdleOut, Release
  <2> QED
    BY <2>1 DEF TypeInv, TypeOK, EnvsOpen
<1>l. ASSUME DOMAIN workers' = DOMAIN workers, workers' \in Seq(Workers) PROVE Len(workers') = Len(workers)
  BY <1>0, <1>l
<1>t. workers' \in Seq(Workers)
  BY WorkerTypes DEF TypeInv, TypeOK
<1>1. CASE Dropped(w)
  BY <1>0, <1>t, <1>l, <1>1 DEF Dropped, WorkerGoes, Workers
<1>2. CASE Begins(w)
  BY <1>0, <1>t, <1>l, <1>2 DEF Begins, WorkerGoes, Workers
<1>3. CASE Top(w)
  BY <1>0, <1>t, <1>l, <1>3 DEF Top, WorkerGoes, Workers
<1>4. CASE ClearStop(w)
  BY <1>0, <1>t, <1>l, <1>4 DEF ClearStop, Workers
<1>5. CASE \E builds \in BOOLEAN : Pop(w, builds)
  <2>1. PICK builds \in BOOLEAN : Pop(w, builds)
    BY <1>5
  <2>2. CASE q.items = <<>>
    BY <1>0, <1>t, <1>l, <2>1, <2>2 DEF Pop, Workers
  <2>3. CASE q.items # <<>>
    <3> DEFINE pc == AfterPop(Head(q.items), builds)
    <3>1. Head(q.items) \in Items
      BY <2>3 DEF TypeInv, TypeOK
    <3>2. pc \in {"stopdone", "begin", "reject"}
      BY <3>1 DEF AfterPop, Items, Kinds
    <3>3. workers' = [workers EXCEPT ![w].pc = pc, ![w].item = Head(q.items)]
      BY <2>1, <2>3 DEF Pop
    <3> HIDE DEF pc
    <3> QED
      BY <1>0, <1>t, <1>l, <2>1, <3>2, <3>3 DEF Pop, Workers
  <2> QED
    BY <2>2, <2>3
<1>6. CASE StopDone(w)
  BY <1>0, <1>t, <1>l, <1>6 DEF StopDone, Workers
<1>7. CASE StopSet(w)
  BY <1>0, <1>t, <1>l, <1>7 DEF StopSet, WorkerGoes, Workers
<1>8. CASE Reject(w)
  BY <1>0, <1>t, <1>l, <1>8 DEF Reject, Workers
<1>9. CASE BeginItem(w)
  BY <1>0, <1>t, <1>l, <1>9 DEF BeginItem, WorkerGoes, Workers
<1>10. CASE EnterRun(w)
  BY <1>0, <1>t, <1>l, <1>10 DEF EnterRun, WorkerGoes, Workers
<1>11. CASE RunEnds(w)
  BY <1>0, <1>t, <1>l, <1>11 DEF RunEnds, Workers
<1>12. CASE Book(w)
  BY <1>0, <1>t, <1>l, <1>12 DEF Book, WorkerGoes, Workers
<1>13. CASE Archive(w)
  BY <1>0, <1>t, <1>l, <1>13 DEF Archive, Workers
<1>14. CASE LoopItem(w)
  BY <1>0, <1>t, <1>l, <1>14 DEF LoopItem, Workers
<1>15. CASE IdleOut(w)
  BY <1>0, <1>t, <1>l, <1>15 DEF IdleOut, WorkerGoes, Workers
<1>16. CASE Release(w)
  BY <1>0, <1>t, <1>l, <1>16 DEF Release, IsCurrent, Workers
<1> QED
  BY <1>1, <1>2, <1>3, <1>4, <1>5, <1>6, <1>7, <1>8, <1>9, <1>10, <1>11, <1>12, <1>13, <1>14,
     <1>15, <1>16 DEF WorkerStep

LEMMA WorkerSlot ==
    ASSUME ServerInv, NEW w, WorkerMoves(w)
    PROVE  SlotInv' /\ StateInv'
<1>0. slot \in [next : Nat, gen : Nat, handle : BOOLEAN] /\ Len(workers) \in Nat /\ DOMAIN workers = 1 .. Len(workers)
  BY DEF ServerInv, TypeInv, TypeOK
<1>1. SlotInv'
  <2>1. CASE workers[w].pc = "release" /\ workers'[w].pc = "done" /\ slot.gen = w /\ slot' = Emptied(slot)
    <3>1. slot'.next = slot.next /\ slot'.gen = 0
      BY <1>0, <2>1 DEF Emptied
    <3> QED
      BY <1>0, <2>1, <3>1 DEF ServerInv, SlotInv, WorkerMoves, RepAt, Live, Leaving
  <2>2. CASE workers[w].pc = "release" /\ workers'[w].pc = "done" /\ slot.gen # w /\ slot' = slot
    BY <1>0, <2>2 DEF ServerInv, SlotInv, WorkerMoves, RepAt, Live, Leaving
  <2>3. CASE workers[w].pc \notin Leaving /\ workers'[w].pc \notin {"done", "spawned"} /\ slot' = slot
    BY <1>0, <2>3 DEF ServerInv, SlotInv, WorkerMoves, RepAt, Live, Leaving
  <2> QED
    BY <2>1, <2>2, <2>3 DEF WorkerMoves
<1>2. StateInv'
  BY DEF ServerInv, StateInv, WorkerMoves, RepAt, Leaving
<1> QED
  BY <1>1, <1>2

(* Steps of the rep thread that leave the slot alone, and those that take  *)
(* the worker out of it.  Between the claim and the registration only a    *)
(* shutdown from another thread can be such a step.                        *)
LEMMA SlotKept ==
    ASSUME ServerInv, UNCHANGED <<slot, workers>>,
           rep' = rep \/ (~RepAt("register") /\ rep'.pc \notin {"register", "down"})
    PROVE  SlotInv'
BY DEF ServerInv, SlotInv, RepAt, Live

Stopped ==
  /\ DOMAIN workers' = DOMAIN workers /\ Len(workers') = Len(workers)
  /\ \A w \in DOMAIN workers :
       workers'[w].pc = workers[w].pc /\ (workers[w].aborted => workers'[w].aborted)

LEMMA RevokedStops ==
    ASSUME ServerInv, workers' = Revoked(workers, slot)
    PROVE  /\ Stopped
           /\ slot.gen # 0 /\ slot.handle => workers'[slot.gen].aborted
<1>1. workers \in Seq(Workers) /\ slot.gen \in 0 .. Len(workers)
  BY DEF ServerInv, TypeInv, TypeOK, SlotInv
<1>2. CASE slot.gen # 0 /\ slot.handle
  <2>1. slot.gen \in DOMAIN workers /\ workers' = [workers EXCEPT ![slot.gen].aborted = TRUE]
    BY <1>1, <1>2 DEF Revoked
  <2>2. workers[slot.gen] \in Workers
    BY <1>1, <2>1
  <2>3. DOMAIN workers' = DOMAIN workers
    BY <1>1, <2>1
  <2>4. Len(workers') = Len(workers)
    BY <1>1, <2>1, <2>3
  <2> QED
    BY <1>1, <2>1, <2>2, <2>3, <2>4 DEF Stopped, Workers
<1>3. CASE ~(slot.gen # 0 /\ slot.handle)
  BY <1>3 DEF Revoked, Stopped
<1> QED
  BY <1>2, <1>3

LEMMA SlotTaken ==
    ASSUME ServerInv, workers' = Revoked(workers, slot), slot' = Emptied(slot),
           rep' = rep \/ (~RepAt("register") /\ rep'.pc # "register")
    PROVE  SlotInv'
<1>1. slot'.next = slot.next /\ slot'.gen = 0
  BY DEF Emptied, ServerInv, TypeInv, TypeOK
<1>2. Stopped /\ (slot.gen # 0 /\ slot.handle => workers'[slot.gen].aborted)
  BY RevokedStops
<1>3. Len(workers) \in Nat
  BY DEF ServerInv, TypeInv, TypeOK
<1> QED
  BY <1>1, <1>2, <1>3 DEF ServerInv, SlotInv, RepAt, Stopped

LEMMA StateKept ==
    ASSUME ServerInv, Stopped,
           mgr'.state = mgr.state \/ mgr'.state # "executing",
           rep'.pc = "opening" => env' = 0,
           env' # 0 => mgr'.state \in {"idle", "executing"} \/ rep'.pc = "destroying"
    PROVE  StateInv'
BY DEF ServerInv, StateInv, Stopped, RepAt

LEMMA RepSlot ==
    ASSUME ServerInv,
           \/ RepStep \/ Shutdown \/ ConsoleRun \/ ConsoleEnds \/ Request
    PROVE  SlotInv' /\ StateInv'
<1>0. /\ mgr \in [state : States, current : Items \cup {NoItem}, stopPending : BOOLEAN,
                  pausePending : BOOLEAN, autostart : BOOLEAN, loop : BOOLEAN]
      /\ rep \in [pc : RepPCs, single : BOOLEAN, item : Items \cup {NoItem}]
      /\ Len(workers) \in Nat /\ DOMAIN workers = 1 .. Len(workers)
  BY DEF ServerInv, TypeInv, TypeOK
<1>e. /\ env # 0 => mgr.state \in {"idle", "executing"} \/ RepAt("destroying")
      /\ RepAt("opening") => env = 0
  BY DEF ServerInv, StateInv
<1>s. UNCHANGED workers => Stopped
  BY <1>0 DEF Stopped
<1>v. workers' = Revoked(workers, slot) => Stopped
  BY RevokedStops
<1>r. ASSUME NEW pc, RepGoes(pc) PROVE rep'.pc = pc
  BY <1>r DEF RepGoes
<1>q. ASSUME UNCHANGED <<slot, workers, mgr, env>>, ~RepAt("register") /\ ~RepAt("destroying"),
             rep'.pc \notin {"register", "down", "opening"}
      PROVE  SlotInv' /\ StateInv'
  BY <1>q, <1>e, <1>s, SlotKept, StateKept
<1> USE DEF RepAt
<1>1. CASE Poll
  <2>1. rep'.pc \in {"auto", "recv"}
    BY <1>1, <1>r DEF Poll
  <2> QED
    BY <1>1, <1>q, <2>1 DEF Poll
<1>2. CASE RecvTimeout
  BY <1>2, <1>q, <1>r DEF RecvTimeout
<1>3. CASE LoopExits
  <2>1. SlotInv'
    BY <1>3, <1>r, SlotTaken DEF LoopExits
  <2>2. StateInv'
    BY <1>3, <1>e, <1>r, <1>v, StateKept DEF LoopExits
  <2> QED
    BY <2>1, <2>2
<1>4. CASE Shutdown
  <2>1. SlotInv'
    BY <1>4, SlotTaken DEF Shutdown
  <2>2. StateInv'
    BY <1>4, <1>e, <1>v, StateKept DEF Shutdown
  <2> QED
    BY <2>1, <2>2
<1>5. CASE MaybeAutostart
  <2>1. rep'.pc \in {"check", "poll"}
    BY <1>5, <1>r DEF MaybeAutostart
  <2> QED
    BY <1>5, <1>q, <2>1 DEF MaybeAutostart
<1>6. CASE StartCheck
  <2>1. rep'.pc \in {"claim", "poll"}
    BY <1>0, <1>6, <1>r DEF StartCheck
  <2> QED
    BY <1>6, <1>q, <2>1 DEF StartCheck
<1>7. CASE StartClaim
  <2>1. CASE ~MayClaim
    BY <1>7, <1>q, <1>r, <2>1 DEF StartClaim
  <2>2. CASE MayClaim
    <3> DEFINE x == [pc |-> "spawned", single |-> rep.single, item |-> rep.item,
                     env |-> env, aborted |-> FALSE, status |-> "none", disarm |-> FALSE]
    <3>1. workers' = Append(workers, x) /\ slot' = Claim(slot) /\ UNCHANGED <<mgr, env>> /\ rep'.pc = "register"
      BY <1>7, <1>r, <2>2 DEF StartClaim
    <3>2. x.pc = "spawned"
      OBVIOUS
    <3> HIDE DEF x
    <3>3. /\ Len(workers') = Len(workers) + 1 /\ DOMAIN workers' = 1 .. Len(workers) + 1
          /\ workers'[Len(workers) + 1] = x /\ \A w \in DOMAIN workers : workers'[w] = workers[w]
      BY <3>1 DEF ServerInv, TypeInv, TypeOK
    <3>4. slot'.next = slot.next + 1 /\ slot'.gen = slot.next
      BY <3>1 DEF Claim
    <3>5. SlotInv'
      BY <1>0, <1>7, <2>2, <3>1, <3>2, <3>3, <3>4 DEF StartClaim, ServerInv, SlotInv, MayClaim, Live, Leaving
    <3>6. StateInv'
      <4>1. DOMAIN workers \subseteq DOMAIN workers'
        BY <1>0, <3>3
      <4>2. mgr.state = "executing" =>
              \E w \in DOMAIN workers : workers[w].aborted \/ workers[w].pc \notin Leaving \cup {"spawned"}
        BY DEF ServerInv, StateInv
      <4> QED
        BY <1>e, <1>7, <3>1, <3>3, <4>1, <4>2 DEF StartClaim, StateInv
    <3> QED
      BY <3>5, <3>6
  <2> QED
    BY <2>1, <2>2
<1>8. CASE StartRegister
  <2>1. rep'.pc = "poll" /\ UNCHANGED <<mgr, env>>
    BY <1>8, <1>r DEF StartRegister
  <2>2. CASE IsCurrent(slot, Len(workers))
    <3>1. slot'.next = slot.next /\ slot'.gen = slot.gen /\ slot'.handle /\ workers' = workers
      BY <1>8, <2>2 DEF StartRegister, RegisterHandle, ServerInv, TypeInv, TypeOK
    <3>2. SlotInv'
      BY <1>0, <1>8, <2>1, <2>2, <3>1 DEF StartRegister, ServerInv, SlotInv, IsCurrent, Live
    <3> QED
      BY <1>8, <1>e, <1>s, <2>1, <3>1, <3>2, StateKept DEF StartRegister
  <2>3. CASE ~IsCurrent(slot, Len(workers))
    <3> DEFINE g == Len(workers)
    <3>1. slot' = slot /\ workers' = [workers EXCEPT ![g].aborted = TRUE] /\ g \in DOMAIN workers
      BY <1>0, <1>8, <2>3 DEF StartRegister, RegisterHandle, ServerInv, SlotInv
    <3>2. workers[g] \in Workers /\ workers \in Seq(Workers)
      BY <3>1 DEF ServerInv, TypeInv, TypeOK
    <3>3. DOMAIN workers' = DOMAIN workers
      BY <3>1
    <3>4. Len(workers') = Len(workers)
      BY <3>1, <3>2, <3>3
    <3>5. workers'[g].aborted /\ Stopped
      BY <3>1, <3>2, <3>3, <3>4 DEF Stopped, Workers
    <3>6. SlotInv'
      BY <1>0, <1>8, <2>1, <2>3, <3>1, <3>5 DEF StartRegister, ServerInv, SlotInv, IsCurrent, Stopped, Live
    <3> QED
      BY <1>8, <1>e, <2>1, <3>5, <3>6, StateKept DEF StartRegister
  <2> QED
    BY <2>2, <2>3
<1>9. CASE \E hookFails \in BOOLEAN : EnvOpened(hookFails)
  <2>1. PICK hookFails \in BOOLEAN : EnvOpened(hookFails)
    BY <1>9
  <2>2. rep'.pc \in {"poll", "auto"} /\ mgr'.state = (IF hookFails THEN "closed" ELSE "idle")
    BY <1>0, <1>r, <2>1 DEF EnvOpened
  <2>3. SlotInv'
    BY <2>1, <2>2, SlotKept DEF EnvOpened
  <2>4. hookFails => env' = 0
    BY <2>1 DEF EnvOpened, ServerInv, StateInv
  <2>5. StateInv'
    BY <1>s, <2>1, <2>2, <2>4, StateKept DEF EnvOpened
  <2> QED
    BY <2>3, <2>5
<1>10. CASE EnvDestroyed
  <2>1. rep'.pc = "poll" /\ mgr'.state = "closed" /\ env' = 0
    BY <1>0, <1>10, <1>r DEF EnvDestroyed
  <2> QED
    BY <1>10, <1>s, <2>1, SlotKept, StateKept DEF EnvDestroyed
<1>11. CASE EnvOpen
  <2>1. rep'.pc = "opening" /\ mgr'.state = "creating" /\ env' = 0
    BY <1>0, <1>11, <1>r DEF EnvOpen
  <2> QED
    BY <1>11, <1>s, <2>1, SlotKept, StateKept DEF EnvOpen, Receives
<1>12. CASE EnvClose
  <2>1. rep'.pc = "poll" /\ mgr'.state = "closed" /\ env' = 0
    BY <1>0, <1>12, <1>r DEF EnvClose
  <2> QED
    BY <1>12, <1>s, <2>1, SlotKept, StateKept DEF EnvClose, Receives
<1>13. CASE EnvDestroy
  <2>1. rep'.pc = "destroying" /\ mgr'.state = "destroying"
    BY <1>0, <1>13, <1>r DEF EnvDestroy
  <2> QED
    BY <1>13, <1>v, <2>1, SlotTaken, StateKept DEF EnvDestroy, Receives
<1>14. CASE QueueStart
  BY <1>14, <1>q, <1>r DEF QueueStart, Receives
<1>15. CASE QueueItemExecute
  BY <1>15, <1>q DEF QueueItemExecute, Receives
<1>16. ASSUME NEW m, NEW field \in {"stopPending", "autostart", "loop"}, NEW value \in BOOLEAN, SetFlag(m, field, value)
       PROVE SlotInv' /\ StateInv'
  <2>1. rep'.pc \in {"auto", "poll"} /\ mgr'.state = mgr.state
    BY <1>0, <1>16, <1>r DEF SetFlag
  <2> QED
    BY <1>16, <1>e, <1>s, <2>1, SlotKept, StateKept DEF SetFlag, Receives
<1>17. CASE RePause
  <2>1. rep'.pc = "poll" /\ mgr'.state = mgr.state
    BY <1>0, <1>17, <1>r DEF RePause
  <2> QED
    BY <1>17, <1>e, <1>s, <2>1, SlotKept, StateKept DEF RePause, Receives
<1>18. ASSUME NEW m, NEW intr, ReWith(m, intr) PROVE SlotInv' /\ StateInv'
  <2>1. rep'.pc = "poll" /\ mgr'.state = mgr.state
    BY <1>0, <1>18, <1>r DEF ReWith
  <2> QED
    BY <1>18, <1>e, <1>s, <2>1, SlotKept, StateKept DEF ReWith, Receives
<1>19. CASE ManagerStop
  <2>1. rep'.pc = "poll"
    BY <1>19, <1>r DEF ManagerStop
  <2> QED
    BY <1>19, <1>e, <1>v, <2>1, SlotTaken, StateKept DEF ManagerStop, Receives
<1>20. CASE ConsoleRun \/ ConsoleEnds
  <2>1. UNCHANGED <<mgr, slot, env, workers, rep>>
    BY <1>20 DEF ConsoleRun, ConsoleEnds
  <2> QED
    BY <1>e, <1>s, <2>1, SlotKept, StateKept
<1>21. ASSUME NEW m, Receives(m), OnlyQueue, NEW pc \in {"poll", "auto"}, RepGoes(pc)
       PROVE  SlotInv' /\ StateInv'
  BY <1>21, <1>q, <1>r DEF Receives, OnlyQueue
<1>22. ASSUME NEW a, NEW b, QueueItemAdd(a, b) PROVE SlotInv' /\ StateInv'
  BY <1>21, <1>22 DEF QueueItemAdd
<1>23. ASSUME NEW a, QueueItemAddBatchOf2(a) PROVE SlotInv' /\ StateInv'
  BY <1>21, <1>23 DEF QueueItemAddBatchOf2
<1>24. ASSUME NEW a, NEW b, NEW c, QueueItemUpdate(a, b, c) PROVE SlotInv' /\ StateInv'
  BY <1>21, <1>24 DEF QueueItemUpdate
<1>25. ASSUME NEW a, NEW b, QueueItemRemove(a, b) PROVE SlotInv' /\ StateInv'
  BY <1>21, <1>25 DEF QueueItemRemove
<1>26. ASSUME QueueClear \/ HistoryClear PROVE SlotInv' /\ StateInv'
  BY <1>21, <1>26 DEF QueueClear, HistoryClear
<1>27. ASSUME NEW a, NEW b, QueueItemMove(a, b) PROVE SlotInv' /\ StateInv'
  BY <1>21, <1>27 DEF QueueItemMove
<1>28. ASSUME NEW a, NEW b, NEW c, NEW d, QueueItemMoveBatchOf2(a, b, c, d) PROVE SlotInv' /\ StateInv'
  BY <1>21, <1>28 DEF QueueItemMoveBatchOf2
<1>29. Request => SlotInv' /\ StateInv'
  BY <1>11, <1>12, <1>13, <1>14, <1>15, <1>16, <1>17, <1>18, <1>19, <1>22, <1>23, <1>24, <1>25,
     <1>26, <1>27, <1>28 DEF Request
<1> QED
  BY <1>1, <1>2, <1>3, <1>4, <1>5, <1>6, <1>7, <1>8, <1>9, <1>10, <1>20, <1>29 DEF RepStep

LEMMA ServerInit == Init => ServerInv
<1> SUFFICES ASSUME Init PROVE ServerInv
  OBVIOUS
<1>1. TypeInv
  BY TypeInit
<1>2. SlotInv
  BY DEF Init, SlotInv, RepAt
<1>3. StateInv
  BY DEF Init, StateInv, RepAt
<1> QED
  BY <1>1, <1>2, <1>3 DEF ServerInv

LEMMA ServerStep == ServerInv /\ [Next]_vars => ServerInv'
<1> SUFFICES ASSUME ServerInv, [Next]_vars PROVE ServerInv'
  OBVIOUS
<1>1. TypeInv'
  BY TypeStep DEF ServerInv
<1>2. CASE \E w \in 1 .. MaxWorkers : WorkerStep(w)
  BY <1>1, <1>2, WorkerStepMoves, WorkerSlot DEF ServerInv
<1>3. CASE RepStep \/ Shutdown \/ ConsoleRun \/ ConsoleEnds \/ Request
  BY <1>1, <1>3, RepSlot DEF ServerInv
<1>4. CASE UNCHANGED vars
  BY <1>1, <1>4 DEF vars, ServerInv, SlotInv, StateInv, RepAt, Live
<1> QED
  BY <1>2, <1>3, <1>4 DEF Next

(* Rule K1, for any number of workers and requests: however the shutdown,  *)
(* a manager_stop or an environment_destroy falls between the claim of the *)
(* slot, the spawn and the registration of the abort handle, the request   *)
(* loop ends with every worker told to stop or already leaving.            *)
THEOREM WorkersAreStopped == Spec => []NoOrphanWorker
<1>1. ServerInv => NoOrphanWorker
  BY DEF ServerInv, SlotInv, NoOrphanWorker, RepAt, Leaving
<1> QED
  BY <1>1, ServerInit, ServerStep, PTL DEF Spec

(* The manager is not wedged, for any number of environments and workers:  *)
(* when every worker has ended by itself, an open environment finds the    *)
(* manager idle and the slot free.                                         *)
THEOREM ManagerIsStartable == Spec => []Startable
<1>1. ServerInv => Startable
  <2> SUFFICES ASSUME ServerInv, RepAt("recv"), env # 0,
                      \A w \in DOMAIN workers : ~Live(w) /\ ~workers[w].aborted
               PROVE  mgr.state = "idle" /\ MayClaim
    BY DEF Startable
  <2>1. DOMAIN workers = 1 .. Len(workers) /\ Len(workers) \in Nat
    BY DEF ServerInv, TypeInv, TypeOK
  <2>2. MayClaim
    BY <2>1 DEF ServerInv, SlotInv, MayClaim
  <2>3. mgr.state = "idle"
    BY DEF ServerInv, StateInv, RepAt, Leaving, Live
  <2> QED
    BY <2>2, <2>3
<1> QED
  BY <1>1, ServerInit, ServerStep, PTL DEF Spec

-----------------------------------------------------------------------------
(* No item is lost.  Only a worker started for one item carries one from   *)
(* the start, and an item leaves the queue or a worker's hands for the     *)
(* next place that accounts for it.                                        *)

LossInv ==
  /\ NoItemLost
  /\ ~rep.single => rep.item = NoItem
  /\ \A w \in DOMAIN workers :
       workers[w].pc = "spawned" /\ ~workers[w].single => workers[w].item = NoItem

Grows(old, new) ==
  /\ old.withdrawn \subseteq new.withdrawn
  /\ old.archived \subseteq new.archived
  /\ old.revoked \subseteq new.revoked

(* One step of a worker, as the items see it. *)
HandsOver(w) ==
  /\ items'.submitted = items.submitted /\ Grows(items, items')
  /\ \/ Pending(q) \subseteq Pending(q')
     \/ /\ workers'[w].pc \in Holding
        /\ Pending(q) \subseteq Pending(q') \cup {workers'[w].item.uid}
  /\ workers[w].pc \in Holding =>
       \/ workers'[w].pc \in Holding /\ workers'[w].item = workers[w].item
       \/ workers[w].item.uid = NoItem.uid
       \/ workers[w].item.uid \in items'.archived \cup items'.revoked

LEMMA HandedOver ==
    ASSUME TypeInv, LossInv, NEW w, WorkerMoves(w), HandsOver(w)
    PROVE  LossInv'
<1>1. ASSUME NEW uid \in items'.submitted PROVE Accounted(uid)'
  <2>1. uid \in items.submitted /\ uid # NoItem.uid
    BY <1>1 DEF HandsOver, TypeInv, TypeOK, Uids, NoItem
  <2>2. CASE uid \in Pending(q)
    BY <2>2 DEF HandsOver, WorkerMoves, Accounted, Holders
  <2>3. CASE \E v \in DOMAIN workers : workers[v].item.uid = uid /\ workers[v].pc \in Holding
    BY <2>1, <2>3 DEF HandsOver, WorkerMoves, Accounted, Holders
  <2>4. CASE uid \in items.withdrawn \cup items.archived \cup items.revoked
    BY <2>4 DEF HandsOver, Grows, Accounted
  <2> QED
    BY <2>1, <2>2, <2>3, <2>4 DEF LossInv, NoItemLost, Accounted, Holders
<1>2. NoItemLost'
  BY <1>1 DEF NoItemLost
<1>3. \A v \in DOMAIN workers' :
        workers'[v].pc = "spawned" /\ ~workers'[v].single => workers'[v].item = NoItem
  BY DEF LossInv, WorkerMoves
<1> QED
  BY <1>2, <1>3 DEF LossInv, WorkerMoves

LEMMA WorkerHandsOver ==
    ASSUME TypeInv, LossInv, NEW w \in 1 .. MaxWorkers, WorkerStep(w)
    PROVE  HandsOver(w)
<1> USE DEF WorkerAt, HandsOver, Grows, Holding
<1>0. /\ workers \in Seq(Workers) /\ w \in DOMAIN workers /\ workers[w] \in Workers
      /\ items \in [{"submitted", "withdrawn", "archived", "revoked"} -> SUBSET Uids]
      /\ q \in QueueRecords
      /\ workers[w].pc = "spawned" /\ ~workers[w].single => workers[w].item = NoItem
  BY WorkerStepMoves DEF TypeInv, TypeOK, WorkerMoves, QueueRecords, LossInv
<1>h. ASSUME NEW it PROVE Pending(PushHistory(q, it)) = Pending(q)
  BY <1>0 DEF PushHistory, Pending, QueueRecords
<1>1. CASE Dropped(w)
  BY <1>0, <1>1 DEF Dropped, WorkerGoes, Workers, NoItem
<1>2. CASE Begins(w)
  BY <1>0, <1>2 DEF Begins, WorkerGoes, Workers, NoItem
<1>3. CASE Top(w)
  BY <1>0, <1>3 DEF Top, WorkerGoes, Workers
<1>4. CASE ClearStop(w)
  BY <1>0, <1>4 DEF ClearStop, Workers
<1>5. CASE StopDone(w)
  BY <1>0, <1>5, <1>h DEF StopDone, Archives, Workers
<1>6. CASE StopSet(w)
  BY <1>0, <1>6 DEF StopSet, WorkerGoes, Workers
<1>7. CASE Reject(w)
  BY <1>0, <1>7, <1>h DEF Reject, Archives, Workers
<1>8. CASE BeginItem(w)
  BY <1>0, <1>8 DEF BeginItem, WorkerGoes, Workers
<1>9. CASE EnterRun(w)
  BY <1>0, <1>9 DEF EnterRun, WorkerGoes, Workers
<1>10. CASE RunEnds(w)
  BY <1>0, <1>10 DEF RunEnds, Workers
<1>11. CASE Book(w)
  BY <1>0, <1>11 DEF Book, WorkerGoes, Workers
<1>12. CASE Archive(w)
  BY <1>0, <1>12, <1>h DEF Archive, Archives, Workers
<1>13. CASE IdleOut(w)
  BY <1>0, <1>13 DEF IdleOut, WorkerGoes, Workers
<1>14. CASE Release(w)
  BY <1>0, <1>14 DEF Release, Workers
<1>15. CASE LoopItem(w)
  <2>1. Pending(q) \subseteq Pending(PushBack(q, workers[w].item))
    BY <1>0 DEF PushBack, WithItems, Pending, QueueRecords
  <2> QED
    BY <1>0, <1>15, <2>1 DEF LoopItem, Workers
<1>16. CASE \E builds \in BOOLEAN : Pop(w, builds)
  <2>1. PICK builds \in BOOLEAN : Pop(w, builds)
    BY <1>16
  <2>2. CASE q.items = <<>>
    <3>1. q' = q
      BY <2>1, <2>2 DEF Pop, PopFront
    <3> QED
      BY <1>0, <2>1, <3>1 DEF Pop, Workers
  <2>3. CASE q.items # <<>>
    <3> DEFINE it == Head(q.items)
               pc == AfterPop(it, builds)
    <3>1. it \in Items /\ q.items \in Seq(Items) /\ Tail(q.items) \in Seq(Items)
      BY <1>0, <2>3 DEF QueueRecords
    <3>2. pc \in {"stopdone", "begin", "reject"}
      BY <3>1 DEF AfterPop, Items, Kinds
    <3>3. workers' = [workers EXCEPT ![w].pc = pc, ![w].item = it] /\ q' = WithItems(q, Tail(q.items))
      BY <2>1, <2>3 DEF Pop, PopFront
    <3>4. Pending(q) \subseteq Pending(q') \cup {it.uid}
      <4>1. Pending(q') = {Tail(q.items)[i].uid : i \in 1 .. Len(Tail(q.items))}
        BY <1>0, <3>1, <3>3, ItemsReplaced
      <4>2. ASSUME NEW i \in DOMAIN q.items PROVE q.items[i].uid \in Pending(q') \cup {it.uid}
        <5>1. CASE i = 1
          BY <2>3, <3>1, <5>1
        <5>2. CASE i # 1
          <6>1. i - 1 \in 1 .. Len(Tail(q.items)) /\ Tail(q.items)[i - 1] = q.items[i]
            BY <2>3, <3>1, <5>2
          <6> QED
            BY <4>1, <6>1
        <5> QED
          BY <5>1, <5>2
      <4> QED
        BY <4>2 DEF Pending
    <3> HIDE DEF pc, it
    <3>5. workers'[w].pc \in Holding /\ workers'[w].item = it
      BY <1>0, <3>2, <3>3 DEF Workers
    <3> QED
      BY <1>0, <2>1, <3>4, <3>5 DEF Pop
  <2> QED
    BY <2>2, <2>3
<1> QED
  BY <1>1, <1>2, <1>3, <1>4, <1>5, <1>6, <1>7, <1>8, <1>9, <1>10, <1>11, <1>12, <1>13, <1>14,
     <1>15, <1>16 DEF WorkerStep

(* A step of another actor: the workers keep their items, and what leaves  *)
(* the queue was withdrawn.                                                *)
LEMMA ItemsKept ==
    ASSUME LossInv, WorkersKept, Grows(items, items'),
           Pending(q) \subseteq Pending(q') \cup items'.withdrawn,
           items'.submitted \subseteq items.submitted \cup Pending(q'),
           ~rep'.single => rep'.item = NoItem
    PROVE  LossInv'
<1>1. ASSUME NEW uid \in items'.submitted PROVE Accounted(uid)'
  <2>1. CASE uid \in Pending(q) \cup Pending(q')
    BY <2>1 DEF Accounted
  <2>2. CASE \E v \in DOMAIN workers : workers[v].item.uid = uid /\ workers[v].pc \in Holding
    BY <2>2 DEF WorkersKept, Accounted, Holders
  <2>3. CASE uid \in items.withdrawn \cup items.archived \cup items.revoked
    BY <2>3 DEF Grows, Accounted
  <2> QED
    BY <1>1, <2>1, <2>2, <2>3 DEF LossInv, NoItemLost, Accounted, Holders
<1>2. NoItemLost'
  BY <1>1 DEF NoItemLost
<1> QED
  BY <1>2 DEF LossInv, WorkersKept

LEMMA QueueRequestItems ==
    ASSUME TypeInv, LossInv, StrictMoves,
           \/ \E kind \in {"plan", "stop"}, place \in Places : QueueItemAdd(kind, place)
           \/ \E place \in Places : QueueItemAddBatchOf2(place)
           \/ \E uid \in Uids, kind \in Kinds, replace \in BOOLEAN : QueueItemUpdate(uid, kind, replace)
           \/ \E u, v \in Uids : QueueItemRemove(u, v)
           \/ QueueClear
           \/ \E uid \in Uids, place \in Places : QueueItemMove(uid, place)
           \/ \E u1, u2 \in Uids, place \in Places, reorder \in BOOLEAN :
                QueueItemMoveBatchOf2(u1, u2, place, reorder)
           \/ HistoryClear
    PROVE  LossInv'
<1>q. /\ q \in QueueRecords
      /\ items \in [{"submitted", "withdrawn", "archived", "revoked"} -> SUBSET Uids]
  BY DEF TypeInv, TypeOK, QueueRecords
<1>p. \A place \in Places : IsPlace(place)
  BY ServerAssumption DEF IsPlace
<1>i. \A uid \in Uids, kind \in Kinds : [uid |-> uid, kind |-> kind] \in Items
  BY DEF Items
<1>f. FreshUid \in Nat \ {0} /\ MaxItems \in Nat
  BY FreshUidNatural, ServerAssumption DEF TypeInv
<1>k. OnlyQueue => WorkersKept
  BY SameWorkersKept DEF OnlyQueue, TypeInv
<1>r. ASSUME NEW pc, RepGoes(pc) PROVE rep'.item = NoItem
  BY <1>r DEF RepGoes
<1>1. ASSUME NEW kind \in {"plan", "stop"}, NEW place \in Places, QueueItemAdd(kind, place) PROVE LossInv'
  <2> DEFINE it == [uid |-> FreshUid, kind |-> kind]
             r == InsertPositioned(q, it, place)
  <2>1. it \in Items /\ it.uid = FreshUid
    BY <1>1, <1>i DEF QueueItemAdd, Kinds
  <2>2. r.ok /\ q' = r.q /\ items' = [items EXCEPT !.submitted = @ \cup {FreshUid}]
    BY <1>1 DEF QueueItemAdd
  <2> HIDE DEF it
  <2>3. Pending(q') = Pending(q) \cup {FreshUid}
    BY <1>q, <1>p, <2>1, <2>2, PositionedAdds DEF Extended
  <2>4. items'.submitted = items.submitted \cup {FreshUid} /\ Grows(items, items')
    BY <1>q, <2>2 DEF Grows
  <2> QED
    BY <1>1, <1>k, <1>r, <2>3, <2>4, ItemsKept DEF QueueItemAdd
<1>2. ASSUME NEW place \in Places, QueueItemAddBatchOf2(place) PROVE LossInv'
  <2> DEFINE a == [uid |-> FreshUid, kind |-> "plan"]
             b == [uid |-> FreshUid + 1, kind |-> "plan"]
             r == QueueItemAddBatch(q, a, b, place)
  <2>n. ASSUME NEW n \in Nat \ {0}, n + 1 \in Uids PROVE n \in Uids
    BY <1>f, <2>n DEF Uids
  <2>0. FreshUid \in Uids /\ FreshUid + 1 \in Uids
    BY <1>2, <1>f, <2>n DEF QueueItemAddBatchOf2
  <2>1. a \in Items /\ b \in Items /\ a.uid = FreshUid /\ b.uid = FreshUid + 1
    BY <1>i, <2>0 DEF Kinds
  <2>2. r.ok /\ q' = r.q /\ items' = [items EXCEPT !.submitted = @ \cup {FreshUid, FreshUid + 1}]
    BY <1>2 DEF QueueItemAddBatchOf2
  <2> HIDE DEF a, b
  <2>e. Extended(q, r.q, {a.uid, b.uid})
    BY <1>q, <1>p, <2>1, <2>2, AddBatchAdds
  <2>3. Pending(q') = Pending(q) \cup {FreshUid, FreshUid + 1}
    BY <2>1, <2>2, <2>e DEF Extended
  <2>4. items'.submitted = items.submitted \cup {FreshUid, FreshUid + 1} /\ Grows(items, items')
    BY <1>q, <2>2 DEF Grows
  <2> QED
    BY <1>2, <1>k, <1>r, <2>3, <2>4, ItemsKept DEF QueueItemAddBatchOf2
<1>3. ASSUME NEW uid \in Uids, NEW kind \in Kinds, NEW replace \in BOOLEAN, QueueItemUpdate(uid, kind, replace)
      PROVE  LossInv'
  <2>1. CASE replace
    <3> DEFINE it == [uid |-> FreshUid, kind |-> kind]
               r == ReplaceAtUid(q, uid, it)
    <3>1. it \in Items /\ it.uid = FreshUid
      BY <1>3, <1>i, <2>1 DEF QueueItemUpdate
    <3>2. r.ok /\ q' = r.q /\ items' = [items EXCEPT !.submitted = @ \cup {FreshUid}, !.withdrawn = @ \cup {uid}]
      BY <1>3, <2>1 DEF QueueItemUpdate
    <3> HIDE DEF it
    <3>3. Pending(q) \subseteq Pending(q') \cup {uid} /\ FreshUid \in Pending(q')
      BY <1>q, <3>1, <3>2, ReplaceAtKeeps
    <3>4. /\ items'.submitted = items.submitted \cup {FreshUid} /\ items'.withdrawn = items.withdrawn \cup {uid}
          /\ Grows(items, items')
      BY <1>q, <3>2 DEF Grows
    <3> QED
      BY <1>3, <1>k, <1>r, <3>3, <3>4, ItemsKept DEF QueueItemUpdate
  <2>2. CASE ~replace
    <3> DEFINE it == [uid |-> uid, kind |-> kind]
               r == ReplaceAtUid(q, uid, it)
    <3>1. it \in Items /\ it.uid = uid
      BY <1>i
    <3>2. UpdateItem(q, uid, it) = r
      BY <3>1 DEF UpdateItem, ReplaceAtUid, Items
    <3>3. r.ok /\ q' = r.q /\ items' = items
      BY <1>3, <2>2, <3>2 DEF QueueItemUpdate
    <3> HIDE DEF it
    <3>4. Pending(q) \subseteq Pending(q')
      BY <1>q, <3>1, <3>3, ReplaceAtKeeps
    <3>5. Grows(items, items')
      BY <3>3 DEF Grows
    <3> QED
      BY <1>3, <1>k, <1>r, <3>3, <3>4, <3>5, ItemsKept DEF QueueItemUpdate
  <2> QED
    BY <2>1, <2>2
<1>4. ASSUME NEW u \in Uids, NEW v \in Uids, QueueItemRemove(u, v) PROVE LossInv'
  <2> DEFINE r == RemoveByUid(q, u).q
  <2>1. r \in QueueRecords /\ Pending(q) \subseteq Pending(r) \cup {u}
    BY <1>q, RemoveByUidTakes
  <2>2. q' = RemoveByUid(r, v).q /\ items' = [items EXCEPT !.withdrawn = @ \cup (Pending(q) \cap {u, v})]
    BY <1>4 DEF QueueItemRemove, QueueItemRemoveBatch
  <2> HIDE DEF r
  <2>3. Pending(r) \subseteq Pending(q') \cup {v}
    BY <2>1, <2>2, RemoveByUidTakes
  <2>4. /\ items'.withdrawn = items.withdrawn \cup (Pending(q) \cap {u, v})
        /\ items'.submitted = items.submitted /\ Grows(items, items')
    BY <1>q, <2>2 DEF Grows
  <2>5. Pending(q) \subseteq Pending(q') \cup items'.withdrawn
    BY <2>1, <2>3, <2>4
  <2> QED
    BY <1>4, <1>k, <1>r, <2>4, <2>5, ItemsKept DEF QueueItemRemove
<1>5. ASSUME QueueClear PROVE LossInv'
  <2>1. items' = [items EXCEPT !.withdrawn = @ \cup Pending(q)]
    BY <1>5 DEF QueueClear
  <2>2. items'.withdrawn = items.withdrawn \cup Pending(q) /\ items'.submitted = items.submitted /\ Grows(items, items')
    BY <1>q, <2>1 DEF Grows
  <2> QED
    BY <1>5, <1>k, <1>r, <2>2, ItemsKept DEF QueueClear
<1>6. ASSUME NEW uid \in Uids, NEW place \in Places, QueueItemMove(uid, place) PROVE LossInv'
  <2>1. Pending(q') = Pending(q)
    BY <1>6, <1>q, <1>p, MoveKeeps DEF QueueItemMove, Rearranged
  <2> QED
    BY <1>6, <1>k, <1>r, <2>1, ItemsKept DEF QueueItemMove, Grows
<1>7. ASSUME NEW u1 \in Uids, NEW u2 \in Uids, NEW place \in Places, NEW reorder \in BOOLEAN,
             QueueItemMoveBatchOf2(u1, u2, place, reorder)
      PROVE  LossInv'
  <2>1. Pending(q') = Pending(q)
    BY <1>7, <1>q, <1>p, MoveBatchKeeps DEF QueueItemMoveBatchOf2, Rearranged
  <2> QED
    BY <1>7, <1>k, <1>r, <2>1, ItemsKept DEF QueueItemMoveBatchOf2, Grows
<1>8. ASSUME HistoryClear PROVE LossInv'
  <2>1. Pending(q') = Pending(q)
    BY <1>8, <1>q DEF HistoryClear, ClearHistory, Pending, QueueRecords
  <2> QED
    BY <1>8, <1>k, <1>r, <2>1, ItemsKept DEF HistoryClear, Grows
<1> QED
  BY <1>1, <1>2, <1>3, <1>4, <1>5, <1>6, <1>7, <1>8

LEMMA RepItems ==
    ASSUME TypeInv, LossInv,
           \/ RepStep \/ Shutdown \/ ConsoleRun \/ ConsoleEnds
           \/ EnvOpen \/ EnvClose \/ EnvDestroy \/ QueueStart \/ QueueItemExecute
           \/ \E m, field, value : SetFlag(m, field, value)
           \/ RePause \/ (\E m, intr : ReWith(m, intr)) \/ ManagerStop
    PROVE  LossInv'
<1>k. UNCHANGED workers => WorkersKept
  BY SameWorkersKept DEF TypeInv
<1>v. workers' = Revoked(workers, slot) /\ slot' = Emptied(slot) => WorkersKept
  BY RevokedKeeps DEF TypeInv
<1>0. /\ rep \in [pc : RepPCs, single : BOOLEAN, item : Items \cup {NoItem}]
      /\ ~rep.single => rep.item = NoItem
      /\ items \in [{"submitted", "withdrawn", "archived", "revoked"} -> SUBSET Uids]
      /\ workers \in Seq(Workers)
  BY DEF TypeInv, TypeOK, LossInv
<1>r. ASSUME NEW pc, RepGoes(pc) PROVE rep'.item = NoItem
  BY <1>r DEF RepGoes
<1>u. ASSUME UNCHANGED <<q, items>>, WorkersKept, ~rep'.single => rep'.item = NoItem PROVE LossInv'
  BY <1>u, ItemsKept DEF Grows
<1>1. CASE StartClaim
  <2>1. CASE ~MayClaim
    BY <1>1, <1>k, <1>r, <1>u, <2>1 DEF StartClaim
  <2>2. CASE MayClaim
    <3> DEFINE x == [pc |-> "spawned", single |-> rep.single, item |-> rep.item,
                     env |-> env, aborted |-> FALSE, status |-> "none", disarm |-> FALSE]
    <3>1. /\ workers' = Append(workers, x) /\ q' = q
          /\ items' = [items EXCEPT !.submitted = @ \cup (IF rep.single THEN {rep.item.uid} ELSE {})]
      BY <1>1, <2>2 DEF StartClaim
    <3>2. x.pc = "spawned" /\ x.item = rep.item /\ x.single = rep.single
      OBVIOUS
    <3> HIDE DEF x
    <3>3. /\ DOMAIN workers' = DOMAIN workers \cup {Len(workers) + 1}
          /\ workers'[Len(workers) + 1] = x /\ \A w \in DOMAIN workers : workers'[w] = workers[w]
      BY <1>0, <3>1
    <3>4. /\ items'.submitted \subseteq items.submitted \cup {rep.item.uid}
          /\ Grows(items, items')
      BY <1>0, <3>1 DEF Grows
    <3>5. ASSUME NEW uid \in items'.submitted PROVE Accounted(uid)'
      <4>1. CASE uid = rep.item.uid
        BY <3>2, <3>3, <4>1 DEF Accounted, Holders, Holding
      <4>2. CASE uid \in items.submitted
        <5>1. CASE \E v \in DOMAIN workers : workers[v].item.uid = uid /\ workers[v].pc \in Holding
          BY <3>3, <5>1 DEF Accounted, Holders
        <5>2. CASE uid \in Pending(q) \cup items.withdrawn \cup items.archived \cup items.revoked
          BY <3>1, <3>4, <5>2 DEF Accounted, Grows
        <5> QED
          BY <4>2, <5>1, <5>2 DEF LossInv, NoItemLost, Accounted, Holders
      <4> QED
        BY <3>4, <3>5, <4>1, <4>2
    <3>6. \A w \in DOMAIN workers' :
            workers'[w].pc = "spawned" /\ ~workers'[w].single => workers'[w].item = NoItem
      BY <1>0, <3>2, <3>3 DEF LossInv
    <3>7. rep'.item = NoItem
      BY <1>1, <1>r, <2>2 DEF StartClaim
    <3> QED
      BY <3>5, <3>6, <3>7 DEF LossInv, NoItemLost
  <2> QED
    BY <2>1, <2>2
<1>2. CASE StartRegister
  <2>1. WorkersKept
    <3>1. CASE IsCurrent(slot, Len(workers))
      BY <1>2, <1>k, <3>1 DEF StartRegister, RegisterHandle
    <3>2. CASE ~IsCurrent(slot, Len(workers)) /\ Len(workers) \in DOMAIN workers
      BY <1>2, <3>2, AbortKeeps DEF StartRegister, RegisterHandle, TypeInv
    <3>3. CASE ~IsCurrent(slot, Len(workers)) /\ Len(workers) \notin DOMAIN workers
      <4>1. workers' = workers
        BY <1>0, <1>2, <3>3 DEF StartRegister, RegisterHandle
      <4> QED
        BY <1>k, <4>1
    <3> QED
      BY <3>1, <3>2, <3>3
  <2> QED
    BY <1>2, <1>r, <1>u, <2>1 DEF StartRegister
<1>3. CASE StartCheck
  BY <1>0, <1>3, <1>k, <1>r, <1>u DEF StartCheck
<1>4. CASE QueueItemExecute
  <2>1. rep'.single
    BY <1>4 DEF QueueItemExecute
  <2> QED
    BY <1>4, <1>k, <1>u, <2>1 DEF QueueItemExecute
<1>5. CASE LoopExits \/ EnvDestroy \/ ManagerStop
  BY <1>5, <1>r, <1>u, <1>v DEF LoopExits, EnvDestroy, ManagerStop
<1>6. CASE Shutdown \/ ConsoleRun \/ ConsoleEnds
  BY <1>0, <1>6, <1>k, <1>u, <1>v DEF Shutdown, ConsoleRun, ConsoleEnds
<1>7. CASE Poll \/ RecvTimeout \/ MaybeAutostart \/ EnvDestroyed \/ EnvOpen \/ EnvClose \/ QueueStart \/ RePause
  BY <1>7, <1>k, <1>r, <1>u DEF Poll, RecvTimeout, MaybeAutostart, EnvDestroyed, EnvOpen, EnvClose, QueueStart, RePause
<1>8. CASE \E hookFails \in BOOLEAN : EnvOpened(hookFails)
  BY <1>8, <1>k, <1>r, <1>u DEF EnvOpened
<1>9. CASE \E m, field, value : SetFlag(m, field, value)
  BY <1>9, <1>k, <1>r, <1>u DEF SetFlag
<1>10. CASE \E m, intr : ReWith(m, intr)
  BY <1>10, <1>k, <1>r, <1>u DEF ReWith
<1> QED
  BY <1>1, <1>2, <1>3, <1>4, <1>5, <1>6, <1>7, <1>8, <1>9, <1>10 DEF RepStep

LEMMA LossStep ==
    ASSUME StrictMoves, TypeInv, LossInv, [Next]_vars
    PROVE  LossInv'
<1>2. CASE \E w \in 1 .. MaxWorkers : WorkerStep(w)
  BY <1>2, WorkerStepMoves, WorkerHandsOver, HandedOver
<1>3. CASE RepStep \/ Shutdown \/ ConsoleRun \/ ConsoleEnds
  BY <1>3, RepItems
<1>4. CASE Request
  BY <1>4, QueueRequestItems, RepItems DEF Request
<1>5. CASE UNCHANGED vars
  BY <1>5 DEF vars, LossInv, NoItemLost, Accounted, Holders
<1> QED
  BY <1>2, <1>3, <1>4, <1>5 DEF Next

(* Nothing that was submitted disappears, for any queue, any positions and *)
(* any number of clients' requests, provided the clients of                *)
(* queue_item_move name reference items that are pending: with one that is *)
(* not, the move has already taken the item out when it fails, which is    *)
(* the finding of the run qs_move.                                         *)
THEOREM ItemsAreKept == StrictMoves /\ Spec => []NoItemLost
<1>1. Init => TypeInv /\ LossInv
  <2> SUFFICES ASSUME Init PROVE LossInv
    BY TypeInit
  <2> QED
    BY DEF Init, LossInv, NoItemLost
<1>2. ASSUME StrictMoves, TypeInv, LossInv, [Next]_vars PROVE TypeInv' /\ LossInv'
  BY <1>2, TypeStep, LossStep
<1>3. StrictMoves /\ TypeInv /\ LossInv /\ [Next]_vars => (TypeInv /\ LossInv)'
  BY <1>2
<1>4. LossInv => NoItemLost
  BY DEF LossInv
<1>5. StrictMoves => StrictMoves'
  OBVIOUS
<1> QED
  BY <1>1, <1>3, <1>4, <1>5, PTL DEF Spec
=============================================================================
