----------------------------- MODULE SyncProofs -----------------------------
(***************************************************************************)
(* Proofs about Sync, for any number of objects, devices and workers, any  *)
(* page limit and any window.  Inv is inductive, so CursorComplete holds.  *)
(* With WriteInv, which relates what a transaction has written to the rows *)
(* it will replace, follow one live row per key and the two action         *)
(* properties about overwriting.                                           *)
(***************************************************************************)
EXTENDS Sync, SequenceTheorems, TLAPS

(* A transaction's state after the parts that carry no version have changed. *)
LEMMA AfterTakeType ==
    ASSUME NEW x \in Tx
    PROVE  /\ AfterTake(x) \in Tx
           /\ Take(x) \in Nat
           /\ AfterTake(x).ws = x.ws /\ AfterTake(x).open = x.open
           /\ AfterTake(x).op = x.op /\ AfterTake(x).items = x.items
           /\ AfterTake(x).todo = x.todo /\ AfterTake(x).root = x.root
           /\ AfterTake(x).stale = x.stale /\ AfterTake(x).at = x.at
  BY DEF Tx, Take, AfterTake

LEMMA TakeGrows ==
    ASSUME NEW x \in Tx, x.next <= x.last => x.last = x.seq
    PROVE  /\ Take(AfterTake(x)) = Take(x) + 1
           /\ AfterTake(x).seq >= x.seq
           /\ AfterTake(x).next <= AfterTake(x).last =>
                 /\ x.next <= x.last
                 /\ AfterTake(x).last = AfterTake(x).seq
                 /\ AfterTake(x).next > x.next
  BY DEF Tx, Take, AfterTake

LEMMA WriteType ==
    ASSUME NEW x \in Tx, NEW i \in Ids, NEW r \in Row, NEW a \in SUBSET Nat
    PROVE  /\ Write(x, i, r, a) \in Tx
           /\ Write(x, i, r, a).ws = [x.ws EXCEPT ![i] = r]
           /\ Write(x, i, r, a).open <=> x.open
           /\ Write(x, i, r, a).op = x.op
           /\ Write(x, i, r, a).seq = x.seq /\ Write(x, i, r, a).next = x.next
           /\ Write(x, i, r, a).last = x.last
  BY DEF Tx, Write, Table

(* Writing a row with the version just taken keeps the write set ahead. *)
LEMMA AheadWrite ==
    ASSUME NEW s \in Nat, NEW x \in Tx, Ahead(x, s),
           NEW y \in Tx, y.ws = x.ws, y.seq = AfterTake(x).seq,
           y.next = AfterTake(x).next, y.last = AfterTake(x).last,
           NEW i \in Ids, NEW r \in Row, r.ver = Take(x), NEW a \in SUBSET Nat
    PROVE  Ahead(Write(y, i, r, a), s)
<1> DEFINE z == Write(y, i, r, a)
<1>1. z \in Tx /\ z.ws = [x.ws EXCEPT ![i] = r] /\ z.seq = y.seq
      /\ z.next = y.next /\ z.last = y.last
  <2>1. z \in Tx /\ z.ws = [y.ws EXCEPT ![i] = r] /\ z.seq = y.seq
        /\ z.next = y.next /\ z.last = y.last
    BY WriteType DEF z
  <2> QED BY <2>1
<1> HIDE DEF z
<1>2. Take(z) = Take(x) + 1
  BY <1>1, TakeGrows DEF Ahead, Take
<1>3. z.seq >= s /\ (z.next <= z.last => z.last = z.seq /\ z.next > s)
  <2>1. /\ AfterTake(x) \in Tx /\ x.seq >= s /\ AfterTake(x).seq >= x.seq
    BY TakeGrows, AfterTakeType DEF Ahead
  <2>2. z.next <= z.last => z.last = z.seq /\ z.next > x.next /\ x.next > s
    BY <1>1, TakeGrows DEF Ahead
  <2> QED BY <2>1, <2>2, <1>1 DEF Tx
<1>4. Take(x) \in Nat /\ Take(x) > s
  BY DEF Take, Ahead, Tx
<1>5. x.ws \in Table
  BY DEF Tx
<1>6. ASSUME NEW j \in Ids, z.ws[j] # NoRow
      PROVE  z.ws[j].ver > s /\ z.ws[j].ver < Take(z)
  <2>1. CASE j = i
    BY <2>1, <1>1, <1>2, <1>4, <1>5 DEF Table
  <2>2. CASE j # i
    <3>1. z.ws[j] = x.ws[j] /\ x.ws[j] \in Row
      BY <2>2, <1>1, <1>5, <1>6 DEF Table
    <3> QED BY <3>1, <1>2, <1>4, <1>6 DEF Ahead, Row
  <2> QED BY <2>1, <2>2
<1>7. ASSUME NEW j \in Ids, NEW k \in Ids, j # k, z.ws[j] # NoRow, z.ws[k] # NoRow
      PROVE  z.ws[j].ver # z.ws[k].ver
  <2>1. \A m \in Ids : x.ws[m] # NoRow => x.ws[m].ver \in Nat /\ x.ws[m].ver < Take(x)
    BY <1>5 DEF Ahead, Table, Row
  <2>2. CASE j = i
    BY <2>1, <2>2, <1>1, <1>4, <1>5, <1>7 DEF Table
  <2>3. CASE k = i
    BY <2>1, <2>3, <1>1, <1>4, <1>5, <1>7 DEF Table
  <2>4. CASE j # i /\ k # i
    BY <2>4, <1>1, <1>5, <1>7 DEF Table, Ahead
  <2> QED BY <2>2, <2>3, <2>4
<1>8. Ahead(z, s)
  BY <1>3, <1>6, <1>7 DEF Ahead
<1> QED BY <1>8 DEF z

-----------------------------------------------------------------------------
(* The three ways in which a request changes its own state. *)

LEMMA IdleType == Idle \in Tx
<1>1. <<>> \in Seq(Item)
  OBVIOUS
<1> QED BY <1>1 DEF Idle, Tx, Ops, Empty, Table

LEMMA StartStep ==
    ASSUME Inv, NEW t \in Workers, tx[t].op = "none",
           NEW r \in Tx, ~r.open, r.ws = Empty, r.next > r.last, Read(r),
           tx' = [tx EXCEPT ![t] = r], UNCHANGED <<rows, seq, lock, devVars, now>>
    PROVE  Inv'
<1>1. lock # t
  BY DEF Inv, TxInv
<1>2. TypeOK'
  BY DEF Inv, TypeOK, devVars
<1>3. RowsInv' /\ CursorInv' /\ PageInv'
  BY DEF Inv, RowsInv, UniqueVersions, CursorInv, CursorComplete, PageInv, devVars
<1>4. TxInv'
  <2> SUFFICES ASSUME NEW u \in Workers
               PROVE  /\ tx'[u].open <=> lock' = u
                      /\ tx'[u].open => tx'[u].op # "none" /\ Ahead(tx'[u], seq') /\ Rooted(tx'[u], rows')
                      /\ Read(tx'[u])
                      /\ ~tx'[u].open => tx'[u].ws = Empty /\ tx'[u].next > tx'[u].last
    BY DEF TxInv
  <2>1. CASE u = t
    BY <2>1, <1>1 DEF Inv, TypeOK
  <2>2. CASE u # t
    <3>1. tx'[u] = tx[u]
      BY <2>2 DEF Inv, TypeOK
    <3> QED BY <3>1 DEF Inv, TxInv, Ahead, Take
  <2> QED BY <2>1, <2>2
<1> QED BY <1>2, <1>3, <1>4 DEF Inv

LEMMA WorkStep ==
    ASSUME Inv, NEW t \in Workers, tx[t].open,
           NEW r \in Tx, r.open, r.op # "none", Ahead(r, seq),
           Rooted(r, rows), Read(r), Work(t, r)
    PROVE  Inv'
<1>0. lock = t
  BY DEF Inv, TxInv
<1>1. TypeOK'
  BY DEF Inv, TypeOK, Work, devVars
<1>2. RowsInv' /\ CursorInv' /\ PageInv'
  BY DEF Inv, RowsInv, UniqueVersions, CursorInv, CursorComplete, PageInv, Work, devVars
<1>3. TxInv'
  <2> SUFFICES ASSUME NEW u \in Workers
               PROVE  /\ tx'[u].open <=> lock' = u
                      /\ tx'[u].open => tx'[u].op # "none" /\ Ahead(tx'[u], seq') /\ Rooted(tx'[u], rows')
                      /\ Read(tx'[u])
                      /\ ~tx'[u].open => tx'[u].ws = Empty /\ tx'[u].next > tx'[u].last
    BY DEF TxInv
  <2>1. CASE u = t
    <3>1. tx'[u] = r /\ lock' = t /\ seq' = seq /\ rows' = rows
      BY <1>0, <2>1 DEF Inv, TypeOK, Work
    <3> QED BY <2>1, <3>1 DEF Ahead, Take
  <2>2. CASE u # t
    <3>1. tx'[u] = tx[u] /\ lock' = lock /\ seq' = seq /\ rows' = rows
      BY <2>2 DEF Inv, TypeOK, Work
    <3> QED BY <3>1 DEF Inv, TxInv, Ahead, Take
  <2> QED BY <2>1, <2>2
<1> QED BY <1>1, <1>2, <1>3 DEF Inv

LEMMA AcquireStep ==
    ASSUME Inv, NEW t \in Workers, NEW r \in Tx, r.op # "none", Ahead(r, seq),
           Rooted(r, rows), Read(r), Acquire(t, r)
    PROVE  Inv'
<1> DEFINE z == [r EXCEPT !.open = TRUE]
<1>1. z \in Tx /\ z.open /\ z.op # "none" /\ Ahead(z, seq) /\ Rooted(z, rows) /\ Read(z)
  BY DEF Tx, Ahead, Take, Rooted, Read
<1>2. lock = NoTx /\ lock' = t /\ tx' = [tx EXCEPT ![t] = z] /\ seq' = seq /\ rows' = rows
  BY DEF Acquire
<1> HIDE DEF z
<1>3. TypeOK'
  BY <1>1, <1>2 DEF Inv, TypeOK, Acquire, devVars
<1>4. RowsInv' /\ CursorInv' /\ PageInv'
  BY DEF Inv, RowsInv, UniqueVersions, CursorInv, CursorComplete, PageInv, Acquire, devVars
<1>5. TxInv'
  <2> SUFFICES ASSUME NEW u \in Workers
               PROVE  /\ tx'[u].open <=> lock' = u
                      /\ tx'[u].open => tx'[u].op # "none" /\ Ahead(tx'[u], seq') /\ Rooted(tx'[u], rows')
                      /\ Read(tx'[u])
                      /\ ~tx'[u].open => tx'[u].ws = Empty /\ tx'[u].next > tx'[u].last
    BY DEF TxInv
  <2>1. CASE u = t
    <3>1. tx'[u] = z
      BY <2>1, <1>2 DEF Inv, TypeOK
    <3> QED BY <2>1, <3>1, <1>1, <1>2 DEF Ahead, Take
  <2>2. CASE u # t
    <3>1. tx'[u] = tx[u] /\ ~tx[u].open
      BY <2>2, <1>2, SyncAssumption DEF Inv, TypeOK, TxInv
    <3> QED BY <2>2, <3>1, <1>2 DEF Inv, TxInv
  <2> QED BY <2>1, <2>2
<1> QED BY <1>3, <1>4, <1>5 DEF Inv
-----------------------------------------------------------------------------
(* The rows a request writes are well-typed. *)

LEMMA ViewType ==
    ASSUME TypeOK, NEW t \in Workers, NEW i \in Ids
    PROVE  View(t, i) \in Row \cup {NoRow}
<1>1. tx[t].ws \in Table /\ rows \in Table
  BY DEF TypeOK, Tx
<1> QED BY <1>1 DEF View, Table

LEMMA ClampType ==
    ASSUME NEW del \in Nat, NEW at \in Nat
    PROVE  Clamp(del, at) \in Nat
  BY SyncAssumption DEF Clamp

LEMMA TombstoneType ==
    ASSUME NEW r \in Row, NEW v \in Nat, NEW at \in Nat
    PROVE  Tombstone(r, v, at) \in Row /\ Tombstone(r, v, at).ver = v
  BY DEF Tombstone, Row

LEMMA WrittenType ==
    ASSUME TypeOK, NEW t \in Workers, NEW it \in Item, NEW v \in Nat
    PROVE  /\ Written(t, it, v) \in Row /\ Written(t, it, v).ver = v
           /\ Answers(t, it) \in SUBSET Nat
<1>1. tx[t] \in Tx
  BY DEF TypeOK
<1>2. Clamp(it.del, tx[t].at) \in Nat
  BY <1>1, ClampType DEF Item, Tx
<1>3. Written(t, it, v) \in Row /\ Written(t, it, v).ver = v
  BY <1>1, <1>2 DEF Written, Row, Item, Tx
<1>4. View(t, it.id) \in Row \cup {NoRow}
  BY ViewType DEF Item
<1>5. Answers(t, it) \in SUBSET Nat
  BY <1>4 DEF Answers, Conflict, Item, Row
<1> QED BY <1>3, <1>5

LEMMA HeadTail ==
    ASSUME TypeOK, NEW t \in Workers, tx[t].items # <<>>
    PROVE  Head(tx[t].items) \in Item /\ Tail(tx[t].items) \in Seq(Item)
<1>1. tx[t].items \in Seq(Item)
  BY DEF TypeOK, Tx
<1> QED BY <1>1, HeadTailProperties

(* The working state an open transaction starts a step from. *)
LEMMA OpenTx ==
    ASSUME Inv, NEW t \in Workers, tx[t].open
    PROVE  /\ tx[t] \in Tx /\ tx[t].op # "none" /\ Ahead(tx[t], seq)
           /\ Rooted(tx[t], rows) /\ Read(tx[t])
           /\ seq \in Nat /\ lock = t /\ TypeOK
           /\ AfterTake(tx[t]) \in Tx /\ Take(tx[t]) \in Nat
           /\ AfterTake(tx[t]).op = tx[t].op /\ AfterTake(tx[t]).open
           /\ AfterTake(tx[t]).ws = tx[t].ws
<1>1. tx[t] \in Tx /\ seq \in Nat /\ TypeOK
  BY DEF Inv, TypeOK
<1>2. /\ tx[t].op # "none" /\ Ahead(tx[t], seq) /\ lock = t
      /\ Rooted(tx[t], rows) /\ Read(tx[t])
  BY DEF Inv, TxInv
<1> QED BY <1>1, <1>2, AfterTakeType

(* A step that takes a version and writes nothing keeps the write set ahead. *)
LEMMA AheadTake ==
    ASSUME NEW s \in Nat, NEW x \in Tx, Ahead(x, s), NEW y \in Tx, y.ws = x.ws,
           y.seq = AfterTake(x).seq, y.next = AfterTake(x).next, y.last = AfterTake(x).last
    PROVE  Ahead(y, s)
<1>1. Take(y) = Take(x) + 1 /\ Take(x) \in Nat
  BY TakeGrows, AfterTakeType DEF Ahead, Take
<1>2. /\ y.seq >= s
      /\ y.next <= y.last => y.last = y.seq /\ y.next > s
  <2>1. AfterTake(x) \in Tx /\ x.seq >= s /\ AfterTake(x).seq >= x.seq
    BY TakeGrows, AfterTakeType DEF Ahead
  <2>2. y.next <= y.last => y.last = y.seq /\ y.next > x.next /\ x.next > s
    BY TakeGrows DEF Ahead
  <2> QED BY <2>1, <2>2 DEF Tx
<1>3. \A i \in Ids : x.ws[i] # NoRow => x.ws[i].ver \in Nat
  BY DEF Tx, Table, Row
<1> QED BY <1>1, <1>2, <1>3 DEF Ahead

(* A step that takes one version and writes one row with it. *)
LEMMA WriteStep ==
    ASSUME Inv, NEW t \in Workers, tx[t].open,
           NEW y \in Tx, y.ws = tx[t].ws, y.open, y.op # "none",
           y.seq = AfterTake(tx[t]).seq, y.next = AfterTake(tx[t]).next,
           y.last = AfterTake(tx[t]).last,
           Rooted(y, rows), Read(y),
           NEW i \in Ids, NEW r \in Row, r.ver = Take(tx[t]), NEW a \in SUBSET Nat,
           Work(t, Write(y, i, r, a))
    PROVE  Inv'
<1> DEFINE z == Write(y, i, r, a)
<1>1. tx[t] \in Tx /\ Ahead(tx[t], seq) /\ seq \in Nat
  BY OpenTx
<1>2. z \in Tx /\ z.open /\ z.op # "none"
  <2>1. /\ z \in Tx /\ z.ws = [y.ws EXCEPT ![i] = r]
        /\ z.open <=> y.open
        /\ z.op = y.op
    BY WriteType DEF z
  <2> QED BY <2>1
<1>3. Ahead(z, seq)
  BY <1>1, AheadWrite DEF z
<1>4. Work(t, z)
  BY DEF z
<1>5. Rooted(z, rows) /\ Read(z)
  BY DEF z, Write, Rooted, Read, Tx
<1> HIDE DEF z
<1> QED BY <1>2, <1>3, <1>4, <1>5, WorkStep

-----------------------------------------------------------------------------
(* The steps of a worker. *)

LEMMA PushStartInv ==
    ASSUME Inv, NEW t \in Workers, NEW d \in Devices, PushStart(t, d)
    PROVE  Inv'
<1>1. PICK n \in 1..MaxBatch : \E b \in [1..n -> ItemsOf(d)] :
          tx' = [tx EXCEPT ![t] = [Idle EXCEPT !.op = "push", !.dev = d, !.at = now, !.items = b]]
  BY DEF PushStart
<1>2. PICK b \in [1..n -> ItemsOf(d)] :
          tx' = [tx EXCEPT ![t] = [Idle EXCEPT !.op = "push", !.dev = d, !.at = now, !.items = b]]
  BY <1>1
<1> DEFINE r == [Idle EXCEPT !.op = "push", !.dev = d, !.at = now, !.items = b]
<1>3. seq \in Nat /\ now \in Nat /\ n \in Nat
  BY SyncAssumption DEF Inv, TypeOK
<1>4. ItemsOf(d) \subseteq Item
  BY <1>3, SyncAssumption DEF ItemsOf, Item
<1>5. b \in Seq(Item)
  <2>1. b \in [1..n -> Item]
    BY <1>4
  <2> QED BY <2>1, <1>3, SeqDef
<1>6. r \in Tx
  BY <1>3, <1>5, IdleType DEF Tx, Ops
<1>7. ~r.open /\ r.ws = Empty /\ r.next > r.last /\ Read(r)
  BY DEF Idle, Read
<1>8. tx' = [tx EXCEPT ![t] = r] /\ UNCHANGED <<rows, seq, lock, devVars, now>>
      /\ tx[t].op = "none"
  BY <1>2 DEF PushStart
<1> HIDE DEF r
<1> QED BY <1>6, <1>7, <1>8, StartStep

LEMMA PushOpenInv ==
    ASSUME Inv, NEW t \in Workers, PushOpen(t)
    PROVE  Inv'
<1> DEFINE n == Len(tx[t].items)
           r == [tx[t] EXCEPT !.next = seq + 1, !.last = seq + n, !.seq = seq + n]
<1>1. tx[t] \in Tx /\ seq \in Nat /\ tx[t].op = "push" /\ ~tx[t].open /\ Acquire(t, r)
  BY DEF Inv, TypeOK, PushOpen
<1>2. n \in Nat
  BY <1>1, LenProperties DEF Tx
<1>3. tx[t].ws = Empty
  BY <1>1 DEF Inv, TxInv
<1> HIDE DEF n
<1>4. r \in Tx /\ r.op # "none"
  <2>1. seq + 1 \in Nat /\ seq + n \in Nat
    BY <1>1, <1>2
  <2> QED BY <1>1, <2>1 DEF Tx
<1>5. Ahead(r, seq)
  BY <1>1, <1>2, <1>3 DEF Ahead, Empty, Tx
<1>6. Rooted(r, rows) /\ Read(r)
  BY <1>1 DEF Rooted, Read, Tx, ReadEarly
<1> HIDE DEF r
<1> QED BY <1>1, <1>4, <1>5, <1>6, AcquireStep

LEMMA PushRefusedInv ==
    ASSUME Inv, NEW t \in Workers, PushRefused(t)
    PROVE  Inv'
<1> DEFINE r == [tx[t] EXCEPT !.items = Tail(@)]
<1>1. tx[t].open /\ tx[t].op = "push" /\ tx[t].items # <<>> /\ Work(t, r)
  BY DEF PushRefused
<1>2. r \in Tx /\ r.open /\ r.op # "none"
  BY <1>1, OpenTx, HeadTail DEF Tx
<1>3. Ahead(r, seq)
  BY <1>1, OpenTx DEF Ahead, Take, Tx
<1>4. Rooted(r, rows) /\ Read(r)
  BY <1>1, OpenTx DEF Rooted, Read, Tx
<1> HIDE DEF r
<1> QED BY <1>1, <1>2, <1>3, <1>4, WorkStep

LEMMA PushWriteInv ==
    ASSUME Inv, NEW t \in Workers, PushWrite(t)
    PROVE  Inv'
<1> DEFINE x == tx[t]
           it == Head(x.items)
           y == [AfterTake(x) EXCEPT !.items = Tail(@)]
           r == Written(t, it, Take(x))
           a == Answers(t, it)
<1>1. x.open /\ x.op = "push" /\ x.items # <<>> /\ Work(t, Write(y, it.id, r, a))
  BY DEF PushWrite
<1>2. /\ x \in Tx /\ x.op # "none" /\ TypeOK
      /\ AfterTake(x) \in Tx /\ Take(x) \in Nat /\ AfterTake(x).op = x.op
      /\ AfterTake(x).open /\ AfterTake(x).ws = x.ws
  BY <1>1, OpenTx
<1>3. it \in Item /\ Tail(x.items) \in Seq(Item) /\ it.id \in Ids
  BY <1>1, <1>2, HeadTail DEF Item
<1>4. AfterTake(x).items = x.items
  BY <1>2 DEF AfterTake, Tx
<1>5. /\ y \in Tx /\ y.ws = x.ws /\ y.op = "push" /\ y.open /\ y.seq = AfterTake(x).seq
      /\ y.next = AfterTake(x).next /\ y.last = AfterTake(x).last
  BY <1>1, <1>2, <1>3, <1>4 DEF Tx
<1>6. r \in Row /\ r.ver = Take(x) /\ a \in SUBSET Nat
  BY <1>2, <1>3, WrittenType
<1>7. Rooted(y, rows) /\ Read(y) /\ y.op # "none"
  BY <1>5 DEF Rooted, Read, ReadEarly
<1> HIDE DEF it, y, r, a
<1> QED BY <1>1, <1>3, <1>5, <1>6, <1>7, WriteStep

LEMMA PushMergeInv ==
    ASSUME Inv, NEW t \in Workers, PushMerge(t)
    PROVE  Inv'
<1> DEFINE x == tx[t]
           it == Head(x.items)
           y == AfterTake(x)
           u == [AfterTake(y) EXCEPT !.items = Tail(@)]
           r == Written(t, it, Take(y))
           a == Answers(t, it)
<1>1. x.open /\ x.items # <<>> /\ x.op = "push"
  BY DEF PushMerge
<1>2. /\ x \in Tx /\ x.op = "push" /\ TypeOK /\ Ahead(x, seq) /\ seq \in Nat
      /\ y \in Tx /\ Take(x) \in Nat /\ y.op = x.op /\ y.open /\ y.ws = x.ws
  BY <1>1, OpenTx
<1>3. it \in Item /\ Tail(x.items) \in Seq(Item) /\ it.id \in Ids
  BY <1>1, <1>2, HeadTail DEF Item
<1>4. PICK j \in Duplicates(t, it) :
         Work(t, Write(Write(u, j, Tombstone(View(t, j), Take(x), x.at), {View(t, j).ver}),
                       it.id, r, a))
  BY DEF PushMerge
<1>5. j \in Ids /\ View(t, j) \in Row
  BY <1>2, <1>4, ViewType DEF Duplicates, Live
<1> DEFINE s == Tombstone(View(t, j), Take(x), x.at)
           b == {View(t, j).ver}
           v == Write(y, j, s, b)
           w == Write(u, j, s, b)
           z == Write(w, it.id, r, a)
<1>6. s \in Row /\ s.ver = Take(x) /\ b \in SUBSET Nat
  <2>1. x.at \in Nat
    BY <1>2 DEF Tx
  <2>2. s \in Row /\ s.ver = Take(x)
    BY <1>2, <1>5, <2>1, TombstoneType DEF s
  <2>3. b \in SUBSET Nat
    BY <1>5 DEF Row
  <2> QED BY <2>2, <2>3
<1>7. /\ AfterTake(y) \in Tx /\ Take(y) \in Nat /\ AfterTake(y).op = x.op
      /\ AfterTake(y).open /\ AfterTake(y).ws = x.ws
  BY <1>2, AfterTakeType
<1>8. AfterTake(y).items = x.items
  BY <1>2 DEF AfterTake, Tx
<1>9. /\ u \in Tx /\ u.ws = x.ws /\ u.op = "push" /\ u.open /\ u.seq = AfterTake(y).seq
      /\ u.next = AfterTake(y).next /\ u.last = AfterTake(y).last
  BY <1>2, <1>3, <1>7, <1>8 DEF Tx
<1>10. r \in Row /\ r.ver = Take(y) /\ a \in SUBSET Nat
  BY <1>2, <1>3, <1>7, WrittenType
<1> HIDE DEF x, it, y, u, r, a, s, b
<1>11. /\ v \in Tx /\ v.seq = y.seq /\ v.next = y.next /\ v.last = y.last
       /\ v.ws = [y.ws EXCEPT ![j] = s]
  BY <1>2, <1>5, <1>6, WriteType DEF v
<1>12. Ahead(v, seq)
  BY <1>2, <1>5, <1>6, AheadWrite DEF v, y
<1>13. /\ w \in Tx /\ w.seq = u.seq /\ w.next = u.next /\ w.last = u.last
       /\ w.ws = v.ws /\ w.open /\ w.op = "push"
  BY <1>2, <1>5, <1>6, <1>9, <1>11, WriteType DEF w
<1>14. /\ Take(y) = Take(v) /\ AfterTake(v).seq = AfterTake(y).seq
       /\ AfterTake(v).next = AfterTake(y).next /\ AfterTake(v).last = AfterTake(y).last
  BY <1>2, <1>11 DEF Take, AfterTake, Tx
<1> HIDE DEF v, w
<1>15. z \in Tx /\ z.open /\ z.op = "push"
  <2>1. /\ z \in Tx /\ z.ws = [w.ws EXCEPT ![it.id] = r]
        /\ z.open <=> w.open
        /\ z.op = w.op
    BY <1>3, <1>10, <1>13, WriteType DEF z
  <2> QED BY <1>13, <2>1
<1>16. Ahead(z, seq)
  <2>1. /\ w.seq = AfterTake(v).seq /\ w.next = AfterTake(v).next
        /\ w.last = AfterTake(v).last /\ r.ver = Take(v)
    BY <1>9, <1>10, <1>13, <1>14
  <2> QED BY <1>2, <1>3, <1>10, <1>11, <1>12, <1>13, <2>1, AheadWrite DEF z
<1>17. Work(t, z)
  BY <1>4 DEF z, w, s, b
<1>18. Rooted(z, rows) /\ Read(z) /\ z.op # "none"
  BY <1>15 DEF Rooted, Read, ReadEarly
<1> HIDE DEF z
<1> QED BY <1>1, <1>15, <1>16, <1>17, <1>18, WorkStep DEF x

(* The state a locked web write opens with. *)
LEMMA WebTxType ==
    ASSUME Inv, NEW op \in Ops, op # "none"
    PROVE  /\ WebTx(op) \in Tx /\ Ahead(WebTx(op), seq) /\ WebTx(op).op = op
           /\ Take(WebTx(op)) = seq + 1 /\ WebTx(op).ws = Empty
           /\ AfterTake(WebTx(op)) \in Tx /\ AfterTake(WebTx(op)).op = op
           /\ AfterTake(WebTx(op)).ws = Empty
<1>1. seq \in Nat /\ now \in Nat
  BY DEF Inv, TypeOK
<1>2. WebTx(op) \in Tx /\ WebTx(op).op = op /\ WebTx(op).ws = Empty
  <2>1. WebTx(op) \in Tx
    BY <1>1, IdleType DEF WebTx, Tx
  <2>2. WebTx(op).op = op /\ WebTx(op).ws = Empty
    BY DEF WebTx, Idle
  <2> QED BY <2>1, <2>2
<1>3. WebTx(op).next = 1 /\ WebTx(op).last = 0 /\ WebTx(op).seq = seq
  BY DEF WebTx, Idle
<1>4. Take(WebTx(op)) = seq + 1
  BY <1>3 DEF Take
<1>5. Ahead(WebTx(op), seq)
  BY <1>1, <1>2, <1>3 DEF Ahead, Empty
<1> QED BY <1>2, <1>4, <1>5, AfterTakeType

LEMMA WriteOneInv ==
    ASSUME Inv, NEW t \in Workers, NEW i \in Ids, NEW r \in Row, r.ver = seq + 1,
           NEW a \in SUBSET Nat, WriteOne(t, i, r, a)
    PROVE  Inv'
<1> DEFINE x == WebTx("write")
           y == AfterTake(x)
           z == Write(y, i, r, a)
<1>1. /\ x \in Tx /\ Ahead(x, seq) /\ Take(x) = seq + 1 /\ seq \in Nat
      /\ y \in Tx /\ y.ws = x.ws /\ y.op = "write"
  BY WebTxType DEF Ops, Inv, TypeOK
<1>2. Ahead(z, seq)
  <2> HIDE DEF x
  <2> QED BY <1>1, AheadWrite DEF y, z
<1> HIDE DEF y
<1>3. z \in Tx /\ z.ws = [y.ws EXCEPT ![i] = r] /\ z.op = y.op
  BY <1>1, WriteType DEF z
<1>4. Rooted(z, rows) /\ Read(z) /\ z.op # "none"
  BY <1>1, <1>3 DEF Rooted, Read, ReadEarly
<1>5. Acquire(t, z)
  BY DEF WriteOne, z, y, x
<1> HIDE DEF z
<1> QED BY <1>2, <1>3, <1>4, <1>5, AcquireStep

LEMMA WebRowType ==
    ASSUME seq \in Nat, NEW kind \in Kinds, NEW key \in Keys \cup {NoKey}
    PROVE  WebRow(kind, key) \in Row /\ WebRow(kind, key).ver = seq + 1
  BY DEF WebRow, Row

LEMMA WebCreateInv ==
    ASSUME Inv, NEW t \in Workers, NEW i \in Ids, WebCreate(t, i)
    PROVE  Inv'
<1>1. PICK f \in Forms[i] : WriteOne(t, i, WebRow(f[1], f[2]), {})
  BY DEF WebCreate
<1>2. f \in Kinds \X (Keys \cup {NoKey})
  BY <1>1, SyncAssumption
<1>3. WebRow(f[1], f[2]) \in Row /\ WebRow(f[1], f[2]).ver = seq + 1
  BY <1>2, WebRowType DEF Inv, TypeOK
<1> QED BY <1>1, <1>3, WriteOneInv

LEMMA WebUpdateInv ==
    ASSUME Inv, NEW t \in Workers, NEW i \in Ids, WebUpdate(t, i)
    PROVE  Inv'
<1>1. rows[i] \in Row
  BY DEF Inv, TypeOK, Table, WebUpdate, Live
<1>2. /\ WebRow(rows[i].kind, rows[i].key) \in Row
      /\ WebRow(rows[i].kind, rows[i].key).ver = seq + 1
      /\ {rows[i].ver} \in SUBSET Nat
  BY <1>1, WebRowType DEF Inv, TypeOK, Row
<1>3. WriteOne(t, i, WebRow(rows[i].kind, rows[i].key), {rows[i].ver})
  BY DEF WebUpdate
<1> QED BY <1>2, <1>3, WriteOneInv

LEMMA WebDeleteInv ==
    ASSUME Inv, NEW t \in Workers, NEW i \in Ids, WebDelete(t, i)
    PROVE  Inv'
<1> DEFINE x == WebTx("delete")
           z == [x EXCEPT !.root = i, !.todo = Below(i)]
<1>1. x \in Tx /\ Ahead(x, seq) /\ x.op = "delete"
  BY WebTxType DEF Ops
<1>2. Below(i) \in SUBSET Ids
  BY DEF Below
<1> HIDE DEF x
<1>3. z \in Tx /\ z.op = "delete" /\ z.root = i
  BY <1>1, <1>2 DEF Tx
<1>4. Ahead(z, seq)
  BY <1>1 DEF Ahead, Take, Tx
<1>5. Live(rows[i]) /\ Acquire(t, z)
  BY DEF WebDelete, x
<1>6. Rooted(z, rows) /\ Read(z) /\ z.op # "none"
  BY <1>3, <1>5 DEF Rooted, Read, ReadEarly
<1> HIDE DEF z
<1> QED BY <1>3, <1>4, <1>5, <1>6, AcquireStep

LEMMA TombstoneNextInv ==
    ASSUME Inv, NEW t \in Workers, TombstoneNext(t)
    PROVE  Inv'
<1> DEFINE x == tx[t]
<1>1. PICK i \in x.todo :
        /\ x.op \in {"delete", "purge"} /\ x.open
        /\ LET y == [AfterTake(x) EXCEPT !.todo = @ \ {i}]
           IN Work(t, IF Live(rows[i])
                        THEN Write(y, i, Tombstone(rows[i], Take(x), x.at), {Seen(x, i).ver})
                        ELSE y)
  BY DEF TombstoneNext
<1> DEFINE y == [AfterTake(x) EXCEPT !.todo = @ \ {i}]
           r == Tombstone(rows[i], Take(x), x.at)
           a == {Seen(x, i).ver}
<1>2. /\ x \in Tx /\ x.op # "none" /\ TypeOK /\ Ahead(x, seq) /\ seq \in Nat
      /\ Rooted(x, rows) /\ Read(x)
      /\ AfterTake(x) \in Tx /\ Take(x) \in Nat /\ AfterTake(x).op = x.op
      /\ AfterTake(x).open /\ AfterTake(x).ws = x.ws
  BY <1>1, OpenTx
<1>3. /\ i \in Ids /\ AfterTake(x).root = x.root /\ x.at \in Nat
      /\ AfterTake(x).todo = x.todo /\ AfterTake(x).stale = x.stale
  BY <1>1, <1>2, AfterTakeType DEF Tx
<1>4. /\ y \in Tx /\ y.ws = x.ws /\ y.op = x.op /\ y.open /\ y.seq = AfterTake(x).seq
      /\ y.next = AfterTake(x).next /\ y.last = AfterTake(x).last /\ y.root = x.root
      /\ y.todo = x.todo \ {i} /\ y.stale = x.stale
  BY <1>2, <1>3 DEF Tx
<1>5. Rooted(y, rows) /\ Read(y) /\ y.op # "none"
  BY <1>1, <1>2, <1>4 DEF Rooted, Read
<1>6. CASE Live(rows[i])
  <2>1. r \in Row /\ r.ver = Take(x) /\ a \in SUBSET Nat
    <3>1. rows[i] \in Row
      BY <1>2, <1>3, <1>6 DEF TypeOK, Table, Live
    <3>2. r \in Row /\ r.ver = Take(x)
      BY <1>2, <1>3, <3>1, TombstoneType DEF r
    <3>3. Seen(x, i) \in Row
      BY <1>1, <1>2, <1>3, <3>1 DEF Seen, Read, Tx, Table
    <3>4. a \in SUBSET Nat
      BY <3>3 DEF Row
    <3> QED BY <3>2, <3>4
  <2>2. Work(t, Write(y, i, r, a))
    BY <1>1, <1>6
  <2> HIDE DEF y, r, a
  <2> QED BY <1>1, <1>3, <1>4, <1>5, <2>1, <2>2, WriteStep
<1>7. CASE ~Live(rows[i])
  <2>1. Work(t, y)
    BY <1>1, <1>7
  <2>2. Ahead(y, seq)
    <3> HIDE DEF x, y
    <3> QED BY <1>2, <1>4, AheadTake
  <2> HIDE DEF y
  <2> QED BY <1>1, <1>4, <1>5, <2>1, <2>2, WorkStep
<1> QED BY <1>6, <1>7

LEMMA DeleteRootInv ==
    ASSUME Inv, NEW t \in Workers, DeleteRoot(t)
    PROVE  Inv'
<1> DEFINE x == tx[t]
           y == [AfterTake(x) EXCEPT !.root = NoRow]
           s == Tombstone(rows[x.root], Take(x), x.at)
           r == [s EXCEPT !.origin = NoDev]
           a == {rows[x.root].ver}
<1>1. x.open /\ x.op = "delete" /\ x.root # NoRow /\ Work(t, Write(y, x.root, r, a))
  BY DEF DeleteRoot
<1>2. /\ x \in Tx /\ TypeOK /\ Rooted(x, rows)
      /\ AfterTake(x) \in Tx /\ Take(x) \in Nat /\ AfterTake(x).op = x.op
      /\ AfterTake(x).open /\ AfterTake(x).ws = x.ws
  BY <1>1, OpenTx
<1>3. x.root \in Ids /\ x.at \in Nat /\ rows[x.root] \in Row
  BY <1>1, <1>2 DEF Tx, Rooted, Live, TypeOK, Table
<1>4. /\ y \in Tx /\ y.ws = x.ws /\ y.op = "delete" /\ y.open /\ y.seq = AfterTake(x).seq
      /\ y.next = AfterTake(x).next /\ y.last = AfterTake(x).last /\ y.root = NoRow
  BY <1>1, <1>2 DEF Tx
<1>5. Rooted(y, rows) /\ Read(y) /\ y.op # "none"
  BY <1>4 DEF Rooted, Read, ReadEarly
<1>6. r \in Row /\ r.ver = Take(x) /\ a \in SUBSET Nat
  <2>1. s \in Row /\ s.ver = Take(x)
    BY <1>2, <1>3, TombstoneType
  <2> QED BY <1>3, <2>1 DEF Row
<1> HIDE DEF y, r, a
<1> QED BY <1>1, <1>3, <1>4, <1>5, <1>6, WriteStep

LEMMA PurgeReadInv ==
    ASSUME Inv, NEW t \in Workers, NEW k \in Keys, PurgeRead(t, k)
    PROVE  Inv'
<1> DEFINE S == {i \in Ids : Live(rows[i]) /\ rows[i].kind = "loc" /\ rows[i].key = k}
           r == [Idle EXCEPT !.op = "purge", !.at = now, !.todo = S, !.stale = Rows(S)]
<1>1. /\ tx[t].op = "none" /\ tx' = [tx EXCEPT ![t] = r]
      /\ UNCHANGED <<rows, seq, lock, devVars, now>>
  BY DEF PurgeRead
<1>2. now \in Nat /\ S \in SUBSET Ids /\ \A i \in S : rows[i] # NoRow
  BY DEF Inv, TypeOK, Live
<1> HIDE DEF S
<1>3. Rows(S) \in Table /\ \A i \in S : Rows(S)[i] # NoRow
  BY <1>2 DEF Rows, Inv, TypeOK, Table
<1>4. r \in Tx
  BY <1>2, <1>3, IdleType DEF Tx, Ops
<1>5. ~r.open /\ r.ws = Empty /\ r.next > r.last
  BY DEF Idle
<1>6. Read(r)
  BY <1>2, <1>3, IdleType DEF Read, Tx
<1> HIDE DEF r
<1> QED BY <1>1, <1>4, <1>5, <1>6, StartStep

LEMMA ReorderReadInv ==
    ASSUME Inv, NEW t \in Workers, ReorderRead(t)
    PROVE  Inv'
<1>1. PICK S \in SUBSET {i \in Ids : Live(rows[i]) /\ rows[i].kind = "org"} \ {{}} :
         tx' = [tx EXCEPT ![t] = [Idle EXCEPT !.op = "reorder", !.at = now, !.todo = S,
                                   !.stale = Rows(S)]]
  BY DEF ReorderRead
<1> DEFINE T == Rows(S)
           r == [Idle EXCEPT !.op = "reorder", !.at = now, !.todo = S, !.stale = T]
<1>2. /\ tx[t].op = "none" /\ tx' = [tx EXCEPT ![t] = r]
      /\ UNCHANGED <<rows, seq, lock, devVars, now>>
  BY <1>1 DEF ReorderRead
<1>3. now \in Nat /\ S \in SUBSET Ids /\ T \in Table
  BY DEF Inv, TypeOK, Table, Rows
<1>4. \A i \in S : T[i] # NoRow
  BY DEF Live, Rows
<1> HIDE DEF T
<1>5. r \in Tx
  BY <1>3, IdleType DEF Tx, Ops
<1>6. ~r.open /\ r.ws = Empty /\ r.next > r.last
  BY DEF Idle
<1>7. Read(r)
  BY <1>3, <1>4, IdleType DEF Read, Tx
<1> HIDE DEF r
<1> QED BY <1>2, <1>5, <1>6, <1>7, StartStep

LEMMA OpenLateInv ==
    ASSUME Inv, NEW t \in Workers, OpenLate(t)
    PROVE  Inv'
<1> DEFINE r == [tx[t] EXCEPT !.seq = seq]
<1>1. /\ tx[t] \in Tx /\ seq \in Nat /\ tx[t].op \in ReadEarly
      /\ ~tx[t].open /\ Acquire(t, r)
  BY DEF Inv, TypeOK, OpenLate
<1>2. tx[t].ws = Empty /\ tx[t].next > tx[t].last /\ Read(tx[t])
  BY <1>1 DEF Inv, TxInv
<1>3. r \in Tx /\ r.op # "none"
  BY <1>1 DEF Tx, ReadEarly
<1>4. Ahead(r, seq)
  BY <1>1, <1>2 DEF Ahead, Empty, Tx
<1>5. Rooted(r, rows) /\ Read(r)
  BY <1>1, <1>2 DEF Rooted, Read, Tx, ReadEarly
<1> HIDE DEF r
<1> QED BY <1>1, <1>3, <1>4, <1>5, AcquireStep

LEMMA ReorderNextInv ==
    ASSUME Inv, NEW t \in Workers, ReorderNext(t)
    PROVE  Inv'
<1> DEFINE x == tx[t]
<1>1. PICK i \in x.todo :
        /\ x.op = "reorder" /\ x.open
        /\ Work(t, Write([AfterTake(x) EXCEPT !.todo = @ \ {i}], i,
                         [x.stale[i] EXCEPT !.ver = Take(x), !.origin = NoDev],
                         {x.stale[i].ver}))
  BY DEF ReorderNext
<1> DEFINE y == [AfterTake(x) EXCEPT !.todo = @ \ {i}]
           r == [x.stale[i] EXCEPT !.ver = Take(x), !.origin = NoDev]
           a == {x.stale[i].ver}
<1>2. /\ x \in Tx /\ TypeOK /\ Read(x)
      /\ AfterTake(x) \in Tx /\ Take(x) \in Nat /\ AfterTake(x).op = x.op
      /\ AfterTake(x).open /\ AfterTake(x).ws = x.ws
  BY <1>1, OpenTx
<1>3. /\ AfterTake(x).todo = x.todo /\ AfterTake(x).stale = x.stale
  BY <1>2, AfterTakeType
<1>4. i \in Ids /\ x.stale[i] \in Row
  BY <1>1, <1>2 DEF Tx, Read, Table, ReadEarly
<1>5. /\ y \in Tx /\ y.ws = x.ws /\ y.op = "reorder" /\ y.open /\ y.seq = AfterTake(x).seq
      /\ y.next = AfterTake(x).next /\ y.last = AfterTake(x).last
      /\ y.todo = x.todo \ {i} /\ y.stale = x.stale
  BY <1>1, <1>2, <1>3 DEF Tx
<1>6. Rooted(y, rows) /\ Read(y) /\ y.op # "none"
  BY <1>1, <1>2, <1>5 DEF Rooted, Read
<1>7. r \in Row /\ r.ver = Take(x) /\ a \in SUBSET Nat
  BY <1>2, <1>4 DEF Row
<1>8. Work(t, Write(y, i, r, a))
  BY <1>1
<1> HIDE DEF y, r, a
<1> QED BY <1>1, <1>4, <1>5, <1>6, <1>7, <1>8, WriteStep

-----------------------------------------------------------------------------
(* The end of a transaction, and the steps that need no lock. *)

LEMMA CommitInv ==
    ASSUME Inv, NEW t \in Workers, Commit(t)
    PROVE  Inv'
<1> DEFINE x == tx[t]
<1>1. /\ lock = t /\ x.open /\ x \in Tx /\ Ahead(x, seq) /\ seq \in Nat
      /\ x.root = NoRow
      /\ rows' = [i \in Ids |-> View(t, i)] /\ seq' = x.seq /\ lock' = NoTx
      /\ tx' = [tx EXCEPT ![t] = Idle] /\ UNCHANGED <<devVars, now>>
  BY OpenTx DEF Commit, Done
<1>2. x.ws \in Table /\ rows \in Table /\ x.seq \in Nat /\ x.seq >= seq
  BY <1>1 DEF Inv, TypeOK, Tx, Ahead
<1>3. \A i \in Ids : rows'[i] = IF x.ws[i] # NoRow THEN x.ws[i] ELSE rows[i]
  BY <1>1 DEF View
<1>4. \A i \in Ids : x.ws[i] # NoRow =>
         x.ws[i].ver \in Nat /\ x.ws[i].ver > seq /\ x.ws[i].ver <= x.seq
  <2> SUFFICES ASSUME NEW i \in Ids, x.ws[i] # NoRow
               PROVE  x.ws[i].ver \in Nat /\ x.ws[i].ver > seq /\ x.ws[i].ver <= x.seq
    OBVIOUS
  <2>1. x.ws[i].ver \in Nat /\ x.ws[i].ver > seq /\ x.ws[i].ver < Take(x)
    BY <1>1, <1>2 DEF Ahead, Table, Row
  <2>2. Take(x) <= x.seq + 1 /\ Take(x) \in Nat
    BY <1>1 DEF Take, Ahead, Tx
  <2> QED BY <1>2, <2>1, <2>2
<1>5. \A i \in Ids : rows[i] # NoRow => rows[i].ver \in Nat /\ rows[i].ver <= seq
                                        /\ rows[i].ver >= 1
  BY <1>1 DEF Inv, RowsInv
<1>6. TypeOK'
  <2>1. rows' \in Table
    BY <1>1, <1>2, <1>3 DEF Table
  <2> QED BY <1>1, <1>2, <2>1, IdleType, SyncAssumption DEF Inv, TypeOK, devVars
<1>7. RowsInv'
  <2>1. UniqueVersions'
    <3> SUFFICES ASSUME NEW i \in Ids, NEW j \in Ids, i # j, rows'[i] # NoRow, rows'[j] # NoRow
                 PROVE  rows'[i].ver # rows'[j].ver
      BY DEF UniqueVersions
    <3>1. CASE x.ws[i] # NoRow /\ x.ws[j] # NoRow
      BY <1>1, <1>3, <3>1 DEF Ahead
    <3>2. CASE x.ws[i] # NoRow /\ x.ws[j] = NoRow
      BY <1>1, <1>3, <1>4, <1>5, <3>2
    <3>3. CASE x.ws[i] = NoRow /\ x.ws[j] # NoRow
      BY <1>1, <1>3, <1>4, <1>5, <3>3
    <3>4. CASE x.ws[i] = NoRow /\ x.ws[j] = NoRow
      BY <1>3, <3>4 DEF Inv, RowsInv, UniqueVersions
    <3> QED BY <3>1, <3>2, <3>3, <3>4
  <2>2. \A i \in Ids : rows'[i] # NoRow => rows'[i].ver \in 1..seq'
    BY <1>1, <1>2, <1>3, <1>4, <1>5
  <2> QED BY <2>1, <2>2 DEF RowsInv
<1>8. TxInv'
  <2> SUFFICES ASSUME NEW u \in Workers
               PROVE  /\ tx'[u].open <=> lock' = u
                      /\ tx'[u].open => tx'[u].op # "none" /\ Ahead(tx'[u], seq') /\ Rooted(tx'[u], rows')
                      /\ Read(tx'[u])
                      /\ ~tx'[u].open => tx'[u].ws = Empty /\ tx'[u].next > tx'[u].last
    BY DEF TxInv
  <2>1. CASE u = t
    <3>1. tx'[u] = Idle
      BY <2>1, <1>1 DEF Inv, TypeOK
    <3> QED BY <1>1, <3>1, SyncAssumption DEF Idle, Read
  <2>2. CASE u # t
    <3>1. tx'[u] = tx[u] /\ ~tx[u].open
      BY <2>2, <1>1 DEF Inv, TypeOK, TxInv
    <3> QED BY <2>2, <3>1, <1>1, SyncAssumption DEF Inv, TxInv
  <2> QED BY <2>1, <2>2
<1>9. CursorInv'
  <2>1. \A d \in Devices : cursor[d] \in Nat /\ cursor[d] <= seq
                           /\ pull[d].top \in Nat /\ pull[d].top <= seq
    BY DEF Inv, TypeOK, CursorInv, Pulling
  <2>2. CursorComplete'
    <3> SUFFICES ASSUME NEW d \in Devices, NEW i \in Ids,
                        rows'[i] # NoRow, rows'[i].ver <= cursor[d]
                 PROVE  copy[d][i] = rows'[i]
      BY <1>1 DEF CursorComplete, devVars
    <3>1. x.ws[i] = NoRow
      BY <1>1, <1>3, <1>4, <2>1
    <3> QED BY <1>3, <3>1 DEF Inv, CursorInv, CursorComplete
  <2> QED BY <1>1, <1>2, <2>1, <2>2 DEF CursorInv, devVars
<1>10. PageInv'
  <2>1. \A d \in Devices : pull[d].top \in Nat /\ pull[d].top <= seq
    BY DEF Inv, TypeOK, CursorInv, Pulling
  <2> SUFFICES ASSUME NEW d \in Devices, NEW i \in Ids, pull[d].stage = "page",
                      rows'[i] # NoRow, rows'[i].ver <= pull[d].top
               PROVE  rows'[i] = IF pull[d].page[i] # NoRow THEN pull[d].page[i] ELSE copy[d][i]
    BY <1>1 DEF PageInv, devVars
  <2>2. x.ws[i] = NoRow
    BY <1>1, <1>3, <1>4, <2>1
  <2> QED BY <1>3, <2>2 DEF Inv, PageInv
<1> QED BY <1>6, <1>7, <1>8, <1>9, <1>10 DEF Inv

LEMMA AbortInv ==
    ASSUME Inv, NEW t \in Workers, Abort(t)
    PROVE  Inv'
<1>1. /\ tx' = [tx EXCEPT ![t] = Idle] /\ lock' = IF lock = t THEN NoTx ELSE lock
      /\ UNCHANGED <<rows, seq, devVars, now>>
  BY DEF Abort
<1>2. TypeOK'
  BY <1>1, IdleType DEF Inv, TypeOK, devVars
<1>3. RowsInv' /\ CursorInv' /\ PageInv'
  BY <1>1 DEF Inv, RowsInv, UniqueVersions, CursorInv, CursorComplete, PageInv, devVars
<1>4. TxInv'
  <2> SUFFICES ASSUME NEW u \in Workers
               PROVE  /\ tx'[u].open <=> lock' = u
                      /\ tx'[u].open => tx'[u].op # "none" /\ Ahead(tx'[u], seq') /\ Rooted(tx'[u], rows')
                      /\ Read(tx'[u])
                      /\ ~tx'[u].open => tx'[u].ws = Empty /\ tx'[u].next > tx'[u].last
    BY DEF TxInv
  <2>1. CASE u = t
    <3>1. tx'[u] = Idle /\ lock' # t
      BY <2>1, <1>1, SyncAssumption DEF Inv, TypeOK
    <3> QED BY <2>1, <3>1 DEF Idle, Read
  <2>2. CASE u # t
    <3>1. tx'[u] = tx[u] /\ (lock' = u <=> lock = u) /\ seq' = seq /\ rows' = rows
      BY <2>2, <1>1, SyncAssumption DEF Inv, TypeOK
    <3> QED BY <3>1 DEF Inv, TxInv
  <2> QED BY <2>1, <2>2
<1> QED BY <1>2, <1>3, <1>4 DEF Inv

(* Reclaiming removes a row: it can only make the other parts easier, and a *)
(* transaction that holds a root still finds it, for it is live.            *)
LEMMA ReclaimInv ==
    ASSUME Inv, NEW i \in Ids, Reclaim(i)
    PROVE  Inv'
<1>1. /\ Deleted(rows[i]) /\ rows' = [rows EXCEPT ![i] = NoRow]
      /\ UNCHANGED <<seq, lock, tx, devVars, now>> /\ rows \in Table
  BY DEF Reclaim, Inv, TypeOK
<1>2. \A j \in Ids : rows'[j] = IF j = i THEN NoRow ELSE rows[j]
  BY <1>1 DEF Table
<1>3. rows[i] \in Row /\ ~Live(rows[i])
  BY <1>1 DEF Deleted, Live, Table, Row
<1>4. TypeOK'
  <2>1. rows' \in Table
    BY <1>1, <1>2 DEF Table
  <2> QED BY <1>1, <2>1 DEF Inv, TypeOK, devVars
<1>5. RowsInv' /\ CursorInv' /\ PageInv'
  BY <1>1, <1>2 DEF Inv, RowsInv, UniqueVersions, CursorInv, CursorComplete, PageInv, devVars
<1>6. TxInv'
  <2>1. \A u \in Workers : tx[u].open /\ Rooted(tx[u], rows) => Rooted(tx[u], rows')
    <3> SUFFICES ASSUME NEW u \in Workers, tx[u].root # NoRow, Live(rows[tx[u].root])
                 PROVE  Live(rows'[tx[u].root])
      BY DEF Rooted
    <3>1. tx[u].root \in Ids /\ tx[u].root # i
      BY <1>3 DEF Inv, TypeOK, Tx
    <3> QED BY <1>2, <3>1
  <2> QED BY <1>1, <2>1 DEF Inv, TxInv
<1> QED BY <1>4, <1>5, <1>6 DEF Inv

-----------------------------------------------------------------------------
(* The steps of a device. *)

(* A step that leaves the database alone keeps the parts about it. *)
LEMMA DeviceOnly ==
    ASSUME Inv, UNCHANGED <<dbVars, now>>,
           cursor' \in [Devices -> Nat], copy' \in [Devices -> Table],
           pull' \in [Devices -> Pulling], lastSync' \in [Devices -> Nat]
    PROVE  TypeOK' /\ RowsInv' /\ TxInv'
<1>1. TypeOK'
  BY DEF Inv, TypeOK, dbVars
<1>2. RowsInv' /\ TxInv'
  BY DEF Inv, RowsInv, UniqueVersions, TxInv, dbVars
<1> QED BY <1>1, <1>2

(* The page holds every row between the cursor and its last version: a row  *)
(* left out is newer than all of it, versions being unique.                 *)
LEMMA PullListInv ==
    ASSUME Inv, NEW d \in Devices, PullList(d)
    PROVE  Inv'
<1>1. PICK P \in SUBSET Newer(d) : \E m \in P :
        /\ \A i \in P : rows[i].ver <= rows[m].ver
        /\ \A i \in P, j \in Newer(d) \ P : rows[i].ver <= rows[j].ver
        /\ pull' = [pull EXCEPT ![d] = [stage |-> "page", top |-> rows[m].ver,
                       page |-> [i \in Ids |-> IF i \in P THEN rows[i] ELSE NoRow]]]
  BY DEF PullList
<1>2. PICK m \in P :
        /\ \A i \in P : rows[i].ver <= rows[m].ver
        /\ \A i \in P, j \in Newer(d) \ P : rows[i].ver <= rows[j].ver
        /\ pull' = [pull EXCEPT ![d] = [stage |-> "page", top |-> rows[m].ver,
                       page |-> [i \in Ids |-> IF i \in P THEN rows[i] ELSE NoRow]]]
  BY <1>1
<1> DEFINE g == [i \in Ids |-> IF i \in P THEN rows[i] ELSE NoRow]
           p == [stage |-> "page", top |-> rows[m].ver, page |-> g]
<1>3. UNCHANGED <<dbVars, cursor, copy, lastSync, now>> /\ rows \in Table
      /\ seq \in Nat /\ cursor[d] \in Nat /\ pull \in [Devices -> Pulling]
  BY DEF PullList, Inv, TypeOK
<1>4. P \subseteq Newer(d) /\ Newer(d) \subseteq Ids /\ m \in Ids /\ rows[m] # NoRow
  BY <1>2 DEF Newer
<1>5. \A i \in Ids : rows[i] # NoRow => rows[i].ver \in Nat /\ rows[i].ver <= seq
  BY <1>3 DEF Inv, RowsInv
<1>6. g \in Table
  BY <1>3, <1>4 DEF Table
<1>7. pull' = [pull EXCEPT ![d] = p]
  BY <1>2
<1> HIDE DEF g
<1>8. p \in Pulling
  BY <1>4, <1>5, <1>6 DEF Pulling
<1>9. \A e \in Devices : pull'[e] = IF e = d THEN p ELSE pull[e]
  BY <1>3, <1>7
<1>10. TypeOK' /\ RowsInv' /\ TxInv'
  <2>1. pull' \in [Devices -> Pulling]
    BY <1>3, <1>7, <1>8
  <2> QED BY <1>3, <2>1, DeviceOnly DEF Inv, TypeOK
<1>11. CursorInv'
  <2>1. p.top <= seq
    BY <1>4, <1>5
  <2> QED BY <1>3, <1>9, <2>1 DEF Inv, CursorInv, CursorComplete, dbVars
<1>12. PageInv'
  <2> SUFFICES ASSUME NEW e \in Devices, NEW i \in Ids, pull'[e].stage = "page",
                      rows[i] # NoRow, rows[i].ver <= pull'[e].top
               PROVE  rows[i] = IF pull'[e].page[i] # NoRow THEN pull'[e].page[i] ELSE copy[e][i]
    BY <1>3 DEF PageInv, dbVars
  <2>1. CASE e # d
    BY <1>9, <2>1 DEF Inv, PageInv
  <2>2. CASE e = d
    <3>1. pull'[e].page = g /\ pull'[e].top = rows[m].ver
      BY <1>9, <2>2
    <3>2. CASE i \in P
      <4>1. g[i] = rows[i]
        BY <3>2 DEF g
      <4> QED BY <3>1, <4>1
    <3>3. CASE i \notin P
      <4>1. g[i] = NoRow
        BY <3>3 DEF g
      <4>2. i \notin Newer(d)
        <5> SUFFICES ASSUME i \in Newer(d) PROVE FALSE
          OBVIOUS
        <5>1. rows[m].ver <= rows[i].ver /\ i # m
          BY <1>2, <3>3
        <5>2. rows[i].ver = rows[m].ver
          BY <1>4, <1>5, <3>1, <5>1
        <5> QED BY <1>4, <5>1, <5>2 DEF Inv, RowsInv, UniqueVersions
      <4>3. rows[i].ver <= cursor[d]
        BY <1>3, <1>5, <4>2 DEF Newer
      <4> QED BY <2>2, <3>1, <4>1, <4>3 DEF Inv, CursorInv, CursorComplete
    <3> QED BY <3>2, <3>3
  <2> QED BY <2>1, <2>2
<1> QED BY <1>10, <1>11, <1>12 DEF Inv

(* The steps that only move an outstanding pull on to a stage with no page. *)
LEMMA PullStage ==
    ASSUME Inv, NEW d \in Devices, NEW p \in Pulling, p.stage # "page",
           p.top <= seq, pull' = [pull EXCEPT ![d] = p],
           lastSync' \in [Devices -> Nat], UNCHANGED <<dbVars, cursor, copy, now>>
    PROVE  Inv'
<1>1. \A e \in Devices : pull'[e] = IF e = d THEN p ELSE pull[e]
  BY DEF Inv, TypeOK
<1>2. TypeOK' /\ RowsInv' /\ TxInv'
  <2>1. pull' \in [Devices -> Pulling]
    BY DEF Inv, TypeOK
  <2> QED BY <2>1, DeviceOnly DEF Inv, TypeOK
<1>3. CursorInv'
  BY <1>1 DEF Inv, CursorInv, CursorComplete, dbVars
<1>4. PageInv'
  BY <1>1 DEF Inv, PageInv, dbVars
<1> QED BY <1>2, <1>3, <1>4 DEF Inv

LEMMA NoPullType == NoPull \in Pulling /\ NoPull.stage # "page" /\ NoPull.top = 0
  BY DEF NoPull, Pulling, Empty, Table

LEMMA PullEmptyInv ==
    ASSUME Inv, NEW d \in Devices, PullEmpty(d)
    PROVE  Inv'
<1> DEFINE p == [pull[d] EXCEPT !.stage = "head"]
<1>1. pull[d] \in Pulling /\ pull[d].top <= seq /\ lastSync \in [Devices -> Nat]
  BY DEF Inv, TypeOK, CursorInv
<1>2. p \in Pulling /\ p.stage # "page" /\ p.top <= seq
  BY <1>1 DEF Pulling
<1>3. pull' = [pull EXCEPT ![d] = p] /\ UNCHANGED <<dbVars, cursor, copy, lastSync, now>>
  BY DEF PullEmpty
<1> HIDE DEF p
<1> QED BY <1>1, <1>2, <1>3, PullStage

LEMMA PullHeadInv ==
    ASSUME Inv, NEW d \in Devices, PullHead(d)
    PROVE  Inv'
<1> DEFINE p == [pull[d] EXCEPT !.stage = "touch"]
<1>1. pull[d] \in Pulling /\ pull[d].top <= seq /\ lastSync \in [Devices -> Nat]
  BY DEF Inv, TypeOK, CursorInv
<1>2. p \in Pulling /\ p.stage # "page" /\ p.top <= seq
  BY <1>1 DEF Pulling
<1>3. pull' = [pull EXCEPT ![d] = p] /\ UNCHANGED <<dbVars, cursor, copy, lastSync, now>>
  BY DEF PullHead
<1> HIDE DEF p
<1> QED BY <1>1, <1>2, <1>3, PullStage

LEMMA PullTouchInv ==
    ASSUME Inv, NEW d \in Devices, PullTouch(d)
    PROVE  Inv'
<1>1. /\ pull' = [pull EXCEPT ![d] = NoPull] /\ UNCHANGED <<dbVars, cursor, copy, now>>
      /\ lastSync' = [lastSync EXCEPT ![d] = now]
  BY DEF PullTouch
<1>2. lastSync' \in [Devices -> Nat] /\ 0 <= seq
  BY <1>1 DEF Inv, TypeOK
<1> QED BY <1>1, <1>2, NoPullType, PullStage

LEMMA PullLostInv ==
    ASSUME Inv, NEW d \in Devices, PullLost(d)
    PROVE  Inv'
<1>1. pull' = [pull EXCEPT ![d] = NoPull] /\ UNCHANGED <<dbVars, cursor, copy, lastSync, now>>
  BY DEF PullLost
<1>2. lastSync' \in [Devices -> Nat] /\ 0 <= seq
  BY <1>1 DEF Inv, TypeOK
<1> QED BY <1>1, <1>2, NoPullType, PullStage

(* PageInv is what makes the delivered page complete the device's copy. *)
LEMMA PullDeliverInv ==
    ASSUME Inv, NEW d \in Devices, PullDeliver(d)
    PROVE  Inv'
<1> DEFINE c == [i \in Ids |-> IF pull[d].page[i] # NoRow THEN pull[d].page[i] ELSE copy[d][i]]
<1>1. /\ pull[d].stage = "page" /\ copy' = [copy EXCEPT ![d] = c]
      /\ cursor' = [cursor EXCEPT ![d] = pull[d].top]
      /\ pull' = [pull EXCEPT ![d] = NoPull] /\ UNCHANGED <<dbVars, lastSync, now>>
  BY DEF PullDeliver
<1>2. /\ pull[d] \in Pulling /\ pull[d].top \in Nat /\ pull[d].top <= seq
      /\ pull[d].page \in Table /\ copy[d] \in Table /\ seq \in Nat
      /\ copy \in [Devices -> Table] /\ cursor \in [Devices -> Nat]
      /\ pull \in [Devices -> Pulling]
  BY DEF Inv, TypeOK, CursorInv, Pulling
<1>3. c \in Table
  BY <1>2 DEF Table
<1>4. \A i \in Ids : rows[i] # NoRow /\ rows[i].ver <= pull[d].top => c[i] = rows[i]
  BY <1>1 DEF Inv, PageInv
<1> HIDE DEF c
<1>5. \A e \in Devices : /\ pull'[e] = IF e = d THEN NoPull ELSE pull[e]
                         /\ cursor'[e] = IF e = d THEN pull[d].top ELSE cursor[e]
                         /\ copy'[e] = IF e = d THEN c ELSE copy[e]
  BY <1>1, <1>2
<1>6. TypeOK' /\ RowsInv' /\ TxInv'
  <2>1. pull' \in [Devices -> Pulling] /\ cursor' \in [Devices -> Nat]
        /\ copy' \in [Devices -> Table]
    BY <1>1, <1>2, <1>3, NoPullType
  <2> QED BY <1>1, <2>1, DeviceOnly DEF Inv, TypeOK
<1>7. CursorInv'
  <2>1. rows' = rows /\ seq' = seq
    BY <1>1 DEF dbVars
  <2>2. CursorComplete'
    BY <1>4, <1>5, <2>1 DEF Inv, CursorInv, CursorComplete
  <2> QED BY <1>2, <1>5, <2>1, <2>2, NoPullType DEF Inv, CursorInv
<1>8. PageInv'
  BY <1>1, <1>5, NoPullType DEF Inv, PageInv, dbVars
<1> QED BY <1>6, <1>7, <1>8 DEF Inv

LEMMA ResyncInv ==
    ASSUME Inv, NEW d \in Devices, Resync(d)
    PROVE  Inv'
<1>1. /\ pull[d].stage = "idle" /\ cursor' = [cursor EXCEPT ![d] = 0]
      /\ copy' = [copy EXCEPT ![d] = Empty] /\ UNCHANGED <<dbVars, pull, lastSync, now>>
  BY DEF Resync
<1>2. /\ copy \in [Devices -> Table] /\ cursor \in [Devices -> Nat] /\ seq \in Nat
      /\ Empty \in Table
  BY DEF Inv, TypeOK, Empty, Table
<1>3. \A e \in Devices : /\ cursor'[e] = IF e = d THEN 0 ELSE cursor[e]
                         /\ copy'[e] = IF e = d THEN Empty ELSE copy[e]
  BY <1>1, <1>2
<1>4. TypeOK' /\ RowsInv' /\ TxInv'
  <2>1. cursor' \in [Devices -> Nat] /\ copy' \in [Devices -> Table]
    BY <1>1, <1>2
  <2> QED BY <1>1, <2>1, DeviceOnly DEF Inv, TypeOK
<1>5. CursorInv'
  <2>1. \A i \in Ids : rows[i] # NoRow => ~(rows[i].ver <= 0)
    BY <1>2 DEF Inv, RowsInv
  <2> QED BY <1>1, <1>2, <1>3, <2>1 DEF Inv, CursorInv, CursorComplete, dbVars
<1>6. PageInv'
  BY <1>1, <1>3 DEF Inv, PageInv, dbVars
<1> QED BY <1>4, <1>5, <1>6 DEF Inv

LEMMA TickInv ==
    ASSUME Inv, Tick
    PROVE  Inv'
<1>1. now' = now + 1 /\ UNCHANGED <<dbVars, devVars>>
  BY DEF Tick
<1>2. TypeOK'
  BY <1>1 DEF Inv, TypeOK, dbVars, devVars
<1>3. RowsInv' /\ TxInv' /\ CursorInv' /\ PageInv'
  BY <1>1 DEF Inv, RowsInv, UniqueVersions, TxInv, CursorInv, CursorComplete, PageInv,
              dbVars, devVars
<1> QED BY <1>2, <1>3 DEF Inv

-----------------------------------------------------------------------------
(* Inv holds initially and every step keeps it. *)

LEMMA InitInv == Init => Inv
<1> SUFFICES ASSUME Init PROVE Inv
  OBVIOUS
<1>1. TypeOK
  BY IdleType, NoPullType, SyncAssumption DEF Init, TypeOK, Empty, Table
<1>2. RowsInv /\ CursorInv /\ PageInv
  BY NoPullType DEF Init, RowsInv, UniqueVersions, CursorInv, CursorComplete, PageInv, Empty
<1>3. TxInv
  BY SyncAssumption DEF Init, TxInv, Idle, Read
<1> QED BY <1>1, <1>2, <1>3 DEF Inv

LEMMA NextInv == Inv /\ [Next]_vars => Inv'
<1> SUFFICES ASSUME Inv, [Next]_vars PROVE Inv'
  OBVIOUS
<1>1. ASSUME NEW t \in Workers, WorkerStep(t) PROVE Inv'
  <2>1. ASSUME NEW d \in Devices, PushStart(t, d) PROVE Inv'
    BY <2>1, PushStartInv
  <2>2. CASE PushOpen(t)
    BY <2>2, PushOpenInv
  <2>3. CASE PushRefused(t)
    BY <2>3, PushRefusedInv
  <2>4. CASE PushWrite(t)
    BY <2>4, PushWriteInv
  <2>5. CASE PushMerge(t)
    BY <2>5, PushMergeInv
  <2>6. ASSUME NEW i \in Ids, WebCreate(t, i) PROVE Inv'
    BY <2>6, WebCreateInv
  <2>7. ASSUME NEW i \in Ids, WebUpdate(t, i) PROVE Inv'
    BY <2>7, WebUpdateInv
  <2>8. ASSUME NEW i \in Ids, WebDelete(t, i) PROVE Inv'
    BY <2>8, WebDeleteInv
  <2>9. CASE TombstoneNext(t)
    BY <2>9, TombstoneNextInv
  <2>10. CASE DeleteRoot(t)
    BY <2>10, DeleteRootInv
  <2>11. ASSUME NEW k \in Keys, PurgeRead(t, k) PROVE Inv'
    BY <2>11, PurgeReadInv
  <2>12. CASE ReorderRead(t)
    BY <2>12, ReorderReadInv
  <2>13. CASE OpenLate(t)
    BY <2>13, OpenLateInv
  <2>14. CASE ReorderNext(t)
    BY <2>14, ReorderNextInv
  <2>15. CASE Commit(t)
    BY <2>15, CommitInv
  <2>16. CASE Abort(t)
    BY <2>16, AbortInv
  <2> QED BY <1>1, <2>1, <2>2, <2>3, <2>4, <2>5, <2>6, <2>7, <2>8, <2>9, <2>10,
             <2>11, <2>12, <2>13, <2>14, <2>15, <2>16 DEF WorkerStep
<1>2. ASSUME NEW d \in Devices, DeviceStep(d) PROVE Inv'
  <2>1. CASE PullList(d)
    BY <2>1, PullListInv
  <2>2. CASE PullEmpty(d)
    BY <2>2, PullEmptyInv
  <2>3. CASE PullHead(d)
    BY <2>3, PullHeadInv
  <2>4. CASE PullTouch(d)
    BY <2>4, PullTouchInv
  <2>5. CASE PullDeliver(d)
    BY <2>5, PullDeliverInv
  <2>6. CASE PullLost(d)
    BY <2>6, PullLostInv
  <2>7. CASE Resync(d)
    BY <2>7, ResyncInv
  <2> QED BY <1>2, <2>1, <2>2, <2>3, <2>4, <2>5, <2>6, <2>7 DEF DeviceStep
<1>3. ASSUME NEW i \in Ids, Reclaim(i) PROVE Inv'
  BY <1>3, ReclaimInv
<1>4. CASE Tick
  BY <1>4, TickInv
<1>5. CASE UNCHANGED vars
  BY <1>5 DEF vars, Inv, TypeOK, RowsInv, UniqueVersions, TxInv, CursorInv,
              CursorComplete, PageInv
<1> QED BY <1>1, <1>2, <1>3, <1>4, <1>5 DEF Next

(* The inductive invariant: versions above the committed sequence belong to *)
(* the one open transaction, and no cursor or page reaches beyond it.       *)
THEOREM InvHolds == Spec => []Inv
  BY InitInv, NextInv, PTL DEF Spec

(* Every variable keeps its type, whatever the workers and devices do. *)
THEOREM TypeCorrect == Spec => []TypeOK
<1>1. Inv => TypeOK
  BY DEF Inv
<1> QED BY <1>1, InvHolds, PTL

(* No two rows of an account ever share a version (Push, WriteOrgRow,      *)
(* PurgeDeviceSyncObjects): paging by version skips none.                  *)
THEOREM VersionsUnique == Spec => []UniqueVersions
<1>1. Inv => UniqueVersions
  BY DEF Inv, RowsInv
<1> QED BY <1>1, InvHolds, PTL

(* A pull cursor never passes a row the device has not been handed: the     *)
(* incremental Pull protocol loses no committed write, for any page limit.  *)
THEOREM NothingSkipped == Spec => []CursorComplete
<1>1. Inv => CursorComplete
  BY DEF Inv, CursorInv
<1> QED BY <1>1, InvHolds, PTL

-----------------------------------------------------------------------------
(***************************************************************************)
(* What a transaction writes agrees with the rows it writes over.          *)
(***************************************************************************)

\* The table a transaction that wrote ws would leave behind.
Over(ws, db) == [i \in Ids |-> IF ws[i] # NoRow THEN ws[i] ELSE db[i]]

\* No two live rows share a natural key.
Holder(r) == Live(r) /\ r.kind = "loc"
Keyed(v)  == \A i, j \in Ids : i # j /\ Holder(v[i]) /\ Holder(v[j]) => v[i].key # v[j].key

\* A write of row i that answers for the versions a knows the row it replaces, unless
\* that row was written after the request had read it.
Answered(x, db, i, a) == db[i].ver \in a \/ (x.op \in ReadEarly /\ x.stale[i] # db[i])

\* Row i is replaced by somebody who answers for it, and revived only by a reorder.
ToldOf(x, db, i) ==
    x.ws[i] # NoRow /\ db[i] # NoRow =>
        Answered(x, db, i, x.acc[i]) /\ (x.op # "reorder" /\ Live(x.ws[i]) => Live(db[i]))

Honest(x, db) ==
    /\ x.op # "none" => x.at > Window
    /\ x.op = "reorder" => \A i \in x.todo : x.stale[i].kind = "org"
    /\ x.open => Keyed(Over(x.ws, db))
    /\ x.open => \A i \in Ids : ToldOf(x, db, i)

WriteInv == now > Window /\ Keyed(rows) /\ \A t \in Workers : Honest(tx[t], rows)

SyncIInv == Inv /\ WriteInv

-----------------------------------------------------------------------------
LEMMA KeyedExcept ==
    ASSUME NEW v \in Table, Keyed(v), NEW i \in Ids, NEW r \in Row,
           Holder(r) => \A j \in Ids \ {i} : Holder(v[j]) => v[j].key # r.key
    PROVE  Keyed([v EXCEPT ![i] = r])
  BY DEF Keyed, Table

LEMMA OverType ==
    ASSUME NEW ws \in Table, NEW db \in Table
    PROVE  Over(ws, db) \in Table
  BY DEF Over, Table

LEMMA OverWrite ==
    ASSUME NEW ws \in Table, NEW db \in Table, NEW i \in Ids, NEW r \in Row
    PROVE  Over([ws EXCEPT ![i] = r], db) = [Over(ws, db) EXCEPT ![i] = r]
  BY NoRowAssumption DEF Over, Table

LEMMA OverEmpty ==
    ASSUME NEW db \in Table
    PROVE  Over(Empty, db) = db
  BY DEF Over, Empty, Table

LEMMA ViewOver ==
    ASSUME NEW t \in Workers, NEW i \in Ids
    PROVE  View(t, i) = Over(tx[t].ws, rows)[i]
  BY DEF View, Over

\* One more row of an honest transaction.
LEMMA HonestWrite ==
    ASSUME NEW db \in Table, NEW x \in Tx, Honest(x, db), x.open, x.op # "none",
           NEW y \in Tx, y.op = x.op, y.at = x.at, y.todo \subseteq x.todo,
           y.stale = x.stale, y.ws = x.ws, y.acc = x.acc,
           NEW i \in Ids, NEW r \in Row, NEW a \in SUBSET Nat,
           Holder(r) => \A j \in Ids \ {i} : Holder(Over(x.ws, db)[j]) => Over(x.ws, db)[j].key # r.key,
           db[i] # NoRow =>
               /\ x.ws[i] = NoRow => Answered(x, db, i, a)
               /\ x.op # "reorder" /\ Live(r) => Live(db[i])
    PROVE  Honest(Write(y, i, r, a), db)
<1> DEFINE z == Write(y, i, r, a)
<1>1. /\ z.ws = [x.ws EXCEPT ![i] = r] /\ z.acc = [x.acc EXCEPT ![i] = @ \cup a]
      /\ z.op = x.op /\ z.at = x.at /\ z.todo = y.todo /\ z.stale = x.stale
  BY DEF Write, Tx
<1>2. x.ws \in Table /\ x.acc \in [Ids -> SUBSET Nat]
  BY DEF Tx
<1> HIDE DEF z
<1>3. Keyed(Over(z.ws, db))
  <2>1. Over(x.ws, db) \in Table /\ Keyed(Over(x.ws, db))
    BY <1>2, OverType DEF Honest
  <2>2. Keyed([Over(x.ws, db) EXCEPT ![i] = r])
    BY <2>1, KeyedExcept
  <2>3. Over(z.ws, db) = [Over(x.ws, db) EXCEPT ![i] = r]
    BY <1>1, <1>2, OverWrite
  <2> QED BY <2>2, <2>3
<1>4. ASSUME NEW j \in Ids PROVE ToldOf(z, db, j)
  <2>1. ToldOf(x, db, j)
    BY <1>1, <1>4 DEF Honest
  <2>2. CASE j # i
    BY <1>1, <1>2, <2>1, <2>2 DEF ToldOf, Answered, Table
  <2>3. CASE j = i
    <3>1. z.ws[j] = r /\ z.acc[j] = x.acc[j] \cup a
      BY <1>1, <1>2, <2>3 DEF Table
    <3> QED BY <1>1, <1>4, <2>1, <2>3, <3>1 DEF ToldOf, Answered
  <2> QED BY <2>2, <2>3
<1>5. Honest(z, db)
  BY <1>1, <1>3, <1>4 DEF Honest
<1> QED BY <1>5 DEF z

\* A step of one request that leaves the rows alone.
LEMMA OneRequest ==
    ASSUME SyncIInv, NEW t \in Workers, NEW r, Honest(r, rows),
           tx' = [tx EXCEPT ![t] = r], UNCHANGED <<rows, now>>
    PROVE  WriteInv'
<1>1. \A u \in Workers : tx'[u] = IF u = t THEN r ELSE tx[u]
  BY DEF SyncIInv, Inv, TypeOK
<1> QED BY <1>1 DEF SyncIInv, WriteInv, Honest

LEMMA WorkHonest ==
    ASSUME SyncIInv, NEW t \in Workers, NEW r, Honest(r, rows), Work(t, r)
    PROVE  WriteInv'
  BY OneRequest DEF Work

LEMMA AcquireHonest ==
    ASSUME SyncIInv, NEW t \in Workers, NEW r \in Tx, Acquire(t, r),
           Honest([r EXCEPT !.open = TRUE], rows)
    PROVE  WriteInv'
  BY OneRequest DEF Acquire

\* The state a request starts from, and opens its transaction with.
LEMMA HonestStart ==
    ASSUME SyncIInv, NEW r \in Tx, r.at = now, ~r.open, r.op # "reorder"
    PROVE  Honest(r, rows)
  BY DEF SyncIInv, WriteInv, Honest

LEMMA HonestOpen ==
    ASSUME SyncIInv, NEW r \in Tx, r.ws = Empty, r.at > Window,
           r.op = "reorder" => \A i \in r.todo : r.stale[i].kind = "org"
    PROVE  Honest([r EXCEPT !.open = TRUE], rows)
<1> DEFINE z == [r EXCEPT !.open = TRUE]
<1>1. /\ z.ws = Empty /\ z.at = r.at /\ z.op = r.op /\ z.todo = r.todo /\ z.stale = r.stale
  BY DEF Tx
<1> HIDE DEF z
<1>2. rows \in Table /\ Keyed(rows)
  BY DEF SyncIInv, Inv, TypeOK, WriteInv
<1>3. Keyed(Over(z.ws, rows))
  BY <1>1, <1>2, OverEmpty
<1>4. \A i \in Ids : ToldOf(z, rows, i)
  BY <1>1 DEF ToldOf, Empty
<1>5. Honest(z, rows)
  BY <1>1, <1>3, <1>4 DEF Honest
<1> QED BY <1>5 DEF z

LEMMA AfterTakeSame ==
    ASSUME NEW x \in Tx
    PROVE  AfterTake(x).acc = x.acc
  BY DEF Tx, AfterTake

\* What an open transaction starts a step from.
LEMMA OpenHonest ==
    ASSUME SyncIInv, NEW t \in Workers, tx[t].open
    PROVE  /\ tx[t] \in Tx /\ tx[t].op # "none" /\ Honest(tx[t], rows) /\ rows \in Table
           /\ AfterTake(tx[t]) \in Tx /\ Take(tx[t]) \in Nat
           /\ AfterTake(tx[t]).ws = tx[t].ws /\ AfterTake(tx[t]).op = tx[t].op
           /\ AfterTake(tx[t]).at = tx[t].at /\ AfterTake(tx[t]).stale = tx[t].stale
           /\ AfterTake(tx[t]).todo = tx[t].todo /\ AfterTake(tx[t]).acc = tx[t].acc
           /\ AfterTake(tx[t]).items = tx[t].items /\ AfterTake(tx[t]).root = tx[t].root
           /\ tx[t].at \in Nat /\ tx[t].at > Window /\ tx[t].ws \in Table
           /\ tx[t].acc \in [Ids -> SUBSET Nat]
           /\ Keyed(Over(tx[t].ws, rows)) /\ Over(tx[t].ws, rows) \in Table
           /\ Rooted(tx[t], rows)
<1>1. /\ tx[t] \in Tx /\ tx[t].op # "none" /\ rows \in Table /\ Rooted(tx[t], rows)
      /\ AfterTake(tx[t]) \in Tx /\ Take(tx[t]) \in Nat
  BY OpenTx DEF SyncIInv, Inv, TypeOK
<1>2. Honest(tx[t], rows)
  BY DEF SyncIInv, WriteInv
<1>3. tx[t].at \in Nat /\ tx[t].at > Window /\ tx[t].ws \in Table
      /\ tx[t].acc \in [Ids -> SUBSET Nat]
  BY <1>1, <1>2 DEF Honest, Tx
<1>4. Keyed(Over(tx[t].ws, rows)) /\ Over(tx[t].ws, rows) \in Table
  BY <1>1, <1>2, <1>3, OverType DEF Honest
<1> QED BY <1>1, <1>2, <1>3, <1>4, AfterTakeType, AfterTakeSame

-----------------------------------------------------------------------------
(* The steps of a worker. *)

LEMMA PushStartHonest ==
    ASSUME SyncIInv, NEW t \in Workers, NEW d \in Devices, PushStart(t, d)
    PROVE  WriteInv'
<1>1. PICK n \in 1..MaxBatch : \E b \in [1..n -> ItemsOf(d)] :
          tx' = [tx EXCEPT ![t] = [Idle EXCEPT !.op = "push", !.dev = d, !.at = now, !.items = b]]
  BY DEF PushStart
<1>2. PICK b \in [1..n -> ItemsOf(d)] :
          tx' = [tx EXCEPT ![t] = [Idle EXCEPT !.op = "push", !.dev = d, !.at = now, !.items = b]]
  BY <1>1
<1> DEFINE r == [Idle EXCEPT !.op = "push", !.dev = d, !.at = now, !.items = b]
<1>3. tx' = [tx EXCEPT ![t] = r] /\ UNCHANGED <<rows, now>>
  BY <1>2 DEF PushStart
<1>4. r.at = now /\ ~r.open /\ r.op = "push"
  BY DEF Idle
<1> HIDE DEF r
<1>5. Honest(r, rows)
  BY <1>4 DEF SyncIInv, WriteInv, Honest
<1> QED BY <1>3, <1>5, OneRequest

LEMMA PushOpenHonest ==
    ASSUME SyncIInv, NEW t \in Workers, PushOpen(t)
    PROVE  WriteInv'
<1> DEFINE n == Len(tx[t].items)
           r == [tx[t] EXCEPT !.next = seq + 1, !.last = seq + n, !.seq = seq + n]
<1>1. tx[t] \in Tx /\ seq \in Nat /\ tx[t].op = "push" /\ ~tx[t].open /\ Acquire(t, r)
  BY DEF SyncIInv, Inv, TypeOK, PushOpen
<1>2. n \in Nat
  BY <1>1, LenProperties DEF Tx
<1>3. tx[t].ws = Empty /\ tx[t].at > Window
  BY <1>1 DEF SyncIInv, Inv, TxInv, WriteInv, Honest
<1> HIDE DEF n
<1>4. r \in Tx /\ r.ws = Empty /\ r.at > Window /\ r.op = "push"
  <2>1. seq + 1 \in Nat /\ seq + n \in Nat
    BY <1>1, <1>2
  <2> QED BY <1>1, <1>3, <2>1 DEF Tx
<1> HIDE DEF r
<1> QED BY <1>1, <1>4, HonestOpen, AcquireHonest

LEMMA PushRefusedHonest ==
    ASSUME SyncIInv, NEW t \in Workers, PushRefused(t)
    PROVE  WriteInv'
<1> DEFINE r == [tx[t] EXCEPT !.items = Tail(@)]
<1>1. tx[t].open /\ tx[t].op = "push" /\ Work(t, r)
  BY DEF PushRefused
<1>2. /\ r.ws = tx[t].ws /\ r.at = tx[t].at /\ r.op = "push" /\ r.acc = tx[t].acc
      /\ Honest(tx[t], rows)
  BY <1>1, OpenHonest DEF Tx
<1> HIDE DEF r
<1>3. Honest(r, rows)
  BY <1>1, <1>2 DEF Honest, ToldOf, Answered, ReadEarly
<1> QED BY <1>1, <1>3, WorkHonest

\* What a push writes for item it, over what its transaction sees.
LEMMA ItemHonest ==
    ASSUME SyncIInv, NEW t \in Workers, tx[t].open, NEW it \in Item, ~Refused(t, it), NEW v \in Nat
    PROVE  LET r == Written(t, it, v) IN
           /\ Holder(r) => it.kind = "loc" /\ it.del = 0 /\ r.key = it.key
           /\ rows[it.id] # NoRow =>
                 /\ tx[t].ws[it.id] = NoRow => rows[it.id].ver \in Answers(t, it)
                 /\ Live(r) /\ tx[t].op # "reorder" => Live(rows[it.id])
<1> DEFINE r == Written(t, it, v)
           e == View(t, it.id)
<1>1. /\ tx[t].at \in Nat /\ tx[t].at > Window /\ tx[t].ws \in Table /\ rows \in Table
      /\ Honest(tx[t], rows)
  BY OpenHonest
<1>2. it.id \in Ids /\ it.del \in Nat
  BY DEF Item
<1>3. r.del = Clamp(it.del, tx[t].at) /\ r.kind = it.kind /\ r.key = it.key /\ r \in Row
  <2>1. r \in Row
    BY WrittenType DEF SyncIInv, Inv
  <2> QED BY <2>1 DEF Written
<1>4. Clamp(it.del, tx[t].at) = 0 => it.del = 0
  BY <1>1, <1>2, SyncAssumption DEF Clamp
<1>5. Live(r) => it.del = 0
  BY <1>3, <1>4 DEF Live
<1>6. ASSUME rows[it.id] # NoRow, tx[t].ws[it.id] = NoRow PROVE rows[it.id].ver \in Answers(t, it)
  BY <1>6 DEF View, Answers, Conflict
<1>7. ASSUME rows[it.id] # NoRow, Live(r), tx[t].op # "reorder" PROVE Live(rows[it.id])
  <2>1. rows[it.id] \in Row /\ e # NoRow /\ e \in Row
    BY <1>1, <1>2, <1>7 DEF View, Table
  <2>2. ~Deleted(e)
    BY <1>5, <1>7, <2>1 DEF Refused
  <2>3. Live(e)
    BY <2>1, <2>2 DEF Live, Deleted, Row
  <2>4. CASE tx[t].ws[it.id] = NoRow
    BY <2>3, <2>4 DEF View
  <2>5. CASE tx[t].ws[it.id] # NoRow
    <3>1. ToldOf(tx[t], rows, it.id)
      BY <1>1, <1>2, <1>7 DEF Honest
    <3> QED BY <1>7, <2>3, <2>5, <3>1 DEF View, ToldOf
  <2> QED BY <2>4, <2>5
<1> QED BY <1>3, <1>5, <1>6, <1>7 DEF Holder

LEMMA PushWriteHonest ==
    ASSUME SyncIInv, NEW t \in Workers, PushWrite(t)
    PROVE  WriteInv'
<1> DEFINE x == tx[t]
           it == Head(x.items)
           y == [AfterTake(x) EXCEPT !.items = Tail(@)]
           r == Written(t, it, Take(x))
           a == Answers(t, it)
<1>1. /\ x.open /\ x.op = "push" /\ x.items # <<>> /\ Work(t, Write(y, it.id, r, a))
      /\ ~Refused(t, it) /\ Duplicates(t, it) = {}
  BY DEF PushWrite
<1>2. /\ x \in Tx /\ x.op # "none" /\ Honest(x, rows) /\ rows \in Table /\ Take(x) \in Nat
      /\ AfterTake(x) \in Tx /\ AfterTake(x).op = x.op /\ AfterTake(x).at = x.at
      /\ AfterTake(x).todo = x.todo /\ AfterTake(x).stale = x.stale
      /\ AfterTake(x).ws = x.ws /\ AfterTake(x).acc = x.acc /\ AfterTake(x).items = x.items
      /\ TypeOK
  BY <1>1, OpenHonest DEF SyncIInv, Inv
<1>3. it \in Item /\ Tail(x.items) \in Seq(Item) /\ it.id \in Ids
  BY <1>1, <1>2, HeadTail DEF Item
<1>4. /\ y \in Tx /\ y.op = x.op /\ y.at = x.at /\ y.todo \subseteq x.todo
      /\ y.stale = x.stale /\ y.ws = x.ws /\ y.acc = x.acc
  BY <1>2, <1>3 DEF Tx
<1>5. r \in Row /\ a \in SUBSET Nat
  BY <1>2, <1>3, WrittenType
<1>6. /\ Holder(r) => it.kind = "loc" /\ it.del = 0 /\ r.key = it.key
      /\ rows[it.id] # NoRow =>
            /\ x.ws[it.id] = NoRow => rows[it.id].ver \in a
            /\ Live(r) => Live(rows[it.id])
  BY <1>1, <1>2, <1>3, ItemHonest
<1>7. Holder(r) => \A j \in Ids \ {it.id} :
         Holder(Over(x.ws, rows)[j]) => Over(x.ws, rows)[j].key # r.key
  BY <1>1, <1>6, ViewOver DEF Duplicates, Holder
<1> HIDE DEF it, y, r, a
<1>8. Honest(Write(y, it.id, r, a), rows)
  BY <1>1, <1>2, <1>3, <1>4, <1>5, <1>6, <1>7, HonestWrite DEF Answered
<1> QED BY <1>1, <1>8, WorkHonest

\* The loser of a merge is a tombstone, the winner the only row left on the key.
LEMMA PushMergeHonest ==
    ASSUME SyncIInv, NEW t \in Workers, PushMerge(t)
    PROVE  WriteInv'
<1> DEFINE x == tx[t]
           it == Head(x.items)
           y == AfterTake(x)
           u == [AfterTake(y) EXCEPT !.items = Tail(@)]
           r == Written(t, it, Take(y))
           a == Answers(t, it)
<1>1. x.open /\ x.items # <<>> /\ x.op = "push" /\ ~Refused(t, it)
  BY DEF PushMerge
<1>2. /\ x \in Tx /\ x.op # "none" /\ Honest(x, rows) /\ rows \in Table /\ Take(x) \in Nat
      /\ y \in Tx /\ y.op = x.op /\ y.at = x.at /\ y.todo = x.todo /\ y.stale = x.stale
      /\ y.ws = x.ws /\ y.acc = x.acc /\ y.items = x.items /\ y.open
      /\ x.at \in Nat /\ x.at > Window /\ x.ws \in Table /\ x.acc \in [Ids -> SUBSET Nat]
      /\ Keyed(Over(x.ws, rows)) /\ Over(x.ws, rows) \in Table
      /\ TypeOK
  BY <1>1, OpenHonest, AfterTakeType DEF SyncIInv, Inv
<1>3. it \in Item /\ Tail(x.items) \in Seq(Item) /\ it.id \in Ids
  BY <1>1, <1>2, HeadTail DEF Item
<1>4. PICK j \in Duplicates(t, it) :
         Work(t, Write(Write(u, j, Tombstone(View(t, j), Take(x), x.at), {View(t, j).ver}),
                       it.id, r, a))
  BY DEF PushMerge
<1>5. /\ j \in Ids \ {it.id} /\ View(t, j) \in Row /\ Holder(View(t, j))
      /\ View(t, j).key = it.key
  BY <1>2, <1>4, ViewType DEF Duplicates, Live, Holder
<1> DEFINE s == Tombstone(View(t, j), Take(x), x.at)
           b == {View(t, j).ver}
           w == Write(u, j, s, b)
<1>6. s \in Row /\ b \in SUBSET Nat /\ ~Live(s)
  <2>1. s \in Row /\ s.del = x.at
    BY <1>2, <1>5, TombstoneType DEF Tombstone, Row
  <2>2. x.at # 0
    BY <1>2, SyncAssumption
  <2> QED BY <1>5, <2>1, <2>2 DEF Live, Row
<1>7. /\ u \in Tx /\ u.op = x.op /\ u.at = x.at /\ u.todo \subseteq x.todo /\ u.open
      /\ u.stale = x.stale /\ u.ws = x.ws /\ u.acc = x.acc
  <2>1. /\ AfterTake(y) \in Tx /\ AfterTake(y).op = x.op /\ AfterTake(y).at = x.at
        /\ AfterTake(y).todo = x.todo /\ AfterTake(y).stale = x.stale /\ AfterTake(y).open
        /\ AfterTake(y).ws = x.ws /\ AfterTake(y).acc = x.acc /\ AfterTake(y).items = x.items
    BY <1>1, <1>2, AfterTakeType, AfterTakeSame
  <2> HIDE DEF x, it, y
  <2> QED BY <1>3, <2>1 DEF Tx
<1>8. Take(y) \in Nat
  BY <1>2, AfterTakeType
<1>9. r \in Row /\ a \in SUBSET Nat
  BY <1>2, <1>3, <1>8, WrittenType
<1>10. /\ Holder(r) => it.kind = "loc" /\ it.del = 0 /\ r.key = it.key
       /\ rows[it.id] # NoRow =>
             /\ x.ws[it.id] = NoRow => rows[it.id].ver \in a
             /\ Live(r) => Live(rows[it.id])
  BY <1>1, <1>3, <1>8, ItemHonest
<1>11. ~Holder(s)
  BY <1>6 DEF Holder
<1>12. rows[j] # NoRow => (x.ws[j] = NoRow => rows[j].ver \in b)
  BY DEF View
<1>13. Honest(w, rows)
  <2> HIDE DEF it, y, u, r, a, s, b
  <2> QED BY <1>1, <1>2, <1>5, <1>6, <1>7, <1>11, <1>12, HonestWrite DEF w, Answered
<1>14. /\ w \in Tx /\ w.op = x.op /\ w.at = x.at /\ w.todo = u.todo /\ w.open
       /\ w.stale = x.stale /\ w.ws = [x.ws EXCEPT ![j] = s]
       /\ w.acc = [x.acc EXCEPT ![j] = @ \cup b]
  <2> HIDE DEF it, y, r, a, s, b
  <2> HIDE DEF x, u
  <2>1. /\ w \in Tx /\ w.ws = [u.ws EXCEPT ![j] = s] /\ w.op = u.op
        /\ w.open <=> u.open
    BY <1>5, <1>6, <1>7, WriteType DEF w
  <2>2. /\ w.at = u.at /\ w.todo = u.todo /\ w.stale = u.stale
        /\ w.acc = [u.acc EXCEPT ![j] = @ \cup b]
    <3> HIDE DEF u
    <3> QED BY <1>7 DEF w, Write, Tx
  <2> QED BY <1>7, <2>1, <2>2
<1>15. w.ws[it.id] = x.ws[it.id]
  <2> HIDE DEF x, it, w, s
  <2> QED BY <1>2, <1>3, <1>5, <1>14 DEF Table
<1>16. Over(w.ws, rows) = [Over(x.ws, rows) EXCEPT ![j] = s]
  BY <1>2, <1>5, <1>6, <1>14, OverWrite
<1>17. Holder(r) => \A k \in Ids \ {it.id} :
          Holder(Over(w.ws, rows)[k]) => Over(w.ws, rows)[k].key # r.key
  <2> SUFFICES ASSUME Holder(r), NEW k \in Ids \ {it.id}, Holder(Over(w.ws, rows)[k])
               PROVE  Over(w.ws, rows)[k].key # r.key
    OBVIOUS
  <2>1. k # j
    BY <1>2, <1>5, <1>11, <1>16 DEF Table
  <2>2. Over(w.ws, rows)[k] = Over(x.ws, rows)[k]
    BY <1>2, <1>16, <2>1 DEF Table
  <2>3. Holder(Over(x.ws, rows)[j]) /\ Over(x.ws, rows)[j].key = it.key
    BY <1>5, ViewOver
  <2> QED BY <1>2, <1>5, <1>10, <2>1, <2>2, <2>3 DEF Keyed
<1>18. /\ w.op # "none"
       /\ rows[it.id] # NoRow =>
             /\ w.ws[it.id] = NoRow => Answered(w, rows, it.id, a)
             /\ w.op # "reorder" /\ Live(r) => Live(rows[it.id])
  <2> HIDE DEF x, it, y, u, r, a, s, b, w
  <2> QED BY <1>1, <1>10, <1>14, <1>15 DEF Answered
<1> DEFINE z == Write(w, it.id, r, a)
<1>19. Honest(z, rows)
  <2> HIDE DEF x, it, y, u, r, a, s, b, w
  <2> QED BY <1>2, <1>3, <1>9, <1>13, <1>14, <1>17, <1>18, HonestWrite, ZenonT(60)
<1>20. Work(t, z)
  BY <1>4
<1> HIDE DEF z
<1> QED BY <1>19, <1>20, WorkHonest

LEMMA WriteOneHonest ==
    ASSUME SyncIInv, NEW t \in Workers, NEW i \in Ids, NEW r \in Row,
           NEW a \in SUBSET Nat, WriteOne(t, i, r, a),
           Holder(r) => \A j \in Ids \ {i} : Holder(rows[j]) => rows[j].key # r.key,
           rows[i] # NoRow => rows[i].ver \in a /\ Live(rows[i])
    PROVE  WriteInv'
<1> DEFINE x == AfterTake(WebTx("write"))
           y == [x EXCEPT !.open = TRUE]
           z == Write(x, i, r, a)
           v == Write(y, i, r, a)
<1>1. /\ x \in Tx /\ x.ws = Empty /\ x.op = "write" /\ x.at = now /\ now > Window
      /\ rows \in Table
  <2>1. WebTx("write") \in Tx /\ WebTx("write").at = now
    BY WebTxType DEF SyncIInv, Ops, WebTx, Idle
  <2>2. x \in Tx /\ x.op = "write" /\ x.ws = Empty
    BY WebTxType DEF SyncIInv, Ops
  <2>3. x.at = now
    BY <2>1, AfterTakeType
  <2> QED BY <2>2, <2>3 DEF SyncIInv, WriteInv, Inv, TypeOK
<1>2. Acquire(t, z)
  BY DEF WriteOne
<1> HIDE DEF x
<1>3. Honest(y, rows)
  BY <1>1, HonestOpen
<1>4. y \in Tx /\ y.ws = Empty /\ y.op = "write" /\ y.open
  BY <1>1 DEF Tx
<1>5. Over(y.ws, rows) = rows
  BY <1>1, <1>4, OverEmpty
<1>6. Honest(v, rows)
  <2> HIDE DEF y
  <2> QED BY <1>1, <1>3, <1>4, <1>5, HonestWrite DEF Answered
<1>7. z \in Tx /\ v = [z EXCEPT !.open = TRUE]
  <2>1. z \in Tx
    BY <1>1, WriteType
  <2> QED BY <1>1, <2>1 DEF Write, Tx
<1> HIDE DEF z, v
<1> QED BY <1>2, <1>6, <1>7, AcquireHonest

LEMMA WebCreateHonest ==
    ASSUME SyncIInv, NEW t \in Workers, NEW i \in Ids, WebCreate(t, i)
    PROVE  WriteInv'
<1>1. PICK f \in Forms[i] :
         /\ ~\E j \in Ids : f[1] = "loc" /\ Live(rows[j])
                            /\ rows[j].kind = "loc" /\ rows[j].key = f[2]
         /\ WriteOne(t, i, WebRow(f[1], f[2]), {})
  BY DEF WebCreate
<1>2. f \in Kinds \X (Keys \cup {NoKey})
  BY <1>1, SyncAssumption
<1> DEFINE r == WebRow(f[1], f[2])
<1>3. r \in Row /\ r.kind = f[1] /\ r.key = f[2] /\ rows[i] = NoRow
  BY <1>2, WebRowType DEF SyncIInv, Inv, TypeOK, WebCreate, WebRow
<1>4. Holder(r) => \A j \in Ids \ {i} : Holder(rows[j]) => rows[j].key # r.key
  BY <1>1, <1>3 DEF Holder
<1> HIDE DEF r
<1> QED BY <1>1, <1>3, <1>4, WriteOneHonest DEF r

LEMMA WebUpdateHonest ==
    ASSUME SyncIInv, NEW t \in Workers, NEW i \in Ids, WebUpdate(t, i)
    PROVE  WriteInv'
<1> DEFINE r == WebRow(rows[i].kind, rows[i].key)
           a == {rows[i].ver}
<1>1. Live(rows[i]) /\ WriteOne(t, i, r, a)
  BY DEF WebUpdate
<1>2. rows[i] \in Row /\ seq \in Nat
  BY <1>1 DEF SyncIInv, Inv, TypeOK, Table, Live
<1>3. r \in Row /\ r.kind = rows[i].kind /\ r.key = rows[i].key /\ a \in SUBSET Nat
  BY <1>2, WebRowType DEF WebRow, Row
<1>4. Holder(r) => \A j \in Ids \ {i} : Holder(rows[j]) => rows[j].key # r.key
  BY <1>1, <1>3 DEF SyncIInv, WriteInv, Keyed, Holder
<1>5. rows[i].ver \in a
  OBVIOUS
<1> HIDE DEF r, a
<1> QED BY <1>1, <1>3, <1>4, <1>5, WriteOneHonest

LEMMA WebDeleteHonest ==
    ASSUME SyncIInv, NEW t \in Workers, NEW i \in Ids, WebDelete(t, i)
    PROVE  WriteInv'
<1> DEFINE x == WebTx("delete")
           z == [x EXCEPT !.root = i, !.todo = Below(i)]
<1>1. x \in Tx /\ x.op = "delete" /\ x.ws = Empty /\ x.at = now
  BY WebTxType DEF SyncIInv, Ops, WebTx, Idle
<1>2. Below(i) \in SUBSET Ids /\ now > Window
  BY DEF Below, SyncIInv, WriteInv
<1>3. Acquire(t, z)
  BY DEF WebDelete
<1> HIDE DEF x
<1>4. z \in Tx /\ z.op = "delete" /\ z.ws = Empty /\ z.at > Window
  BY <1>1, <1>2 DEF Tx
<1> HIDE DEF z
<1> QED BY <1>3, <1>4, HonestOpen, AcquireHonest

\* Replacing a live row by its tombstone.
LEMMA BuryHonest ==
    ASSUME SyncIInv, NEW t \in Workers, tx[t].open, NEW i \in Ids, Live(rows[i]),
           NEW y \in Tx, y.op = tx[t].op, y.at = tx[t].at, y.todo \subseteq tx[t].todo,
           y.stale = tx[t].stale, y.ws = tx[t].ws, y.acc = tx[t].acc,
           NEW r \in Row, r.del = tx[t].at, NEW a \in SUBSET Nat,
           Answered(tx[t], rows, i, a), Work(t, Write(y, i, r, a))
    PROVE  WriteInv'
<1>1. /\ tx[t] \in Tx /\ tx[t].op # "none" /\ Honest(tx[t], rows) /\ rows \in Table
      /\ tx[t].at \in Nat /\ tx[t].at > Window
  BY OpenHonest
<1>2. ~Live(r) /\ ~Holder(r)
  BY <1>1, SyncAssumption DEF Live, Holder
<1>3. Honest(Write(y, i, r, a), rows)
  BY <1>1, <1>2, HonestWrite
<1> QED BY <1>3, WorkHonest

LEMMA TombstoneNextHonest ==
    ASSUME SyncIInv, NEW t \in Workers, TombstoneNext(t)
    PROVE  WriteInv'
<1> DEFINE x == tx[t]
<1>1. PICK i \in x.todo :
        /\ x.op \in {"delete", "purge"} /\ x.open
        /\ LET y == [AfterTake(x) EXCEPT !.todo = @ \ {i}]
           IN Work(t, IF Live(rows[i])
                        THEN Write(y, i, Tombstone(rows[i], Take(x), x.at), {Seen(x, i).ver})
                        ELSE y)
  BY DEF TombstoneNext
<1> DEFINE y == [AfterTake(x) EXCEPT !.todo = @ \ {i}]
           r == Tombstone(rows[i], Take(x), x.at)
           a == {Seen(x, i).ver}
<1>2. /\ x \in Tx /\ Honest(x, rows) /\ rows \in Table /\ Take(x) \in Nat /\ x.at \in Nat
      /\ AfterTake(x) \in Tx /\ AfterTake(x).op = x.op /\ AfterTake(x).at = x.at
      /\ AfterTake(x).todo = x.todo /\ AfterTake(x).stale = x.stale
      /\ AfterTake(x).ws = x.ws /\ AfterTake(x).acc = x.acc
  BY <1>1, OpenHonest
<1>3. /\ y \in Tx /\ y.op = x.op /\ y.at = x.at /\ y.todo \subseteq x.todo /\ i \in Ids
      /\ y.stale = x.stale /\ y.ws = x.ws /\ y.acc = x.acc
  BY <1>2 DEF Tx
<1>4. CASE Live(rows[i])
  <2>1. rows[i] \in Row
    BY <1>2, <1>3, <1>4 DEF Table, Live
  <2>2. r \in Row /\ r.del = x.at
    BY <1>2, <2>1, TombstoneType DEF Tombstone, Row
  <2>3. Seen(x, i) \in Row
    <3>1. Read(x)
      BY DEF SyncIInv, Inv, TxInv
    <3> QED BY <1>1, <1>2, <1>3, <2>1, <3>1 DEF Seen, Read, Tx, Table
  <2>4. a \in SUBSET Nat /\ Answered(x, rows, i, a)
    BY <2>3 DEF Answered, Seen, Row
  <2>5. Work(t, Write(y, i, r, a))
    BY <1>1, <1>4
  <2> HIDE DEF y, r, a
  <2> QED BY <1>1, <1>3, <1>4, <2>2, <2>4, <2>5, BuryHonest
<1>5. CASE ~Live(rows[i])
  <2>1. Work(t, y)
    BY <1>1, <1>5
  <2> HIDE DEF y
  <2>2. Honest(y, rows)
    BY <1>1, <1>2, <1>3 DEF Honest, ToldOf, Answered
  <2> QED BY <2>1, <2>2, WorkHonest
<1> QED BY <1>4, <1>5

LEMMA DeleteRootHonest ==
    ASSUME SyncIInv, NEW t \in Workers, DeleteRoot(t)
    PROVE  WriteInv'
<1> DEFINE x == tx[t]
           y == [AfterTake(x) EXCEPT !.root = NoRow]
           s == Tombstone(rows[x.root], Take(x), x.at)
           r == [s EXCEPT !.origin = NoDev]
           a == {rows[x.root].ver}
<1>1. /\ x.open /\ x.op = "delete" /\ x.root # NoRow
      /\ Work(t, Write(y, x.root, r, a))
  BY DEF DeleteRoot
<1>2. /\ x \in Tx /\ Honest(x, rows) /\ rows \in Table /\ Take(x) \in Nat /\ x.at \in Nat
      /\ AfterTake(x) \in Tx /\ AfterTake(x).op = x.op /\ AfterTake(x).at = x.at
      /\ AfterTake(x).todo = x.todo /\ AfterTake(x).stale = x.stale
      /\ AfterTake(x).ws = x.ws /\ AfterTake(x).acc = x.acc /\ Rooted(x, rows)
  BY <1>1, OpenHonest
<1>3. /\ y \in Tx /\ y.op = x.op /\ y.at = x.at /\ y.todo \subseteq x.todo
      /\ y.stale = x.stale /\ y.ws = x.ws /\ y.acc = x.acc
  BY <1>2 DEF Tx
<1>4. x.root \in Ids /\ Live(rows[x.root]) /\ rows[x.root] \in Row
  BY <1>1, <1>2 DEF Tx, Rooted, Live, Table
<1>5. r \in Row /\ r.del = x.at
  <2>1. s \in Row /\ s.del = x.at
    BY <1>2, <1>4, TombstoneType DEF Tombstone, Row
  <2> QED BY <2>1 DEF Row
<1>6. a \in SUBSET Nat /\ Answered(x, rows, x.root, a)
  BY <1>4 DEF Answered, Row
<1> HIDE DEF y, r, s, a
<1> QED BY <1>1, <1>3, <1>4, <1>5, <1>6, BuryHonest

LEMMA PurgeReadHonest ==
    ASSUME SyncIInv, NEW t \in Workers, NEW k \in Keys, PurgeRead(t, k)
    PROVE  WriteInv'
<1> DEFINE S == {i \in Ids : Live(rows[i]) /\ rows[i].kind = "loc" /\ rows[i].key = k}
           r == [Idle EXCEPT !.op = "purge", !.at = now, !.todo = S, !.stale = Rows(S)]
<1>1. tx' = [tx EXCEPT ![t] = r] /\ UNCHANGED <<rows, now>>
  BY DEF PurgeRead
<1>2. r.at = now /\ ~r.open /\ r.op = "purge"
  BY DEF Idle
<1> HIDE DEF r
<1>3. Honest(r, rows)
  BY <1>2 DEF SyncIInv, WriteInv, Honest
<1> QED BY <1>1, <1>3, OneRequest

LEMMA ReorderReadHonest ==
    ASSUME SyncIInv, NEW t \in Workers, ReorderRead(t)
    PROVE  WriteInv'
<1>1. PICK S \in SUBSET {i \in Ids : Live(rows[i]) /\ rows[i].kind = "org"} \ {{}} :
         tx' = [tx EXCEPT ![t] = [Idle EXCEPT !.op = "reorder", !.at = now, !.todo = S,
                                   !.stale = Rows(S)]]
  BY DEF ReorderRead
<1> DEFINE T == Rows(S)
           r == [Idle EXCEPT !.op = "reorder", !.at = now, !.todo = S, !.stale = T]
<1>2. tx' = [tx EXCEPT ![t] = r] /\ UNCHANGED <<rows, now>>
  BY <1>1 DEF ReorderRead
<1>3. \A i \in S : T[i].kind = "org"
  BY DEF Rows
<1> HIDE DEF T
<1>4. r.at = now /\ ~r.open /\ r.op = "reorder" /\ r.todo = S /\ r.stale = T
  BY DEF Idle
<1> HIDE DEF r
<1>5. Honest(r, rows)
  BY <1>3, <1>4 DEF SyncIInv, WriteInv, Honest
<1> QED BY <1>2, <1>5, OneRequest

LEMMA OpenLateHonest ==
    ASSUME SyncIInv, NEW t \in Workers, OpenLate(t)
    PROVE  WriteInv'
<1> DEFINE r == [tx[t] EXCEPT !.seq = seq]
<1>1. /\ tx[t] \in Tx /\ seq \in Nat /\ tx[t].op \in ReadEarly
      /\ ~tx[t].open /\ Acquire(t, r)
  BY DEF SyncIInv, Inv, TypeOK, OpenLate
<1>2. tx[t].ws = Empty /\ Honest(tx[t], rows)
  BY <1>1 DEF SyncIInv, Inv, TxInv, WriteInv
<1>3. /\ r \in Tx /\ r.ws = Empty /\ r.at > Window
      /\ r.op = "reorder" => \A i \in r.todo : r.stale[i].kind = "org"
  BY <1>1, <1>2 DEF Tx, Honest, ReadEarly
<1> HIDE DEF r
<1> QED BY <1>1, <1>3, HonestOpen, AcquireHonest

\* What a reorder writes back has no natural key.
LEMMA ReorderNextHonest ==
    ASSUME SyncIInv, NEW t \in Workers, ReorderNext(t)
    PROVE  WriteInv'
<1> DEFINE x == tx[t]
<1>1. PICK i \in x.todo :
        /\ x.op = "reorder" /\ x.open
        /\ Work(t, Write([AfterTake(x) EXCEPT !.todo = @ \ {i}], i,
                         [x.stale[i] EXCEPT !.ver = Take(x), !.origin = NoDev],
                         {x.stale[i].ver}))
  BY DEF ReorderNext
<1> DEFINE y == [AfterTake(x) EXCEPT !.todo = @ \ {i}]
           r == [x.stale[i] EXCEPT !.ver = Take(x), !.origin = NoDev]
           a == {x.stale[i].ver}
<1>2. /\ x \in Tx /\ Honest(x, rows) /\ rows \in Table /\ Take(x) \in Nat /\ x.op # "none"
      /\ AfterTake(x) \in Tx /\ AfterTake(x).op = x.op /\ AfterTake(x).at = x.at
      /\ AfterTake(x).todo = x.todo /\ AfterTake(x).stale = x.stale
      /\ AfterTake(x).ws = x.ws /\ AfterTake(x).acc = x.acc
  BY <1>1, OpenHonest
<1>3. /\ y \in Tx /\ y.op = x.op /\ y.at = x.at /\ y.todo \subseteq x.todo /\ i \in Ids
      /\ y.stale = x.stale /\ y.ws = x.ws /\ y.acc = x.acc
  BY <1>2 DEF Tx
<1>4. x.stale[i] \in Row /\ x.stale[i].kind = "org"
  <2>1. Read(x)
    BY DEF SyncIInv, Inv, TxInv
  <2> QED BY <1>1, <1>2, <1>3, <2>1 DEF Read, Honest, Tx, Table, ReadEarly
<1>5. r \in Row /\ r.kind = "org" /\ a \in SUBSET Nat
  BY <1>2, <1>4 DEF Row
<1>6. ~Holder(r)
  BY <1>5 DEF Holder
<1>7. Work(t, Write(y, i, r, a))
  BY <1>1
<1>8. Answered(x, rows, i, a)
  BY <1>1 DEF Answered, ReadEarly
<1> HIDE DEF y, r, a
<1>9. Honest(Write(y, i, r, a), rows)
  BY <1>1, <1>2, <1>3, <1>5, <1>6, <1>8, HonestWrite
<1> QED BY <1>7, <1>9, WorkHonest

-----------------------------------------------------------------------------
(* The steps that change the rows, and the rest. *)

LEMMA IdleHonest == \A db : Honest(Idle, db)
  BY DEF Idle, Honest

LEMMA CommitHonest ==
    ASSUME SyncIInv, NEW t \in Workers, Commit(t)
    PROVE  WriteInv'
<1>1. /\ lock = t /\ tx[t].open /\ now' = now
      /\ rows' = [i \in Ids |-> View(t, i)] /\ tx' = [tx EXCEPT ![t] = Idle]
  BY DEF Commit, Done, SyncIInv, Inv, TxInv
<1>2. Keyed(Over(tx[t].ws, rows))
  BY <1>1, OpenHonest
<1>3. rows' = Over(tx[t].ws, rows)
  BY <1>1 DEF View, Over
<1>4. ASSUME NEW u \in Workers PROVE Honest(tx'[u], rows')
  <2>1. CASE u = t
    <3>1. tx'[u] = Idle
      BY <1>1, <2>1 DEF SyncIInv, Inv, TypeOK
    <3> QED BY <3>1, IdleHonest
  <2>2. CASE u # t
    <3>1. tx'[u] = tx[u] /\ ~tx[u].open
      BY <1>1, <2>2 DEF SyncIInv, Inv, TypeOK, TxInv
    <3> QED BY <3>1 DEF SyncIInv, WriteInv, Honest
  <2> QED BY <2>1, <2>2
<1> QED BY <1>1, <1>2, <1>3, <1>4 DEF SyncIInv, WriteInv

LEMMA AbortHonest ==
    ASSUME SyncIInv, NEW t \in Workers, Abort(t)
    PROVE  WriteInv'
  BY OneRequest, IdleHonest DEF Abort

LEMMA ReclaimHonest ==
    ASSUME SyncIInv, NEW i \in Ids, Reclaim(i)
    PROVE  WriteInv'
<1>1. /\ Deleted(rows[i]) /\ rows' = [rows EXCEPT ![i] = NoRow] /\ UNCHANGED <<tx, now>>
      /\ rows \in Table
  BY DEF Reclaim, SyncIInv, Inv, TypeOK
<1>2. \A j \in Ids : rows'[j] = IF j = i THEN NoRow ELSE rows[j]
  BY <1>1 DEF Table
<1>3. ~Live(NoRow) /\ ~Holder(NoRow)
  BY DEF Live, Holder
<1>4. Keyed(rows')
  BY <1>2, <1>3 DEF SyncIInv, WriteInv, Keyed
<1>5. ASSUME NEW u \in Workers PROVE Honest(tx[u], rows')
  <2>1. Honest(tx[u], rows)
    BY DEF SyncIInv, WriteInv
  <2>2. CASE ~tx[u].open
    BY <2>1, <2>2 DEF Honest
  <2>3. CASE tx[u].open
    <3>1. \A j \in Ids : Over(tx[u].ws, rows')[j] = Over(tx[u].ws, rows)[j]
                         \/ Over(tx[u].ws, rows')[j] = NoRow
      BY <1>2 DEF Over
    <3>2. Keyed(Over(tx[u].ws, rows'))
      BY <1>3, <2>1, <2>3, <3>1 DEF Honest, Keyed
    <3>3. \A j \in Ids : ToldOf(tx[u], rows, j) => ToldOf(tx[u], rows', j)
      BY <1>2 DEF ToldOf, Answered
    <3> QED BY <2>1, <2>3, <3>2, <3>3 DEF Honest
  <2> QED BY <2>2, <2>3
<1> QED BY <1>1, <1>4, <1>5 DEF SyncIInv, WriteInv

LEMMA TickHonest ==
    ASSUME SyncIInv, Tick
    PROVE  WriteInv'
<1>1. now' = now + 1 /\ UNCHANGED <<rows, tx>> /\ now \in Nat /\ now > Window
  BY DEF Tick, dbVars, SyncIInv, WriteInv, Inv, TypeOK
<1>2. now' > Window
  BY <1>1, SyncAssumption
<1> QED BY <1>1, <1>2 DEF SyncIInv, WriteInv

-----------------------------------------------------------------------------
LEMMA InitWrites == Init => WriteInv
<1> SUFFICES ASSUME Init PROVE WriteInv
  OBVIOUS
<1>1. now > Window
  BY SyncAssumption DEF Init
<1>2. Keyed(rows)
  BY DEF Init, Keyed, Holder, Live, Empty
<1> QED BY <1>1, <1>2, IdleHonest DEF Init, WriteInv

LEMMA NextWrites == SyncIInv /\ [Next]_vars => WriteInv'
<1> SUFFICES ASSUME SyncIInv, [Next]_vars PROVE WriteInv'
  OBVIOUS
<1>1. ASSUME NEW t \in Workers, WorkerStep(t) PROVE WriteInv'
  <2>1. ASSUME NEW d \in Devices, PushStart(t, d) PROVE WriteInv'
    BY <2>1, PushStartHonest
  <2>2. CASE PushOpen(t)
    BY <2>2, PushOpenHonest
  <2>3. CASE PushRefused(t)
    BY <2>3, PushRefusedHonest
  <2>4. CASE PushWrite(t)
    BY <2>4, PushWriteHonest
  <2>5. CASE PushMerge(t)
    BY <2>5, PushMergeHonest
  <2>6. ASSUME NEW i \in Ids, WebCreate(t, i) PROVE WriteInv'
    BY <2>6, WebCreateHonest
  <2>7. ASSUME NEW i \in Ids, WebUpdate(t, i) PROVE WriteInv'
    BY <2>7, WebUpdateHonest
  <2>8. ASSUME NEW i \in Ids, WebDelete(t, i) PROVE WriteInv'
    BY <2>8, WebDeleteHonest
  <2>9. CASE TombstoneNext(t)
    BY <2>9, TombstoneNextHonest
  <2>10. CASE DeleteRoot(t)
    BY <2>10, DeleteRootHonest
  <2>11. ASSUME NEW k \in Keys, PurgeRead(t, k) PROVE WriteInv'
    BY <2>11, PurgeReadHonest
  <2>12. CASE ReorderRead(t)
    BY <2>12, ReorderReadHonest
  <2>13. CASE OpenLate(t)
    BY <2>13, OpenLateHonest
  <2>14. CASE ReorderNext(t)
    BY <2>14, ReorderNextHonest
  <2>15. CASE Commit(t)
    BY <2>15, CommitHonest
  <2>16. CASE Abort(t)
    BY <2>16, AbortHonest
  <2> QED BY <1>1, <2>1, <2>2, <2>3, <2>4, <2>5, <2>6, <2>7, <2>8, <2>9, <2>10,
             <2>11, <2>12, <2>13, <2>14, <2>15, <2>16 DEF WorkerStep
<1>2. ASSUME NEW d \in Devices, DeviceStep(d) PROVE WriteInv'
  <2>1. UNCHANGED <<rows, tx, now>>
    BY <1>2 DEF DeviceStep, PullList, PullEmpty, PullHead, PullTouch, PullDeliver,
                PullLost, Resync, dbVars
  <2> QED BY <2>1 DEF SyncIInv, WriteInv
<1>3. ASSUME NEW i \in Ids, Reclaim(i) PROVE WriteInv'
  BY <1>3, ReclaimHonest
<1>4. CASE Tick
  BY <1>4, TickHonest
<1>5. CASE UNCHANGED vars
  BY <1>5 DEF vars, SyncIInv, WriteInv
<1> QED BY <1>1, <1>2, <1>3, <1>4, <1>5 DEF Next

(* Both invariants together are inductive. *)
LEMMA SyncIInvHolds == Spec => []SyncIInv
<1>1. Init => SyncIInv
  BY InitInv, InitWrites DEF SyncIInv
<1>2. SyncIInv /\ [Next]_vars => SyncIInv'
  BY NextInv, NextWrites DEF SyncIInv
<1> QED BY <1>1, <1>2, PTL DEF Spec

(* No transaction of a push, a server write or a purge leaves two live rows *)
(* on one natural key, whatever order its statements came in               *)
(* (mergeLocationNaturalKey): the partial unique index never rejects it.    *)
THEOREM KeysAreUnique == Spec => []OneLivePerKey
<1>1. SyncIInv => OneLivePerKey
  <2> SUFFICES ASSUME SyncIInv, NEW t \in Workers, tx[t].open \/ tx[t].op = "none",
                      NEW i \in Ids, NEW j \in Ids, i # j,
                      Holder(View(t, i)), Holder(View(t, j))
               PROVE  View(t, i).key # View(t, j).key
    BY DEF OneLivePerKey, Holder
  <2>1. CASE tx[t].open
    <3>1. Keyed(Over(tx[t].ws, rows))
      BY <2>1, OpenHonest
    <3> QED BY <3>1, ViewOver DEF Keyed
  <2>2. CASE ~tx[t].open
    <3>1. View(t, i) = rows[i] /\ View(t, j) = rows[j]
      BY <2>2 DEF SyncIInv, Inv, TxInv, View, Empty
    <3> QED BY <3>1 DEF SyncIInv, WriteInv, Keyed
  <2> QED BY <2>1, <2>2
<1> QED BY <1>1, SyncIInvHolds, PTL

\* The rows change only when a transaction commits or a tombstone is reclaimed.
LEMMA RowsChange ==
    ASSUME SyncIInv, [Next]_vars, NEW i \in Ids, rows'[i] # rows[i], rows'[i] # NoRow
    PROVE  /\ lock \in Workers /\ Honest(tx[lock], rows) /\ tx[lock].open
           /\ tx[lock].ws[i] # NoRow /\ rows'[i] = tx[lock].ws[i]
<1>1. ASSUME NEW t \in Workers, Commit(t)
      PROVE  /\ lock \in Workers /\ Honest(tx[lock], rows) /\ tx[lock].open
             /\ tx[lock].ws[i] # NoRow /\ rows'[i] = tx[lock].ws[i]
  <2>1. lock = t /\ tx[t].open /\ rows'[i] = View(t, i)
    BY <1>1 DEF Commit, Done, SyncIInv, Inv, TxInv
  <2>2. tx[t].ws[i] # NoRow /\ rows'[i] = tx[t].ws[i]
    BY <2>1 DEF View
  <2> QED BY <2>1, <2>2 DEF SyncIInv, WriteInv
<1>2. ASSUME NEW t \in Workers, WorkerStep(t), ~Commit(t) PROVE rows' = rows
  BY <1>2 DEF WorkerStep, PushStart, PushOpen, PushRefused, PushWrite, PushMerge, WebCreate,
     WebUpdate, WebDelete, WriteOne, TombstoneNext, DeleteRoot, PurgeRead, ReorderRead, OpenLate,
     ReorderNext, Abort, Work, Acquire
<1>3. ASSUME NEW d \in Devices, DeviceStep(d) PROVE rows' = rows
  BY <1>3 DEF DeviceStep, PullList, PullEmpty, PullHead, PullTouch, PullDeliver, PullLost,
     Resync, dbVars
<1>4. ASSUME NEW j \in Ids, Reclaim(j) PROVE rows'[i] = rows[i] \/ rows'[i] = NoRow
  BY <1>4 DEF Reclaim, SyncIInv, Inv, TypeOK, Table
<1>5. Tick \/ UNCHANGED vars => rows' = rows
  BY DEF Tick, dbVars, vars
<1> QED BY <1>1, <1>2, <1>3, <1>4, <1>5 DEF Next

(* Whoever replaces a row had read the version it replaces or is told it; only what was  *)
(* written after the early read of a purge or of a reorder goes unreported.              *)
THEOREM NothingLostSilently == Spec => NoSilentOverwrite
<1>1. SyncIInv /\ [Next]_vars =>
        [\A i \in Ids :
          \/ rows'[i] = rows[i] \/ rows[i] = NoRow \/ rows'[i] = NoRow
          \/ lock # NoTx /\ rows[i].ver \in tx[lock].acc[i]
          \/ lock # NoTx /\ tx[lock].op \in ReadEarly /\ tx[lock].stale[i] # rows[i]]_vars
  <2> SUFFICES ASSUME SyncIInv, [Next]_vars, NEW i \in Ids,
                      rows'[i] # rows[i], rows[i] # NoRow, rows'[i] # NoRow
               PROVE  lock # NoTx /\ Answered(tx[lock], rows, i, tx[lock].acc[i])
    BY DEF Answered
  <2> QED BY RowsChange, SyncAssumption DEF Honest, ToldOf
<1> QED BY <1>1, SyncIInvHolds, PTL DEF Spec, NoSilentOverwrite

(* A tombstone is revived only by a reorder, which saves rows it read before. *)
THEOREM DeletedStaysDeleted == Spec => NoRevival
<1>1. SyncIInv /\ [Next]_vars =>
        [\A i \in Ids : Deleted(rows[i]) /\ Live(rows'[i]) => tx[lock].op = "reorder"]_vars
  <2> SUFFICES ASSUME SyncIInv, [Next]_vars, NEW i \in Ids, Deleted(rows[i]), Live(rows'[i])
               PROVE  tx[lock].op = "reorder"
    OBVIOUS
  <2>1. rows[i] # NoRow /\ ~Live(rows[i]) /\ rows'[i] # rows[i] /\ rows'[i] # NoRow
    <3>1. rows[i] \in Row
      BY DEF SyncIInv, Inv, TypeOK, Table, Deleted
    <3>2. ~Live(rows[i])
      BY <3>1 DEF Deleted, Live, Row
    <3> QED BY <3>2 DEF Deleted, Live
  <2> QED BY <2>1, RowsChange DEF Honest, ToldOf
<1> QED BY <1>1, SyncIInvHolds, PTL DEF Spec, NoRevival
=============================================================================
