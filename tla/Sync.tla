-------------------------------- MODULE Sync --------------------------------
(***************************************************************************)
(* Workspace sync of one account: sync_svc, sync_repo and the server's own *)
(* write channel to the same table (workspace_svc.WithOrgWriteTx).         *)
(*                                                                         *)
(* The shared state is the database: the account's rows of sync_objects,   *)
(* its row of sync_account_seqs (the version sequence and, through InnoDB, *)
(* the lock every writer holds until it commits) and sync_device_states.   *)
(* A worker is a request handler or cron job of any replica; what it       *)
(* writes is invisible to the others until Commit.  A device is external:  *)
(* it is modelled by the pages it received and the cursor they gave it.    *)
(*                                                                         *)
(* Accounts share nothing here, so one account is modelled.  A payload is  *)
(* reduced to the versions its author had seen when writing it, or is told *)
(* in the answer that it replaced (tx[t].acc).                             *)
(***************************************************************************)
EXTENDS Naturals, Sequences, FiniteSets

CONSTANTS
    Ids,          \* sync ids of the account
    Devices,      \* devices that push and pull
    Workers,      \* request handlers that may run concurrently
    Keys,         \* natural keys (project or backend, daemon fingerprint)
    NoRow, NoKey, NoTx, NoDev,
    Forms,        \* for each id, the <<kind, key>> pairs devices send for it
    Parent,       \* the object an id's payload references, or the id itself
    Services,     \* write paths exercised: a subset of AllServices
    Ages,         \* how long ago a device may say it deleted an object
    Window,       \* TombstoneWindow
    Limit,        \* rows of one page
    MaxBatch,     \* bound: items of one push
    MaxVersion,   \* bound: versions handed out
    MaxNow        \* bound: clock

Kinds == {"loc", "org"}    \* with, and without, a natural key
AllServices == {"push", "web", "purge", "reorder", "reclaim", "resync"}

ASSUME SyncAssumption ==
    /\ NoTx \notin Workers /\ NoRow \notin Ids /\ NoDev \notin Devices /\ NoKey \notin Keys
    /\ Forms \in [Ids -> SUBSET (Kinds \X (Keys \cup {NoKey}))]
    /\ Parent \in [Ids -> Ids]
    /\ Services \subseteq AllServices
    /\ Ages \subseteq Nat
    /\ Window \in Nat \ {0} /\ Limit \in Nat \ {0}
    /\ MaxBatch \in Nat /\ MaxVersion \in Nat /\ MaxNow \in Nat

Row == [kind : Kinds, key : Keys \cup {NoKey}, ver : Nat, del : Nat,
        origin : Devices \cup {NoDev}]

ASSUME NoRowAssumption == NoRow \notin Row

Table == [Ids -> Row \cup {NoRow}]
Empty == [i \in Ids |-> NoRow]
Item  == [id : Ids, kind : Kinds, key : Keys \cup {NoKey}, base : Nat, del : Nat]

VARIABLES
    rows,      \* committed sync_objects of the account
    seq,       \* committed sync_account_seqs.version_seq
    lock,      \* the worker whose transaction holds the sequence row
    tx,        \* each worker's request
    cursor,    \* the cursor each device pulls from
    copy,      \* what the pages handed to each device contained
    pull,      \* each device's outstanding pull
    lastSync,  \* sync_device_states.last_sync_at, 0 = no such row
    now        \* the server's clock

dbVars  == <<rows, seq, lock, tx>>
devVars == <<cursor, copy, pull, lastSync>>
vars    == <<rows, seq, lock, tx, cursor, copy, pull, lastSync, now>>

Ops == {"none", "push", "write", "delete", "purge", "reorder"}

Tx == [op : Ops, open : BOOLEAN, dev : Devices \cup {NoDev}, at : Nat,
       items : Seq(Item), todo : SUBSET Ids, root : Ids \cup {NoRow},
       stale : Table, ws : Table, acc : [Ids -> SUBSET Nat], next : Nat, last : Nat, seq : Nat]

Idle == [op |-> "none", open |-> FALSE, dev |-> NoDev, at |-> 0,
         items |-> <<>>, todo |-> {}, root |-> NoRow,
         stale |-> Empty, ws |-> Empty, acc |-> [i \in Ids |-> {}], next |-> 1, last |-> 0, seq |-> 0]

Pulling == [stage : {"idle", "page", "head", "touch"}, page : Table, top : Nat]
NoPull  == [stage |-> "idle", page |-> Empty, top |-> 0]

TypeOK ==
    /\ rows \in Table
    /\ seq \in Nat
    /\ lock \in Workers \cup {NoTx}
    /\ tx \in [Workers -> Tx]
    /\ cursor \in [Devices -> Nat]
    /\ copy \in [Devices -> Table]
    /\ pull \in [Devices -> Pulling]
    /\ lastSync \in [Devices -> Nat]
    /\ now \in Nat

Init ==
    /\ rows = Empty
    /\ seq = 0
    /\ lock = NoTx
    /\ tx = [t \in Workers |-> Idle]
    /\ cursor = [d \in Devices |-> 0]
    /\ copy = [d \in Devices |-> Empty]
    /\ pull = [d \in Devices |-> NoPull]
    /\ lastSync = [d \in Devices |-> 0]
    /\ now = Window + 1

-----------------------------------------------------------------------------
Live(r)    == r # NoRow /\ r.del = 0
Deleted(r) == r # NoRow /\ r.del > 0

(* The table as the transaction of t sees it: its own writes over the rows. *)
View(t, i) == IF tx[t].ws[i] # NoRow THEN tx[t].ws[i] ELSE rows[i]

(* The tombstone of row r: content and origin stay, instant and version do not. *)
Tombstone(r, v, instant) == [r EXCEPT !.ver = v, !.del = instant]

(* x after a statement that writes r under id i, answering for versions a. *)
Write(x, i, r, a) == [x EXCEPT !.ws[i] = r, !.acc[i] = @ \cup a]

(* clampTombstoneInstant; 0 is "not a tombstone". *)
ClampWrongUnit(del, at) ==    \* mutant
    IF del # 0 /\ del < at - Window THEN at - 1000 * Window ELSE del
Clamp(del, at) ==
    IF del = 0 THEN 0
    ELSE IF del < at - Window THEN at - Window
    ELSE IF del > at THEN at ELSE del

BeyondWindow(d) == lastSync[d] > 0 /\ now - lastSync[d] > Window

(* A lock wait: a transaction opens when nobody holds the sequence row. *)
AcquireUnlocked(t, r) ==      \* mutant: no SELECT ... FOR UPDATE
    /\ lock' = t
    /\ tx' = [tx EXCEPT ![t] = [r EXCEPT !.open = TRUE]]
    /\ UNCHANGED <<rows, seq, devVars, now>>
Acquire(t, r) ==
    /\ lock = NoTx
    /\ lock' = t
    /\ tx' = [tx EXCEPT ![t] = [r EXCEPT !.open = TRUE]]
    /\ UNCHANGED <<rows, seq, devVars, now>>

(* A step inside an open transaction: only its own working state changes. *)
Work(t, r) ==
    /\ tx' = [tx EXCEPT ![t] = r]
    /\ UNCHANGED <<rows, seq, lock, devVars, now>>

(* versionBlock.take: from the block a push took, and from the sequence when *)
(* it is used up; a transaction without a block always takes the next one.   *)
Take(x)      == IF x.next <= x.last THEN x.next ELSE x.seq + 1
AfterTakeReuse(x) == IF x.next <= x.last THEN x    \* mutant: the block never advances
                                         ELSE [x EXCEPT !.seq = @ + 1]
AfterTake(x) == IF x.next <= x.last THEN [x EXCEPT !.next = @ + 1]
                                    ELSE [x EXCEPT !.seq = @ + 1]

-----------------------------------------------------------------------------
(* Push.  Validation and the window check run before the transaction. *)

Known(d, i) ==
    {0} \cup (IF copy[d][i] # NoRow THEN {copy[d][i].ver} ELSE {})
        \cup (IF rows[i] # NoRow /\ rows[i].origin = d THEN {rows[i].ver} ELSE {})

ItemsOf(d) ==
    {it \in [id : Ids, kind : Kinds, key : Keys \cup {NoKey}, base : 0..seq,
             del : {0} \cup {now - a : a \in {b \in Ages : b < now}}] :
        /\ <<it.kind, it.key>> \in Forms[it.id]
        /\ it.base \in Known(d, it.id)
        /\ it.kind = "loc" /\ it.del = 0 => it.key # NoKey}   \* rejectReason

PushStart(t, d) ==
    /\ "push" \in Services
    /\ tx[t].op = "none"
    /\ ~BeyondWindow(d)
    /\ \E n \in 1..MaxBatch : \E b \in [1..n -> ItemsOf(d)] :
          tx' = [tx EXCEPT ![t] = [Idle EXCEPT !.op = "push", !.dev = d,
                                               !.at = now, !.items = b]]
    /\ UNCHANGED <<rows, seq, lock, devVars, now>>

PushOpen(t) ==
    LET n == Len(tx[t].items) IN
    /\ tx[t].op = "push" /\ ~tx[t].open
    /\ seq + 2 * n <= MaxVersion
    /\ Acquire(t, [tx[t] EXCEPT !.next = seq + 1, !.last = seq + n, !.seq = seq + n])

(* applyItem's two rejections. *)
RefusedByKind(t, it) ==       \* mutant: a tombstone does not refuse an edit
    View(t, it.id) # NoRow /\ View(t, it.id).kind # it.kind
Refused(t, it) ==
    LET e == View(t, it.id) IN
    /\ e # NoRow
    /\ e.kind # it.kind \/ (Deleted(e) /\ it.del = 0)

Written(t, it, v) == [kind |-> it.kind, key |-> it.key, ver |-> v,
                      del |-> Clamp(it.del, tx[t].at), origin |-> tx[t].dev]

(* An accepted item was based on the row it replaces; the author of a       *)
(* conflicting one is told the version it overwrote.                        *)
ConflictFresh(t, it) ==       \* mutant: only a push without a base conflicts
    View(t, it.id) # NoRow /\ it.base = 0
Conflict(t, it) == View(t, it.id) # NoRow /\ (it.base = 0 \/ it.base # View(t, it.id).ver)
Answers(t, it)  == {it.base} \cup (IF Conflict(t, it) THEN {View(t, it.id).ver} ELSE {})

(* mergeLocationNaturalKey: the live rows of other ids on the item's key. *)
DuplicatesCommitted(t, it) == \* mutant: misses the rows this push wrote
    {j \in Ids \ {it.id} : /\ it.kind = "loc" /\ it.del = 0
                           /\ Live(rows[j]) /\ rows[j].kind = "loc" /\ rows[j].key = it.key}
Duplicates(t, it) ==
    {j \in Ids \ {it.id} : /\ it.kind = "loc" /\ it.del = 0
                           /\ Live(View(t, j))
                           /\ View(t, j).kind = "loc" /\ View(t, j).key = it.key}

PushRefused(t) ==
    /\ tx[t].op = "push" /\ tx[t].open /\ tx[t].items # <<>>
    /\ Refused(t, Head(tx[t].items))
    /\ Work(t, [tx[t] EXCEPT !.items = Tail(@)])

PushWrite(t) ==
    LET x  == tx[t]
        it == Head(x.items)
        y  == AfterTake(x)
    IN /\ x.op = "push" /\ x.open /\ x.items # <<>>
       /\ ~Refused(t, it)
       /\ Duplicates(t, it) = {}
       /\ Work(t, Write([y EXCEPT !.items = Tail(@)], it.id,
                        Written(t, it, Take(x)), Answers(t, it)))

(* The loser's tombstone takes the smaller version, the winner the next one. *)
PushMerge(t) ==
    LET x  == tx[t]
        it == Head(x.items)
        y  == AfterTake(x)
        z  == AfterTake(y)
    IN /\ x.op = "push" /\ x.open /\ x.items # <<>>
       /\ ~Refused(t, it)
       /\ \E j \in Duplicates(t, it) :
             LET w == Write([z EXCEPT !.items = Tail(@)], j,
                            Tombstone(View(t, j), Take(x), x.at), {View(t, j).ver})
             IN Work(t, Write(w, it.id, Written(t, it, Take(y)), Answers(t, it)))

-----------------------------------------------------------------------------
(* Server writes: the sequence row is locked first, then rows are read. *)

WebRow(kind, key) ==
    [kind |-> kind, key |-> key, ver |-> seq + 1, del |-> 0, origin |-> NoDev]
WebTx(op) == [Idle EXCEPT !.op = op, !.at = now, !.seq = seq]

(* WriteOrgRow as the only statement of its transaction. *)
WriteOne(t, i, r, a) == Acquire(t, Write(AfterTake(WebTx("write")), i, r, a))

(* CreateOrgObject: a fresh id; a taken natural key aborts on its unique index. *)
WebCreate(t, i) ==
    /\ "web" \in Services /\ tx[t].op = "none" /\ seq < MaxVersion
    /\ rows[i] = NoRow /\ \A d \in Devices : copy[d][i] = NoRow
    /\ \E f \in Forms[i] :
          /\ f[1] = "loc" => f[2] # NoKey
          /\ ~\E j \in Ids : f[1] = "loc" /\ Live(rows[j])
                             /\ rows[j].kind = "loc" /\ rows[j].key = f[2]
          /\ WriteOne(t, i, WebRow(f[1], f[2]), {})

(* UpdateOrgObject: merge into the row read under the lock. *)
WebUpdate(t, i) ==
    /\ "web" \in Services /\ tx[t].op = "none" /\ seq < MaxVersion
    /\ Live(rows[i])
    /\ WriteOne(t, i, WebRow(rows[i].kind, rows[i].key), {rows[i].ver})

(* DeleteOrgObject: the live rows below the root first, then the root. *)
Below(i) == {j \in Ids \ {i} : Parent[j] = i /\ Live(rows[j])}

WebDelete(t, i) ==
    /\ "web" \in Services /\ tx[t].op = "none"
    /\ Live(rows[i])
    /\ seq + Cardinality(Below(i)) < MaxVersion
    /\ Acquire(t, [WebTx("delete") EXCEPT !.root = i, !.todo = Below(i)])

(* The row a request decided on: a purge and a reorder read it before they *)
(* held the lock, so that it may have been written since.                  *)
ReadEarly == {"purge", "reorder"}
Seen(x, i) == IF x.op \in ReadEarly THEN x.stale[i] ELSE rows[i]

(* One row of tombstoneCascade, or of the purge: a version each, and the    *)
(* UPDATE hits whatever row of that id is still live.                       *)
TombstoneNext(t) ==
    \E i \in tx[t].todo :
        /\ tx[t].op \in {"delete", "purge"} /\ tx[t].open
        /\ LET x == tx[t]
               y == [AfterTake(x) EXCEPT !.todo = @ \ {i}]
           IN Work(t, IF Live(rows[i])
                        THEN Write(y, i, Tombstone(rows[i], Take(x), x.at), {Seen(x, i).ver})
                        ELSE y)

DeleteRoot(t) ==
    LET x == tx[t] IN
    /\ x.op = "delete" /\ x.open /\ x.todo = {} /\ x.root # NoRow
    /\ Work(t, Write([AfterTake(x) EXCEPT !.root = NoRow], x.root,
                     [Tombstone(rows[x.root], Take(x), x.at) EXCEPT !.origin = NoDev],
                     {rows[x.root].ver}))

(* The rows S of the table, as a request read them. *)
Rows(S) == [i \in Ids |-> IF i \in S THEN rows[i] ELSE NoRow]

(* PurgeDeviceSyncObjects: the rows are read before the lock is taken. *)
PurgeRead(t, k) ==
    LET scoped == {i \in Ids : Live(rows[i]) /\ rows[i].kind = "loc" /\ rows[i].key = k} IN
    /\ "purge" \in Services /\ tx[t].op = "none"
    /\ scoped # {}
    /\ tx' = [tx EXCEPT ![t] = [Idle EXCEPT !.op = "purge", !.at = now, !.todo = scoped,
                                        !.stale = Rows(scoped)]]
    /\ UNCHANGED <<rows, seq, lock, devVars, now>>

(* SetExecTargetOrder: the rows are read before the transaction, and those *)
(* whose position changes are written back whole.                          *)
ReorderRead(t) ==
    /\ "reorder" \in Services /\ tx[t].op = "none"
    /\ \E S \in SUBSET {i \in Ids : Live(rows[i]) /\ rows[i].kind = "org"} \ {{}} :
          tx' = [tx EXCEPT ![t] = [Idle EXCEPT !.op = "reorder", !.at = now, !.todo = S,
                                            !.stale = Rows(S)]]
    /\ UNCHANGED <<rows, seq, lock, devVars, now>>

OpenLate(t) ==
    /\ tx[t].op \in ReadEarly /\ ~tx[t].open
    /\ seq + Cardinality(tx[t].todo) <= MaxVersion
    /\ Acquire(t, [tx[t] EXCEPT !.seq = seq])

ReorderNext(t) ==
    \E i \in tx[t].todo :
        /\ tx[t].op = "reorder" /\ tx[t].open
        /\ LET x == tx[t]
               r == x.stale[i]
           IN Work(t, Write([AfterTake(x) EXCEPT !.todo = @ \ {i}], i,
                            [r EXCEPT !.ver = Take(x), !.origin = NoDev], {r.ver}))

-----------------------------------------------------------------------------
(* The end of a transaction. *)

Done(t) == tx[t].open /\ tx[t].items = <<>> /\ tx[t].todo = {} /\ tx[t].root = NoRow

Commit(t) ==
    /\ Done(t)
    /\ rows' = [i \in Ids |-> View(t, i)]
    /\ seq' = tx[t].seq
    /\ lock' = NoTx
    /\ tx' = [tx EXCEPT ![t] = Idle]
    /\ UNCHANGED <<devVars, now>>

(* An error or a crash: the transaction is rolled back, the sequence with it. *)
Abort(t) ==
    /\ tx[t].op # "none"
    /\ tx' = [tx EXCEPT ![t] = Idle]
    /\ lock' = IF lock = t THEN NoTx ELSE lock
    /\ UNCHANGED <<rows, seq, devVars, now>>

(* ReclaimExpired takes no lock; a row an open transaction wrote is locked. *)
Reclaim(i) ==
    /\ "reclaim" \in Services
    /\ Deleted(rows[i]) /\ rows[i].del < now - Window
    /\ lock # NoTx => tx[lock].ws[i] = NoRow
    /\ rows' = [rows EXCEPT ![i] = NoRow]
    /\ UNCHANGED <<seq, lock, tx, devVars, now>>

-----------------------------------------------------------------------------
(* Pull: three statements, none of them in a transaction. *)

NewerLive(d) ==               \* mutant: the soft-delete scope is left on
    {i \in Ids : Live(rows[i]) /\ rows[i].ver > cursor[d]}
NewerOrEqual(d) ==            \* mutant: version >= cursor
    {i \in Ids : rows[i] # NoRow /\ rows[i].ver >= cursor[d]}
Newer(d) == {i \in Ids : rows[i] # NoRow /\ rows[i].ver > cursor[d]}

(* ListSince: the Limit newest-after-cursor rows in version order. *)
PullList(d) ==
    /\ pull[d].stage = "idle"
    /\ \E P \in SUBSET Newer(d) : \E m \in P :
          /\ Cardinality(P) <= Limit
          /\ P # Newer(d) => Cardinality(P) = Limit
          /\ \A i \in P : rows[i].ver <= rows[m].ver
          /\ \A i \in P, j \in Newer(d) \ P : rows[i].ver <= rows[j].ver
          /\ pull' = [pull EXCEPT ![d] =
                [stage |-> "page", top |-> rows[m].ver,
                 page |-> [i \in Ids |-> IF i \in P THEN rows[i] ELSE NoRow]]]
    /\ UNCHANGED <<dbVars, cursor, copy, lastSync, now>>

PullEmpty(d) ==
    /\ pull[d].stage = "idle" /\ Newer(d) = {}
    /\ pull' = [pull EXCEPT ![d].stage = "head"]
    /\ UNCHANGED <<dbVars, cursor, copy, lastSync, now>>

(* CurrentVersion: a cursor beyond the head would be refused here. *)
PullHead(d) ==
    /\ pull[d].stage = "head" /\ cursor[d] <= seq
    /\ pull' = [pull EXCEPT ![d].stage = "touch"]
    /\ UNCHANGED <<dbVars, cursor, copy, lastSync, now>>

PullTouch(d) ==
    /\ pull[d].stage = "touch"
    /\ lastSync' = [lastSync EXCEPT ![d] = now]
    /\ pull' = [pull EXCEPT ![d] = NoPull]
    /\ UNCHANGED <<dbVars, cursor, copy, now>>

(* The device stores the page and moves its cursor; or the answer is lost. *)
PullDeliver(d) ==
    /\ pull[d].stage = "page"
    /\ copy' = [copy EXCEPT ![d] = [i \in Ids |->
                  IF pull[d].page[i] # NoRow THEN pull[d].page[i] ELSE copy[d][i]]]
    /\ cursor' = [cursor EXCEPT ![d] = pull[d].top]
    /\ pull' = [pull EXCEPT ![d] = NoPull]
    /\ UNCHANGED <<dbVars, lastSync, now>>

PullLost(d) ==
    /\ pull[d].stage # "idle"
    /\ pull' = [pull EXCEPT ![d] = NoPull]
    /\ UNCHANGED <<dbVars, cursor, copy, lastSync, now>>

(* SyncResyncRequired: the device starts over from an empty copy. *)
Resync(d) ==
    /\ "resync" \in Services
    /\ BeyondWindow(d) /\ pull[d].stage = "idle" /\ cursor[d] > 0
    /\ cursor' = [cursor EXCEPT ![d] = 0]
    /\ copy' = [copy EXCEPT ![d] = Empty]
    /\ UNCHANGED <<dbVars, pull, lastSync, now>>

Tick == now < MaxNow /\ now' = now + 1 /\ UNCHANGED <<dbVars, devVars>>

-----------------------------------------------------------------------------
WorkerStep(t) ==
    \/ \E d \in Devices : PushStart(t, d)
    \/ PushOpen(t) \/ PushRefused(t) \/ PushWrite(t) \/ PushMerge(t)
    \/ \E i \in Ids : WebCreate(t, i) \/ WebUpdate(t, i) \/ WebDelete(t, i)
    \/ TombstoneNext(t) \/ DeleteRoot(t)
    \/ \E k \in Keys : PurgeRead(t, k)
    \/ ReorderRead(t) \/ OpenLate(t) \/ ReorderNext(t)
    \/ Commit(t) \/ Abort(t)

DeviceStep(d) ==
    \/ PullList(d) \/ PullEmpty(d) \/ PullHead(d) \/ PullTouch(d)
    \/ PullDeliver(d) \/ PullLost(d) \/ Resync(d)

Next ==
    \/ \E t \in Workers : WorkerStep(t)
    \/ \E d \in Devices : DeviceStep(d)
    \/ \E i \in Ids : Reclaim(i)
    \/ Tick

Spec == Init /\ [][Next]_vars

(* A handler that has begun runs on; a device polls again and again, and not *)
(* every answer is lost (the desktop polls every 30 seconds).                *)
Proceed(t) ==
    \/ PushOpen(t) \/ PushRefused(t) \/ PushWrite(t) \/ PushMerge(t)
    \/ TombstoneNext(t) \/ DeleteRoot(t) \/ OpenLate(t) \/ ReorderNext(t) \/ Commit(t)

Poll(d) == PullList(d) \/ PullEmpty(d) \/ PullHead(d) \/ PullTouch(d)

FairSpec ==
    /\ Spec
    /\ \A t \in Workers : WF_vars(Proceed(t))
    /\ \A d \in Devices : WF_vars(Poll(d)) /\ SF_vars(PullDeliver(d))

-----------------------------------------------------------------------------
(* Properties *)

(* No two rows of the account ever share a version: a page cut between two *)
(* rows of one version would drop the second one (ListSince, sync_repo).   *)
UniqueVersions ==
    \A i, j \in Ids : i # j /\ rows[i] # NoRow /\ rows[j] # NoRow => rows[i].ver # rows[j].ver

(* A device whose cursor has passed a row's version has been handed exactly *)
(* that row: the sequence lock makes the order of versions the order of     *)
(* commits, so no later commit can appear below a cursor (sync_svc.Push).   *)
CursorComplete ==
    \A d \in Devices, i \in Ids :
        rows[i] # NoRow /\ rows[i].ver <= cursor[d] => copy[d][i] = rows[i]

(* The inductive invariant behind CursorComplete.  Its parts: committed     *)
(* versions are unique and at most seq; an open transaction holds the lock  *)
(* and writes only versions above seq that it has not used before; no       *)
(* cursor or page reaches beyond seq; a page that is delivered leaves the   *)
(* device complete up to the page's last version.                           *)
RowsInv == UniqueVersions /\ \A i \in Ids : rows[i] # NoRow => rows[i].ver \in 1..seq

(* What the transaction with state x wrote lies above the committed        *)
(* sequence s and below the version it takes next.                          *)
Ahead(x, s) ==
    /\ x.seq >= s
    /\ x.next <= x.last => x.last = x.seq /\ x.next > s
    /\ \A i \in Ids : x.ws[i] # NoRow => x.ws[i].ver > s /\ x.ws[i].ver < Take(x)
    /\ \A i, j \in Ids : i # j /\ x.ws[i] # NoRow /\ x.ws[j] # NoRow
                           => x.ws[i].ver # x.ws[j].ver

(* The rows it decided to write were there when it read them. *)
Read(x)       == x.op \in ReadEarly => \A i \in x.todo : x.stale[i] # NoRow
Rooted(x, db) == x.op = "delete" /\ x.root # NoRow => Live(db[x.root])

TxInv ==
    \A t \in Workers :
        /\ tx[t].open <=> lock = t
        /\ tx[t].open => tx[t].op # "none" /\ Ahead(tx[t], seq) /\ Rooted(tx[t], rows)
        /\ Read(tx[t])
        /\ ~tx[t].open => tx[t].ws = Empty /\ tx[t].next > tx[t].last

CursorInv == CursorComplete /\ \A d \in Devices : cursor[d] <= seq /\ pull[d].top <= seq

PageInv ==
    \A d \in Devices, i \in Ids :
        pull[d].stage = "page" /\ rows[i] # NoRow /\ rows[i].ver <= pull[d].top
            => rows[i] = IF pull[d].page[i] # NoRow THEN pull[d].page[i] ELSE copy[d][i]

Inv == TypeOK /\ RowsInv /\ TxInv /\ CursorInv /\ PageInv

(* What a transaction is about to publish never breaks the partial unique  *)
(* index on live natural keys, whatever order its statements came in, so a *)
(* push is never rolled back by uk_sync_objects_natural.                   *)
OneLivePerKey ==
    \A t \in Workers : tx[t].open \/ tx[t].op = "none" =>
        \A i, j \in Ids :
            /\ i # j
            /\ Live(View(t, i)) /\ View(t, i).kind = "loc"
            /\ Live(View(t, j)) /\ View(t, j).kind = "loc"
            => View(t, i).key # View(t, j).key

(* Whoever replaces a row had either read the very version it replaces or   *)
(* is told that version in its answer: nothing a device wrote disappears    *)
(* unreported.  Excepted is exactly the row that was written between the    *)
(* early read of a purge or of SetExecTargetOrder and its lock: it goes     *)
(* unread and unreported (README, section 8; see also DeletionIsFinal).     *)
NoSilentOverwrite ==
    [][\A i \in Ids :
          \/ rows'[i] = rows[i] \/ rows[i] = NoRow \/ rows'[i] = NoRow
          \/ lock # NoTx /\ rows[i].ver \in tx[lock].acc[i]
          \/ lock # NoTx /\ tx[lock].op \in ReadEarly /\ tx[lock].stale[i] # rows[i]]_vars

(* A tombstone never becomes a live row again through a device's push, a    *)
(* cascade, a purge or a locked web write (R6 of the sync specification).   *)
NoRevival ==
    [][\A i \in Ids :
          Deleted(rows[i]) /\ Live(rows'[i]) => tx[lock].op = "reorder"]_vars

(* Whatever keeps being written, every device's cursor eventually passes   *)
(* every version that is still in the table: a page limit never starves a  *)
(* row, and a device that had to start over catches up again.  A device    *)
(* that pushes in the middle of every resynchronisation is sent back each  *)
(* time and stays beyond the window.                                       *)
EventuallyDelivered ==
    \A d \in Devices : <>[]~BeyondWindow(d) =>
        \A v \in 1..MaxVersion :
            (\E i \in Ids : rows[i] # NoRow /\ rows[i].ver >= v)
                ~> (cursor[d] >= v \/ \A i \in Ids : rows[i] # NoRow => rows[i].ver < v)

-----------------------------------------------------------------------------
(* What the repository says, or a user would expect, and the code does not       *)
(* keep: TLC finds each of these violated (README, section 8).                   *)

(* A tombstone is reclaimed only when every device that has synced, still   *)
(* holds the object and has not received the deletion must resynchronise    *)
(* before it may push (sync.go:791, object.go:223).                         *)
TombstoneOutlivesWindow ==
    [][\A i \in Ids, d \in Devices :
          Deleted(rows[i]) /\ rows'[i] = NoRow /\ lastSync[d] > 0
              /\ Live(copy[d][i]) /\ rows[i].origin # d
              => BeyondWindow(d)]_vars

(* A purge accounts for every version it buries: a device that rewrote an   *)
(* object between the rows the purge read and its lock is told as a winner  *)
(* of the same write would be (sync.go:733, object.go:207).                 *)
EveryOverwriteKnown ==
    [][\A i \in Ids :
          rows'[i] # rows[i] /\ rows[i] # NoRow /\ rows'[i] # NoRow
              /\ lock # NoTx /\ tx[lock].op = "purge"
              => rows[i].ver \in tx[lock].acc[i]]_vars

(* Deletion is not undone: the repository says so of every write path       *)
(* (sync.go:463, workspace.go:1493).                                        *)
DeletionIsFinal == [][\A i \in Ids : Deleted(rows[i]) => ~Live(rows'[i])]_vars
=============================================================================
