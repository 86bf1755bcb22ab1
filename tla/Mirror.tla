------------------------------- MODULE Mirror -------------------------------
(***************************************************************************)
(* The account's copy of the conversations a user saved (saved_session_svc, *)
(* mirror_svc). One replica at a time follows a machine: it claims the      *)
(* machine in Redis, attaches to its conversations, pulls what it missed    *)
(* and stores every frame and, debounced, a summary with the cursor up to   *)
(* which the frames are there. Saving and deleting happen on any replica,   *)
(* which hints the one that follows. One machine of one account is          *)
(* modelled; a database statement, a Redis command or a call to the machine *)
(* is one step, and any of them may fail, carried out or not.               *)
(*                                                                         *)
(* Bounds, besides MaxLog, MaxLinks and Budgets: one save or deletion and   *)
(* one cron job at a time; a replica starts a follower when the last one it *)
(* had has ended and its windows have run out. A summary is its cursor and  *)
(* a frame its number: titles, lifecycle and waiters are left out. A list   *)
(* of the machine and the stored cursors are read in one step, and so are   *)
(* the three questions of keepalive. Supervisor.Stop is Unfollow, a process *)
(* that ends before it is through a crash.                                  *)
(***************************************************************************)
EXTENDS Integers, Sequences, FiniteSets

CONSTANTS
    Replicas,     \* instances of the server
    Convs,        \* conversations on the machine
    MaxLog,       \* bound: durable frames of a conversation
    MaxLinks,     \* bound: connections of the machine to the relay
    PageSize,     \* DefaultSessionPullLimit
    NoteBuffer,   \* liveNoteBuffer
    HintBuffer,   \* hintBuffer
    Budgets,      \* bounds: the conversations there are, the length of their logs, what may
                  \* still happen of turns, links, requests and faults, replicas asked
    NoReplica, NoConv

NoRow == -1

\* A call fails, a message is lost, a replica crashes, a lease runs out under a busy
\* replica, the machine's log is rewound.
Faults == {"call", "lost", "crash", "expire", "rewind"}
Budget == [convs : SUBSET Convs, log : 0 .. MaxLog, turns : Nat, links : Nat, requests : Nat,
           faults : SUBSET Faults, up : SUBSET Replicas]

ASSUME MirrorAssumption ==
    /\ NoReplica \notin Replicas /\ NoConv \notin Convs
    /\ MaxLog \in Nat /\ PageSize \in Nat \ {0} /\ MaxLinks \in Nat \ {0}
    /\ NoteBuffer \in Nat /\ HintBuffer \in Nat
    /\ Budgets \subseteq Budget

VARIABLES
    log, asleep, gone,    \* the machine: last seq, interrupted and deleted conversations
    link,                 \* its connection to the relay: [id, on]
    saves, todos,         \* the database: agent_session_saves, delete todos
    frames, row,          \* frames of a conversation, latest_seq of its summary
    lease,                \* who holds mirror:machine:... in Redis
    fol,                  \* follower of each replica: where it is and what it knows
    obj,                  \* its trackedSessions, with their flush windows
    notes, hints,         \* its queues of live notifications and of hints
    pass,                 \* the cron job under way
    req,                  \* the save or deletion under way
    lost,                 \* history: followers whose lease ran out under them
    deleted,              \* history: conversations deleted and not saved since
    crossed,              \* history: conversations whose copy lost its word (see Meets)
    left                  \* what is left of the budget

machine == <<log, asleep, gone, link>>
copy    == <<frames, row>>
memory  == <<fol, obj, notes, hints>>
ledger  == <<lost, deleted, crossed>>
vars    == <<machine, saves, todos, copy, lease, memory, pass, req, ledger, left>>

-----------------------------------------------------------------------------
(* State.                                                                  *)

Seqs == 1 .. MaxLog
Hint == [kind : {"saved", "deleted"}, c : Convs]
Note == [c : Convs, seq : 0 .. MaxLog]           \* seq 0: a turn started or ended

Follower ==
    [pc : {"off", "claim", "tell", "subscribe", "conn", "dial", "list", "each", "wipe", "rewrite",
           "pull", "write", "save", "idle", "frame", "touch", "clear", "clearRow", "release"},
     job : {"none", "start", "sync", "revive", "apply"},
     cur : Convs \cup {NoConv},       \* conversation being worked on
     todo : SUBSET Convs,             \* conversations Sync or Revive still has to catch up
     saved : SUBSET Convs,            \* f.saved
     naps : SUBSET Convs,             \* those the machine's list called interrupted
     high : [Convs -> 0 .. MaxLog],   \* LatestSeq in the machine's list
     stored : [Convs -> 0 .. MaxLog], \* storedCursors
     page : 0 .. MaxLog,              \* last seq of the frames in hand
     more : BOOLEAN,                  \* HasMore
     conn : 0 .. MaxLinks,            \* connID read before the dial
     link : 0 .. MaxLinks,            \* the machine's connection dialled
     resync : BOOLEAN, closed : BOOLEAN,
     bad : BOOLEAN,                   \* a conversation of this Sync failed
     ask : Convs \cup {NoConv}]       \* conversation a Begin waits for

Off == [pc |-> "off", job |-> "none", cur |-> NoConv, todo |-> {}, saved |-> {}, naps |-> {},
        high |-> [c \in Convs |-> 0], stored |-> [c \in Convs |-> 0], page |-> 0, more |-> FALSE,
        conn |-> 0, link |-> 0, resync |-> FALSE, closed |-> FALSE, bad |-> FALSE, ask |-> NoConv]

Tracked == [known : BOOLEAN, cursor : 0 .. MaxLog, attached : BOOLEAN,
            open : BOOLEAN, dirty : BOOLEAN,    \* debounceWindow
            tail : 0 .. MaxLog \cup {NoRow}]    \* cursor of a trailing write on its way

Untracked == [known |-> FALSE, cursor |-> 0, attached |-> FALSE, open |-> FALSE,
              dirty |-> FALSE, tail |-> NoRow]

NoPass == [step |-> "none", at |-> NoReplica, list |-> {}, again |-> {}, c |-> NoConv]
NoReq  == [step |-> "none", at |-> NoReplica, c |-> NoConv, list |-> {}]

Pass == [step : {"none", "follow", "release", "replay", "clear"}, at : Replicas \cup {NoReplica},
         list : SUBSET Convs, again : SUBSET Convs, c : Convs \cup {NoConv}]
Request == [step : {"none", "list", "follow", "frames", "summary", "unsave", "machine"},
            at : Replicas \cup {NoReplica}, c : Convs \cup {NoConv}, list : SUBSET Convs]

TypeOK ==
    /\ log \in [Convs -> 0 .. MaxLog] /\ asleep \subseteq Convs /\ gone \subseteq Convs
    /\ link \in [id : 0 .. MaxLinks, on : BOOLEAN]
    /\ saves \subseteq Convs /\ todos \subseteq Convs
    /\ frames \in [Convs -> SUBSET Seqs] /\ row \in [Convs -> 0 .. MaxLog \cup {NoRow}]
    /\ lease \in Replicas \cup {NoReplica}
    /\ fol \in [Replicas -> Follower] /\ obj \in [Replicas -> [Convs -> Tracked]]
    /\ notes \in [Replicas -> Seq(Note)] /\ hints \in [Replicas -> Seq(Hint)]
    /\ pass \in Pass /\ req \in Request
    /\ lost \subseteq Replicas /\ deleted \subseteq Convs /\ crossed \subseteq Convs
    /\ left \in Budget

Init ==
    /\ log = [c \in Convs |-> 0] /\ asleep = {} /\ gone = {}
    /\ link = [id |-> 1, on |-> TRUE]
    /\ saves = {} /\ todos = {}
    /\ frames = [c \in Convs |-> {}] /\ row = [c \in Convs |-> NoRow]
    /\ lease = NoReplica
    /\ fol = [r \in Replicas |-> Off] /\ obj = [r \in Replicas |-> [c \in Convs |-> Untracked]]
    /\ notes = [r \in Replicas |-> <<>>] /\ hints = [r \in Replicas |-> <<>>]
    /\ pass = NoPass /\ req = NoReq
    /\ lost = {} /\ deleted = {} /\ crossed = {} /\ left \in Budgets

-----------------------------------------------------------------------------
(* What a deletion meets.                                                  *)

Clearing(r, c) == fol[r].pc \in {"clear", "clearRow"} /\ fol[r].cur = c
Told(r, c)     == \E i \in DOMAIN hints[r] : hints[r][i] = [kind |-> "deleted", c |-> c]

\* Replica r may still write rows of c.
Holds(r, c) ==
    \/ c \in fol[r].saved \cup fol[r].todo
    \/ fol[r].cur = c /\ ~Clearing(r, c)
    \/ obj[r][c].known \/ obj[r][c].dirty \/ obj[r][c].tail # NoRow

\* A purge of c removes rows under the hands of a replica that has not been told.
Meets(c) == \E r \in Replicas : Holds(r, c) /\ ~Told(r, c)

Deleting(c) == req.c = c /\ req.step \in {"frames", "summary", "unsave"}

\* A list of conversations to follow names some that are deleted by now.
Outdated(list) == {c \in list : c \notin saves \/ Deleting(c)}

\* A follower that ends here leaves the purge or the rewriting of these undone.
Cut(r) == {c \in Convs : \/ Told(r, c) \/ Clearing(r, c)
                         \/ fol[r].pc = "rewrite" /\ fol[r].cur = c}

Fault(k) == k \in left.faults /\ left' = [left EXCEPT !.faults = left.faults \ {k}]
NoFault == UNCHANGED left
Mark(S) == crossed' = crossed \cup S /\ UNCHANGED <<lost, deleted>>
If(b, c) == IF b THEN {c} ELSE {}

Put(r, f)       == fol' = [fol EXCEPT ![r] = f]
PutObj(r, c, o) == obj' = [obj EXCEPT ![r][c] = o]

Linked(r) == link.on /\ fol[r].link = link.id
Mapped(r) == fol[r].pc \notin {"off", "tell"} /\ ~fol[r].closed
Hears(r)  == fol[r].pc \notin {"off", "claim", "tell", "subscribe"}

-----------------------------------------------------------------------------
(* The machine: external but for what the follower hears of it.            *)

Hearing(c) == {r \in Replicas : fol[r].link = link.id /\ obj[r][c].attached}

\* enqueue: a full queue drops the notification and asks for a Sync instead. What a full
\* inbox of the relay connection drops, nobody notices.
Notify(c, n, budget) ==
    \/ /\ left' = budget
       /\ notes' = [r \in Replicas |->
                      IF r \in Hearing(c) /\ Len(notes[r]) < NoteBuffer
                        THEN Append(notes[r], [c |-> c, seq |-> n]) ELSE notes[r]]
       /\ fol' = [r \in Replicas |->
                      IF r \in Hearing(c) /\ Len(notes[r]) >= NoteBuffer
                        THEN [fol[r] EXCEPT !.resync = TRUE] ELSE fol[r]]
    \/ Fault("lost") /\ Hearing(c) # {} /\ UNCHANGED <<notes, fol>>

Emit(c) ==
    /\ link.on /\ c \in left.convs \ (gone \cup asleep) /\ log[c] < left.log
    /\ log' = [log EXCEPT ![c] = log[c] + 1]
    /\ Notify(c, log[c] + 1, left)
    /\ UNCHANGED <<asleep, gone, link, saves, todos, copy, lease, obj, hints, pass, req, ledger>>

\* A turn starts or ends: a notification without a number.
Boundary(c) ==
    /\ link.on /\ c \notin gone \cup asleep /\ Hearing(c) # {}
    /\ left.turns > 0 /\ Notify(c, 0, [left EXCEPT !.turns = left.turns - 1])
    /\ UNCHANGED <<machine, saves, todos, copy, lease, obj, hints, pass, req, ledger>>

\* The machine leaves, and comes back on a new connection: conversations may have been
\* interrupted by a restart, and a machine that lost its history counts from below.
GoOffline ==
    /\ link.on /\ link' = [link EXCEPT !.on = FALSE]
    /\ UNCHANGED <<log, asleep, gone, saves, todos, copy, lease, memory, pass, req, ledger, left>>

Return(S) ==
    /\ ~link.on /\ link.id < MaxLinks /\ left.links > 0 /\ S \subseteq left.convs
    /\ link' = [id |-> link.id + 1, on |-> TRUE] /\ asleep' = S
    /\ \/ left' = [left EXCEPT !.links = left.links - 1] /\ UNCHANGED log
       \/ /\ "rewind" \in left.faults
          /\ left' = [left EXCEPT !.links = left.links - 1, !.faults = left.faults \ {"rewind"}]
          /\ \E c \in Convs, n \in 0 .. MaxLog : n < log[c] /\ log' = [log EXCEPT ![c] = n]
    /\ UNCHANGED <<gone, saves, todos, copy, lease, memory, pass, req, ledger>>

Wake(c) ==
    /\ c \in asleep /\ asleep' = asleep \ {c}
    /\ UNCHANGED <<log, gone, link, saves, todos, copy, lease, memory, pass, req, ledger, left>>

-----------------------------------------------------------------------------
(* Saving and deleting (savedsession.go, sessions.go).                     *)

\* hintOwner, given what becomes of the followers otherwise: a full queue asks for a Sync.
Publish(kind, c, next) ==
    \/ /\ hints' = [r \in Replicas |->
                      IF Hears(r) /\ Len(hints[r]) < HintBuffer
                        THEN Append(hints[r], [kind |-> kind, c |-> c]) ELSE hints[r]]
       /\ fol' = [r \in Replicas |->
                      IF Hears(r) /\ Len(hints[r]) >= HintBuffer
                        THEN [next[r] EXCEPT !.resync = TRUE] ELSE next[r]]
    \/ "lost" \in left.faults /\ fol' = next /\ UNCHANGED hints

Save(r, c) ==
    /\ req = NoReq /\ r \in left.up /\ c \in left.convs \ gone
    /\ left.requests > 0 /\ left' = [left EXCEPT !.requests = left.requests - 1]
    /\ saves' = saves \cup {c}
    /\ req' = [step |-> "list", at |-> r, c |-> c, list |-> {}]
    /\ deleted' = deleted \ {c}
    /\ UNCHANGED <<machine, todos, copy, lease, memory, pass, lost, crossed>>

BeginLists ==
    /\ req.step = "list" /\ req' = [req EXCEPT !.step = "follow", !.list = saves]
    /\ UNCHANGED <<machine, saves, todos, copy, lease, memory, pass, ledger, left>>

\* The windows of the follower before have run out (a pass comes long after them).
Quiet(r) == \A c \in Convs : ~obj[r][c].open /\ obj[r][c].tail = NoRow

\* Supervisor.Follow up to the claim: a follower there learns the list (want), else one
\* starts.
Follow(r, list, c) ==
    \/ Mapped(r) /\ Put(r, [fol[r] EXCEPT !.resync = fol[r].resync \/ fol[r].saved # list, !.saved = list])
    \/ /\ fol[r].pc = "off" /\ Quiet(r)
       /\ Put(r, [Off EXCEPT !.pc = "claim", !.job = "start", !.saved = list, !.ask = c])

BeginFollows ==
    /\ req.step = "follow" /\ req' = NoReq /\ Follow(req.at, req.list, req.c)
    /\ UNCHANGED <<machine, saves, todos, copy, lease, obj, notes, hints, pass, ledger, left>>

\* forgetLocked: the object goes and its window with it, but for a write on its way.
Forgotten(o) == [o EXCEPT !.known = FALSE, !.dirty = FALSE]

\* Delete up to the purge: forgetSession here, or a hint to whoever follows.
Delete(r, c) ==
    /\ req = NoReq /\ r \in left.up /\ c \in saves
    /\ left.requests > 0 /\ left' = [left EXCEPT !.requests = left.requests - 1]
    /\ req' = [step |-> "frames", at |-> r, c |-> c, list |-> {}]
    /\ \/ /\ Mapped(r) /\ Put(r, [fol[r] EXCEPT !.saved = fol[r].saved \ {c}])
          /\ PutObj(r, c, Forgotten(obj[r][c])) /\ UNCHANGED hints
       \/ ~Mapped(r) /\ Publish("deleted", c, fol) /\ UNCHANGED obj
    /\ UNCHANGED <<machine, saves, todos, copy, lease, notes, pass, ledger>>

\* purgeStoredCopy: the frames go first, then the summary that lists them.
Purge ==
    LET c == req.c IN
    /\ \/ /\ req.step = "frames" /\ frames' = [frames EXCEPT ![c] = {}] /\ UNCHANGED row
          /\ req' = [req EXCEPT !.step = "summary"]
       \/ /\ req.step = "summary" /\ row' = [row EXCEPT ![c] = NoRow] /\ UNCHANGED frames
          /\ req' = [req EXCEPT !.step = "unsave"]
    /\ Mark(If(Meets(c), c))
    /\ UNCHANGED <<machine, saves, todos, lease, memory, pass, left>>

Unsave ==
    /\ req.step = "unsave" /\ saves' = saves \ {req.c}
    /\ req' = [req EXCEPT !.step = "machine"]
    /\ UNCHANGED <<machine, todos, copy, lease, memory, pass, ledger, left>>

\* A statement fails, and the request with it: what it removes may be gone, in part.
RequestFails ==
    LET c == req.c IN
    /\ Fault("call") /\ req' = NoReq
    /\ \/ req.step = "list" /\ UNCHANGED <<saves, copy, ledger>>
       \/ /\ req.step = "frames" /\ \E S \in SUBSET frames[c] : frames' = [frames EXCEPT ![c] = S]
          /\ Mark({c}) /\ UNCHANGED <<saves, row>>
       \/ /\ req.step = "summary" /\ row' \in {row, [row EXCEPT ![c] = NoRow]}
          /\ Mark({c}) /\ UNCHANGED <<saves, frames>>
       \/ req.step = "unsave" /\ saves' \in {saves, saves \ {c}} /\ UNCHANGED <<copy, ledger>>
    /\ UNCHANGED <<machine, todos, lease, memory, pass>>

\* mutant: a machine out of reach is not noted
AddDeleteTodoNever(c) == UNCHANGED todos

AddDeleteTodo(c) == todos' = todos \cup {c}

\* The machine deletes its own copy or, out of reach, is left a todo.
DeleteOnMachine ==
    LET c == req.c IN
    /\ req.step = "machine" /\ req' = NoReq
    /\ \/ /\ link.on /\ gone' = gone \cup {c} /\ UNCHANGED todos
          /\ NoFault /\ deleted' = deleted \cup {c}
       \/ /\ ~link.on /\ AddDeleteTodo(c) /\ UNCHANGED gone
          /\ NoFault /\ deleted' = deleted \cup {c}
       \/ /\ link.on /\ gone' \in {gone, gone \cup {c}} /\ AddDeleteTodo(c)
          /\ Fault("call") /\ deleted' = deleted \cup {c}
       \/ ~link.on /\ UNCHANGED <<gone, todos, deleted>> /\ Fault("call")   \* no todo: it says so
    /\ UNCHANGED <<log, asleep, link, saves, copy, lease, memory, pass, lost, crossed>>

-----------------------------------------------------------------------------
(* Cron jobs (reconcile.go, ReplayPendingDeletes).                         *)

ReconcileLists(r) ==
    /\ pass = NoPass /\ r \in left.up /\ saves # {} /\ link.on
    /\ pass' = [NoPass EXCEPT !.step = "follow", !.at = r, !.list = saves]
    /\ UNCHANGED <<machine, saves, todos, copy, lease, memory, req, ledger, left>>

ReconcileFollows ==
    /\ pass.step = "follow" /\ pass' = NoPass
    /\ Follow(pass.at, pass.list, NoConv) /\ Mark(Outdated(pass.list))
    /\ UNCHANGED <<machine, saves, todos, copy, lease, obj, notes, hints, req, left>>

\* A followed machine that carries nothing saved, seen so twice, is let go.
FindEmpty(r) ==
    /\ pass = NoPass /\ saves = {} /\ Mapped(r)
    /\ pass' = [NoPass EXCEPT !.step = "release", !.at = r]
    /\ UNCHANGED <<machine, saves, todos, copy, lease, memory, req, ledger, left>>

\* Its follower sees so when it next looks, a start once it is through.
Unfollow ==
    LET r == pass.at IN
    /\ pass.step = "release" /\ pass' = NoPass
    /\ Put(r, IF Mapped(r) THEN [fol[r] EXCEPT !.closed = TRUE] ELSE fol[r])
    /\ UNCHANGED <<machine, saves, todos, copy, lease, obj, notes, hints, req, ledger, left>>

ReplayLists(r) ==
    /\ pass = NoPass /\ r \in left.up /\ todos # {} /\ link.on
    /\ pass' = [NoPass EXCEPT !.step = "replay", !.at = r, !.list = todos, !.again = saves]
    /\ UNCHANGED <<machine, saves, todos, copy, lease, memory, req, ledger, left>>

\* A todo whose conversation was saved again is dropped, the others are carried out.
Replay(c) ==
    /\ pass.step = "replay" /\ c \in pass.list
    /\ \/ /\ c \in pass.again /\ NoFault /\ UNCHANGED gone
          /\ pass' = [pass EXCEPT !.step = "clear", !.c = c]
       \/ /\ c \notin pass.again /\ link.on /\ gone' = gone \cup {c} /\ NoFault
          /\ pass' = [pass EXCEPT !.step = "clear", !.c = c]
       \/ /\ c \notin pass.again /\ ~link.on /\ NoFault /\ UNCHANGED gone
          /\ pass' = [pass EXCEPT !.list = pass.list \ {c}]
       \/ /\ c \notin pass.again /\ link.on /\ Fault("call") /\ gone' \in {gone, gone \cup {c}}
          /\ pass' = [pass EXCEPT !.list = pass.list \ {c}]
    /\ UNCHANGED <<log, asleep, link, saves, todos, copy, lease, memory, req, ledger>>

ReplayClears ==
    /\ pass.step = "clear"
    /\ \/ todos' = todos \ {pass.c} /\ NoFault
       \/ UNCHANGED todos /\ Fault("call")
    /\ pass' = [pass EXCEPT !.step = "replay", !.list = pass.list \ {pass.c}, !.c = NoConv]
    /\ Mark(If(pass.c \in pass.again /\ pass.c \notin saves, pass.c))
    /\ UNCHANGED <<machine, saves, copy, lease, memory, req>>

ReplayEnds ==
    /\ pass.step = "replay" /\ pass.list = {} /\ pass' = NoPass
    /\ UNCHANGED <<machine, saves, todos, copy, lease, memory, req, ledger, left>>

-----------------------------------------------------------------------------
(* Starting to follow (resident.go, lease.go).                             *)

Calm == UNCHANGED <<machine, saves, todos, pass, req>>

\* SET NX. A machine that another replica follows is left to it, and a Begin tells it so.
Claim(r) ==
    LET refused == [Off EXCEPT !.pc = IF fol[r].ask = NoConv THEN "off" ELSE "tell", !.ask = fol[r].ask] IN
    /\ fol[r].pc = "claim"
    /\ \/ /\ lease = NoReplica /\ lease' = r /\ lost' = lost \ {r}
          /\ Put(r, [fol[r] EXCEPT !.pc = "subscribe"]) /\ NoFault
       \/ lease # NoReplica /\ Put(r, refused) /\ NoFault /\ UNCHANGED <<lease, lost>>
       \/ /\ Put(r, Off) /\ Fault("call") /\ UNCHANGED lost
          /\ lease' \in {lease, IF lease = NoReplica THEN r ELSE lease}
    /\ Calm /\ UNCHANGED <<copy, obj, notes, hints, deleted, crossed>>

Tell(r) ==
    /\ fol[r].pc = "tell" /\ Publish("saved", fol[r].ask, [fol EXCEPT ![r] = Off])
    /\ Calm /\ UNCHANGED <<copy, lease, obj, notes, ledger, left>>

\* Hints are subscribed before the machine is dialled, its connection is read before.
\* Sync of an empty list asks nothing.
Prepare(r) ==
    /\ \/ fol[r].pc = "subscribe" /\ Put(r, [fol[r] EXCEPT !.pc = "conn"])
       \/ fol[r].pc = "conn" /\ link.on /\ Put(r, [fol[r] EXCEPT !.pc = "dial", !.conn = link.id])
       \/ /\ fol[r].pc = "dial" /\ link.on
          /\ Put(r, [fol[r] EXCEPT !.pc = IF fol[r].saved = {} THEN "each" ELSE "list",
                                   !.link = link.id, !.todo = fol[r].saved])
    /\ Calm /\ UNCHANGED <<copy, lease, obj, notes, hints, ledger, left>>

\* The follower stops: what it knew is of no use any more.
Ended(r, ask) == [Off EXCEPT !.pc = "release", !.closed = fol[r].closed, !.ask = ask]

\* A Begin whose follower does not start says so, and hints nobody.
PrepareFails(r) ==
    /\ \/ fol[r].pc \in {"conn", "dial"} /\ ~link.on /\ NoFault
       \/ fol[r].pc \in {"subscribe", "conn", "dial"} /\ Fault("call")
    /\ Put(r, Ended(r, NoConv))
    /\ Calm /\ UNCHANGED <<copy, lease, obj, notes, hints, ledger>>

-----------------------------------------------------------------------------
(* Sync, Revive and Apply (mirror.go).                                     *)

\* The machine's list of the conversations asked for; Sync also reads the stored cursors
\* and forgets what is not wanted, Revive leaves out what is still interrupted.
List(r) ==
    LET listed == fol[r].todo \ gone IN
    /\ fol[r].pc = "list" /\ Linked(r)
    /\ Put(r, [fol[r] EXCEPT !.pc = "each", !.naps = asleep, !.high = log,
                  !.todo = IF fol[r].job = "revive" THEN listed \ asleep ELSE listed,
                  !.stored = [c \in Convs |-> IF row[c] = NoRow THEN 0 ELSE row[c]]])
    /\ obj' = [obj EXCEPT ![r] = [c \in Convs |-> IF fol[r].job = "revive" \/ c \in fol[r].todo
                                                    THEN obj[r][c] ELSE Forgotten(obj[r][c])]]
    /\ Calm /\ UNCHANGED <<copy, lease, notes, hints, ledger, left>>

\* track: an object of its own, and the further of its cursor and the stored one.
Begun(r, c) ==
    LET o == IF obj[r][c].known THEN obj[r][c] ELSE [Untracked EXCEPT !.tail = obj[r][c].tail]
        s == fol[r].stored[c]
    IN IF fol[r].job = "revive" THEN obj[r][c]
       ELSE [o EXCEPT !.known = TRUE, !.cursor = IF s > o.cursor THEN s ELSE o.cursor]

\* catchUp: attach unless interrupted, and start again from a log that is shorter.
CatchUp(r, c) ==
    LET o == Begun(r, c)
        On(high, attached) ==
            /\ PutObj(r, c, [o EXCEPT !.attached = attached, !.cursor = IF o.cursor > high THEN 0 ELSE o.cursor])
            /\ Put(r, [fol[r] EXCEPT !.pc = IF o.cursor > high THEN "wipe" ELSE "pull",
                                     !.cur = c, !.todo = fol[r].todo \ {c}])
        there == Linked(r) /\ c \notin gone
    IN /\ fol[r].pc = "each" /\ c \in fol[r].todo
       /\ \/ c \in fol[r].naps /\ On(fol[r].high[c], FALSE) /\ NoFault
          \/ c \notin fol[r].naps /\ there /\ On(log[c], TRUE) /\ NoFault
          \/ c \notin fol[r].naps /\ ~there /\ On(fol[r].high[c], FALSE) /\ NoFault
          \/ c \notin fol[r].naps /\ there /\ On(fol[r].high[c], FALSE) /\ Fault("call")
       /\ Calm /\ UNCHANGED <<copy, lease, notes, hints, ledger>>

\* dropCursorAboveHighWater: the frames go, then the summary says so. Another replica that
\* writes this conversation, and the follower's own summary of a moment ago when it is still
\* on its way, may put the old cursor back.
Wipe(r) ==
    LET c == fol[r].cur IN
    /\ \/ /\ fol[r].pc = "wipe" /\ frames' = [frames EXCEPT ![c] = {}] /\ UNCHANGED row
          /\ Put(r, [fol[r] EXCEPT !.pc = "rewrite"])
       \/ /\ fol[r].pc = "rewrite" /\ row' = [row EXCEPT ![c] = obj[r][c].cursor] /\ UNCHANGED frames
          /\ Put(r, [fol[r] EXCEPT !.pc = "pull"])
    /\ Mark(If((\E q \in Replicas \ {r} : Holds(q, c)) \/ obj[r][c].tail > 0, c))
    /\ Calm /\ UNCHANGED <<lease, obj, notes, hints, left>>

\* pullUntilCaughtUp: page by page, until the machine has no more.
Pull(r) ==
    LET c == fol[r].cur
        from == obj[r][c].cursor
        last == IF from + PageSize < log[c] THEN from + PageSize ELSE log[c]
    IN /\ fol[r].pc = "pull" /\ Linked(r) /\ c \notin gone
       /\ Put(r, IF last > from
                   THEN [fol[r] EXCEPT !.pc = "write", !.page = last, !.more = last < log[c]]
                   ELSE [fol[r] EXCEPT !.pc = "save"])
       /\ Calm /\ UNCHANGED <<copy, lease, obj, notes, hints, ledger, left>>

\* The frames of the statement under way: a page pulled, a frame heard.
Written(r) ==
    [frames EXCEPT ![fol[r].cur] = frames[fol[r].cur] \cup
        IF fol[r].pc = "write" THEN obj[r][fol[r].cur].cursor + 1 .. fol[r].page ELSE {fol[r].page}]

\* writeFrames, then advanceTo; a page is not the last while the machine has more.
WritePage(r) ==
    LET c == fol[r].cur IN
    /\ fol[r].pc = "write" /\ frames' = Written(r)
    /\ PutObj(r, c, [obj[r][c] EXCEPT !.cursor = fol[r].page])
    /\ Put(r, [fol[r] EXCEPT !.page = 0, !.more = FALSE, !.pc = IF fol[r].more THEN "pull" ELSE "save"])
    /\ Calm /\ UNCHANGED <<row, lease, notes, hints, ledger, left>>

\* A frame heard in turn; touchSummary writes at once outside a window, in one later.
WriteFrame(r) ==
    LET c == fol[r].cur
        o == obj[r][c]
        first == o.known /\ ~o.open
    IN /\ fol[r].pc = "frame" /\ frames' = Written(r)
       /\ PutObj(r, c, [o EXCEPT !.cursor = fol[r].page, !.open = o.open \/ first,
                                 !.dirty = o.dirty \/ (o.known /\ o.open)])
       /\ Put(r, IF first THEN [fol[r] EXCEPT !.pc = "touch", !.page = 0]
                 ELSE [fol[r] EXCEPT !.pc = "idle", !.job = "none", !.cur = NoConv, !.page = 0])
       /\ Calm /\ UNCHANGED <<row, lease, notes, hints, ledger, left>>

\* Where the follower goes when it is done with a conversation.
Resumed(f, failed) ==
    IF f.job = "apply"
      THEN [f EXCEPT !.pc = "idle", !.job = "none", !.cur = NoConv, !.page = 0, !.more = FALSE,
                     !.resync = f.resync \/ failed]
      ELSE [f EXCEPT !.pc = "each", !.cur = NoConv, !.page = 0, !.more = FALSE, !.bad = f.bad \/ failed]

SaveSummary(r) ==
    LET c == fol[r].cur IN
    /\ fol[r].pc \in {"save", "touch"}
    /\ row' = [row EXCEPT ![c] = obj[r][c].cursor]
    /\ Put(r, Resumed(fol[r], FALSE))
    /\ Calm /\ UNCHANGED <<frames, lease, obj, notes, hints, ledger, left>>

\* A call fails, or a statement that may have been carried out all the same: the next
\* conversation is tried, a notification followed by a Sync.
StepFails(r) ==
    LET c == fol[r].cur IN
    /\ \/ fol[r].pc = "pull" /\ (IF Linked(r) /\ c \notin gone THEN Fault("call") ELSE NoFault)
          /\ UNCHANGED <<copy, ledger>>
       \/ /\ fol[r].pc = "wipe" /\ Fault("call") /\ UNCHANGED row /\ Mark({c})
          /\ \E S \in SUBSET frames[c] : frames' = [frames EXCEPT ![c] = S]
       \/ /\ fol[r].pc \in {"write", "frame"} /\ Fault("call")
          /\ frames' \in {frames, Written(r)} /\ UNCHANGED <<row, ledger>>
       \/ /\ fol[r].pc \in {"rewrite", "save", "touch"} /\ Fault("call")
          /\ row' \in {row, [row EXCEPT ![c] = obj[r][c].cursor]}
          /\ Mark(If(fol[r].pc = "rewrite", c)) /\ UNCHANGED frames
    /\ Put(r, Resumed(fol[r], TRUE))
    /\ Calm /\ UNCHANGED <<lease, obj, notes, hints>>

\* Sync or Revive is over: a start that failed ends the follower, one that was closed
\* meanwhile does and hints whom it was for, else it runs.
Settle(r) ==
    LET start == fol[r].job = "start" IN
    /\ fol[r].pc = "each" /\ fol[r].todo = {}
    /\ \/ start /\ fol[r].bad /\ Put(r, Ended(r, NoConv))
       \/ start /\ ~fol[r].bad /\ fol[r].closed /\ Put(r, Ended(r, fol[r].ask))
       \/ /\ start => ~fol[r].bad /\ ~fol[r].closed
          /\ Put(r, [Off EXCEPT !.pc = "idle", !.saved = fol[r].saved, !.conn = fol[r].conn,
                        !.link = fol[r].link, !.resync = fol[r].resync, !.closed = fol[r].closed])
    /\ Calm /\ UNCHANGED <<copy, lease, obj, notes, hints, ledger, left>>

ListFails(r) ==
    /\ fol[r].pc = "list" /\ (IF Linked(r) THEN Fault("call") ELSE NoFault)
    /\ Put(r, [fol[r] EXCEPT !.pc = "each", !.todo = {}, !.bad = TRUE])
    /\ Calm /\ UNCHANGED <<copy, lease, obj, notes, hints, ledger>>

-----------------------------------------------------------------------------
(* The running follower: one event at a time (run, hint.go).               *)

\* mutant: a notification is taken to follow the last one
GapNever(o, n) == FALSE

Gap(o, n) == n.seq > o.cursor + 1

\* Apply: a turn's boundary writes the summary, a duplicate nothing, a gap is pulled.
TakeNote(r) ==
    LET n == Head(notes[r])
        o == obj[r][n.c]
        Go(pc) == Put(r, [fol[r] EXCEPT !.pc = pc, !.job = "apply", !.cur = n.c,
                                        !.page = IF pc = "frame" THEN n.seq ELSE 0])
    IN /\ fol[r].pc = "idle" /\ notes[r] # <<>>
       /\ notes' = [notes EXCEPT ![r] = Tail(notes[r])]
       /\ \/ (~o.known \/ n.seq \in 1 .. o.cursor) /\ UNCHANGED fol
          \/ o.known /\ n.seq = 0 /\ Go("save")
          \/ o.known /\ n.seq > o.cursor /\ Gap(o, n) /\ Go("pull")
          \/ o.known /\ n.seq > o.cursor /\ ~Gap(o, n) /\ Go("frame")
       /\ Calm /\ UNCHANGED <<copy, lease, obj, hints, ledger, left>>

\* mutant: told of a deletion, it only stops writing
DroppingOnly(f, c) == [f EXCEPT !.saved = f.saved \ {c}]

Dropping(f, c) == [f EXCEPT !.saved = f.saved \ {c}, !.pc = "clear", !.cur = c]

\* applyHint: "saved" reads the list again, if it can, "deleted" drops the conversation and purges.
TakeHint(r) ==
    LET h == Head(hints[r]) IN
    /\ fol[r].pc = "idle" /\ hints[r] # <<>>
    /\ hints' = [hints EXCEPT ![r] = Tail(hints[r])]
    /\ \/ /\ h.kind = "saved" /\ UNCHANGED obj /\ Mark(Outdated(saves)) /\ NoFault
          /\ Put(r, [fol[r] EXCEPT !.resync = fol[r].resync \/ fol[r].saved # saves, !.saved = saves])
       \/ h.kind = "saved" /\ Fault("call") /\ UNCHANGED <<fol, obj, ledger>>
       \/ /\ h.kind = "deleted" /\ PutObj(r, h.c, Forgotten(obj[r][h.c])) /\ UNCHANGED ledger
          /\ Put(r, Dropping(fol[r], h.c)) /\ NoFault
    /\ Calm /\ UNCHANGED <<copy, lease, notes>>

ClearStored(r) ==
    LET c == fol[r].cur IN
    /\ \/ /\ fol[r].pc = "clear" /\ frames' = [frames EXCEPT ![c] = {}] /\ UNCHANGED row
          /\ Put(r, [fol[r] EXCEPT !.pc = "clearRow"])
       \/ /\ fol[r].pc = "clearRow" /\ row' = [row EXCEPT ![c] = NoRow] /\ UNCHANGED frames
          /\ Put(r, [fol[r] EXCEPT !.pc = "idle", !.cur = NoConv])
    /\ Mark(If(Meets(c), c))
    /\ Calm /\ UNCHANGED <<lease, obj, notes, hints, left>>

\* Logged, and left: nothing clears what is still there.
ClearFails(r) ==
    LET c == fol[r].cur IN
    /\ Fault("call") /\ Mark({c})
    /\ \/ /\ fol[r].pc = "clear" /\ UNCHANGED row
          /\ \E S \in SUBSET frames[c] : frames' = [frames EXCEPT ![c] = S]
       \/ fol[r].pc = "clearRow" /\ row' \in {row, [row EXCEPT ![c] = NoRow]} /\ UNCHANGED frames
    /\ Put(r, [fol[r] EXCEPT !.pc = "idle", !.cur = NoConv])
    /\ Calm /\ UNCHANGED <<lease, obj, notes, hints>>

TakeResync(r) ==
    /\ fol[r].pc = "idle" /\ fol[r].resync
    /\ Put(r, IF fol[r].saved = {} THEN [fol[r] EXCEPT !.resync = FALSE]
              ELSE [fol[r] EXCEPT !.resync = FALSE, !.pc = "list", !.job = "sync", !.todo = fol[r].saved])
    /\ Calm /\ UNCHANGED <<copy, lease, obj, notes, hints, ledger, left>>

Revive(r) ==
    LET stale == {c \in Convs : obj[r][c].known /\ ~obj[r][c].attached} IN
    /\ fol[r].pc = "idle" /\ stale # {}
    /\ Put(r, [fol[r] EXCEPT !.pc = "list", !.job = "revive", !.todo = stale])
    /\ Calm /\ UNCHANGED <<copy, lease, obj, notes, hints, ledger, left>>

\* keepalive: a lease not held, or a machine gone or back on another connection, or a
\* Redis command that fails, ends the follower; so does Unfollow.
Leave(r) ==
    /\ fol[r].pc = "idle"
    /\ \/ (fol[r].closed \/ lease # r \/ ~link.on \/ link.id # fol[r].conn) /\ NoFault
       \/ Fault("call")
    /\ Put(r, Ended(r, NoConv))
    /\ Calm /\ UNCHANGED <<copy, lease, obj, notes, hints, ledger>>

\* mutant: the lease is deleted whoever holds it
ReleasedAny(r) == NoReplica

\* releaseScript: compare and delete.
Released(r) == IF lease = r THEN NoReplica ELSE lease

\* stopFollowing and forget: the connection is closed, hints unsubscribed, the lease
\* released if it is still this replica's. Windows that are open run out by themselves.
Release(r) ==
    /\ fol[r].pc = "release"
    /\ \/ lease' = Released(r) /\ NoFault
       \/ UNCHANGED lease /\ Fault("call")
    /\ Put(r, [Off EXCEPT !.pc = IF fol[r].ask = NoConv THEN "off" ELSE "tell", !.ask = fol[r].ask])
    /\ obj' = [obj EXCEPT ![r] = [c \in Convs |-> [obj[r][c] EXCEPT !.known = FALSE, !.attached = FALSE]]]
    /\ notes' = [notes EXCEPT ![r] = <<>>] /\ hints' = [hints EXCEPT ![r] = <<>>]
    /\ Mark(Cut(r))
    /\ Calm /\ UNCHANGED copy

\* The summary's window has run out: what came in meanwhile is written once.
Elapsed(r, c) ==
    LET o == obj[r][c] IN
    /\ o.open /\ o.tail = NoRow /\ ~(fol[r].pc = "touch" /\ fol[r].cur = c)
    /\ PutObj(r, c, IF o.dirty THEN [o EXCEPT !.dirty = FALSE, !.tail = o.cursor] ELSE [o EXCEPT !.open = FALSE])
    /\ Calm /\ UNCHANGED <<copy, lease, fol, notes, hints, ledger, left>>

TailWrites(r, c) ==
    /\ obj[r][c].tail # NoRow
    /\ \/ row' = [row EXCEPT ![c] = obj[r][c].tail] /\ NoFault
       \/ UNCHANGED row /\ Fault("call")
    /\ PutObj(r, c, [obj[r][c] EXCEPT !.tail = NoRow])
    /\ Calm /\ UNCHANGED <<frames, lease, fol, notes, hints, ledger>>

-----------------------------------------------------------------------------
(* Crashes and time.                                                       *)

Crash(r) ==
    /\ Fault("crash")
    /\ Put(r, Off) /\ obj' = [obj EXCEPT ![r] = [c \in Convs |-> Untracked]]
    /\ notes' = [notes EXCEPT ![r] = <<>>] /\ hints' = [hints EXCEPT ![r] = <<>>]
    /\ pass' = (IF pass.at = r THEN NoPass ELSE pass) /\ req' = (IF req.at = r THEN NoReq ELSE req)
    /\ Mark(Cut(r) \cup If(req.at = r /\ req.step = "summary", req.c))
    /\ UNCHANGED <<machine, saves, todos, copy, lease>>

\* The lease runs out under a replica that crashed or, three renewals long, was busy.
Expire ==
    /\ lease # NoReplica /\ fol[lease].pc # "idle"
    /\ IF fol[lease].pc \in {"off", "claim", "tell"} THEN NoFault ELSE Fault("expire")
    /\ lease' = NoReplica /\ lost' = lost \cup {lease}
    /\ UNCHANGED <<machine, saves, todos, copy, memory, pass, req, deleted, crossed>>

MachineNext ==
    \/ \E c \in Convs : Emit(c) \/ Boundary(c) \/ Wake(c)
    \/ GoOffline \/ \E S \in SUBSET Convs : Return(S)

RequestNext ==
    \/ \E r \in Replicas, c \in Convs : Save(r, c) \/ Delete(r, c)
    \/ BeginLists \/ BeginFollows \/ Purge \/ Unsave \/ RequestFails \/ DeleteOnMachine

CronNext ==
    \/ \E r \in Replicas : ReconcileLists(r) \/ FindEmpty(r) \/ ReplayLists(r)
    \/ ReconcileFollows \/ Unfollow \/ ReplayClears \/ ReplayEnds
    \/ \E c \in Convs : Replay(c)

FollowerNext(r) ==
    \/ Claim(r) \/ Tell(r) \/ Prepare(r) \/ PrepareFails(r) \/ List(r) \/ ListFails(r) \/ Wipe(r)
    \/ Pull(r) \/ WritePage(r) \/ WriteFrame(r) \/ SaveSummary(r) \/ StepFails(r) \/ Settle(r)
    \/ TakeNote(r) \/ TakeHint(r) \/ ClearStored(r) \/ ClearFails(r) \/ TakeResync(r) \/ Revive(r)
    \/ Leave(r) \/ Release(r)
    \/ \E c \in Convs : CatchUp(r, c) \/ Elapsed(r, c) \/ TailWrites(r, c)

MirrorNext ==
    \/ MachineNext \/ RequestNext \/ CronNext \/ Expire
    \/ \E r \in Replicas : FollowerNext(r) \/ Crash(r)

MirrorSpec == Init /\ [][MirrorNext]_vars

-----------------------------------------------------------------------------
(* Properties.                                                             *)

\* A follower past its claim holds the machine's lease unless that ran out under it: no
\* other replica takes or releases it meanwhile (lease.go's two scripts and SETNX).
LeaseIsKept ==
    \A r \in Replicas \ lost : fol[r].pc \notin {"off", "claim", "tell"} => lease = r

\* A purge or a wipe of c is between its two statements, or a hint of it is not heard.
Underway(c) ==
    \/ req.c = c /\ req.step = "summary"
    \/ \E r \in Replicas : Told(r, c) \/ Clearing(r, c) \/ (fol[r].pc = "rewrite" /\ fol[r].cur = c)

\* The cursor a summary stores is the next start of the mirror, so every frame up to it
\* is there, whatever crashed, failed or was followed twice: a hole is never pulled again.
StoredHonest ==
    \A c \in Convs \ crossed :
        ~Underway(c) => \A n \in 1 .. row[c] : n \in frames[c]

\* What was never saved, or was deleted, leaves no word on the server (decision 2): rows
\* of it are at most those a replica is about to clear.
NothingUnsaved ==
    \A c \in Convs \ (saves \cup crossed) :
        frames[c] # {} \/ row[c] # NoRow =>
            \E r \in Replicas : Told(r, c) \/ Clearing(r, c)

\* A deletion reaches the machine, at once or by a todo that waits for it.
DeletionReaches == deleted \ crossed \subseteq gone \cup todos

\* One follower per machine, and no deletion forgotten, in states of the right types.
MirrorInv == TypeOK /\ LeaseIsKept /\ DeletionReaches
=============================================================================
