# Verification of agentre-server

TLA+ models of the parts of agentre-server whose correctness depends on order:
several replicas of one Go program share nothing but a MySQL database and a
Redis server, and every handler, cron job and websocket goroutine may run on
any of them at once (`docs/architecture.md`, "Multi-instance safety"). The
models are written from the source; source files and lines of every definition
are in `PROJECT.json` under `map`.

| module | component | checked by | proved in |
|---|---|---|---|
| `Sync` | workspace sync and the server's own writes to it | `MCSync`, 4 runs | `SyncProofs` |
| `DeviceAuth` | pairing a machine, its tokens, revocation | `MCDeviceAuth`, 1 run | `DeviceAuthProofs` |
| `Credential` | what device authorization promises (abstract) | refined by `DeviceAuth` | `DeviceAuthProofs` |
| `Relay` | frames from a machine to browsers on other replicas | `MCRelay`, `MCSend`, 1 run each | `RelayProofs` |
| `Mirror` | the account's copy of saved conversations, saving and deleting them | `MCMirror`, 1 run | `MirrorProofs` |
| `RelayLink`, `SessionStream`, `ClientPool`, `AccountChannel` | the console's transport | `MCTransport`, 1 run | `TransportProofs` |
| `SessionSend` | what becomes of a message | `MCSend`, 1 run (beside `Relay`) | `SendProofs` |
| `Transcript`, `SessionSettings`, `OrgPage`, `Projects`, `ProjectFs` | pages that show one object | `MCDetail`, 1 run | `DetailProofs` (`ProjectFs`, `SessionSettings`) |
| `SessionIndex`, `MachineIndex`, `Devices`, `EngineSettings`, `OrgTargets`, `FilePreview` | lists | `MCLists`, 1 run | `ConsoleProofs` (`SessionIndex`, `MachineIndex`), `DetailProofs` (`Devices`) |
| `Board`, `Forwarding`, `Draft`, `SignIn`, `AccountPage`, `Decisions` | forms and dialogs | `MCForms`, 1 run | `ConsoleProofs` (`Decisions`, `Draft`) |

To check: `tlc -config MCSync_order.cfg MCSync` and so on for the runs in
`PROJECT.json`; to prove: `tlapm SyncProofs.tla` and so on.

## 1. The system and its parts

All paths are under `src/internal/` unless they start with another directory.

| component | state it keeps | operations | what is hard | what makes it correct |
|---|---|---|---|---|
| **Workspace sync** (`service/sync_svc`, `repository/sync_repo`) | MySQL: `sync_objects` (rows with a version, tombstones), `sync_account_seqs` (version sequence), `sync_device_states` (last sync) | Push, Pull, PurgeDeviceSyncObjects, ReclaimExpired | concurrent pushes and web writes, pages cut by a limit, offline devices, tombstones reclaimed after a window | no row skipped by a cursor, unique versions, no silent overwrite, no revived deletion, one live row per natural key, devices converge |
| **Server direct writes** (`service/workspace_svc`, and `engine_svc`, `issue_svc`, `ctl_svc` through it) | the same tables | create, update, delete with cascade, reorder | read-merge-write against pushes, checks made before the transaction | same as sync; no orphans or cycles in the trees of projects and departments |
| **Device authorization** (`service/device_svc`, three repositories) | MySQL: device codes, devices, tokens | Authorize, Approve, Deny, ExchangeToken, Refresh, Revoke, bearer resolution, cleanup | retries and races of every pair of these; Revoke is two statements | a code or token has one successor at most; denied and revoked mean it |
| **Relay service** (`service/relay_svc`) | memory: queues and workers per link, route cache, breaker, attachments; Redis: presence, streams and pending entries, receipts | Attach, detach, forward, consume, acknowledge, register and renew a machine | goroutines against a mutex, Redis failing between calls, at-least-once delivery | a receipt means delivery, order within a channel, no dead channel, no head-of-line blocking |
| **Relay controllers** (`controller/relay_ctr`, `pkg/relaywire`) | memory: channels open on a browser's connection | open, close, handle frames, drain | caps, reserved channels, takeover of a link | a channel is wound up once, caps hold |
| **Session mirror** (`service/mirror_svc`) | Redis: lease per machine; MySQL: sessions, cursors, queued deletions; memory: followers | follow, pull pages, reconcile, purge, replay deletions | one follower over all replicas, a machine that lost its history, deletions replayed late | at most one follower writes, cursors never skip, a purge is final |
| **Saved sessions** (`service/saved_session_svc`, `agent_session_svc`, `repository/agent_session_repo`) | MySQL | save, unsave, list, delete | the last unsave racing a save | a saved session has a follower |
| **Port forward** (`service/portforward_svc`) | memory: pooled connections; Redis: codes and tickets | Acquire, dial, reap, Stop, Redeem | acquire racing reap, failed dial and stop | one dial per entry, no leak, no use after close |
| **Account channel** (`service/accountchan_svc`) | Redis pub/sub; memory: signal boxes | Subscribe, broadcast, drain | subscription before upgrade, merged signals | a signal after subscription is never lost for good |
| **Accounts, sessions, OAuth, passkeys** (`auth_svc`, `user_svc`, `oauth_svc`, `passkey_svc`, `pkg/session`, `pkg/credstore`) | Redis: states, sessions, relay credentials, cached verdicts; MySQL: users, credentials | login, logout, renew, consume state, gate | renewal racing logout, cached verdict racing a ban | single use, logout sticks |
| **Activity statistics** (`activity_svc`) | MySQL | pull from a machine, aggregate, switch off | a pull under way while the account switches off | nothing stored after the switch |
| **Cron, shutdown, migrations** (`task`, `src/migrations`) | Redis period locks, MySQL advisory lock | run a job once per period, drain, migrate | lapse of a lock, crash of its holder | one run per period, one migrator |
| **Imports, releases, middleware, bootstrap** | none shared | | | |
| **Console: transport** (`src/frontend/src/lib/relayConnection.ts`, `relayClient.ts`, `relayClientPool.ts`, `accountChannel.ts`) | memory: one websocket, channels, cursors, leases, merging window | dial, handshake, attach, catch up, lease, subscribe | timers and awaited answers against closing and reconnecting | no retry after close, no frame skipped, every lease counted, stale data pulled |
| **Console: conversation** (`components/session`) | memory of a view that is not remounted | load, scroll up, send, steer, withdraw, choose a model, decide, preview | three sources of one list; answers of the last conversation; turns that end meanwhile | no hole, no repeat, nothing said is lost or strays |
| **Console: lists** (`pages/chat`, `pages/Devices.tsx`, `lib/enginePorts.ts`, `pages/org`) | what was read last, optimistic marks | page, save, remove, rename, reorder, undo | overlapping reads and writes in any order | one range at a time, the list comes to rest on the server's |
| **Console: forms** (`pages/issues`, `components/devices`, `newconv`, `pages/Login.tsx`, `Device.tsx`, `Account.tsx`) | drafts, dialogs, countdowns | search, drag, start, approve, add | late answers for something else | nothing typed is lost, every dialog ends |
| **Console: shell and plain views, e2e, deploy** | none shared | | | |

How they interact. A desktop pulls and pushes over HTTP; every write broadcasts
a hint over the account channel, which makes other devices pull at once, but
they also poll, so no correctness rests on the hint. Purging a departing
machine is a call of device handlers into sync. A browser opens virtual
channels over one websocket; the relay finds the machine's replica through
Redis and frames cross replicas in Redis streams. The mirror and the port
forward are clients of the relay inside the server. The gate and the bearer
resolution run in front of all of it. The console is the browser's half: its
relay clients share one websocket, its pages lease them from a pool, and every
list is read again when the account channel says that it changed.

The hazards are listed in `PROJECT.json`, each at its line with the property
that would catch it; those of components not yet modelled name the planned
module.

## 2. Plan

1. **Done.** The server's `Sync`, `DeviceAuth` with `Credential`, `Relay` and `Mirror`; the
   console, module by module. Proved are all safety properties of the server's modules,
   the refinement, and of the console its transport, sends, decisions, drafts and the
   list of a machine (section 9).
2. **Prove more**: the invariants of the console's lists and forms.
3. **Model more**: the rest of the server's shared state. `DaemonPresence`
   (register, renew, take over a machine's route; composed with `Relay`),
   `OrgTree` (decisions on state read before the
   transaction), `Pool` (shared dial, reaping), `Tickets`, `SignalBox`,
   `PeriodLock`. The hazards they are for: two links of one machine on two replicas
   own its route in turn (`relay_svc/relay.go:217`); a parent checked before the
   transaction (`workspace_svc/workspace.go:1277`, `ctl_svc/write.go:36`); an
   OAuth state taken twice (`auth_svc/auth.go:113`), a verdict cached after the
   cache was cleared (`user_svc/gate.go:86`); a period's lock that lapses
   (`task/task.go:68`); a connection reaped while it is acquired
   (`portforward_svc/pool.go:333`).
4. An abstract replicated log that `Sync` and `SessionStream` both refine.

Every module takes its sets and bounds as CONSTANTS, has one action per statement
or handler and no RECURSIVE operator, so that it can be proved about as it stands.

## 3. Workspace sync (`Sync`)

### State and actions

| variable | in the program |
|---|---|
| `rows` | committed `sync_objects` of one account; a row keeps its kind, natural key, version, deletion instant and origin |
| `seq`, `lock` | `sync_account_seqs.version_seq` and the InnoDB lock on that row |
| `tx` | each handler's request: its arguments, what it read early (`todo`, `stale`), its uncommitted rows (`ws`), its version block (`next`, `last`) and the sequence as it sees it |
| `pull`, `cursor`, `copy` | a pull between its statements; what a device stored |
| `lastSync` | `sync_device_states.last_sync_at` |
| `now` | the server's clock |

A push is `PushStart` (validation and window check, outside the transaction),
`PushOpen` (the lock and the block of versions), one `PushRefused`, `PushWrite`
or `PushMerge` per item and `Commit`. `WebCreate`, `WebUpdate` and `WebDelete`
take the lock first and read then; `PurgeRead` and `ReorderRead` read first and
`OpenLate` takes the lock. `TombstoneNext` and `ReorderNext` write one row each; a
request of the second kind answers for the version it read early (`Seen`), not for
the one it replaces.
`Abort` is an error or a crash: InnoDB rolls back. A pull is `PullList` with
`PullDeliver` or `PullLost`, or `PullEmpty`, `PullHead`, `PullTouch`. `Reclaim` is
the cron job. Accounts share no row here, so one account is modelled.

A payload is the set of versions its author answered for: the base it was
written on, and the version its conflict answer names. That is all the
properties can tell apart. Devices are external: they apply pages in order and
start over when told to, which is what the answers of Pull ask of a client.

Between statements of one transaction the model does not let other transactions
in where the lock forbids it, and the model reads rows as of the lock. The
repository runs MySQL at REPEATABLE READ: the snapshot of Push and of
`WithOrgWriteTx` is taken after the lock. A purge takes its snapshot before it,
which is what `PurgeRead` does, and its UPDATE statements see the latest rows.

### Runs

| run | instance | shows |
|---|---|---|
| `order` | 2 workers, 1 device, 2 ids (one with a natural key, one below the other), pages of 1, 4 versions; 1.5M states | `CursorComplete`, `NoSilentOverwrite`, `NoRevival` under all write paths |
| `batch` | 1 worker, pushes of 2 items, an id pushed under 2 kinds, 1 natural key for 2 ids; 3.1M states | `UniqueVersions`, `OneLivePerKey` |
| `window` | 1 worker, 1 device, window 1, clock to 5, reclaiming, resynchronising, pages of 1; 246k states | `Inv`, `EventuallyDelivered` |
| `revived` | violation of `DeletionIsFinal` | section 8, 1 |

Bounds. Two workers are enough for every pair of write paths to overlap; a third
would wait for the same lock. Two ids give a page that is cut, a batch on one id
and on two, a natural key contested, and a root with one row below it. Four
versions fit one merge and two more writes. Pages of one row are the sharpest
case for cutting. The clock of `window` passes the window twice, so that a
device can fall behind, start over and catch up. Devices and workers are
symmetric where a run checks no liveness.

Fairness (`FairSpec`). A handler that began runs on (weak fairness of its next
statement), the desktop polls every 30 seconds (weak fairness of `Poll`) and not
every answer is lost (strong fairness of `PullDeliver`: delivery is enabled again
and again, not continuously). `EventuallyDelivered` assumes that the device is
from some time on no longer beyond the window: a device that pushes in the
middle of every resynchronisation, before it reaches an empty page, is sent back
each time by the code.

### Properties

- `CursorComplete` is what the long comment in `Push` argues for: the lock held
  until commit makes the order of versions the order of commits.
- `NoSilentOverwrite` and `NoRevival` are action properties over all write paths.
  `NoRevival` excepts `SetExecTargetOrder`, whose exception is the run `revived`;
  `NoSilentOverwrite` excepts a row written between the early read of a purge or of
  `SetExecTargetOrder` and its lock (section 8, 2).
- `OneLivePerKey` is stated of what an open transaction is about to publish, so
  that the partial unique index never rolls a push back.
- `EventuallyDelivered` is liveness with lost answers and continued writes.

### Proof

`SyncProofs` proves `Spec => []Inv` for any sets and bounds. `CursorComplete` is
not inductive: whether a cursor stays complete depends on what an open
transaction will commit and on what a page under way contains. `Inv` adds

- `RowsInv`: committed versions are unique and at most `seq`;
- `TxInv`: a transaction is open exactly when it holds the lock; it has written
  only versions above `seq`, all different and below the next one it takes
  (`Ahead`), and the root it will delete is still live;
- `CursorInv`: cursors and pages end at or below `seq`;
- `PageInv`: a page under way completes the copy up to its last version.

There is one lemma per action, most of them over four shapes of step
(`StartStep`, `AcquireStep`, `WorkStep`, `DeviceOnly`), and `CommitInv`, where
`Ahead` meets `CursorInv`: everything published lies above every cursor.
`TypeCorrect`, `VersionsUnique` and `NothingSkipped` follow by PTL.

Not modelled: avatars; broadcasts; accounts without a sequence row; a cursor
beyond the head (it takes a restored database); transactions of several server
writes (`WithOrgWriteBatch`); the branch of a merge where the loser was already
gone, which the lock makes unreachable; the receiver's own index, on which the
order of `PushMerge`'s versions matters (`sync.go:549`).

## 4. Device authorization (`DeviceAuth`, `Credential`)

### State and actions

`flow` is `device_flow_codes`, `dev` the status of one machine's row in each
account, `tok` the token rows (a deleted one is kept as `gone`), `job` a request
with what it has read. Every statement outside a transaction is a step.
`ExchangeToken`'s transaction is three: `ExchangeConsume` (the UPDATE that locks
the code's row), `ExchangePrevious` (the snapshot read of the device, which locks
nothing) and `ExchangeGrant` (its other writes, up to commit). `Refresh`'s
transaction is decided by its first UPDATE and is one step. `Revoke` is
`RevokeChain` and `RevokeDevice`, in no transaction, as in the code. `Abort` is
an error, a lost connection or a crash at any step; an answer that is lost is a
step that happened and a client that starts again. Clocks advance between any
two steps, and a request keeps the instant it took at its beginning, as the
handlers do.

`Credential` is the promise: a code or refresh token is unissued, live, spent or
void, and is exchanged for one fresh token at most. `DeviceAuth` maps onto it
with `Use`: a code is live once approved, spent once consumed, void when denied
or cleaned up; a token is live while its row is there and not revoked, spent
when another row came from it.

### Runs

| run | instance | shows |
|---|---|---|
| `exchange` | 2 codes, 3 tokens, 1 account, 2 requests at once, clock to 4 with lifetimes of 1 and 2; 268k states | `Inv`, `ImplementsCredential`, `RevocationSticks` |

Bounds. Three tokens are a chain with two rotations; two codes are a machine
paired, revoked and paired again; two requests are every pair of handlers.
Lifetimes of one or two units let expiry fall before, between and after the
steps of a request. The second code is asked for once the machine has
been removed, and is then spared the last tick (`AgainWhenRemoved`, an action
constraint): with two codes at all times the instance is beyond the time a run
should take. Tokens and requests are interchangeable and no run has liveness, so
both sets are symmetric. Deadlock is not checked: with no code or token left to
issue, the instance stops.

### Proof

`DeviceAuthProofs` proves `Spec => []Inv` and `Spec => ImplementsCredential` for
any sets and lifetimes. `Inv` is the invariant that the refinement needs: what a
request has read stays true enough (`JobInv`: a code approved once stays
approved, a token once issued stays issued), two requests never hold one code's
row (`LockInv`), every token has one source, which is consumed or revoked
(`SourceInv`), and `DeniedNeverGranted`. `RefinesNext` maps each action:
`ApproveWrite` to Issue, `ExchangeGrant` and `RefreshRotate` to Spend (with the
rows dropped as V), denial, revocation, replay and cleanup to Withdraw, the rest
to stuttering.

`RevocationHolds` proves `RevocationSticks` in the same way, over a stronger invariant
(section 9). Not modelled: collisions and retries of
user codes, renaming and listing, several machines, caching in front of the
bearer. The purge of a machine's objects is `PurgeRead` of `Sync`.

## 5. Relay (`Relay`) and mirror (`Mirror`)

### State and actions

One machine's link ends at one replica; a channel's browser is on this replica
or on the other (`far`, fixed for the channel's life). On the link's replica:
`reader` is `enqueue` between releasing the mutex and the channel send;
`current` and `queue` are `daemonFanout.queues` and the queues themselves, the
dropped ones included; `worker` is the goroutine of each queue; `route` and
`dead` are the route cache and the breaker. In Redis: `presence`, `stream`, `pel`
(the consumer group's pending entries). On the other replica: `client`
(attachments), `live` and `consumer` (goroutines, the cancelled ones included,
which share one consumer name and therefore one list of pending entries).
`got` is what was written to each browser.

`Receive` and `Put` are the two halves of `enqueue`; `Take`, `DeliverHere`,
`Refuse`, `Publish`, `Confirmed`, `TimeOut`, `PublishFails`, `Stop` and
`RetireIfIdle` are the worker; `Read`, `Deliver`, `Acknowledge`, `Drop` and their
failures the consumer; `Attach`, `Detach` and `Unregister` the browser's handler,
each in the pieces between which others can run. A failed Redis call may or may
not have been executed: `ReadFails`, `AcknowledgeFails` and `PublishFails` have
both outcomes. `MaxFaults` bounds failures; the timeout of a receipt, the expiry
of the breaker and of a cached route are choices made at any time.

### Runs

| run | instance | shows |
|---|---|---|
| `sends` (`MCSend`) | 2 channels, both near or one far, 2 queues of depth 1, 2 consumers, 2 frames, 1 fault; 412k states | `RelayInv` (types, every listed queue is served), `ReceiptMeansDelivered`, `OrderedThroughRetries` |
| `drains` | 2 channels, both near or both far, 1 consumer, 2 frames, 1 fault; 521k states | `StreamDrains` |

Bounds. Depth 1 makes the second frame overflow; two frames are what order is
about; two consumers are one cancelled and its replacement; two channels share
the stream, the breaker and the consumer. One fault is every single failure at
every point. Channels, queues and goroutines are numbered and taken in order, so
renaming them yields no second state and no symmetry is declared. Deadlock is
not checked: the machine sends a bounded number of frames.

Fairness (`FairSpec`): goroutines run on. Nothing is assumed of browsers, of the
machine or of Redis; failures are finite because they are bounded.

`OrderedThroughRetries` is stated of the frames of one worker and excepts a
consumer that replaced another. Both limits are real and were found by TLC:

- A queue that overflows is replaced at once while its worker may still forward
  a frame; the new queue's worker can overtake it. `fanout.go:20` argues that
  order within a channel holds because it has a single goroutine, which is then
  not so.
- A cancelled consumer blocked in XREADGROUP still takes frames that were
  published for a browser attached since, and works on the same pending entries
  as its replacement.

`RelayProofs` proves `RelayInv`, `ReceiptMeansDelivered` and `OrderedThroughRetries`
(section 9); `StreamDrains` is only model-checked. Not modelled: the direction from a browser to a
machine, the health probe, lifetimes of the stream and of receipt lists, crashes
of a replica, reads of at most 16 entries (the instances have fewer), a link
that attaches again after `Close`, back-off times. `AttachFails` is the failed
registration and its detach in one step, and covers the case that starts a
consumer.

Seen while modelling and left without a property, because the repository
promises nothing else: one receipt that times out opens the breaker
for all browsers of the other replica; XGROUP DELCONSUMER of a last detachment
may discard what a newly attached browser's consumer has pending; an EXPIRE does
not restore a presence that has lapsed.

### The mirror of conversations (`Mirror`)

The account's copy of what a user saved: one replica follows a machine, attaches to its
conversations, pulls what it missed and stores frames and, debounced, a summary with
the cursor up to which the frames are there. One machine of one account is modelled,
with every replica that may follow it; the queues of the relay stand behind `Notify`.

| state | code |
|---|---|
| `lease` | `mirror:machine:...` in Redis (`lease.go`) |
| `fol[r]` | the follower of a replica: where `start`, `run`, `Sync`, `Revive` or `Apply` is (`pc`, `job`), the list it was given, what the machine's list said, the connection it read and the one it dialled (`resident.go`, `mirror.go`) |
| `obj[r][c]` | `trackedSession` and its `debounceWindow`, with a trailing write under way (`tail`) |
| `notes`, `hints` | the live notifications (`liveNoteBuffer`) and the hints (`hintBuffer`) not yet handled |
| `saves`, `todos`, `frames`, `row` | `agent_session_saves`, the deletions that wait for a machine, stored frames, `latest_seq` of the summary |
| `log`, `asleep`, `gone`, `link` | the machine: its log, conversations interrupted or deleted, its connection (external) |
| `req`, `pass` | a save or deletion, and a cron job, between two of its statements |

A database statement, a Redis command or a call to the machine is one action: a purge is
two, a page is pulled, written and then summarised, a start reads the connection, dials
and lists. `StepFails`, `ListFails`, `PrepareFails`, `ClearFails` and `RequestFails` are
those statements failing, carried out or not; `Crash` and `Expire` end a replica or its
lease at any step.

`MCMirror` starts from 14 small budgets, each of which makes one encounter possible: a
lease that runs out under its holder, a deletion on another replica than the one that
follows, its hint lost, a machine back with a shorter log, with a crash or a failed call
in the rewriting, interrupted conversations, deletions that wait and are overtaken by a
new save, a live frame or the end of a turn lost. Two conversations, two replicas, three
frames, pages and queues of one are enough for a cursor to be behind, at and beyond
every limit. Replicas and conversations are interchangeable, so symmetry is used. There is
no fairness, the properties are about safety; and since the budgets end, so may a run
(`CHECK_DEADLOCK FALSE`). 2.4M states.

- `MirrorInv`: a follower past its claim holds the lease unless that ran out under it
  (`LeaseIsKept`), and what was deleted is deleted on the machine or waits in a todo
  (`DeletionReaches`).
- `StoredHonest`: every frame up to a stored cursor is stored, since a hole below it would
  never be pulled again. Nothing is excepted for a machine whose log became shorter.
- `NothingUnsaved`: rows of a conversation that is not saved are at most those a replica
  is about to clear.

The last two, and `DeletionReaches`, except conversations in `crossed`: those of which two
replicas, or two statements that failed or were cut off, have met, or a follower with its own write
still on its way. `crossed` is marked
exactly where the code loses its word, so that the three properties say what it keeps
everywhere else; section 8 lists the encounters.

## 6. The console's transport and sending (`RelayLink` to `SessionSend`)

JavaScript runs one handler at a time. In this and the next section an action is
one handler, effect or promise continuation with everything it sets, and what is
awaited is a record in flight between two actions; it is served at one moment
and its answer arrives at another, or it fails. React commits a state change
together with the effects that depend on it, and so do the actions. Timers are
armed or not; how long they last is left out, except where one is raced. The
server, the machines and the browser's history are external and are modelled from
the requests made of them.

| module | state | what it shows (`...Inv`) |
|---|---|---|
| `RelayLink` | the websocket and every one before it, dialling tasks, one relay client per channel with its handshakes and timers, reconnects on their way to a client | connected means authenticated on this very socket, if there is one; a client the pool has given up opens and arms nothing again, but for a reconnect asked for before |
| `SessionStream` | the machine's rows (rewritten, undecodable and forgotten ones too), the wire, the cursor, gate and pull of a client | the cursor never passes a row that was not handed over; no row twice while nothing was forgotten; one pull at a time |
| `ClientPool` | the account's connection, the entry of each target with the promise calls wait for, pages and calls, acquires whose page has gone, reconnects under way | leases are counted exactly, a client nobody holds is on its way out, a page shows the state of its own client or the word of its own reconnect, a call that waits has a `connect()` to wait for |
| `AccountChannel` | the handle, window, poll and visibility gate, mounted pages and what is stale on them, the lamp | no timer without a subscriber, the lamp tells the connection's state |

`MCTransport` puts the four side by side: they share no state, `part` says which
one moves, and one run of 332k states replaces four. The pool moves in two parts, a page
and two calls on one target, and a page of two targets: both at once are too many states. `TransportRecovers` is the
liveness of the three that have some: a connection that waits to redial is usable
again, a handshake that waits is accepted, a gap is healed, a stale visible page is
pulled.

Fairness: a socket that is opening opens or fails, a ticket and a credential
arrive, an armed timer fires, questions on the wire are answered and what is on
the wire is read. Nothing is assumed of faults; they are bounded, and the
properties speak of what follows the last one. Bounds: three sockets, two dialling
tasks and three handshakes are an old one, a current one and its successor; four
rows in pages of two have a gap, a hole and a forgotten prefix; two undecodable ones
(`MaxBad`) fill a page by themselves, which is where a catch-up ends without having moved
its cursor (`AtWall`, section 8); two faults of the link and one reconnect are a drop and a
reconnect that meets an eviction; two targets, two calls, one page and one reconnect under
way (`MaxAsks`) are every overlap of leases.

### Sending (`SessionSend`)

The view of a conversation is not remounted when another one is opened, so the
results of the last conversation's requests come back to the next. `scr` is what is
on the screen, `tasks` what is awaited, `machine` the turns and mailboxes, `inbox` the
turn's events on their way, `said` a history of every message. A message is sent,
checked, steered into a running turn, queued, withdrawn, refused, lost with the
connection (it may still be executed: `late`), drained at a turn's end or continued
by itself. `SendInv`:

- `Kept`: the composer is emptied on submission, so the text must be on the screen,
  in flight or at the machine until its user lets it go. The code sheds it in four
  places only, which the definition names;
- `StaysHome`: a message appears and arrives only where it was typed;
- `SpinnerIsHonest`, `WithdrawIsAwaited`: what is said to be under way is.

The run `sends` starts from seven small budgets (two messages in an idle and in a
running conversation, a lost connection, a switch, an image, the `/compact` command),
and has the relay of section 5 beside it; 2.8M states in all. There is no fairness: it is about safety.

## 7. The console's pages

Each module has a set of starts, records that give the state of account and machine
and how often each kind of thing may still happen (`...Starts`); the bounds are the
budgets, and the starts are chosen in the MC module so that each pair of operations
overlaps in some start. `MCDetail`, `MCLists` and `MCForms` put the modules side by side
as `MCTransport` does (391k, 277k and 224k states). A liveness property of a module
is required where its part moves; `OpeningEnds` and `LateEnds` of `MCDetail` and `WaitingEnds` of `MCForms` say those of
several modules in one formula. `DetailKeepsOn`, `ListsKeepOn` and `FormsKeepOn` are the
conjunctions of the liveness and action properties; each module's invariant is the
conjunction of its named parts.

| module | what it shows |
|---|---|
| `Transcript` | rows of one conversation, in order, once each, without a hole, and nothing missing at the top that the view denies, put together from saved rows, the machine's tail, catch-ups and pages scrolled to; loading ends and what was said is shown |
| `SessionSettings` | a control whose writes did not overlap and had a client tells what is stored on both machines; of several choices the last counts; the process runs what is stored |
| `Decisions` | what is said to be handled was; an answer reaches the agent or its failure is told; what waits is shown |
| `FilePreview` | the layer's history entry covers its own conversation, hiding never backs out of it; an opened file is seen; the document is the one of its conversation and directory and catches up with a turn's changes |
| `SessionIndex` | pages of one range, one at a time; a row shown as saved is; a range settles and the first page catches up |
| `MachineIndex` | connected means this range was answered over this channel; a popup's pages are of its range |
| `Devices` | details asked for once, the guide opens on a list that was read empty, the list comes to be the account's and never goes back while reads do not overlap |
| `EngineSettings` | taking a row back restores it, a save is kept or reported, its token stored or cleared, writing one model leaves the others alone, models are offered for the configuration asked with |
| `OrgPage` | of two writes of a field the later wins although the object was closed between them, a failure is told in the detail or, when another was opened, by the page, an older answer does not clear an error |
| `OrgTargets` | a drag moves one target, an order made from an old list loses none and leaves pinned ones in place, the catalog is the machine's |
| `Board` | the own write is shown, a dropped card stands where it was dropped whatever the search hides, unless the two it was dropped between have one number; a machine has an agent, the board never goes back |
| `Forwarding` | rows are declared ones, reach is of the last answer, a blank tab is sent somewhere or closed |
| `Draft` | a run goes where it was picked, what is said of it is so, a failed Pi generation is aborted, the text of a failed start comes back |
| `SignIn` | one joins the account the page showed, a lapsed code is not shown for a machine that was let in, the code survives failed passkeys, being turned away and a change of account |
| `AccountPage` | edited in place the passkeys are what a read would show, a list that is missing says so |
| `Projects` | what is cleared and named belongs to the project the dialog is about, the tree catches up |
| `ProjectFs` | one lease per machine, all given back when the page goes |

Conditions in these invariants are histories that mark a known exception
(`load.upset`, `late`, `crossed`, `mixed`): without them TLC finds the behaviours
listed in section 8, and with them it shows that nothing else breaks the property.
The condition is raised at the one step that starts the exception.

Fairness: every request in flight is answered or fails, an answer that has come is
handled, an effect that is due runs, a signal of the account channel is heard. That is
what the browser's event loop and the time-outs of `fetch` give; a promise the
relay leaves unsettled is not assumed to settle. Deadlock is not checked: the budgets
run out. Bounds: two conversations, objects or machines are one the page is on
and one it goes to or came from; three rows are a first page, a further one and what
is appended; the budgets admit one fault and two or three operations at a time.

Positions on the board are numbers per column, a `Step` of 4 apart instead of 65536: with
two drops in a run every midpoint is whole. Equal numbers come about as in the code, by a
change of column that keeps the number and by creations numbered before their
transactions, and identities (`Rank`) then decide.

## 8. What the code does not keep

Every module ends with the properties that the repository states, or a user would
expect, and that TLC refutes when they are put into the configuration. One is a run:

1. `revived` (`DeletionIsFinal`): `SetExecTargetOrder` reads rows before its
   transaction (`workspace.go:746`) and saves them whole, so that a deletion
   committed in between is undone; `sync.go:463` and `workspace.go:1541` say otherwise.

On the server:

2. `EveryOverwriteKnown`: a purge tombstones by id, in whatever version it is, a row it has
   read before the lock (`sync.go:733`, `object.go:207`); what a desktop has committed
   in between is deleted unread, and nobody is told.
3. `TombstoneOutlivesWindow`: a deletion recorded a window ago is clamped to exactly
   the reclaim cutoff and gone at the next sweep (`sync.go:802`), the case the
   comment gives as what the clamp prevents.
4. `RevokedTokensStayDead`: an exchange that reads the device before a revocation
   and commits after it keeps the old tokens, which resolve again (`device.go:326`).
5. `RevokedIsNotReplay`: a refresh between the two statements of `Revoke` is taken
   for a replay (`device.go:578`).
6. `RetiredWithNothing`: `enqueue` may put a frame into a queue that was retired
   after the lookup (`fanout.go:92`); the frame is never read.

7. Of the mirror (what `crossed` excepts): a purge that meets an older list of what is
   saved (`ReconcileFollows`), a catch-up or a trailing write under way brings rows back.
   `forgetSession` is content with a follower of its own replica, though that may have lost
   its lease, and does not tell the one that follows (`sessions.go`). A deletion hinted
   and not heard leaves the conversation until the next pass. A crash or a failure between
   the two statements of a purge, or in `dropCursorAboveHighWater` before the summary is
   rewritten, leaves a cursor above frames that are gone; so does the follower's own
   trailing write (`debounce.go:62`) that has read the old cursor and is still on its way when
   `dropCursorAboveHighWater` (`mirror.go:763`) wipes the log. `ReplayPendingDeletes` strikes off
   a deletion asked for again after it had read what is saved; a crash between `Unsave`
   and `DeleteOnMachine` leaves the machine's copy without a todo.
8. Of the mirror, without being a violation: a log that was rewound and has outgrown the
   cursor again is not noticed; the last frame of a turn that a full inbox drops is pulled
   only with the next; a trailing write may put an older summary over a newer.

In the console's transport: a reconnect reopens the client it was asked for after its
awaits, without asking whether the pool has evicted it meanwhile (`relayClientPool.ts:223`),
so that a client given up opens its channel for nobody (`GivenUpStaysClosed`). It
also says that it worked to a page whose acquire had failed, which then says "connecting"
without a client to come (`ConnectingHasClient`, `use-relay.ts:120`), and it leaves a settled
promise behind: a call is handed a client that is reconnecting, as it is once the
first handshake has succeeded and the socket has dropped (`CallsGetConnected`,
`relayClientPool.ts:193`). A page of rows of which none can be decoded, with more behind it, does
not move the cursor: the catch-up ends and so does every later one, although
`relayClient.ts:831` and `relayClient.ts:1068` say that such a row does not hold up the rest
(`NeverWalled`). Besides, a channel whose handshake ended with its socket says
"reconnecting" while nobody retries (`ReconnectingIsRetried`), and one whose first dial
failed is not dialled again (`FirstDialIsRetried`); a superseded websocket may live on
(`NoOrphanSocket`), and a client may say "connected" with no socket at all: a redial that
fails beside a dial that worked says "reconnecting" of a socket that is up, so that the
channels hear nothing when that one goes (`ConnectedHasSocket`); an open channel may stay unserved (`OpenIsServed`); a machine that
lost its history has rows handed over twice (`AppliedOnce`); "disconnected" can be
left without the user (`DisconnectedIsFinal`), and the poll does not stand in for
signals that stop without a word (`PollStandsIn`, `accountChannel.ts:11`).

In a conversation:

- `NotSentIsClean`: a send reported as not sent may have been executed, so that the
  resend the bubble calls clean doubles it. `NothingSaidIsLost`: an unavailable executor,
  a second banner over the first, a drain in flight at a switch lose text.
  `SaidToItsOwn`: a switch between a refusal and the send that follows it sends into the
  conversation shown then. A turn that ends while a steer is in flight puts the
  message into the banner and later into a bubble as well.
- `Transcript`: a cursor set while a pull is in flight leaves a permanent hole
  (`RepeatsOnly` and the premise "crossed"). A second client that attaches to a
  conversation already shown reads its own tail, which may begin above a row nobody
  showed (the premise "tail"). A loading that was left goes on when its conversation is
  opened again, on the same client: where it has moved the cursor to the tail, the new
  one takes the cursor for its own, notes that nothing is earlier (`TopIsReached`, the
  premise "stray"), and the rows before the tail cannot be reached
  (`SessionDetailView.tsx:1094`). A pull of a visit that was left and that fails half way
  ("stray", too) leaves a hole between the rows it brought and the page of the mirror, as
  the cursor is set above both. `FailedIsNeverReady`: the mark of a failed catch-up is
  not taken down.
- `SessionSettings`: a mode, effort or model changed while the view has no client is shown and
  dropped without a word (`ShownIsWritten`, `SessionDetailView.tsx:1657` and `1416`).
  `PendingIsTrue`, `OwnSettings`, `OverlapsRunWhatIsStored`,
  `ChoiceStays`: overlapping choices and switches leave notes and values of another
  choice or conversation. Without overlapping, too, a choice made where another model was
  shown than is stored (a pinned model on its way, a choice of an earlier visit) and not
  written switches the process back to what was shown (`useSessionCLIModel.ts:396`); that is
  the other exception of `RunsWhatIsStored`, found by the proof.
- `WaitersOfHere` (`Decisions`): the list of a conversation left before may be shown.
- `FilePreview`: a file opened while a traversal is under way is not shown; going back
  meanwhile leaves the conversation.

In lists and forms:

- `NothingVanishes`, `GoneStaysGone` (`SessionIndex`); `ConnectingIsUnderway`,
  `RowsOfThisRange` (`MachineIndex`); `ReadBackIsNow`, `CountsAreOfNow` (`Devices`): lists read
  by overlapping requests end on the one that lands last, and pages read before a move
  miss what moved. A deletion the server has made and whose answer is lost leaves a row
  shown as saved (`SavedIsNoLie` excepts what was deleted here).
- `NoTwins`, `FailedLeavesNothing`, `OthersKept`, `NoOrphanToken` (`EngineSettings`): two scans
  create one backend each; a save that fails half way leaves its row, a revert writes
  old values over another's edit, a token outlives its backend.
- `EveryFailureSaid` (`OrgPage`): a write that fails after a read that no longer lists its object
  has closed the detail is told nowhere: the page asks whether something else is open
  (`Org.tsx:174`).
- `FoldedAsMeant`, `OnlyTypedIsWritten`, `NameIsStored`, `PromptIsStored`, `StaysOpen` (`OrgPage`):
  folds are kept by position; leaving a field writes a baseline that a late read changed;
  a late creation or deletion moves the selection. `AuthorizedCanGo` (`OrgTargets`).
- `NumbersDiffer`, `DroppedStands` (`Board`): a card created beside another creation gets the
  number of that one (`issue_board_write.go:103`), a change of column keeps the number
  (`issue_board_write.go:145`), and a card dropped between equal numbers gets theirs, so that
  it stands where its identity puts it.
- `ReloadIsSaid`, `OwnAnswerCloses` (`Board`): a late answer closes whatever form is
  open. A refused drop or deletion is reported nowhere; a form sends every field and so
  writes old values over other edits.
- `NoRowTwice`, `ReachReturns` (`Forwarding`); `OneConversation`, `SettingsOfTheMachine` (`Draft`): a
  start whose answer was lost and is retried makes two conversations, and the mode
  sent may be that of another backend.
- `CodeOutlivesFailures` (`SignIn`): every failed return from GitHub leads to a bare
  `/login?err=...` (`auth_ctr/auth.go:64` to `99`, `208`), though `Login.tsx:162` says that a retry
  carries the code on.
- `JoinsWhoIsNamed` (`SignIn`): the line that names the account and the token that is sent
  come from different answers. `KeyListedOnce`, `GoneLeavesList`, `RevokedStaysOff`
  (`AccountPage`).
- `ClearsWhatIsShown` (`Projects`): a list of settings left before overwrites the module's
  `lastMachines`, so that "remove" clears another project's directory
  (`projectPorts.ts:110`). `FailureNamesNone`, `ConfirmationStays`: machines of a project
  asked for earlier stay in the confirmation of another.
- `ProjectFs`: the failure of a superseded lease drops whatever the machine has by then.

A comment without a property: `cleanup.go:25` speaks of seven days for expired tokens
where the code has one cutoff of thirty days for expired and revoked ones.

## 9. What is proved and what is checked

Proved for all values of the constants:

- `Sync`: `Inv`, `TypeOK`, `UniqueVersions`, `CursorComplete`, `OneLivePerKey`,
  `NoSilentOverwrite`, `NoRevival` (`SyncProofs`);
- `DeviceAuth`: `Inv`, `DeniedNeverGranted`, `RevocationSticks`, `ImplementsCredential`
  (`DeviceAuthProofs`);
- `Relay`: `RelayInv`, `ReceiptMeansDelivered`, `OrderedThroughRetries` (`RelayProofs`);
- `Mirror`: `MirrorInv`, `StoredHonest`, `NothingUnsaved` (`MirrorProofs`);
- `AccountChannel`: `ChannelInv`, `ClientPool`: `PoolInv`, `RelayLink`: `LinkInv`,
  `SessionStream`: `StreamInv` (`TransportProofs`); `ProjectFs`: `FsInv`,
  `SessionSettings`: `SettingsInv`, `Devices`: `DevicesInv` (`DetailProofs`);
- `SessionSend`: `SendInv` (`SendProofs`);
- `MachineIndex`: `MachineInv`, `Decisions`: `DecisionInv`, `Draft`: `DraftInv`, `SessionIndex`:
  `IndexInv` (`ConsoleProofs`).

The assumptions are `SyncAssumption`, `NoRowAssumption`, `DeviceAuthAssumption`,
`RelayAssumption`, `MirrorAssumption`, `StreamAssumption`, `PoolAssumption`, `LinkAssumption`,
`SendAssumption`, `KeysAssumption`, `MachineStartsAssumption`, `TalkOfAssumption`,
`DecisionStartsAssumption`, `DraftStartsAssumption`, `IndexStartsAssumption`, `ValuesAssumption`,
`NobodyAssumption`, `SettingStartsAssumption`, `DevsAssumption`: sentinels lie outside the sets they
mark, times and bounds are naturals (of sockets, tasks and handshakes there is at least
one), and the pages and calls of a browser and the saved conversations are finitely many.

Checked on the instances above only: of `Relay` `StreamDrains`, the console's pages, lists and forms but
`SessionSend`, `SessionSettings`, `ProjectFs`, `Devices`, `MachineIndex`, `SessionIndex`, `Decisions` and `Draft`, and liveness
(`EventuallyDelivered`, `StreamDrains` and the `...KeepsOn` and `...Recovers`
properties), which together with ENABLED is outside what the proof system handles.
No module has a RECURSIVE operator.

The three later theorems of `Sync` speak of what a transaction has written and not
yet committed, so `SyncIInv` adds `WriteInv` to `Inv`: laid over the rows, its writes keep
natural keys unique, and a row it replaces has a version its writer knew, live only
if the row is. The two operations that decide on rows read beforehand, `SetExecTargetOrder` and a
purge, know the versions they read (`Seen`) and not those written since, which is what the
properties except (section 8, 1 and 2).
That no tombstone is older than time itself takes `now > Window`, which holds from the start.

`RelayIInv` holds of a frame wherever it is: queues, workers and consumers hold frames of the
channel they were given, listed queues have a worker, a consumer acknowledges only
what it has written, and a worker that says it got the receipt holds a frame that
reached its browser. No cancelled consumer or lost answer takes that back.

For `OrderedThroughRetries` that is not enough: it speaks of what a browser got long ago
and what may still reach it. `OrderInv` follows a frame over its whole way, from the
worker through stream, pending entries and the consumer's batch. Each of these carries
the frames of a queue sorted, and a frame that is on its way was either delivered
before, which the repeated write skips, or is later than all that was (`Due`). What ties the
pieces together is that the batch a consumer works on is what is pending, less what
it has discarded, so that reading again after a failed acknowledgement starts at or
before the frame that failed. All this holds while at most one consumer was ever started
(`Alone`), which is the exception the property states; the invariant is therefore
`RelayIInv /\ (Alone => OrderInv)`.

`MachineInv` needs of the requests under way what an answer will be taken for: at most one
is live, it is of the channel that stands and of the range of the controls, and there is
none while the resolver is away or the channel is not connected (`AsksInv`). Of the popup
it needs that a page still awaited is of the range it was opened for.

`IndexInv` says that an appended page is of the range the list is of. A page is asked for from
one list and lands on another: `IndexMore` therefore says that a page still of this visit was
asked for from the list that is applied now, which holds because a list that failed to load has
no place to go on from (`IndexView`); on the machine axis, where the button does stay, the
server refuses. That a row shown as saved is no lie takes of the writes that one the server
has done was filed (`IndexWrites`), and that it is a save, not any write of the row, that
stands for an unfiled one (`IndexSaved`).

`DecisionInv` says that "handled" was settled, which a list tells that came some steps
after the machine answered it. So the invariant carries what such a list is worth (`AskIsTrue`): what
is on it was waiting then, and what waits for the list and is not on it has been
settled by then, provided it was brought up at all and is of the conversation the list is of
(`Known`). That must hold of the rows shown, of the answers under way and of those
offered for another try; it fails where a list of another conversation was shown, the exception
the property states. Each decision that waits has exactly one list in flight (`OneEach`),
though lists come in any order, are dropped, or fail.

`DraftInv` is of the end of a start: what it says was established some calls before. So the
invariant follows the start (`StepsTaken`: from the answer of the run on, the conversation
runs; an accepted pin holds; what is marked as kept was kept), and needs that the target
cannot change while a start waits (`GoesWherePicked`), that a plan asked for a target names
it or none (`PlanHonest`), that a start changes its own conversation only and that what was
said is of starts that are over (`SaidIsOver`).

`SendInv` says where a text may be, but not which of these places will do: an accepted send
holds its text only until its answer is taken, and then the machine must have it. `SendIInv`
therefore keeps the books of the calls (`Books`: every answer on its way belongs to one
call, of which there is no other with its number, and a call that was answered has its answer on the
way), and says which calls carry a text alone (`Carries`: a send the machine has not
accepted, a check, an answer that takes texts from the mailbox). A text is let go, on the
screen, at the machine or carried (`Safe`); an accepted send whose text the machine no
longer has is followed by the mailbox answer that took it (`SafeSent`, `Behind`), for answers come
in order. For staying home it adds that a call of this visit is of this conversation, or its text has
strayed, and that a drain, which gets its texts only with its answer, is always of this
conversation (`HomeInv`).

`MirrorInv` needs what a replay has learnt some steps before (`PassOK`): it strikes off a
todo only of a conversation saved again, which is then not deleted, or gone from the
machine. And it needs that no saved conversation counts as deleted, that a request which
has come to the machine has unsaved (`ReqOK`), and that a follower with work in hand
knows of which conversation (`Well`).

`StoredHonest` and `NothingUnsaved` speak of rows, but a row is written from what a replica
has read or counted some steps before. `StoreInv` therefore says of every cursor that may
still be stored (of a follower's object, of a window with something left to write, of a
write on its way, of the list of rows a catch-up has read) that frames stand under it, unless a
purge or a wipe is under way (`Keeps`, `Promises`); and of everyone who may still write
a conversation that is not saved that they are about to be told, or are clearing it
(`UnsavedAt`). For the steps to keep this the follower must agree with itself (`Steady`): its
cursor is 0 while it wipes a log, a frame it has heard is the next one, and what is left to
catch up does not hold the conversation in hand. The three properties share the exception of
`crossed`, once marked and never taken back, so each is proved for a conversation that
is not in it, whatever happens to the others. The proof found one
case `crossed` had missed, the trailing write of section 8, 7; with it marked,
`StoredHonest` needs no word about how long the machine's log is.

`ChannelInv` needs that the lamp repeats the handle and the handle the connection
(`Follows`): it says "connected" exactly while the connection is, and that it has heard
of it, which is what makes a closed source "reconnecting" and not "disconnected". `PoolInv` needs
that pages and calls wait for a ticket only before there is a client (`NoClientYet`), and that a
client exists as long as a call waits for its run; the leases held of
an entry are then the pages and calls that hold it, so the count reaches zero exactly
when nobody does. Counting them takes the finite sets of `PoolAssumption`.

`LinkInv` compares the socket a machine said yes on with the one there is now, and sockets
are replaced while answers are under way. `LinkIInv` says why that is safe: a new socket is
always dialled in the state "connecting", which takes the word "connected" from every client
whose channel is open (`NobodyYet`), and until it is open nobody is accepted on it; a client
without a channel has no handshake that waits for an answer (`ClientGood`), and a
connection that makes no new socket leaves the accepted ones right (`OnThisSocket`). A
state that does not change is not announced, and the invariant does not need it to be.
Of a client given up it says that nothing is left that could open it again, unless a
reconnect was on its way to it when it went.

`FsInv` holds for any machines and any failures (`DetailProofs`). One lease per machine is
not inductive by itself: a lease that comes late forgets whatever its machine has by
then, and the next call would take another beside it. The strengthening `FsIInv` says that
while the page is there every lease is of its current generation and is the one its
machine uses, and that once it is gone no lease is used and those on their way are of
a generation before; effects that run twice do so before the first lease.

`SettingsInv` speaks of controls at rest. `SettingsIInv` says what the writes under way are
worth: of a setting whose writes did not overlap one write at most is, of the conversation
and the value shown, its answers so far are what the machines have, and what it would go
back to is what one of them has (`NoteHolds`); that also needs that a setting nobody
touched is shown as it was read (`NoteOK`). Of the choices of a model (`RunOK`) one is under way
in a conversation, and until it is written what is stored is what it would be switched back
to. This is where a view that shows another model than is stored, or a pin on its
way, must be excepted. A control changed without a client counts as one whose writes
overlapped: nothing is claimed of it until it is changed again at rest.

`DevicesInv` says what is listed once nothing is on its way, and the last answer to land need
not be the last one given. `DevicesIInv` therefore says that a read which overlaps no other
is alone, and that what it was answered is so until the next signal (`ReadAlone`);
and that the rows are those of now unless a signal, a failure or a read somebody asked for is
outstanding (`RowsAreOfNow`); a poll may fail without a word, so it does not count. A dialog that has closed and
still holds its buttons has its read under way (`DialogsAwait`).

`StreamInv` holds for any rows, any limit of a page and any length of the wire
(`TransportProofs`). That the cursor passes no row speaks of pages still under way,
so the strengthening `StreamIInv` says what such a page is worth: of each kind of request
there is at most one question or answer outstanding, its cursor is the one the client
remembers, and a page holds every row the machine still keeps between that cursor and
the last row of the page. A page that is applied then leaves no hole below its end, and
a row is handed over only above the cursor, once, while nothing has been forgotten.

Every property has a mutant in `PROJECT.json`: a plausible bug in a modelled
definition (a lock not taken, a guard dropped, a comparison off by one, an answer not
checked against what was asked) with which TLC finds the property violated. Where a property is a
conjunction, every part of it has a mutant of its own. The
mutated forms stand beside the definitions.

## 10. Not modelled

Of the server: presence and takeover of a machine's link, controllers, port forward, account channel, accounts, statistics, cron, migrations (section
2, 3), and what needs no model because no two requests share state in it: imports and
releases, middleware, bootstrap. Of the console: rendering and layout, texts and their
translation, drag geometry, the contents of frames and blocks, message framing and
encryption, provider sign-in flows, machine upgrades beyond their read-back, the
activity page, the agent chooser's widgets. `PROJECT.json` lists per component what of
it is left out.
