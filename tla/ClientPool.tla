------------------------------ MODULE ClientPool ------------------------------
(* The pool of relay clients (frontend lib/relayClientPool.ts) and its users: pages
   that keep a lease while they show a target (hooks/use-relay.ts) and calls that
   take one for a single request. The account's connection is built once, from a
   ticket; every target has at most one client, closed when nobody has used it for
   a while. A page that shows no connection has a button that reconnects. What a
   client does with its channel is RelayLink: here it has a state, which changes on
   its own, and at most one connect() under way, which ends on its own.       *)
EXTENDS Naturals, FiniteSets

CONSTANTS Pages, Calls, Targets,
          MaxGen,      \* clients ever built per target
          MaxAsks      \* reconnects of pages under way at once

ASSUME PoolAssumption ==
    /\ IsFiniteSet(Pages) /\ IsFiniteSet(Calls) /\ Pages \cap Calls = {}
    /\ Targets # {} /\ MaxGen \in Nat /\ MaxAsks \in Nat

VARIABLES mint,        \* the account's connection: "none", "minting", "ready"
          entry,       \* the pool's entry of each target
          user,        \* pages and calls
          orphans,     \* acquires in flight whose page has gone: <<page, target>>
          asks         \* reconnects under way, each on the client it was asked for

poolVars == <<mint, entry, user, orphans, asks>>

Users == Pages \cup Calls
ClientStates == {"connecting", "connected", "reconnecting", "disconnected"}

\* run: a connect() is under way; ready: what a call that comes has to wait for, which is
\* that run, or a promise that is settled.
NoEntry == [gen |-> 0, refs |-> 0, idle |-> FALSE, st |-> "disconnected", run |-> FALSE,
            ready |-> "ok", live |-> FALSE]

\* at: idle, opening (entryFor), ready (a call waits for the run), held, lost (a page whose
\* ticket was refused), released; shown: the state a page shows of its target; asked: it
\* says so itself since its reconnect, and the client has said nothing since.
Stranded(t) == [at |-> "lost", target |-> t, gen |-> 0, shown |-> "disconnected", asked |-> FALSE]
Nobody == [Stranded(CHOOSE t \in Targets : TRUE) EXCEPT !.at = "idle"]

PoolInit ==
    /\ mint = "none"
    /\ entry = [t \in Targets |-> NoEntry]
    /\ user = [u \in Users |-> Nobody]
    /\ orphans = {} /\ asks = {}

Pending(t) == (\E u \in Users : user[u].at = "opening" /\ user[u].target = t)
              \/ \E o \in orphans : o[2] = t

-----------------------------------------------------------------------------
(* What the pool does to an entry.                                           *)

Lease(e) == [e EXCEPT !.refs = e.refs + 1, !.idle = FALSE]

\* Mutant: the last holder leaves without a timer.
UnleaseKeeps(e) == [e EXCEPT !.refs = e.refs - 1]

Unlease(e) == [e EXCEPT !.refs = e.refs - 1, !.idle = e.idle \/ e.refs = 1]

Gone(e) == [NoEntry EXCEPT !.gen = e.gen]

\* Mutant: every cleanup gives a lease back.
ReleaseOfTwice(u) ==
    LET t == user[u].target IN
    IF entry[t].gen = user[u].gen THEN [entry EXCEPT ![t] = Unlease(entry[t])] ELSE entry

\* A lease is given back once, however often its holder asks.
ReleaseOf(u) ==
    LET t == user[u].target IN
    IF user[u].at \in {"held", "ready"} /\ entry[t].gen = user[u].gen
    THEN [entry EXCEPT ![t] = Unlease(entry[t])] ELSE entry

Waits(u, e) == u \in Calls /\ e.st # "connected" /\ e.ready = "run"

\* Mutant: a page that borrows a client waits for its next state.
GivenUntold(u, t, e) ==
    [at |-> IF Waits(u, e) THEN "ready" ELSE "held", target |-> t, gen |-> e.gen,
     shown |-> "connecting", asked |-> FALSE]

\* acquire of an entry that is there: a page never waits and is told the state at once, a
\* call waits for entry.ready unless the client is connected anyway. Settled once, that
\* promise lets a call have a client that has gone down since.
Given(u, t, e) ==
    [at |-> IF Waits(u, e) THEN "ready" ELSE "held", target |-> t, gen |-> e.gen,
     shown |-> e.st, asked |-> FALSE]

Opening(u, t) ==
    [at |-> "opening", target |-> t, gen |-> 0, shown |-> "connecting", asked |-> FALSE]

\* open(): a client is built and starts to connect.
Built(e) == [gen |-> e.gen + 1, refs |-> 0, idle |-> FALSE, st |-> "connecting", run |-> TRUE,
             ready |-> "run", live |-> TRUE]

-----------------------------------------------------------------------------
(* Users.                                                                    *)

\* acquire, with the cleanup of what the page showed before (es) already done.
AcquireFrom(es, u, t) ==
    \/ /\ es[t].live
       /\ u \in Calls => es[t].st = "connected" \/ es[t].ready # "failed"
       /\ entry' = [es EXCEPT ![t] = Lease(es[t])]
       /\ user' = [user EXCEPT ![u] = Given(u, t, es[t])]
       /\ UNCHANGED mint
    \/ /\ ~es[t].live /\ mint = "ready" /\ es[t].gen < MaxGen
       /\ entry' = [es EXCEPT ![t] = Lease(Built(es[t]))]
       /\ user' = [user EXCEPT ![u] = Given(u, t, Built(es[t]))]
       /\ UNCHANGED mint
    \/ /\ ~es[t].live /\ mint # "ready" /\ es[t].gen < MaxGen
       /\ mint' = "minting" /\ entry' = es
       /\ user' = [user EXCEPT ![u] = Opening(u, t)]

Acquire(u, t) ==
    /\ user[u].at \in {"idle", "released"}
    /\ AcquireFrom(entry, u, t)
    /\ UNCHANGED <<orphans, asks>>

\* A call that has to wait for a connect() that has failed gives the lease back at once,
\* and evicts the entry if nobody else holds it.
AcquireFailed(u, t) ==
    /\ u \in Calls /\ user[u].at = "idle" /\ entry[t].live
    /\ entry[t].st # "connected" /\ entry[t].ready = "failed"
    /\ entry' = [entry EXCEPT ![t] =
          IF entry[t].refs = 0 THEN Gone(entry[t]) ELSE entry[t]]
    /\ UNCHANGED <<mint, user, orphans, asks>>

\* An acquire that is still under way when its page runs the effect again or goes.
Orphaned(u) ==
    IF user[u].at = "opening" THEN orphans \cup {<<u, user[u].target>>} ELSE orphans

\* The effect of use-relay runs (again) for a target: cleanup first.
EffectRuns(u, t) ==
    /\ AcquireFrom(ReleaseOf(u), u, t)
    /\ orphans' = Orphaned(u)

SwitchTarget(u, t) ==
    /\ u \in Pages /\ user[u].at \in {"opening", "held", "lost"} /\ user[u].target # t
    /\ EffectRuns(u, t)
    /\ UNCHANGED asks

\* The button of a page that shows no connection. The pool reconnects what it has, for a
\* page without a lease too; it has nothing if no ticket was had, and the effect runs again.
\* Bound: a page that asks again of the same client waits for its answer.
Reconnects(u) ==
    LET t == user[u].target
        asks1 == asks \cup {[by |-> {u}, target |-> t, gen |-> entry[t].gen]}
    IN  /\ u \in Pages /\ user[u].at \in {"held", "lost"} /\ user[u].shown = "disconnected"
        /\ \/ /\ entry[t].live /\ asks1 # asks /\ Cardinality(asks1) <= MaxAsks
              /\ asks' = asks1
              /\ user' = [user EXCEPT ![u].shown = "connecting", ![u].asked = TRUE]
              /\ UNCHANGED <<mint, entry, orphans>>
           \/ /\ ~entry[t].live
              /\ EffectRuns(u, t)
              /\ UNCHANGED asks

\* A page unmounts, a call has its answer. What the page has asked of the pool goes on.
Leave(u) ==
    /\ user[u].at = "held" \/ (u \in Pages /\ user[u].at \in {"opening", "lost"})
    /\ entry' = ReleaseOf(u)
    /\ user' = [user EXCEPT ![u] = IF u \in Calls \/ user[u].at # "held" THEN Nobody
          ELSE [Stranded(user[u].target) EXCEPT !.at = "released", !.gen = user[u].gen]]
    /\ orphans' = Orphaned(u)
    /\ asks' = {[a EXCEPT !.by = a.by \ {u}] : a \in asks}
    /\ UNCHANGED mint

\* React runs a cleanup twice.
LeaveAgain(u) ==
    /\ user[u].at = "released"
    /\ entry' = ReleaseOf(u)
    /\ user' = [user EXCEPT ![u] = Nobody]
    /\ UNCHANGED <<mint, orphans, asks>>

-----------------------------------------------------------------------------
(* The pool.                                                                 *)

\* Mutant: a waiter that has gone keeps the lease it never took.
MintArrivesCountsGone ==
    LET Waiters(t) == {u \in Users : user[u].at = "opening" /\ user[u].target = t}
        New(t) == [Built(entry[t]) EXCEPT
            !.refs = Cardinality(Waiters(t)) + Cardinality({o \in orphans : o[2] = t})]
    IN  /\ mint = "minting"
        /\ mint' = "ready"
        /\ entry' = [t \in Targets |-> IF Pending(t) THEN New(t) ELSE entry[t]]
        /\ user' = [u \in Users |->
              IF user[u].at = "opening" THEN Given(u, user[u].target, New(user[u].target))
              ELSE user[u]]
        /\ orphans' = {}
        /\ UNCHANGED asks

\* The ticket arrives: every target somebody waits for gets its client, each waiter
\* its lease, and the waiters that have gone give theirs back.
MintArrives ==
    LET Waiters(t) == {u \in Users : user[u].at = "opening" /\ user[u].target = t}
        New(t) == [Built(entry[t]) EXCEPT !.refs = Cardinality(Waiters(t)),
                                          !.idle = Waiters(t) = {}]
    IN  /\ mint = "minting"
        /\ mint' = "ready"
        /\ entry' = [t \in Targets |-> IF Pending(t) THEN New(t) ELSE entry[t]]
        /\ user' = [u \in Users |->
              IF user[u].at = "opening" THEN Given(u, user[u].target, New(user[u].target))
              ELSE user[u]]
        /\ orphans' = {}
        /\ UNCHANGED asks

\* The ticket is refused: nothing stays behind, and every waiter hears of it.
TicketFails ==
    /\ mint = "minting"
    /\ mint' = "none"
    /\ user' = [u \in Users |->
          IF user[u].at # "opening" THEN user[u]
          ELSE IF u \in Pages THEN Stranded(user[u].target) ELSE Nobody]
    /\ orphans' = {}
    /\ UNCHANGED <<entry, asks>>

\* What the pages that hold a lease on the client of t hear of it.
Heard(t, st) == [u \in Users |->
    IF u \in Pages /\ user[u].at = "held" /\ user[u].target = t
    THEN [user[u] EXCEPT !.shown = st, !.asked = FALSE] ELSE user[u]]

ClientChanges(t, st) ==
    /\ entry[t].live /\ entry[t].st # st
    /\ entry' = [entry EXCEPT ![t].st = st]
    /\ user' = Heard(t, st)
    /\ UNCHANGED <<mint, orphans, asks>>

\* The connect() under way ends. Calls that waited for it go on or give back; the last of
\* them evicts a failed entry.
RunEnds(t, ok) ==
    LET e == entry[t]
        waiting == {u \in Calls : user[u].at = "ready" /\ user[u].target = t /\ user[u].gen = e.gen}
        back == IF ok THEN 0 ELSE Cardinality(waiting)
        e1 == [e EXCEPT !.run = FALSE, !.refs = e.refs - back,
                        !.ready = IF e.ready # "run" THEN e.ready ELSE IF ok THEN "ok" ELSE "failed"]
    IN  /\ e.live /\ e.run
        /\ entry' = [entry EXCEPT ![t] = IF back > 0 /\ e1.refs = 0 THEN Gone(e1) ELSE e1]
        /\ user' = [u \in Users |->
              IF u \notin waiting THEN user[u]
              ELSE IF ok THEN [user[u] EXCEPT !.at = "held"] ELSE Nobody]
        /\ UNCHANGED <<mint, orphans, asks>>

\* The connection has a new socket, and the client that was there when the page asked is
\* reopened: with its channel there is nothing to do, without one it connects, unless it
\* is at it. One that the pool has given up meanwhile is reopened for nobody (RelayLink).
ReconnectDone(a) ==
    LET e == entry[a.target]
        there == e.live /\ e.gen = a.gen
    IN  /\ a \in asks
        /\ asks' = asks \ {a}
        /\ \/ there /\ entry' = [entry EXCEPT ![a.target].ready = "ok"] /\ UNCHANGED user
           \/ there /\ e.run /\ entry' = [entry EXCEPT ![a.target].ready = "run"] /\ UNCHANGED user
           \/ /\ there /\ ~e.run
              /\ entry' = [entry EXCEPT ![a.target] =
                    [e EXCEPT !.run = TRUE, !.ready = "run", !.st = "connecting"]]
              /\ user' = IF e.st = "connecting" THEN user ELSE Heard(a.target, "connecting")
           \/ ~there /\ UNCHANGED <<entry, user>>
        /\ UNCHANGED <<mint, orphans>>

\* No ticket for it, or no socket: the effect of the page that asked runs again, if the
\* page is still there, for the target it shows now.
ReconnectFails(a) ==
    /\ a \in asks
    /\ asks' = asks \ {a}
    /\ \/ a.by = {} /\ UNCHANGED <<mint, entry, user, orphans>>
       \/ \E u \in a.by : EffectRuns(u, user[u].target)

\* The grace period of an unused entry ends.
IdleFires(t) ==
    /\ entry[t].idle
    /\ entry' = [entry EXCEPT ![t] =
          IF entry[t].refs > 0 THEN [entry[t] EXCEPT !.idle = FALSE] ELSE Gone(entry[t])]
    /\ UNCHANGED <<mint, user, orphans, asks>>

PoolNext ==
    \/ MintArrives \/ TicketFails
    \/ \E u \in Users : Leave(u) \/ LeaveAgain(u) \/ Reconnects(u)
    \/ \E a \in asks : ReconnectDone(a) \/ ReconnectFails(a)
    \/ \E u \in Users, t \in Targets : Acquire(u, t) \/ AcquireFailed(u, t) \/ SwitchTarget(u, t)
    \/ \E t \in Targets :
        \/ IdleFires(t)
        \/ \E st \in ClientStates : ClientChanges(t, st)
        \/ \E ok \in BOOLEAN : RunEnds(t, ok)

PoolSpec == PoolInit /\ [][PoolNext]_poolVars /\ \A t \in Targets : WF_poolVars(IdleFires(t))

-----------------------------------------------------------------------------
(* Properties.                                                               *)

PoolTypeOK ==
    /\ mint \in {"none", "minting", "ready"}
    /\ entry \in [Targets -> [gen : 0 .. MaxGen, refs : 0 .. Cardinality(Users), idle : BOOLEAN,
                              st : ClientStates, run : BOOLEAN,
                              ready : {"run", "ok", "failed"}, live : BOOLEAN]]
    /\ user \in [Users -> [at : {"idle", "opening", "ready", "held", "lost", "released"},
                           target : Targets, gen : 0 .. MaxGen, shown : ClientStates,
                           asked : BOOLEAN]]
    /\ orphans \subseteq Pages \X Targets
    /\ asks \subseteq [by : SUBSET Pages, target : Targets, gen : 0 .. MaxGen]

Holders(t) == {u \in Users : user[u].at \in {"held", "ready"} /\ user[u].target = t}

(* A lease is worth something as long as it is held: its client is the one in the
   pool, and the pool counts exactly the leases there are, through target switches,
   failed first handshakes, evictions and late arrivals.                      *)
HeldIsCounted == \A t \in Targets :
    /\ \A u \in Holders(t) : entry[t].live /\ entry[t].gen = user[u].gen
    /\ entry[t].live => entry[t].refs = Cardinality(Holders(t))

(* A client nobody holds is on its way out; none is kept for ever.            *)
UnusedIsReaped == \A t \in Targets : entry[t].live /\ entry[t].refs = 0 => entry[t].idle

(* What a page with a lease shows is the state of the client of its target, one it
   borrowed long after it connected included; but for what it says itself when its user
   has asked for a new connection, until the client speaks again.             *)
ShownIsCurrent == \A u \in Pages :
    user[u].at = "held" =>
        user[u].shown = IF user[u].asked THEN "connecting" ELSE entry[user[u].target].st

(* A call that waits has something to wait for: the connect() of its client is under
   way, whatever a reconnect has put in the place of the promise it waits for. *)
WaitsForARun == \A u \in Calls : user[u].at = "ready" => entry[user[u].target].run

(* The pool: every lease is counted once, a client nobody uses is on its way
   out, what a page shows is current, nobody waits for nothing. *)
PoolInv == PoolTypeOK /\ HeldIsCounted /\ UnusedIsReaped /\ ShownIsCurrent /\ WaitsForARun

-----------------------------------------------------------------------------
(* What the repository says, or a user would expect, and the code does not       *)
(* keep: TLC finds each of these violated (README, section 8).                   *)

(* A page that says it is connecting is on its way to a client (use-relay.ts): it has
   one, is getting one, or its reconnect is under way. The pool reconnects for a page
   whose own acquire failed, says that it did, and the page never acquires.   *)
ConnectingHasClient == \A u \in Pages :
    user[u].at = "lost" /\ user[u].shown = "connecting" => \E a \in asks : u \in a.by

(* A call is handed a client that is connected (waitForConnect). Once its first connect()
   has ended well, or a reconnect found the channel there, it is handed whatever it is. *)
CallsGetConnected == [][\A u \in Calls :
    user[u].at # "held" /\ user'[u].at = "held" => entry'[user'[u].target].st = "connected"]_poolVars
=============================================================================
