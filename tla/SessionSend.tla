---------------------------- MODULE SessionSend ----------------------------
(* What becomes of the words a user submits to a conversation (frontend
   components/session: useSessionSend, useSteerQueue, useSteerAutoContinue, useTurnStop,
   hooks/use-target-guard, and the turn callbacks and the queue's handlers of
   SessionDetailView). One detail view shows one conversation at a time and is not
   remounted when another is opened, so requests of the last one come back to the next.
   The machine behind it, its turns and its mailbox of steers are external: they are
   modelled from the requests made of them. A submitted text is a set of messages, for
   steers left over are joined into one. Of one bubble at most one check is awaited. *)
EXTENDS Naturals, Sequences, FiniteSets

CONSTANTS Convs,       \* conversations of one machine
          Msgs,        \* what the user may say
          Images,      \* messages that carry an image
          Compacts,    \* messages that are exactly /compact, on a backend that needs the RPC
          Agentred,    \* the machine is an agentred: it answers runtime.drainPending
          Budgets,     \* bound: where a run starts (conv, running) and what it may say,
                       \* switch and lose (msgs, visits, drops)
          MaxInbox,    \* bound: events on their way to the browser
          MaxTasks     \* bound: calls awaited when the user makes another one

\* A run starts in conversations there are, and none has the name of None.
ASSUME SendAssumption ==
    "-" \notin Convs /\ \A b \in Budgets : b.conv \in Convs /\ b.running \subseteq Convs

VARIABLES view,     \* conv and visit (use-target-guard), link, what is left of the budget
          scr,      \* the screen's state; a switch starts it afresh
          tasks,    \* what is awaited
          late,     \* requests of a lost connection that may still be executed
          machine,  \* run: conversations with a turn; box: steers nobody took yet
          inbox,    \* events on their way, in order
          watched,  \* conversations this client was attached to
          said      \* history: where typed, where got, why gone (letGo or shed), strayed

sendVars == <<view, scr, tasks, late, machine, inbox, watched, said>>

None == "-"

\* What the target's change resets in every hook of the view.
EmptyScreen == [failed |-> {}, pending |-> {}, queue |-> {}, dropped |-> {}, draft |-> {},
                active |-> FALSE, sending |-> FALSE,
                att |-> "none", snap |-> FALSE, pinned |-> FALSE]

SendInit == \E b \in Budgets :
    /\ view = [conv |-> b.conv, visit |-> 0, link |-> "connected", left |-> b]
    /\ machine = [run |-> b.running, box |-> [c \in Convs |-> {}]]
    /\ scr = EmptyScreen
    /\ tasks = {} /\ late = {} /\ inbox = <<>> /\ watched = {}
    /\ said = [at |-> [m \in Msgs |-> None], got |-> {},
               gone |-> [m \in Msgs |-> None], strayed |-> {}]

-----------------------------------------------------------------------------
(* Derived.                                                                  *)

\* deriveSessionViewStatus, for a machine that is online and a target that is resolved.
ViewStatus == IF view.link = "connected" /\ scr.pinned THEN "pinned" ELSE view.link

StillHereAlways(t) == TRUE

StillHere(t) == t.visit = view.visit

ChipMsgs(q) == UNION {i.ms : i \in q}

SendOps == {"run", "steer", "compact"}

InFlight == UNION {t.ms : t \in {u \in tasks : u.op \in SendOps \cup {"check"}}}

MarkActive(s, on) == [s EXCEPT !.active = on]

\* queueFailedSend: a bubble that is retried is replaced in place.
QueueFailed(s, ms, kind) ==
    [s EXCEPT !.failed = {f \in s.failed : f.ms # ms} \cup {[ms |-> ms, kind |-> kind]}]

DropFailed(s, ms) == [s EXCEPT !.failed = {f \in s.failed : f.ms # ms}]

\* useSteerQueue.
Enqueue(s, ms) == [s EXCEPT !.queue = s.queue \cup {[ms |-> ms, st |-> "local"]}]

Restate(s, ms, st) ==
    [s EXCEPT !.queue = {IF i.ms = ms THEN [i EXCEPT !.st = st] ELSE i : i \in s.queue}]

DropChips(s, ms) == [s EXCEPT !.queue = {i \in s.queue : ~(i.ms \subseteq ms)}]

\* What is left of the queue goes to the banner, unless one is up already.
EndTurn(s) ==
    [s EXCEPT !.queue = {}, !.dropped = IF s.dropped = {} THEN ChipMsgs(s.queue) ELSE s.dropped]

\* Why the text is no longer kept; the first reason counts.
Gone(ms, why) ==
    [said EXCEPT !.gone = [m \in Msgs |-> IF m \in ms /\ said.gone[m] = None THEN why ELSE said.gone[m]]]

LetGo(ms) == Gone(ms, "letGo")
Shed(ms) == Gone(ms, "shed")

ShedByBanner(s) == IF s.dropped = {} THEN {} ELSE ChipMsgs(s.queue) \ s.dropped

-----------------------------------------------------------------------------
(* Sending.                                                                  *)

\* A number that no call of its kind under way has tells two equal ones apart.
Number(op) == CHOOSE n \in 0 .. Cardinality(tasks) : \A t \in tasks : t.op = op => t.no # n

\* A request that finds the connection down fails where it is made.
Ask(op, c, ms, v, first, repl) ==
    [op |-> op, conv |-> c, ms |-> ms, visit |-> v, first |-> first, repl |-> repl, no |-> Number(op),
     at |-> IF view.link = "connected" THEN "out" ELSE "lost"]

Route(s, ms) == IF ms \subseteq Compacts THEN "compact" ELSE IF s.active THEN "steer" ELSE "run"

CannotSteer(s, ms) == Route(s, ms) = "steer" /\ ms \cap Images # {}

\* sendMessage for conversation c, as the closure of status st sees the view; rest are the
\* tasks that stay. A message that waits already gives way to the new one.
SendMessage(s, c, ms, st, listed, repl, rest) ==
    \/ /\ st = "reconnecting"
       /\ LET t == IF repl THEN DropFailed(s, ms) ELSE s
              u == IF s.pending = {} THEN t ELSE QueueFailed(t, s.pending, "notSent")
          IN  scr' = [u EXCEPT !.pending = ms]
       /\ tasks' = rest
    \/ /\ st # "reconnecting" /\ ~listed
       /\ scr' = QueueFailed(s, ms, "notSent") /\ tasks' = rest
    \/ /\ st # "reconnecting" /\ listed /\ CannotSteer(s, ms)
       /\ scr' = QueueFailed(s, ms, "imageWhileRunning") /\ tasks' = rest
    \/ /\ st # "reconnecting" /\ listed /\ ~CannotSteer(s, ms)
       /\ LET op == Route(s, ms)
              t == [s EXCEPT !.sending = TRUE]
          IN  /\ scr' = IF op = "steer" THEN Enqueue(t, ms) ELSE t
              /\ tasks' = rest \cup {Ask(op, c, ms, view.visit, TRUE, repl)}

\* An answer is taken when it is the next thing on the connection.
Due(t) ==
    /\ t \in tasks
    /\ \/ t.at = "lost" /\ inbox' = inbox
       \/ t.at \notin {"out", "lost"} /\ inbox # <<>> /\ Head(inbox) = [k |-> "answer", t |-> t]
          /\ inbox' = Tail(inbox)
    /\ UNCHANGED <<view, late, machine, watched>>

\* The composer: what stands in it goes as one message.
Submit(new) ==
    LET ms == scr.draft \cup new
    IN  /\ Cardinality(tasks) < MaxTasks
        /\ ViewStatus \in {"connected", "reconnecting"} /\ ~scr.sending /\ ms # {}
        /\ Cardinality(new) <= 1 /\ new \subseteq view.left.msgs /\ \A m \in new : said.at[m] = None
        /\ SendMessage([scr EXCEPT !.draft = {}], view.conv, ms, ViewStatus, scr.att # "none", FALSE, tasks)
        /\ said' = [said EXCEPT !.at = [m \in Msgs |-> IF m \in new THEN view.conv ELSE said.at[m]]]
        /\ UNCHANGED <<view, late, machine, inbox, watched>>

PendingGoesSilently ==
    /\ scr.pending # {} /\ ViewStatus # "reconnecting"
    /\ scr' = [scr EXCEPT !.pending = {}] /\ tasks' = tasks
    /\ UNCHANGED <<view, late, machine, inbox, watched, said>>

\* The effect on the waiting message: sent once the view is ready, given back when nobody
\* redials any more.
PendingGoes ==
    /\ scr.pending # {} /\ ViewStatus # "reconnecting"
    /\ LET s == [scr EXCEPT !.pending = {}]
       IN  \/ /\ ViewStatus = "connected" /\ scr.att # "none"
              /\ SendMessage(s, view.conv, scr.pending, "connected", TRUE, FALSE, tasks)
           \/ /\ ViewStatus \in {"lost", "pinned"}
              /\ scr' = QueueFailed(s, scr.pending, "notSent") /\ tasks' = tasks
    /\ UNCHANGED <<view, late, machine, inbox, watched, said>>

CancelPending ==
    /\ scr.pending # {}
    /\ scr' = [scr EXCEPT !.pending = {}]
    /\ said' = LetGo(scr.pending)
    /\ UNCHANGED <<view, tasks, late, machine, inbox, watched>>

\* retryFailedSend: what may have arrived is looked for first, then it is sent.
RetryFailed(f) ==
    /\ f \in scr.failed /\ ~scr.sending /\ Cardinality(tasks) < MaxTasks
    /\ \A t \in tasks : ~(t.op = "check" /\ t.ms = f.ms)
    /\ \/ /\ f.kind = "transport"
          /\ tasks' = tasks \cup {[op |-> "check", conv |-> view.conv, ms |-> f.ms, visit |-> view.visit,
                                   st |-> ViewStatus, listed |-> scr.att # "none", at |-> "out",
                                   no |-> Number("check")]}
          /\ scr' = scr
       \/ /\ f.kind # "transport"
          /\ SendMessage(scr, view.conv, f.ms, ViewStatus, scr.att # "none", TRUE, tasks)
    /\ UNCHANGED <<view, late, machine, inbox, watched, said>>

\* The catch-up is over, answered or not; the closure it was called from goes on.
CheckDone(t) ==
    /\ t \in tasks /\ t.op = "check"
    /\ SendMessage(scr, t.conv, t.ms, t.st, t.listed, TRUE, tasks \ {t})
    /\ said' = IF StillHere(t) THEN said ELSE [said EXCEPT !.strayed = said.strayed \cup t.ms]
    /\ UNCHANGED <<view, late, machine, inbox, watched>>

DiscardFailed(f) ==
    /\ f \in scr.failed
    /\ scr' = DropFailed(scr, f.ms)
    /\ said' = LetGo(f.ms)
    /\ UNCHANGED <<view, tasks, late, machine, inbox, watched>>

\* A steer answers its own chip wherever the screen is.
SendSucceeds(t) ==
    /\ Due(t) /\ t.op \in SendOps /\ t.at = "ok"
    /\ LET chip == IF t.op = "steer" THEN Restate(scr, t.ms, "queued") ELSE scr
           gone == IF t.repl /\ t.op # "compact" THEN DropFailed(chip, t.ms) ELSE chip
       IN  scr' = IF StillHere(t)
                    THEN [MarkActive(gone, TRUE) EXCEPT !.pinned = FALSE, !.sending = FALSE]
                    ELSE chip
    /\ tasks' = tasks \ {t}
    /\ said' = said

\* One refusal tries the other route, once; images have none.
FallsBack(t) == t.at = "rejected" /\ t.first /\ t.op # "compact" /\ t.ms \cap Images = {}

Unchipped(t) == IF t.op = "steer" THEN [scr EXCEPT !.queue = {i \in scr.queue : i # [ms |-> t.ms, st |-> "local"]}] ELSE scr

SendFallsBack(t) ==
    /\ Due(t) /\ t.op \in SendOps /\ FallsBack(t)
    /\ LET other == IF t.op = "steer" THEN "run" ELSE "steer"
       IN  /\ scr' = IF other = "steer" THEN Enqueue(scr, t.ms) ELSE Unchipped(t)
           /\ tasks' = (tasks \ {t}) \cup {Ask(other, t.conv, t.ms, t.visit, FALSE, t.repl)}
           /\ said' = IF other = "steer" /\ ~StillHere(t)
                        THEN [said EXCEPT !.strayed = said.strayed \cup t.ms] ELSE said

FailureKindRaw(t) == IF t.at = "unavailable" THEN "executionUnavailable" ELSE t.at

\* classifySendFailure; when both routes fail the first refusal is told.
FailureKind(t) == IF t.at = "unavailable" /\ t.first THEN "executionUnavailable"
                  ELSE IF t.at = "lost" /\ t.first THEN "transport" ELSE "rejected"

SendFails(t) ==
    /\ Due(t) /\ t.op \in SendOps /\ t.at \in {"rejected", "unavailable", "lost"} /\ ~FallsBack(t)
    /\ LET s == Unchipped(t)
           told == IF FailureKind(t) = "executionUnavailable"
                     THEN [IF t.repl THEN DropFailed(s, t.ms) ELSE s EXCEPT !.pinned = TRUE]
                     ELSE QueueFailed(s, t.ms, FailureKind(t))
       IN  /\ scr' = IF StillHere(t) THEN [told EXCEPT !.sending = FALSE] ELSE s
           /\ said' = IF StillHere(t) /\ FailureKind(t) # "executionUnavailable" THEN said ELSE Shed(t.ms)
    /\ tasks' = tasks \ {t}

-----------------------------------------------------------------------------
(* The queue of steers and its banner.                                       *)

Request(op, ms) ==
    /\ Cardinality(tasks) < MaxTasks
    /\ tasks' = tasks \cup {Ask(op, view.conv, ms, view.visit, TRUE, FALSE)}

Cancel(i) ==
    /\ i \in scr.queue /\ i.st = "queued"
    /\ Request("cancel", i.ms)
    /\ UNCHANGED <<view, scr, late, machine, inbox, watched, said>>

Withdraw(i) ==
    /\ i \in scr.queue /\ i.st = "queued"
    /\ Request("withdraw", i.ms)
    /\ scr' = Restate(scr, i.ms, "withdrawing")
    /\ UNCHANGED <<view, late, machine, inbox, watched, said>>

WithdrawnKeepsMark(t) ==
    /\ Due(t) /\ t.op \in {"cancel", "withdraw"}
    /\ scr' = IF t.at = "ok" THEN DropChips(scr, t.ms) ELSE scr
    /\ said' = IF t.at = "ok" THEN LetGo(t.ms) ELSE said
    /\ tasks' = tasks \ {t}

\* Only what the machine says it removed leaves the queue; a withdrawn text goes back to
\* the composer, unless that is another conversation's by now: what is shown is compared,
\* so that a conversation left and opened again still gets it.
SameTarget(t) == t.conv = view.conv

Withdrawn(t) ==
    /\ Due(t) /\ t.op \in {"cancel", "withdraw"}
    /\ LET s == IF t.at = "ok" THEN DropChips(scr, t.ms)
                ELSE IF t.op = "withdraw" \/ t.at # "kept" THEN Restate(scr, t.ms, IF t.at = "kept" THEN "queued" ELSE "locked")
                ELSE scr
           back == t.op = "withdraw" /\ t.at = "ok"
       IN  /\ scr' = IF back /\ SameTarget(t) THEN [s EXCEPT !.draft = s.draft \cup t.ms] ELSE s
           /\ said' = IF t.at = "ok" /\ ~(back /\ SameTarget(t))
                        THEN LetGo(t.ms) ELSE said
    /\ tasks' = tasks \ {t}

\* Bound: a text that also stands somewhere else is not taken up a second time.
Elsewhere == ChipMsgs(scr.queue) \cup InFlight \cup (UNION {f.ms : f \in scr.failed})
             \cup (UNION {machine.box[c] : c \in Convs}) \cup (UNION {r.ms : r \in late})

RestoreDropped ==
    /\ scr.dropped # {} /\ scr.dropped \cap Elsewhere = {}
    /\ scr' = [scr EXCEPT !.draft = scr.draft \cup scr.dropped, !.dropped = {}]
    /\ UNCHANGED <<view, tasks, late, machine, inbox, watched, said>>

DiscardDropped ==
    /\ scr.dropped # {}
    /\ scr' = [scr EXCEPT !.dropped = {}]
    /\ said' = LetGo(scr.dropped)
    /\ UNCHANGED <<view, tasks, late, machine, inbox, watched>>

-----------------------------------------------------------------------------
(* Events.                                                                   *)

Taken(k) == inbox # <<>> /\ Head(inbox).k = k /\ UNCHANGED <<view, late, machine, watched>>

\* onTurnStarted asks nothing about the conversation it is told of.
TurnStarted ==
    /\ Taken("started") /\ inbox' = Tail(inbox)
    /\ scr' = IF scr.active THEN scr ELSE MarkActive(scr, TRUE)
    /\ UNCHANGED <<tasks, said>>

\* A drain is stale once another has been set off.
Old(t) == IF t.op = "drain" THEN [t EXCEPT !.first = FALSE] ELSE t
OldAnswer(e) == IF e.k = "answer" THEN [e EXCEPT !.t = Old(e.t)] ELSE e

\* onRunResultDone, and the drain of useSteerAutoContinue that a normal end sets off: an
\* older one is given up. Whatever carries the conversation without being an agentred is
\* not asked.
TurnDone ==
    /\ Taken("done")
    /\ LET e == Head(inbox)
           s == MarkActive(scr, FALSE)
       IN  \/ e.c # view.conv /\ inbox' = Tail(inbox) /\ UNCHANGED <<scr, tasks, said>>
           \/ /\ e.c = view.conv /\ scr.att = "ready" /\ e.ok /\ Agentred
              /\ scr' = s /\ said' = said
              /\ inbox' = [i \in 1..Len(Tail(inbox)) |-> OldAnswer(Tail(inbox)[i])]
              /\ tasks' = {Old(t) : t \in tasks} \cup {Ask("drain", view.conv, {}, view.visit, TRUE, FALSE)}
           \/ /\ e.c = view.conv /\ ~(scr.att = "ready" /\ e.ok /\ Agentred)
              /\ scr' = EndTurn(s) /\ said' = Shed(ShedByBanner(s))
              /\ tasks' = tasks /\ inbox' = Tail(inbox)

\* What was left is joined and sent as the next turn; what could not be asked is handed back.
Drained(t) ==
    /\ Due(t) /\ t.op = "drain"
    /\ LET stale == ~StillHere(t) \/ ~t.first
           s == IF t.at = "ok" THEN DropChips(scr, t.ms) ELSE scr
       IN  \/ stale /\ scr' = scr /\ tasks' = tasks \ {t} /\ said' = Shed(t.ms)
           \/ /\ ~stale /\ t.ms = {}
              /\ scr' = EndTurn(s) /\ said' = Shed(ShedByBanner(s)) /\ tasks' = tasks \ {t}
           \/ /\ ~stale /\ t.ms # {}
              /\ SendMessage(EndTurn(s), t.conv, t.ms, "connected", TRUE, FALSE, tasks \ {t})
              /\ said' = Shed(ShedByBanner(s))

SteersConsumed ==
    /\ Taken("consumed") /\ inbox' = Tail(inbox)
    /\ scr' = IF Head(inbox).c = view.conv THEN DropChips(scr, Head(inbox).ms) ELSE scr
    /\ UNCHANGED <<tasks, said>>

-----------------------------------------------------------------------------
(* The view and its connection.                                              *)

OnScreen(s) == (UNION {f.ms : f \in s.failed}) \cup s.pending \cup s.dropped \cup s.draft

OpenKeepsSending(c) ==
    /\ c # view.conv /\ view.left.visits > 0
    /\ view' = [view EXCEPT !.conv = c, !.visit = view.visit + 1,
                            !.left = [view.left EXCEPT !.visits = @ - 1]]
    /\ scr' = [EmptyScreen EXCEPT !.sending = scr.sending]
    /\ said' = LetGo(OnScreen(scr) \cup InFlight)
    /\ UNCHANGED <<tasks, late, machine, inbox, watched>>

\* Another conversation is opened: the user leaves behind what only this screen holds.
Open(c) ==
    /\ c # view.conv /\ view.left.visits > 0
    /\ view' = [view EXCEPT !.conv = c, !.visit = view.visit + 1,
                            !.left = [view.left EXCEPT !.visits = @ - 1]]
    /\ scr' = EmptyScreen
    /\ said' = LetGo(OnScreen(scr) \cup InFlight)
    /\ UNCHANGED <<tasks, late, machine, inbox, watched>>

\* The list's answer, with the state of the turn at that time.
Listed ==
    /\ scr.att \in {"none", "known"} /\ view.link = "connected"
    /\ scr' = [scr EXCEPT !.att = "listed", !.snap = view.conv \in machine.run]
    /\ watched' = watched \cup {view.conv}
    /\ UNCHANGED <<view, tasks, late, machine, inbox, said>>

\* The catch-up replays the ends of old turns.
ReplayDone ==
    /\ scr.att = "listed" /\ view.link = "connected"
    /\ LET s == MarkActive(scr, FALSE)
       IN  scr' = EndTurn(s) /\ said' = Shed(ShedByBanner(s))
    /\ UNCHANGED <<view, tasks, late, machine, inbox, watched>>

AttachReady ==
    /\ scr.att = "listed" /\ view.link = "connected"
    /\ scr' = [MarkActive(scr, scr.snap) EXCEPT !.att = "ready"]
    /\ UNCHANGED <<view, tasks, late, machine, inbox, watched, said>>

\* Every request that waits fails; those on their way may still arrive. Events are
\* delivered by the catch-up.
LinkDrops ==
    /\ view.link = "connected" /\ view.left.drops > 0
    /\ view' = [view EXCEPT !.link = "reconnecting", !.left = [view.left EXCEPT !.drops = @ - 1]]
    /\ late' = late \cup {[op |-> t.op, conv |-> t.conv, ms |-> t.ms] :
                            t \in {u \in tasks : u.at = "out" /\ u.op \in SendOps}}
    /\ tasks' = {IF t.op = "check" THEN t ELSE [t EXCEPT !.at = "lost", !.ms = IF t.op = "drain" THEN {} ELSE t.ms] : t \in tasks}
    /\ scr' = IF scr.att = "listed" THEN [scr EXCEPT !.att = "known"] ELSE scr
    /\ said' = Shed(UNION {t.ms : t \in {u \in tasks : u.op \in {"drain", "cancel", "withdraw"}}})
    /\ LET events == {i \in 1 .. Len(inbox) : inbox[i].k # "answer"}
       IN  \E in \in [1 .. Cardinality(events) -> events] :
              /\ \A i, j \in DOMAIN in : i < j => in[i] < in[j]
              /\ inbox' = [n \in 1 .. Cardinality(events) |-> inbox[in[n]]]
    /\ UNCHANGED <<machine, watched>>

LinkReturns ==
    /\ view.link \in {"reconnecting", "lost"}
    /\ view' = [view EXCEPT !.link = "connected"]
    /\ UNCHANGED <<scr, tasks, late, machine, inbox, watched, said>>

LinkGivesUp ==
    /\ view.link = "reconnecting"
    /\ view' = [view EXCEPT !.link = "lost"]
    /\ UNCHANGED <<scr, tasks, late, machine, inbox, watched, said>>

-----------------------------------------------------------------------------
(* The machine.                                                              *)

Emit(events) == Len(inbox) + Len(events) <= MaxInbox /\ inbox' = inbox \o events

HandOver(ms, c) == said' = [said EXCEPT !.got = said.got \cup (ms \X {c})]

\* The gate of turns: one at a time.
Begin(c, ms) ==
    /\ c \notin machine.run
    /\ machine' = [machine EXCEPT !.run = machine.run \cup {c}]
    /\ HandOver(ms, c)

TakeSteer(c, ms) ==
    /\ c \in machine.run
    /\ machine' = [machine EXCEPT !.box[c] = machine.box[c] \cup ms]
    /\ said' = said

Refusal(t) == IF t.op \in {"run", "compact"} /\ t.conv \notin machine.run
                THEN "unavailable" ELSE "rejected"

\* The answer to t, behind the events its execution has set off.
Reply(t, at, events) ==
    LET done == [t EXCEPT !.at = at]
    IN  /\ Len(inbox) + Len(events) < MaxInbox
        /\ tasks' = (tasks \ {t}) \cup {done}
        /\ inbox' = inbox \o events \o <<[k |-> "answer", t |-> done]>>

Event(k, c, ms, ok) == IF c \in watched THEN <<[k |-> k, c |-> c, ms |-> ms, ok |-> ok]>> ELSE <<>>

Removes(t) == t.ms \subseteq machine.box[t.conv]

MachineAnswers(t) ==
    /\ t \in tasks /\ t.at = "out"
    /\ \/ /\ t.op \in {"run", "compact"} /\ Begin(t.conv, t.ms)
          /\ Reply(t, "ok", Event("started", t.conv, {}, TRUE))
       \/ /\ t.op = "steer" /\ TakeSteer(t.conv, t.ms) /\ Reply(t, "ok", <<>>)
       \/ /\ t.op \in SendOps /\ Reply(t, Refusal(t), <<>>) /\ UNCHANGED <<machine, said>>
       \/ /\ t.op \in {"cancel", "withdraw"} /\ Removes(t) /\ Reply(t, "ok", <<>>)
          /\ machine' = [machine EXCEPT !.box[t.conv] = @ \ t.ms] /\ said' = said
       \/ /\ t.op \in {"cancel", "withdraw"} /\ ~Removes(t)
          /\ \E at \in {"kept", "rejected"} : Reply(t, at, <<>>)
          /\ UNCHANGED <<machine, said>>
    /\ UNCHANGED <<view, scr, late, watched>>

\* runtime.drainPending hands over what nobody took.
MachineDrains(t) ==
    /\ t \in tasks /\ t.at = "out" /\ t.op = "drain" /\ Len(inbox) < MaxInbox
    /\ LET done == [t EXCEPT !.at = "ok", !.ms = machine.box[t.conv]]
       IN  /\ tasks' = (tasks \ {t}) \cup {done}
           /\ inbox' = Append(inbox, [k |-> "answer", t |-> done])
    /\ machine' = [machine EXCEPT !.box[t.conv] = {}]
    /\ UNCHANGED <<view, scr, late, watched, said>>

LateArrives(r) ==
    /\ r \in late /\ late' = late \ {r}
    /\ \/ UNCHANGED <<machine, inbox, said>>
       \/ r.op = "steer" /\ TakeSteer(r.conv, r.ms) /\ inbox' = inbox
       \/ r.op # "steer" /\ Begin(r.conv, r.ms) /\ Emit(Event("started", r.conv, {}, TRUE))
    /\ UNCHANGED <<view, scr, tasks, watched>>

\* The turn takes its steers.
MachineConsumes(c) ==
    /\ c \in machine.run /\ machine.box[c] # {}
    /\ machine' = [machine EXCEPT !.box[c] = {}]
    /\ Emit(Event("consumed", c, machine.box[c], TRUE))
    /\ HandOver(machine.box[c], c)
    /\ UNCHANGED <<view, scr, tasks, late, watched>>

\* A turn ends well or in an error; a desktop goes on by itself with what is in the box.
MachineFinishes(c, ok) ==
    /\ c \in machine.run
    /\ LET goesOn == ok /\ ~Agentred /\ machine.box[c] # {}
       IN  /\ machine' = [run |-> IF goesOn THEN machine.run ELSE machine.run \ {c},
                          box |-> IF goesOn THEN [machine.box EXCEPT ![c] = {}] ELSE machine.box]
           /\ HandOver(IF goesOn THEN machine.box[c] ELSE {}, c)
    /\ Emit(Event("done", c, {}, ok))
    /\ UNCHANGED <<view, scr, tasks, late, watched>>

SendNext ==
    \/ \E new \in SUBSET Msgs : Submit(new)
    \/ \E f \in scr.failed : RetryFailed(f) \/ DiscardFailed(f)
    \/ PendingGoes \/ CancelPending \/ RestoreDropped \/ DiscardDropped
    \/ \E i \in scr.queue : Cancel(i) \/ Withdraw(i)
    \/ \E t \in tasks : \/ CheckDone(t) \/ SendSucceeds(t) \/ SendFallsBack(t) \/ SendFails(t)
                        \/ Withdrawn(t) \/ Drained(t) \/ MachineAnswers(t) \/ MachineDrains(t)
    \/ TurnStarted \/ TurnDone \/ SteersConsumed
    \/ \E c \in Convs : \/ Open(c) \/ MachineConsumes(c)
                        \/ \E ok \in BOOLEAN : MachineFinishes(c, ok)
    \/ Listed \/ ReplayDone \/ AttachReady \/ LinkDrops \/ LinkReturns \/ LinkGivesUp
    \/ \E r \in late : LateArrives(r)

SendSpec == SendInit /\ [][SendNext]_sendVars

-----------------------------------------------------------------------------
(* Properties.                                                               *)

FailKinds == {"notSent", "rejected", "transport", "imageWhileRunning"}

SendTypeOK ==
    /\ view.conv \in Convs /\ view.visit \in Nat /\ view.link \in {"connected", "reconnecting", "lost"}
    /\ scr.failed \subseteq [ms : SUBSET Msgs, kind : FailKinds]
    /\ scr.queue \subseteq [ms : SUBSET Msgs, st : {"local", "queued", "withdrawing", "locked"}]
    /\ \A x \in {scr.pending, scr.dropped, scr.draft} : x \subseteq Msgs
    /\ \A t \in tasks : t.ms \subseteq Msgs /\ t.conv \in Convs /\ t.visit <= view.visit
    /\ machine.run \subseteq Convs

(* The send button turns only while a send of this visit is awaited: the result of a
   send of the conversation before neither leaves it turning nor stops it for good.  *)
SpinnerIsHonest ==
    scr.sending => \E t \in tasks : t.op \in SendOps /\ StillHere(t)

\* Every place where a message can be.
Held(m) == \/ m \in OnScreen(scr) \cup ChipMsgs(scr.queue) \cup InFlight
           \/ \E t \in tasks : t.op \in {"drain", "cancel", "withdraw"} /\ m \in t.ms
           \/ \E c \in Convs : m \in machine.box[c] \/ <<m, c>> \in said.got
           \/ \E r \in late : m \in r.ms

(* The composer is emptied on submission, so the text is in a bubble, the queue, the
   banner, the draft, in flight or at the machine until the user lets it go. The code
   sheds it in four places only: an unavailable executor, a second banner, a mailbox
   answer that nobody waits for any more, and a failure told to another conversation. *)
Kept == \A m \in Msgs :
    said.at[m] # None => Held(m) \/ said.gone[m] # None

(* A message shows up, and arrives, only in the conversation it was typed in, unless
   the view was switched between a check or a refusal and the send that followed it. *)
StaysHome == \A m \in Msgs \ said.strayed :
    /\ m \in OnScreen(scr) \cup ChipMsgs(scr.queue) => said.at[m] = view.conv
    /\ \A c \in Convs : <<m, c>> \in said.got \/ m \in machine.box[c] => said.at[m] = c

(* "Withdrawing" is shown on a chip only while its request is awaited.       *)
WithdrawIsAwaited == \A i \in scr.queue :
    i.st = "withdrawing" => \E t \in tasks : t.op = "withdraw" /\ t.ms = i.ms

(* Sending: no message disappears, none lands elsewhere, the spinner tells
   the truth, and a withdrawal is awaited. *)
SendInv ==
    /\ SendTypeOK
    /\ SpinnerIsHonest
    /\ Kept
    /\ StaysHome
    /\ WithdrawIsAwaited

-----------------------------------------------------------------------------
(* What the repository says, or a user would expect, and the code does not       *)
(* keep: TLC finds each of these violated (README, section 8).                   *)

(* What is shown as never sent never left the browser, so resending it is clean; its
   button is off while a send is awaited.                                     *)
NotSentIsClean == \A f \in scr.failed :
    f.kind = "notSent" /\ ~scr.sending => \A m \in f.ms, c \in Convs : <<m, c>> \notin said.got

(* A message that was said is shown until its owner lets it go.              *)
NothingSaidIsLost == \A m \in Msgs : said.at[m] # None => Held(m) \/ said.gone[m] = "letGo"

(* No message ever reaches a conversation it was not typed in.               *)
SaidToItsOwn == \A m \in Msgs, c \in Convs : <<m, c>> \in said.got => said.at[m] = c
=============================================================================
