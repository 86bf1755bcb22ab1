----------------------------- MODULE Transcript -----------------------------
(* What stands in the transcript of a detail view (frontend components/session:
   SessionDetailView's loading of a conversation, useTranscriptScrollback,
   loadMirrorTail, appendFrames). Three sources feed one list: the account's mirror
   (the last page, then earlier ones), the live frames of a relay client and its
   catch-up. The view is not remounted when another conversation is opened, clients are
   pooled and outlive a visit, and a client's cursor moves on with nobody watching.
   A client is SessionStream reduced to its cursor and its pull; live frames arrive at
   once, and the rows of a conversation are never renumbered.                      *)
EXTENDS Naturals, Sequences, FiniteSets

CONSTANTS Talks,       \* conversations of one machine
          MaxRow,      \* bound: rows of each of them
          MirrorPage,  \* rows of a page of the mirror
          TailFrames,  \* RELAY_TAIL_FRAMES
          PullLimit,   \* DefaultSessionPullLimit
          TopupCap,    \* TOPUP_CAP
          Viewport,    \* rows that fill the viewport
          Starts       \* bound: where a run starts (first, log, mirror, saved), which
                       \* conversations it writes to (grow), how many it opens (visits) and
                       \* how many requests fail or connections are lost in it (faults)

ASSUME TranscriptAssumption ==
    /\ MaxRow \in Nat /\ TopupCap \in Nat
    /\ MirrorPage \in Nat \ {0} /\ TailFrames \in Nat \ {0} /\ PullLimit \in Nat \ {0}
    /\ "none" \notin Talks /\ "machine" \notin Talks

\* The account has rows of what is saved only, and of those the machine has.
ASSUME TranscriptStartsAssumption == \A st \in Starts :
    /\ st.first \in Talks /\ st.saved \subseteq Talks
    /\ st.log \in [Talks -> 0 .. MaxRow] /\ st.mirror \in [Talks -> 0 .. MaxRow]
    /\ \A c \in Talks : st.mirror[c] <= st.log[c] /\ (c \notin st.saved => st.mirror[c] = 0)

VARIABLES page,      \* talk, visit, client, state of its connection
          shown,     \* the list of frames, oldest first
          load,      \* history.settled, mirrorSeqRef, ready, catchUpFailed, attachedClientRef
          older,     \* EarlierState with its in-flight mark and top-ups; paged: an earlier
                     \* page has come (history)
          calls,     \* what is awaited
          clients,   \* the pool: cursor and pull of each conversation
          log, mirror, saved, \* rows of the machine, rows in the account, talks in it
          budget     \* what is left of the bounds

transcriptVars ==
    <<page, shown, load, older, calls, clients, log, mirror, saved, budget>>

NoClient == "none"
ByMachine == "machine"
PoolClients == Talks \cup {ByMachine}
NotPulling == MaxRow + 1

ClientOf(c) == [cursor |-> 0, live |-> FALSE, watched |-> FALSE,
                sent |-> NotPulling, before |-> 0, refill |-> FALSE]

NoOlder == [source |-> "none", oldest |-> 0, hasBefore |-> FALSE, loading |-> FALSE,
            capped |-> FALSE, failed |-> FALSE, inFlight |-> FALSE, topups |-> 0,
            paged |-> FALSE]

NoLoad == [settled |-> FALSE, seq |-> 0, ready |-> FALSE, failed |-> FALSE, attached |-> NoClient,
           aligned |-> FALSE, upset |-> {}]

Members(q) == {q[i] : i \in DOMAIN q}
Greatest(S) == IF S = {} THEN 0 ELSE CHOOSE m \in S : \A n \in S : n <= m
Nth(S, i) == CHOOSE r \in S : Cardinality({s \in S : s <= r}) = i
Frames(c, S) == [i \in 1 .. Cardinality(S) |-> [talk |-> c, row |-> Nth(S, i)]]

\* What stands in a list at the places D.
Chosen(list, D) == [i \in 1 .. Cardinality(D) |-> list[Nth(D, i)]]
Rows == {f.row : f \in Members(shown)}

AppendRaw(list, new) == list \o new

\* appendFrames.
AppendFrames(list, new) == list \o Chosen(new, {i \in DOMAIN new : new[i] \notin Members(list)})

Fault == budget.faults > 0 /\ budget' = [budget EXCEPT !.faults = @ - 1]

\* The target a channel is opened for: the conversation, or, when the account does not
\* know it, the machine, which is clear only when the mirror has been asked.
RelayTarget(c, l) == IF c \in saved THEN c ELSE IF l.settled THEN ByMachine ELSE NoClient

-----------------------------------------------------------------------------
(* The effects of the view.                                                  *)

\* useAliveEffect: what an effect awaits is void when one of its dependencies changes.
Deaden(ops, T) == {IF t.op \in ops THEN [t EXCEPT !.alive = FALSE] ELSE t : t \in T}
Chains == {"attach", "reattach"}

MirrorCall(c, v) == [op |-> "mirror", talk |-> c, visit |-> v, alive |-> TRUE,
                     client |-> NoClient, at |-> "asked", latest |-> mirror[c], tail |-> FALSE]

Chain(op, p, at) == [op |-> op, talk |-> p.talk, visit |-> p.visit, alive |-> TRUE,
                     client |-> p.client, at |-> at, latest |-> 0, tail |-> FALSE]

AttachEffectOnce(p, l, T) ==
    IF p.client = NoClient \/ p.state # "connected" \/ ~l.settled \/ l.ready THEN T
    ELSE T \cup {Chain("attach", p, "list")}

\* The attach effect, run again with page p and progress l.
AttachEffect(p, l, T) ==
    IF p.client = NoClient \/ p.state # "connected" \/ ~l.settled \/ (l.ready /\ l.attached = p.client)
    THEN T
    ELSE T \cup {Chain(IF l.ready THEN "reattach" ELSE "attach", p, IF l.ready THEN "start" ELSE "list")}

Rerun(p, l, T) == page' = p /\ load' = l /\ calls' = AttachEffect(p, l, Deaden(Chains, T))

OpenTalkKeepsFlight(c) ==
    /\ c # page.talk /\ page.visit < budget.visits
    /\ page' = [talk |-> c, visit |-> page.visit + 1, client |-> NoClient, state |-> "connecting"]
    /\ shown' = <<>> /\ load' = NoLoad /\ older' = [NoOlder EXCEPT !.inFlight = older.inFlight]
    /\ calls' = Deaden(Chains \cup {"mirror"}, calls) \cup {MirrorCall(c, page.visit + 1)}
    /\ UNCHANGED <<clients, log, mirror, saved, budget>>

\* Another conversation is opened: everything of the last one is reset in place.
OpenTalk(c) ==
    /\ c # page.talk /\ page.visit < budget.visits
    /\ page' = [talk |-> c, visit |-> page.visit + 1, client |-> NoClient, state |-> "connecting"]
    /\ shown' = <<>> /\ load' = NoLoad /\ older' = NoOlder
    /\ calls' = Deaden(Chains \cup {"mirror"}, calls) \cup {MirrorCall(c, page.visit + 1)}
    /\ UNCHANGED <<clients, log, mirror, saved, budget>>

\* useRelayChannel hands over the pool's client for the target.
GetClient ==
    LET target == RelayTarget(page.talk, load) IN
    /\ target # NoClient /\ page.client # target
    /\ Rerun([page EXCEPT !.client = target, !.state = "connected"], [load EXCEPT !.aligned = FALSE], calls)
    /\ UNCHANGED <<shown, older, clients, log, mirror, saved, budget>>

\* The account's index delivers the row of a conversation that is open.
RowLands(c) ==
    /\ c \notin saved /\ saved' = saved \cup {c}
    /\ IF c = page.talk
       THEN Rerun([page EXCEPT !.client = NoClient, !.state = "connecting"], load,
                  IF load.settled THEN calls
                  ELSE Deaden({"mirror"}, calls) \cup {MirrorCall(c, page.visit)})
       ELSE UNCHANGED <<page, load, calls>>
    /\ UNCHANGED <<shown, older, clients, log, mirror, budget>>

-----------------------------------------------------------------------------
(* The mirror. A page is read at any moment between its request and its arrival. *)

PageUpTo(n, size) == {r \in 1 .. n : r + size >= n}

PageBefore(n, size) == {r \in 1 .. n - 1 : r + size >= n}

\* The first page of the mirror comes before everything that has a later number; what a
\* client had delivered meanwhile of the same rows gives way.
MirrorArrives(t, upTo) ==
    LET rows == PageBefore(upTo + 1, MirrorPage)
        later == Chosen(shown, {i \in DOMAIN shown : shown[i].row > upTo})
        low == CHOOSE r \in rows : \A s \in rows : r <= s
    IN  /\ t \in calls /\ t.op = "mirror" /\ upTo \in t.latest .. mirror[t.talk]
        /\ IF ~t.alive
           THEN UNCHANGED <<page, shown, load, older>> /\ calls' = calls \ {t}
           ELSE /\ shown' = Frames(t.talk, rows) \o later
                /\ Rerun(page, [load EXCEPT !.settled = TRUE, !.seq = upTo], calls \ {t})
                /\ older' = IF rows = {} THEN older
                            ELSE [older EXCEPT !.source = "mirror", !.oldest = low, !.hasBefore = low > 1]
        /\ UNCHANGED <<clients, log, mirror, saved, budget>>

\* The mirror cannot be read: the machine may still tell.
MirrorFails(t) ==
    /\ t \in calls /\ t.op = "mirror"
    /\ Fault
    /\ IF ~t.alive
       THEN calls' = calls \ {t} /\ UNCHANGED <<page, load>>
       ELSE Rerun(page, [load EXCEPT !.settled = TRUE], calls \ {t})
    /\ UNCHANGED <<shown, older, clients, log, mirror, saved>>

-----------------------------------------------------------------------------
(* A client's cursor and pull, and what it hands to the view that listens to it. *)

Pulling(s) == s.sent # NotPulling
Hears(k, c) == page.client = k /\ page.talk = c
Hand(k, c, rows) ==
    /\ shown' = IF Hears(k, c) THEN AppendFrames(shown, Frames(c, rows)) ELSE shown
    /\ load' = IF Hears(k, c) /\ ~load.aligned /\ rows # {}
               THEN [load EXCEPT !.upset = @ \cup {"early"}] ELSE load

\* A chain of an earlier visit to the conversation that is open goes on using its client.
Strayed(t, l) == IF t.visit # page.visit /\ t.talk = page.talk
                 THEN [l EXCEPT !.upset = @ \cup {"stray"}] ELSE l

\* The history of a cursor that is set for the view's own load.
Aligned(t, cursor) ==
    IF t.visit # page.visit THEN Strayed(t, load)
    ELSE [load EXCEPT !.aligned = TRUE,
                      !.upset = @ \cup (IF Greatest(Rows) > cursor THEN {"early"} ELSE {})
                                  \cup (IF Pulling(clients[t.client][t.talk]) THEN {"crossed"} ELSE {})]

CatchUp(s) == IF Pulling(s) THEN [s EXCEPT !.refill = TRUE]
              ELSE [s EXCEPT !.sent = s.cursor, !.before = s.cursor, !.live = TRUE, !.watched = TRUE]
EndPull(s) ==
    LET t == [s EXCEPT !.sent = NotPulling, !.refill = FALSE]
    IN  IF s.refill /\ s.cursor > s.before THEN CatchUp(t) ELSE t

Waiting(t, k, c) == t.client = k /\ t.talk = c /\ t.at = "filling"
Answered(T, k, c, at) == {IF Waiting(t, k, c) THEN [t EXCEPT !.at = at] ELSE t : t \in T}

\* The machine writes a row; every client that is attached hears of it.
WriteRow(c) ==
    LET n == log[c] + 1
        Next1(s) == [s EXCEPT !.cursor = n]
        Takes(k) == clients[k][c].live /\ clients[k][c].cursor = n - 1
    IN  /\ n <= MaxRow /\ c \in budget.grow /\ log' = [log EXCEPT ![c] = n]
        /\ clients' = [k \in PoolClients |-> [clients[k] EXCEPT ![c] =
                         IF Takes(k) THEN Next1(@)
                         ELSE IF @.live /\ @.cursor < n - 1 THEN CatchUp(@) ELSE @]]
        /\ LET k == page.client
           IN  IF k # NoClient /\ Takes(k) THEN Hand(k, c, {n}) ELSE UNCHANGED <<shown, load>>
        /\ UNCHANGED <<page, older, calls, mirror, saved, budget>>

MirrorGrows(c) ==
    /\ c \in saved /\ mirror[c] < log[c] /\ mirror' = [mirror EXCEPT ![c] = @ + 1]
    /\ UNCHANGED <<page, shown, load, older, calls, clients, log, saved, budget>>

\* A page of the pull: its rows above the cursor are handed over whether or not they
\* follow it; the loop goes on while there is more and the cursor moves.
PageArrives(k, c) ==
    LET s == clients[k][c]
        rows == {r \in 1 .. log[c] : s.sent < r /\ r <= s.sent + PullLimit}
        new == {r \in rows : r > s.cursor}
        t == [s EXCEPT !.cursor = Greatest(new \cup {s.cursor})]
        more == s.sent + PullLimit < log[c] /\ t.cursor > s.sent
    IN  /\ Pulling(s) /\ page.state # "down"
        /\ Hand(k, c, new)
        /\ clients' = [clients EXCEPT ![k][c] = IF more THEN [t EXCEPT !.sent = t.cursor] ELSE EndPull(t)]
        /\ calls' = IF more THEN calls ELSE Answered(calls, k, c, "filled")
        /\ UNCHANGED <<page, older, log, mirror, saved, budget>>

\* The one connection under all clients is lost: all that was asked over it fails.
Cut(s) == [s EXCEPT !.live = FALSE, !.sent = NotPulling, !.refill = FALSE]
LoseLink ==
    /\ page.state = "connected" /\ Fault
    /\ page' = [page EXCEPT !.state = "down"]
    /\ clients' = [k \in PoolClients |-> [c \in Talks |-> Cut(clients[k][c])]]
    /\ calls' = {IF t.op \in Chains THEN [t EXCEPT !.at = "lost"] ELSE t : t \in Deaden(Chains, calls)}
    /\ UNCHANGED <<shown, load, older, log, mirror, saved>>

LinkReturnsUnseen ==
    /\ page.state = "down" /\ page' = [page EXCEPT !.state = "connected"]
    /\ clients' = [k \in PoolClients |-> [c \in Talks |->
                     IF clients[k][c].watched THEN CatchUp(clients[k][c]) ELSE clients[k][c]]]
    /\ UNCHANGED <<shown, load, older, calls, log, mirror, saved, budget>>

LinkReturns ==
    /\ page.state = "down"
    /\ Rerun([page EXCEPT !.state = "connected"], load, calls)
    /\ clients' = [k \in PoolClients |-> [c \in Talks |->
                     IF clients[k][c].watched THEN CatchUp(clients[k][c]) ELSE clients[k][c]]]
    /\ UNCHANGED <<shown, older, log, mirror, saved, budget>>

-----------------------------------------------------------------------------
(* Loading a conversation: list, attach, catch up. A chain that is void goes on using
   the client; it only says nothing to the view.                              *)

At(t, at) == t \in calls /\ t.at = at
On(t, s) == clients' = [clients EXCEPT ![t.client][t.talk] = s]
Becomes(t, u) == calls' = (calls \ {t}) \cup {u}
Stream(t) == clients[t.client][t.talk]

ListedRaises(t) ==
    /\ At(t, "list") /\ page.state # "down"
    /\ On(t, [Stream(t) EXCEPT !.cursor = IF @ < load.seq THEN load.seq ELSE @])
    /\ Becomes(t, [t EXCEPT !.at = "attaching", !.latest = log[t.talk]])
    /\ load' = Aligned(t, load.seq)
    /\ UNCHANGED <<page, shown, older, log, mirror, saved, budget>>

\* session.list is answered: the cursor is set to where the transcript begins, which is
\* read from the view's ref at this moment.
Listed(t) ==
    /\ At(t, "list") /\ page.state # "down"
    /\ On(t, [Stream(t) EXCEPT !.cursor = load.seq])
    /\ Becomes(t, [t EXCEPT !.at = "attaching", !.latest = log[t.talk]])
    /\ load' = Aligned(t, load.seq)
    /\ UNCHANGED <<page, shown, older, log, mirror, saved, budget>>

\* attach is answered, or refused (ok is FALSE): a cursor above the machine's last row
\* falls back to it, and a talk that only the machine has is read from its tail.
Attached(t, ok) ==
    LET latest == IF ok THEN log[t.talk] ELSE t.latest
        s == [Stream(t) EXCEPT !.live = @ \/ ok, !.watched = @ \/ ok]
        u == IF latest > 0 /\ latest < s.cursor THEN [s EXCEPT !.cursor = latest] ELSE s
        tail == t.op = "attach" /\ load.seq = 0 /\ latest > TailFrames /\ u.cursor = 0
        w == IF tail THEN [u EXCEPT !.cursor = latest - TailFrames] ELSE u
    IN  /\ At(t, "attaching") /\ page.state # "down"
        /\ IF ok THEN UNCHANGED budget
           ELSE Fault
        /\ On(t, CatchUp(w))
        /\ Becomes(t, [t EXCEPT !.at = "filling", !.latest = latest, !.tail = tail])
        /\ load' = IF tail /\ t.visit = page.visit /\ Rows # {}
                   THEN [load EXCEPT !.upset = @ \cup {"tail"}] ELSE Strayed(t, load)
        /\ UNCHANGED <<page, shown, older, log, mirror, saved>>

FilledWhole(t) ==
    /\ At(t, "filled")
    /\ IF ~t.alive
       THEN calls' = calls \ {t} /\ UNCHANGED <<load, older>>
       ELSE /\ load' = [load EXCEPT !.ready = TRUE, !.attached = t.client]
            /\ calls' = Deaden(Chains, calls \ {t})
            /\ older' = IF load.seq # 0 \/ older.source = "mirror" THEN older
                        ELSE [older EXCEPT !.source = "relay", !.oldest = 1, !.hasBefore = FALSE]
    /\ UNCHANGED <<page, shown, clients, log, mirror, saved, budget>>

\* noteRelayHistory, and the view is ready.
Filled(t) ==
    LET from == IF t.tail THEN t.latest - TailFrames ELSE 0
        l == [load EXCEPT !.ready = TRUE, !.attached = t.client]
    IN  /\ At(t, "filled")
        /\ IF ~t.alive
           THEN calls' = calls \ {t} /\ UNCHANGED <<load, older>>
           ELSE IF t.op = "reattach"
           THEN load' = [load EXCEPT !.attached = t.client] /\ calls' = calls \ {t} /\ UNCHANGED older
           ELSE /\ load' = l /\ calls' = Deaden(Chains, calls \ {t})
                /\ older' = IF load.seq # 0 \/ older.source = "mirror" THEN older
                            ELSE [older EXCEPT !.source = "relay", !.oldest = from + 1, !.hasBefore = from > 0]
        /\ UNCHANGED <<page, shown, clients, log, mirror, saved, budget>>

\* A chain whose requests failed.
ChainFails(t) ==
    /\ At(t, "lost") /\ calls' = calls \ {t}
    /\ load' = IF t.alive THEN [load EXCEPT !.failed = TRUE] ELSE load
    /\ UNCHANGED <<page, shown, older, clients, log, mirror, saved, budget>>

\* No answer in time, while the connection stands.
RequestFails(t) ==
    /\ t \in calls /\ t.op \in Chains /\ t.at \in {"list", "filling"}
    /\ Fault
    /\ IF t.at = "list"
       THEN calls' = (calls \ {t}) \cup {[t EXCEPT !.at = "lost"]} /\ UNCHANGED <<clients, load>>
       ELSE /\ On(t, EndPull(Stream(t))) /\ calls' = Answered(calls, t.client, t.talk, "lost")
            /\ load' = Strayed(t, load)
    /\ UNCHANGED <<page, shown, older, log, mirror, saved>>

\* reattachOnNewClient: the cursor is set to the last row on the screen.
ReattachStarts(t) ==
    /\ At(t, "start") /\ page.state # "down"
    /\ On(t, [Stream(t) EXCEPT !.cursor = Greatest(Rows)])
    /\ Becomes(t, [t EXCEPT !.at = "attaching", !.latest = 0])
    /\ load' = Aligned(t, Greatest(Rows))
    /\ UNCHANGED <<page, shown, older, log, mirror, saved, budget>>

-----------------------------------------------------------------------------
(* Earlier pages.                                                            *)

CanLoadEarlier == ~older.inFlight /\ older.hasBefore /\ older.source # "none"

LoadEarlier(o) ==
    /\ older' = [o EXCEPT !.inFlight = TRUE, !.loading = TRUE, !.failed = FALSE]
    /\ calls' = calls \cup {[op |-> "older", talk |-> page.talk, visit |-> page.visit, alive |-> TRUE,
                             client |-> page.client, at |-> o.source, latest |-> o.oldest, tail |-> FALSE]}
    /\ UNCHANGED <<page, shown, load, clients, log, mirror, saved, budget>>

Overflows == Len(shown) > Viewport

\* The user scrolls towards the top, or asks again after a failure or at the cap.
ScrollUp == CanLoadEarlier /\ ~older.capped /\ Overflows /\ LoadEarlier(older)
RetryEarlier ==
    /\ older.capped \/ older.failed
    /\ CanLoadEarlier /\ LoadEarlier([older EXCEPT !.topups = 0, !.capped = FALSE])

TopUpOnceMore ==
    /\ CanLoadEarlier /\ ~older.capped /\ ~Overflows
    /\ IF older.topups > TopupCap
       THEN /\ older' = [older EXCEPT !.capped = TRUE]
            /\ UNCHANGED <<page, shown, load, calls, clients, log, mirror, saved, budget>>
       ELSE LoadEarlier([older EXCEPT !.topups = @ + 1])

\* A transcript that does not fill the viewport asks for more, up to the cap.
TopUp ==
    /\ CanLoadEarlier /\ ~older.capped /\ ~Overflows
    /\ IF older.topups >= TopupCap
       THEN /\ older' = [older EXCEPT !.capped = TRUE]
            /\ UNCHANGED <<page, shown, load, calls, clients, log, mirror, saved, budget>>
       ELSE LoadEarlier([older EXCEPT !.topups = @ + 1])

StillHereAlways(t) == TRUE

StillHere(t) == t.visit = page.visit

EarlierArrives(t) ==
    LET c == t.talk
        rows == PageBefore(t.latest, IF t.at = "mirror" THEN MirrorPage ELSE TailFrames)
        low == CHOOSE r \in rows : \A s \in rows : r <= s
    IN  /\ t \in calls /\ t.op = "older"
        /\ t.at = "mirror" \/ (t.client # NoClient /\ page.state # "down")
        /\ calls' = calls \ {t}
        /\ IF ~StillHere(t) THEN UNCHANGED <<shown, older>>
           ELSE /\ shown' = Frames(c, rows) \o shown
                /\ older' = [older EXCEPT !.loading = FALSE, !.failed = FALSE, !.inFlight = FALSE, !.paged = TRUE,
                               !.oldest = IF rows = {} THEN @ ELSE low,
                               !.hasBefore = rows # {} /\ low > 1]
        /\ UNCHANGED <<page, load, clients, log, mirror, saved, budget>>

EarlierFails(t) ==
    /\ t \in calls /\ t.op = "older"
    /\ Fault
    /\ calls' = calls \ {t}
    /\ older' = IF StillHere(t) THEN [older EXCEPT !.loading = FALSE, !.failed = TRUE, !.inFlight = FALSE]
                ELSE older
    /\ UNCHANGED <<page, shown, load, clients, log, mirror, saved>>

-----------------------------------------------------------------------------
TranscriptInit == \E st \in Starts : LET c == st.first IN
    /\ log = st.log /\ mirror = st.mirror /\ saved = st.saved
    /\ page = [talk |-> c, visit |-> 1, client |-> NoClient, state |-> "connecting"]
    /\ shown = <<>> /\ load = NoLoad /\ older = NoOlder
    /\ calls = {MirrorCall(c, 1)}
    /\ clients = [k \in PoolClients |-> [d \in Talks |-> ClientOf(d)]]
    /\ budget = [faults |-> st.faults, visits |-> st.visits, grow |-> st.grow]

LoadStep ==
    \/ GetClient
    \/ \E t \in calls : Listed(t) \/ Attached(t, TRUE) \/ Filled(t) \/ ChainFails(t) \/ ReattachStarts(t)
    \/ \E t \in calls, n \in 0 .. MaxRow : MirrorArrives(t, n)
    \/ \E k \in PoolClients, c \in Talks : PageArrives(k, c)
    \/ LinkReturns

TranscriptNext ==
    \/ LoadStep \/ TopUp \/ ScrollUp \/ RetryEarlier \/ LoseLink
    \/ \E c \in Talks : OpenTalk(c) \/ RowLands(c) \/ WriteRow(c) \/ MirrorGrows(c)
    \/ \E t \in calls : MirrorFails(t) \/ Attached(t, FALSE) \/ RequestFails(t)
                        \/ EarlierArrives(t) \/ EarlierFails(t)

(* What a load is waiting for comes or fails; an effect due to run runs. *)
TranscriptFair ==
    /\ WF_transcriptVars(LoadStep)
    /\ WF_transcriptVars(TopUp \/ \E t \in calls : EarlierArrives(t))

TranscriptSpec == TranscriptInit /\ [][TranscriptNext]_transcriptVars /\ TranscriptFair

-----------------------------------------------------------------------------
(* Properties.                                                               *)

TranscriptTypeOK ==
    /\ page.talk \in Talks /\ page.client \in PoolClients \cup {NoClient}
    /\ \A i \in DOMAIN shown : shown[i] \in [talk : Talks, row : 1 .. MaxRow]
    /\ older.topups \in 0 .. TopupCap /\ older.oldest \in 0 .. MaxRow
    /\ \A k \in PoolClients, c \in Talks : clients[k][c].cursor \in 0 .. MaxRow

(* A page of an earlier visit is not put into the transcript of another one
   (the guard of loadEarlier).                                                *)
OwnOnly == \A i \in DOMAIN shown : shown[i].talk = page.talk

(* Mirror, live frames, catch-up and earlier pages together show every row once and in
   the order of the machine, as long as no row came before the client's cursor was set
   to the start of this transcript, and no pull was in flight when it was set.  *)
Sorted == \A i, j \in DOMAIN shown : i < j => shown[i].row < shown[j].row
InOrder == load.upset = {} => Sorted

(* What the mirror, live frames and the catch-up bring is shown once, however often a
   row is delivered: before and after the cursor is set, by an old and a new client. *)
ShownOnce == ~older.paged => \A i, j \in DOMAIN shown : i # j => shown[i] # shown[j]

(* A transcript that is ready has no hole, whatever the client had consumed for an
   earlier visit, unless a pull was in flight when its cursor was set, or a second
   client read its tail under rows already shown.                             *)
Span == (CHOOSE r \in Rows : \A s \in Rows : r <= s) .. Greatest(Rows)
NoHole == load.ready /\ Rows # {} /\ load.upset \cap {"crossed", "tail", "stray"} = {} => Rows = Span

(* The view never says that nothing is earlier while rows are missing at its top. *)
NothingEarlier ==
    load.ready /\ load.upset = {} /\ older.source # "none" /\ ~older.hasBefore /\ Rows # {}
        => 1 \in Rows

(* The in-flight mark is up exactly while an earlier page of this visit is awaited:
   it is never left behind, by a failure or a change of conversation.         *)
LoadingEnds == older.inFlight <=> \E t \in calls : t.op = "older" /\ StillHere(t)

(* Opening a conversation ends: it is ready, or the page says that it failed. *)
Settles == ~load.ready ~> load.ready \/ load.failed

(* A row that is written while the transcript is ready reaches it, over a change of
   the client, too, unless a pull was in flight when the cursor was set.      *)
Behind == /\ load.ready /\ ~load.failed /\ "crossed" \notin load.upset
          /\ log[page.talk] # 0 /\ log[page.talk] \notin Rows
RowsShown == Behind ~> ~Behind

(* The transcript: rows of one conversation, in order, once each, without a
   hole, and its loading comes to an end. *)
TranscriptInv ==
    /\ TranscriptTypeOK
    /\ OwnOnly
    /\ InOrder
    /\ ShownOnce
    /\ NoHole
    /\ NothingEarlier
    /\ LoadingEnds

-----------------------------------------------------------------------------
(* What the repository says, or a user would expect, and the code does not       *)
(* keep: TLC finds each of these violated (README, section 8).                   *)

(* A low cursor only repeats rows, and appendFrames stops repeats (SessionDetailView,
   at the alignment of the cursor).                                           *)
RepeatsOnly == "crossed" \in load.upset \/ Sorted

(* The same of the top of the transcript, also when a visit to the same conversation
   before this one has not ended its loading yet: the view never says that nothing is
   earlier while rows are missing.                                            *)
TopIsReached == load.ready /\ older.source # "none" /\ ~older.hasBefore /\ Rows # {} => 1 \in Rows

(* When catching up fails the view is never ready (SessionDetailView, attachSettled). *)
FailedIsNeverReady == ~(load.failed /\ load.ready)
=============================================================================
