------------------------------ MODULE RelayLink ------------------------------
(* The browser's one websocket to the relay (frontend lib/relayConnection.ts) and
   the virtual channels its relay clients keep on it (lib/relayClient.ts):
   dialling, redialling, supersession by the user, handshakes with the machine
   behind each channel, and the timers that repeat what failed.

   JavaScript runs one handler at a time, so every action is one handler with the
   promise continuations that follow it; what awaits a ticket, a socket or a
   machine is a task of its own (dialer, hs) between two actions. How long a
   backoff lasts is abstracted: a timer is armed or it is not.               *)
EXTENDS Naturals, FiniteSets

CONSTANTS Channels,       \* targets, one client and one virtual channel each
          MaxSockets,     \* websockets alive at once
          MaxDialers,     \* redials and reconnects in flight at once
          MaxHandshakes,  \* handshakes of one channel in flight at once
          MaxLinkFaults,  \* failed dials, drops, refused tickets and handshakes
          MaxReconnects   \* times the user asks for a new connection

ASSUME LinkAssumption ==
    /\ MaxSockets \in Nat \ {0} /\ MaxDialers \in Nat \ {0} /\ MaxHandshakes \in Nat \ {0}
    /\ MaxLinkFaults \in Nat /\ MaxReconnects \in Nat
    /\ Channels \cap {"idle", "redial"} = {}     \* the kinds of a dialer's task

Sockets == 1 .. MaxSockets
Dialers == 1 .. MaxDialers
Handshakes == 1 .. MaxHandshakes
LinkStates == {"disconnected", "connecting", "connected", "reconnecting"}
ChannelCodes == {"none", "transient", "permanent"}

VARIABLES conn,        \* ws and promise (0: null), state, redial timer, sockets
          dialer,      \* tasks that are dialling: redialOnce and reconnect
          client,      \* one RelayClient per channel
          linkFaults, reconnects  \* what is left of the two bounds

linkVars == <<conn, dialer, client, linkFaults, reconnects>>

Idle == [kind |-> "idle", at |-> "ticket", p |-> 0]
NoHandshake == [at |-> "idle", p |-> 0]
At(where) == [at |-> where, p |-> 0]

\* Two history marks. authOn: the socket on which the machine last said yes. gone: the
\* pool has given the client up, while a reconnect of the user was on its way to it or not.
NewClient ==
    [st |-> "disconnected", open |-> FALSE, code |-> "none", hsRetry |-> FALSE,
     reopen |-> FALSE, hs |-> [h \in Handshakes |-> NoHandshake], run |-> 0,
     closed |-> FALSE, refused |-> FALSE, authOn |-> 0, gone |-> "no"]

LinkInit ==
    /\ conn = [ws |-> 0, promise |-> 0, st |-> "disconnected", redial |-> FALSE,
               sock |-> [i \in Sockets |-> "closed"]]
    /\ dialer = [d \in Dialers |-> Idle]
    /\ client = [ch \in Channels |-> NewClient]
    /\ linkFaults = MaxLinkFaults
    /\ reconnects = MaxReconnects

Usable(c) == c.ws # 0 /\ c.sock[c.ws] = "open"
Resolved(c) == c.promise # 0 /\ c.sock[c.promise] = "open"
CanDial(c) == c.promise # 0 \/ \E i \in Sockets : c.sock[i] = "closed"
HasSlot(k) == \E h \in Handshakes : k.hs[h] = NoHandshake
FreeSlot(k) == CHOOSE h \in Handshakes : k.hs[h] = NoHandshake

Fault == linkFaults > 0 /\ linkFaults' = linkFaults - 1

-----------------------------------------------------------------------------
(* RelayConnection: what its methods make of the connection.                 *)

Dial(c) ==
    IF c.promise # 0 THEN c
    ELSE LET i == CHOOSE s \in Sockets : c.sock[s] = "closed"
         IN  [c EXCEPT !.ws = i, !.promise = i, !.st = "connecting", !.sock[i] = "opening"]

Lost(c) == [c EXCEPT !.st = "reconnecting", !.redial = TRUE]

\* The socket of before goes first: its events no longer belong to the connection.
Supersede(c) ==
    Dial([c EXCEPT !.ws = 0, !.promise = 0, !.redial = FALSE,
                   !.sock = [i \in Sockets |->
                       IF i # c.ws THEN c.sock[i]
                       ELSE IF c.sock[i] = "opening" THEN "cancelled" ELSE "closed"]])

-----------------------------------------------------------------------------
(* RelayClient: what its handlers make of a client.                          *)

End(k, hs) ==
    [k EXCEPT !.hs = [h \in Handshakes |-> IF h \in hs THEN NoHandshake ELSE k.hs[h]],
              !.run = IF k.run \in hs THEN 0 ELSE k.run]

StartHandshake(k) == [k EXCEPT !.hs[FreeSlot(k)] = At("cred")]

\* Mutant: the retry is armed whatever has become of the channel meanwhile.
ScheduleHandshakeRetryAlways(k) == [k EXCEPT !.hsRetry = TRUE]

ScheduleHandshakeRetry(k) == [k EXCEPT !.hsRetry = k.hsRetry \/ (~k.closed /\ k.open)]

HandshakeFails(k, hs) ==
    ScheduleHandshakeRetry([End(k, hs) EXCEPT !.st = "reconnecting"])

\* failPending rejects the handshakes that wait for their answer; they run on after
\* the handler that dropped them has set its own state.
FailPending(k) ==
    LET waiting == {h \in Handshakes : k.hs[h].at = "reply"}
    IN  IF waiting = {} THEN k ELSE HandshakeFails(k, waiting)

\* Mutant: only the socket's own tasks hear that it has gone.
HandleConnectionStateDeaf(k, st) == k

HandleConnectionState(k, st) ==
    IF k.closed \/ ~k.open \/ st = "connected" THEN k
    ELSE FailPending([k EXCEPT !.st = st])

\* What the channels hear of the step of the connection from conn to c.
Told(c) == [ch \in Channels |->
    IF c.st = conn.st THEN client[ch] ELSE HandleConnectionState(client[ch], c.st)]

OpenChannel(k, h) == [k EXCEPT !.open = TRUE, !.hs[h] = At("cred")]

\* connect(): the state, the shared run, and the wait for the socket c.
Connect(k, c) ==
    IF k.run # 0 THEN k
    ELSE LET h == FreeSlot(k)
             k1 == [k EXCEPT !.closed = FALSE, !.st = "connecting", !.run = h]
         IN  IF Resolved(c) THEN OpenChannel(k1, h)
             ELSE [k1 EXCEPT !.hs[h] = [at |-> "socket", p |-> c.promise]]

Reopen(k, c) == IF k.open THEN k ELSE Connect(k, c)

HandleChannelClosed(k) ==
    LET transient == k.code = "transient"
        k1 == [k EXCEPT !.open = FALSE, !.hsRetry = FALSE, !.code = "none",
                        !.reopen = k.reopen \/ transient,
                        !.st = IF transient THEN "reconnecting" ELSE "disconnected"]
    IN  FailPending(k1)

CloseClient(k) ==
    LET k1 == [k EXCEPT !.closed = TRUE, !.hsRetry = FALSE, !.reopen = FALSE,
                        !.open = FALSE, !.run = 0, !.st = "disconnected"]
    IN  FailPending(k1)

Waiting(k, i) == {h \in Handshakes : k.hs[h] = [at |-> "socket", p |-> i]}

-----------------------------------------------------------------------------
(* The steps.                                                                *)

\* A page opens the channel for the first time (the pool's open).
FirstConnect(ch) ==
    /\ client[ch] = NewClient /\ CanDial(conn)
    /\ conn' = Dial(conn)
    /\ client' = [Told(conn') EXCEPT ![ch] = Connect(client[ch], conn')]
    /\ UNCHANGED <<dialer, linkFaults, reconnects>>

\* onopen: every channel is declared, then those who await the socket go on, then
\* every channel that was there shakes hands again; last, a reconnect has its client
\* reopened, whatever has become of it meanwhile. A socket that is no longer the
\* current one stops at the first channel it cannot declare.
SocketOpens(i) ==
    LET c == [conn EXCEPT !.sock[i] = "open", !.st = "connected"]
        stuck == ~Usable(c) /\ \E ch \in Channels : client[ch].open
        Asked(ch) == \E d \in Dialers : dialer[d] = [kind |-> ch, at |-> "dial", p |-> i]
        Went(k) ==
            IF k.open THEN StartHandshake(k)
            ELSE IF k.closed THEN End(k, Waiting(k, i))
            ELSE IF Waiting(k, i) # {} THEN OpenChannel(k, CHOOSE h \in Waiting(k, i) : TRUE)
            ELSE k
        Next1(ch) == LET k == Went(client[ch]) IN IF Asked(ch) THEN Reopen(k, c) ELSE k
    IN  /\ conn.sock[i] = "opening"
        /\ \A ch \in Channels : HasSlot(client[ch])
        /\ conn' = c
        /\ client' = IF stuck THEN client ELSE [ch \in Channels |-> Next1(ch)]
        /\ dialer' = [d \in Dialers |->
              IF ~stuck /\ dialer[d].at = "dial" /\ dialer[d].p = i THEN Idle ELSE dialer[d]]
        /\ UNCHANGED <<linkFaults, reconnects>>

\* onerror and onclose of a socket that never opened, one that reconnect cancelled
\* included: the error forgets the promise whichever socket it belongs to.
SocketFails(i) ==
    LET own == conn.ws = i
        Awaits(d) == dialer[d].at = "dial" /\ dialer[d].p = i
        redialed == \E d \in Dialers : Awaits(d) /\ dialer[d].kind = "redial"
        c0 == [conn EXCEPT !.sock[i] = "closed", !.promise = 0, !.ws = IF own THEN 0 ELSE conn.ws]
        c == IF own \/ redialed THEN Lost(c0) ELSE c0
        Next1(ch) == LET k == Told(c)[ch] IN End(k, Waiting(k, i))
    IN  /\ conn.sock[i] \in {"opening", "cancelled"}
        /\ IF conn.sock[i] = "opening" THEN Fault ELSE UNCHANGED linkFaults
        /\ conn' = c
        /\ client' = [ch \in Channels |-> Next1(ch)]
        /\ dialer' = [d \in Dialers |-> IF Awaits(d) THEN Idle ELSE dialer[d]]
        /\ UNCHANGED reconnects

\* Mutant: the promise of the socket that was open stays behind.
SocketDropsKeepsPromise(i) ==
    LET c0 == [conn EXCEPT !.sock[i] = "closed"]
    IN  /\ conn.sock[i] = "open" /\ Fault
        /\ conn' = IF conn.ws = i THEN Lost([c0 EXCEPT !.ws = 0]) ELSE c0
        /\ client' = Told(conn')
        /\ UNCHANGED <<dialer, reconnects>>

\* onclose of an open socket; one that is not the current one is ignored.
SocketDrops(i) ==
    LET c0 == [conn EXCEPT !.sock[i] = "closed"]
    IN  /\ conn.sock[i] = "open" /\ Fault
        /\ conn' = IF conn.ws = i THEN Lost([c0 EXCEPT !.ws = 0, !.promise = 0]) ELSE c0
        /\ client' = Told(conn')
        /\ UNCHANGED <<dialer, reconnects>>

RedialFires(d) ==
    /\ conn.redial /\ dialer[d] = Idle
    /\ conn' = [conn EXCEPT !.redial = FALSE]
    /\ dialer' = [dialer EXCEPT ![d] = [Idle EXCEPT !.kind = "redial"]]
    /\ UNCHANGED <<client, linkFaults, reconnects>>

\* The button of a page that shows no connection: the pool still has the client, in
\* whatever state (a page that got no ticket shows nothing of it).
UserReconnects(ch, d) ==
    /\ client[ch] # NewClient /\ client[ch].gone = "no"
    /\ reconnects > 0 /\ dialer[d] = Idle
    /\ reconnects' = reconnects - 1
    /\ dialer' = [dialer EXCEPT ![d] = [Idle EXCEPT !.kind = ch]]
    /\ UNCHANGED <<conn, client, linkFaults>>

\* A fresh ticket arrives and the task dials.
TicketArrives(d) ==
    LET user == dialer[d].kind \in Channels
        c == IF user THEN Supersede(conn) ELSE Dial(conn)
    IN  /\ dialer[d].kind # "idle" /\ dialer[d].at = "ticket"
        /\ CanDial(conn) /\ (user => \E i \in Sockets : conn.sock[i] = "closed")
        /\ conn' = c
        /\ client' = Told(c)
        /\ dialer' = [dialer EXCEPT ![d] =
              IF Resolved(c) THEN Idle ELSE [dialer[d] EXCEPT !.at = "dial", !.p = c.promise]]
        /\ UNCHANGED <<linkFaults, reconnects>>

\* Mutant: a redial that gets no ticket is the last one.
TicketRefusedGivesUp(d) ==
    /\ dialer[d].kind # "idle" /\ dialer[d].at = "ticket" /\ Fault
    /\ dialer' = [dialer EXCEPT ![d] = Idle]
    /\ UNCHANGED <<conn, client, reconnects>>

TicketRefused(d) ==
    /\ dialer[d].kind # "idle" /\ dialer[d].at = "ticket" /\ Fault
    /\ conn' = IF dialer[d].kind = "redial" THEN Lost(conn) ELSE conn
    /\ client' = Told(conn')
    /\ dialer' = [dialer EXCEPT ![d] = Idle]
    /\ UNCHANGED reconnects

\* The credential of a handshake arrives and auth.account is sent, if it can be.
CredentialArrives(ch, h) ==
    LET k == client[ch] IN
    /\ k.hs[h].at = "cred"
    /\ client' = [client EXCEPT ![ch] =
          IF k.open /\ Usable(conn) THEN [k EXCEPT !.hs[h] = At("reply")]
          ELSE HandshakeFails(k, {h})]
    /\ UNCHANGED <<conn, dialer, linkFaults, reconnects>>

Authenticated(ch, h) ==
    LET k == client[ch] IN
    /\ k.hs[h].at = "reply" /\ Usable(conn)
    /\ client' = [client EXCEPT ![ch] = [End(k, {h}) EXCEPT !.st = "connected", !.authOn = conn.ws]]
    /\ UNCHANGED <<conn, dialer, linkFaults, reconnects>>

\* The credential cannot be had, the machine refuses it or does not answer in 30 s.
HandshakeRefused(ch, h) ==
    /\ client[ch].hs[h].at \in {"cred", "reply"} /\ Fault
    /\ client' = [client EXCEPT ![ch] = HandshakeFails(client[ch], {h})]
    /\ UNCHANGED <<conn, dialer, reconnects>>

VersionRefused(ch, h) ==
    LET k == client[ch] IN
    /\ k.hs[h].at = "reply" /\ Fault
    /\ client' = [client EXCEPT ![ch] =
          [End(k, {h}) EXCEPT !.st = "disconnected", !.refused = TRUE]]
    /\ UNCHANGED <<conn, dialer, reconnects>>

\* Mutant: the timer fires into a client whose state is not "connected".
HandshakeRetryFiresIdle(ch) ==
    /\ client[ch].hsRetry
    /\ client' = [client EXCEPT ![ch].hsRetry = FALSE]
    /\ UNCHANGED <<conn, dialer, linkFaults, reconnects>>

HandshakeRetryFires(ch) ==
    LET k == client[ch]
        k1 == [k EXCEPT !.hsRetry = FALSE]
    IN  /\ k.hsRetry
        /\ \E h, g \in Handshakes : h # g /\ k.hs[h] = k.hs[g] /\ k.hs[g] = NoHandshake \* a slot is left to onopen
        /\ client' = [client EXCEPT ![ch] =
              IF k.closed \/ ~k.open THEN k1 ELSE StartHandshake(k1)]
        /\ UNCHANGED <<conn, dialer, linkFaults, reconnects>>

ReopenFires(ch) ==
    LET k == client[ch]
        k1 == [k EXCEPT !.reopen = FALSE]
        skip == k.closed \/ k.open \/ k.run # 0
    IN  /\ k.reopen /\ HasSlot(k) /\ CanDial(conn)
        /\ conn' = IF skip THEN conn ELSE Dial(conn)
        /\ client' = [Told(conn') EXCEPT ![ch] = IF skip THEN k1 ELSE Connect(k1, conn')]
        /\ UNCHANGED <<dialer, linkFaults, reconnects>>

\* The relay says why a channel is dead, in a frame of its own ...
ChannelError(ch, code) ==
    /\ client[ch].open /\ Usable(conn) /\ client[ch].code = "none" /\ Fault
    /\ client' = [client EXCEPT ![ch].code = code]
    /\ UNCHANGED <<conn, dialer, reconnects>>

\* ... and then that it is dead. A channel may also be closed without a reason.
ChannelCloses(ch) ==
    /\ client[ch].open /\ Usable(conn)
    /\ IF client[ch].code = "none" THEN Fault ELSE UNCHANGED linkFaults
    /\ client' = [client EXCEPT ![ch] = HandleChannelClosed(client[ch])]
    /\ UNCHANGED <<conn, dialer, reconnects>>

\* The pool gives the client up when nobody has used it for a while.
CloseByPool(ch) ==
    LET asked == \E d \in Dialers : dialer[d].kind = ch
    IN  /\ client[ch] # NewClient /\ client[ch].gone = "no"
        /\ client' = [client EXCEPT ![ch] =
              [CloseClient(client[ch]) EXCEPT !.gone = IF asked THEN "asked" ELSE "quiet"]]
        /\ UNCHANGED <<conn, dialer, linkFaults, reconnects>>

LinkNext ==
    \/ \E i \in Sockets : SocketOpens(i) \/ SocketFails(i) \/ SocketDrops(i)
    \/ \E d \in Dialers : RedialFires(d) \/ TicketArrives(d) \/ TicketRefused(d)
    \/ \E ch \in Channels :
        \/ FirstConnect(ch) \/ ReopenFires(ch) \/ HandshakeRetryFires(ch)
        \/ ChannelCloses(ch) \/ CloseByPool(ch)
        \/ \E code \in {"transient", "permanent"} : ChannelError(ch, code)
        \/ \E d \in Dialers : UserReconnects(ch, d)
        \/ \E h \in Handshakes :
            CredentialArrives(ch, h) \/ Authenticated(ch, h)
            \/ HandshakeRefused(ch, h) \/ VersionRefused(ch, h)

\* Timers fire, requests are answered or time out, and a dial ends one way or the other.
LinkFair ==
    /\ \A i \in Sockets : WF_linkVars(SocketOpens(i) \/ SocketFails(i))
    /\ \A d \in Dialers : WF_linkVars(RedialFires(d)) /\ WF_linkVars(TicketArrives(d))
    /\ \A ch \in Channels :
        /\ WF_linkVars(HandshakeRetryFires(ch)) /\ WF_linkVars(ReopenFires(ch))
        /\ \A h \in Handshakes :
            WF_linkVars(CredentialArrives(ch, h)) /\ WF_linkVars(Authenticated(ch, h))

LinkSpec == LinkInit /\ [][LinkNext]_linkVars /\ LinkFair

-----------------------------------------------------------------------------
(* Properties.                                                               *)

(* The types; a promise that new users of the connection await is the one of the
   current socket, which is opening or open.                                  *)
LinkTypeOK ==
    /\ conn \in [ws : Sockets \cup {0}, promise : Sockets \cup {0}, st : LinkStates,
                 redial : BOOLEAN,
                 sock : [Sockets -> {"closed", "opening", "open", "cancelled"}]]
    /\ conn.promise # 0 => conn.promise = conn.ws /\ conn.sock[conn.ws] \in {"opening", "open"}
    /\ dialer \in [Dialers -> [kind : {"idle", "redial"} \cup Channels,
                               at : {"ticket", "dial"}, p : Sockets \cup {0}]]
    /\ client \in [Channels ->
          [st : LinkStates, open : BOOLEAN, code : ChannelCodes, hsRetry : BOOLEAN,
           reopen : BOOLEAN, run : Handshakes \cup {0}, closed : BOOLEAN,
           hs : [Handshakes -> [at : {"idle", "socket", "cred", "reply"}, p : Sockets \cup {0}]],
           refused : BOOLEAN, authOn : Sockets \cup {0}, gone : {"no", "asked", "quiet"}]]
    /\ linkFaults \in 0 .. MaxLinkFaults
    /\ reconnects \in 0 .. MaxReconnects

(* A client that says it is connected has its channel open and, if there is a socket, is
   on the very one on which the machine accepted its credential: an answer that belongs to
   a socket of before never counts, and a new socket takes the word back.    *)
ConnectedIsAuthenticated ==
    \A ch \in Channels : client[ch].st = "connected" =>
        client[ch].open /\ (conn.ws # 0 => Usable(conn) /\ client[ch].authOn = conn.ws)

(* Once the pool has given a client up, nothing that was under way opens its channel
   again or arms one of its timers: no dial, no handshake, no timer, no late answer. The
   one exception is a reconnect the user had asked for before, which does not look whether
   the client is still the pool's (relayClientPool.ts, reconnect).           *)
GivenUpIsQuiet ==
    \A ch \in Channels : client[ch].gone = "quiet" =>
        ~client[ch].open /\ ~client[ch].hsRetry /\ ~client[ch].reopen

\* Somebody is dialling, or will.
Dialling == conn.redial \/ (\E d \in Dialers : dialer[d] # Idle)
                       \/ \E i \in Sockets : conn.sock[i] = "opening"

(* A connection that waits to redial is usable again in the end.               *)
SocketReturns == conn.redial ~> Usable(conn)

(* A handshake that waits to be repeated is accepted in the end, unless the
   channel goes, the machine refuses the version or the client is closed.      *)
HandshakeRetried == \A ch \in Channels :
    client[ch].hsRetry ~> \/ client[ch].st = "connected" \/ ~client[ch].open
                          \/ client[ch].refused

(* The connection: authenticated whenever it is shown as connected, and silent
   once the pool has given it up. *)
LinkInv == LinkTypeOK /\ ConnectedIsAuthenticated /\ GivenUpIsQuiet

-----------------------------------------------------------------------------
(* What the repository says, or a user would expect, and the code does not       *)
(* keep: TLC finds each of these violated (README, section 8).                   *)

(* "reconnecting" means that someone is retrying (relayClient.ts, handshake).  *)
ReconnectingIsRetried ==
    \A ch \in Channels : LET k == client[ch] IN
        k.st = "reconnecting" /\ ~k.closed =>
            k.hsRetry \/ k.reopen \/ (\E h \in Handshakes : k.hs[h] # NoHandshake)
            \/ (k.open /\ Dialling)

(* A channel whose first dial failed is left to the connection's reconnecting.  *)
FirstDialIsRetried ==
    \A ch \in Channels : LET k == client[ch] IN
        k.st = "connecting" /\ ~k.closed =>
            k.open \/ (\E h \in Handshakes : k.hs[h] # NoHandshake)
            \/ (\E d \in Dialers : dialer[d].kind = ch)

(* A client that says it is connected has a socket. A redial that fails after another dial
   has connected, refused its ticket or superseded by the user, says "reconnecting" of a
   socket that is up (redialOnce); when that socket goes too the state is the same, and the
   channels are not told (setState).                                         *)
ConnectedHasSocket == \A ch \in Channels : client[ch].st = "connected" => Usable(conn)

(* A client the pool has given up never opens its channel again.               *)
GivenUpStaysClosed == \A ch \in Channels : client[ch].gone # "no" => ~client[ch].open

(* No websocket lives on that the connection no longer holds.                  *)
NoOrphanSocket ==
    \A i \in Sockets : conn.sock[i] \in {"opening", "open"} => i = conn.ws

(* A channel that is open is connected in the end, or closed.                 *)
OpenIsServed == \A ch \in Channels :
    client[ch].open ~> \/ client[ch].st = "connected" \/ ~client[ch].open
                       \/ client[ch].refused
=============================================================================
