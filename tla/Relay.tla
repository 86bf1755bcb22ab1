-------------------------------- MODULE Relay --------------------------------
(***************************************************************************)
(* Frames of one machine's relay link on their way to browsers: relay_svc  *)
(* (fanout.go, framebus.go).                                               *)
(*                                                                         *)
(* The link ends at one replica.  Its read loop hands every frame to the   *)
(* queue of its virtual channel and a worker per queue forwards it: to a   *)
(* websocket of the same replica, or through a Redis stream to the other   *)
(* replica, whose consumer goroutine delivers it and answers with a        *)
(* receipt.  What is shared between replicas is Redis: presence (which     *)
(* replica a channel's browser is on), the stream with the pending entries *)
(* of its consumer, and the receipts.                                      *)
(*                                                                         *)
(* A channel lives on one replica for its whole life, so a destination is  *)
(* a bit: its cached route is known or not.  Frames are numbered in the    *)
(* order the machine sent them.  A receipt that is still under way when    *)
(* the wait for it ends is a timeout with acked set.                       *)
(***************************************************************************)
EXTENDS Naturals, Sequences

CONSTANTS
    Channels,      \* virtual channels
    Placements,    \* which channels' browsers may be on the other replica
    Queues,        \* bound: queues ever created
    Consumers,     \* bound: consumer goroutines the other replica ever starts
    NoChannel, NoQueue, NoConsumer,
    Depth,         \* channelQueueDepth
    MaxFrames,     \* bound: frames the machine sends
    MaxFaults      \* bound: failed calls and broken websockets

ASSUME RelayAssumption ==
    /\ Placements \subseteq SUBSET Channels
    /\ Channels \subseteq Nat /\ Queues \subseteq Nat /\ Consumers \subseteq Nat
    /\ NoChannel \notin Channels /\ NoQueue \notin Queues /\ NoConsumer \notin Consumers
    /\ Depth \in Nat \ {0} /\ MaxFrames \in Nat /\ MaxFaults \in Nat

VARIABLES
    far,       \* the channels whose browser is on the other replica
    client,    \* each channel's browser: its attachment, as Attach and detach leave it
    presence,  \* relay:client:* exists in Redis
    sent,      \* frames read off the link
    reader,    \* the read loop, between releasing f.mu and the channel send
    current,   \* daemonFanout.queues
    queue,     \* the channelQueues, the dropped ones included
    worker,    \* the goroutine serving each queue
    route,     \* redisForwarder.routes of the link's replica
    dead,      \* redisForwarder.unreachable, about the other replica
    stream,    \* entries the consumer group has not handed out
    pel,       \* entries handed out and not acknowledged
    live,      \* redisForwarder.consumers of the other replica
    consumer,  \* its consumer goroutines, the cancelled ones included
    got,       \* what was written to each browser
    faults

linkVars == <<sent, reader, current, queue>>
farVars  == <<stream, pel, live, consumer>>
peerVars == <<client, presence>>
vars == <<far, client, presence, sent, reader, current, queue, worker, route, dead,
          stream, pel, live, consumer, got, faults>>

Frames  == 1..MaxFrames
Entry   == [chan : Channels, n : Frames, from : Queues]
Receipt == [n : Frames, from : Queues]
Queue   == [chan : Channels \cup {NoChannel}, frames : Seq(Frames), stopped : BOOLEAN]
Worker  == [step : {"off", "wait", "dispatch", "ack", "stopped", "retired"},
            frame : 0..MaxFrames, cached : BOOLEAN, acked : BOOLEAN]
Consumer == [step : {"off", "read", "deliver", "ack", "ended"}, ctx : BOOLEAN,
             batch : Seq(Entry), reread : BOOLEAN]

Unread   == [q |-> NoQueue, n |-> 0]
NoWork   == [step |-> "wait", frame |-> 0, cached |-> FALSE, acked |-> FALSE]
Starting == [step |-> "read", ctx |-> TRUE, batch |-> <<>>, reread |-> TRUE]

TypeOK ==
    /\ far \in SUBSET Channels
    /\ client \in [Channels -> {"new", "open", "broken", "leaving", "last", "gone"}]
    /\ presence \in [Channels -> BOOLEAN]
    /\ sent \in 0..MaxFrames
    /\ reader \in [q : Queues \cup {NoQueue}, n : 0..MaxFrames]
    /\ current \in [Channels -> Queues \cup {NoQueue}]
    /\ queue \in [Queues -> Queue] /\ \A q \in Queues : Len(queue[q].frames) <= Depth
    /\ worker \in [Queues -> Worker]
    /\ route \in [Channels -> BOOLEAN]
    /\ dead \in BOOLEAN
    /\ stream \in Seq(Entry) /\ pel \in Seq(Entry)
    /\ live \in Consumers \cup {NoConsumer}
    /\ consumer \in [Consumers -> Consumer]
    /\ got \in [Channels -> Seq(Receipt)]
    /\ faults \in 0..MaxFaults

Init ==
    /\ far \in Placements
    /\ client = [c \in Channels |-> "new"]
    /\ presence = [c \in Channels |-> FALSE]
    /\ sent = 0 /\ reader = Unread
    /\ current = [c \in Channels |-> NoQueue]
    /\ queue = [q \in Queues |-> [chan |-> NoChannel, frames |-> <<>>, stopped |-> FALSE]]
    /\ worker = [q \in Queues |-> [NoWork EXCEPT !.step = "off"]]
    /\ route = [c \in Channels |-> FALSE] /\ dead = FALSE
    /\ stream = <<>> /\ pel = <<>> /\ live = NoConsumer
    /\ consumer = [g \in Consumers |-> [Starting EXCEPT !.step = "off"]]
    /\ got = [c \in Channels |-> <<>>] /\ faults = 0

(* Channels, queues and goroutines are taken in their numbers' order. *)
First(q, S) == q \in S /\ \A p \in S : q <= p

Attached(c) == client[c] \in {"open", "broken"}
Writable(c) == client[c] = "open"

(* A Redis call or a websocket write fails. *)
Fault == faults < MaxFaults /\ faults' = faults + 1

-----------------------------------------------------------------------------
(* A browser comes and goes. *)

(* Attach: under f.mu the attachment is recorded and the consumer started;  *)
(* then registerClient writes the presence.                                 *)
Start(x) ==
    \E g \in Consumers :
        /\ First(g, {h \in Consumers : consumer[h].step = "off"})
        /\ live' = IF x.ctx THEN g ELSE live
        /\ consumer' = [consumer EXCEPT ![g] = x]

Attach(c) ==
    /\ First(c, {d \in Channels : client[d] = "new"})
    /\ client' = [client EXCEPT ![c] = "open"]
    /\ presence' = [presence EXCEPT ![c] = TRUE]
    /\ IF c \in far /\ live = NoConsumer THEN Start(Starting) ELSE UNCHANGED <<live, consumer>>
    /\ UNCHANGED <<far, linkVars, worker, route, dead, stream, pel, got, faults>>

(* registerClient fails and Attach detaches again: the consumer it started is *)
(* cancelled and deregistered.                                                *)
AttachFails(c) ==
    /\ First(c, {d \in Channels : client[d] = "new"})
    /\ c \in far /\ live = NoConsumer /\ Fault
    /\ Start([Starting EXCEPT !.ctx = FALSE])
    /\ pel' \in {pel, <<>>}
    /\ UNCHANGED <<far, peerVars, linkVars, worker, route, dead, stream, got>>

(* The websocket no longer takes writes; its handler has not noticed. *)
Break(c) ==
    /\ client[c] = "open"
    /\ client' = [client EXCEPT ![c] = "broken"]
    /\ Fault
    /\ UNCHANGED <<far, presence, linkVars, worker, route, dead, farVars, got>>

(* detach, under f.mu: the last attachment of the stream cancels its consumer. *)
Detach(c) ==
    LET last == c \in far /\ \A d \in far \ {c} : ~Attached(d) IN
    /\ Attached(c)
    /\ client' = [client EXCEPT ![c] = IF last THEN "last" ELSE "leaving"]
    /\ IF last THEN /\ live' = NoConsumer
                    /\ consumer' = [consumer EXCEPT ![live].ctx = FALSE]
               ELSE UNCHANGED <<live, consumer>>
    /\ UNCHANGED <<far, presence, linkVars, worker, route, dead, stream, pel, got, faults>>

(* unregisterClient, and the replica's own cached route; then, for the last *)
(* attachment, XGROUP DELCONSUMER, which discards what is pending.  Neither *)
(* call is retried.                                                         *)
Unregister(c) ==
    LET kept == IF client[c] = "last" THEN <<>> ELSE pel IN
    /\ client[c] \in {"leaving", "last"}
    /\ client' = [client EXCEPT ![c] = "gone"]
    /\ \/ presence' = [presence EXCEPT ![c] = FALSE] /\ pel' = kept /\ UNCHANGED faults
       \/ UNCHANGED presence /\ pel' = kept /\ Fault
       \/ presence' = [presence EXCEPT ![c] = FALSE] /\ UNCHANGED pel /\ Fault
    /\ route' = IF c \in far THEN route ELSE [route EXCEPT ![c] = FALSE]
    /\ UNCHANGED <<far, linkVars, worker, dead, stream, live, consumer, got>>

(* The presence of a browser that has left outlives a failed DEL; that of *)
(* one still attached lapses when renewals fail, and EXPIRE does not bring *)
(* it back.                                                                *)
Expire(c) ==
    /\ presence[c]
    /\ client[c] # "gone" => Attached(c)
    /\ presence' = [presence EXCEPT ![c] = FALSE]
    /\ IF Attached(c) THEN Fault ELSE UNCHANGED faults
    /\ UNCHANGED <<far, client, linkVars, worker, route, dead, farVars, got>>

-----------------------------------------------------------------------------
(* enqueue, from the link's read loop. *)

Receive(c) ==
    /\ reader = Unread /\ sent < MaxFrames
    /\ client[c] # "new"
    /\ sent' = sent + 1
    /\ IF current[c] # NoQueue
         THEN /\ reader' = [q |-> current[c], n |-> sent + 1]
              /\ UNCHANGED <<current, queue, worker>>
         ELSE \E q \in Queues :
                /\ First(q, {p \in Queues : queue[p].chan = NoChannel})
                /\ reader' = [q |-> q, n |-> sent + 1]
                /\ current' = [current EXCEPT ![c] = q]
                /\ queue' = [queue EXCEPT ![q].chan = c]
                /\ worker' = [worker EXCEPT ![q] = NoWork]
    /\ UNCHANGED <<far, peerVars, route, dead, farVars, got, faults>>

(* delete(f.queues), by pointer: a newer queue of the channel stays. *)
StayListed(q) == current      \* mutant: the queue stays in the map
Unlisted(q) == [c \in Channels |-> IF current[c] = q THEN NoQueue ELSE current[c]]

PutUnbounded ==               \* mutant: a full queue takes another frame
    /\ reader # Unread
    /\ reader' = Unread
    /\ queue' = [queue EXCEPT ![reader.q].frames = Append(queue[reader.q].frames, reader.n)]
    /\ UNCHANGED <<far, peerVars, sent, current, worker, route, dead, farVars, got, faults>>
Put ==
    LET q == reader.q IN
    /\ reader # Unread
    /\ reader' = Unread
    /\ IF Len(queue[q].frames) < Depth
         THEN /\ queue' = [queue EXCEPT ![q].frames = Append(queue[q].frames, reader.n)]
              /\ UNCHANGED current
         ELSE /\ queue' = [queue EXCEPT ![q].stopped = TRUE]
              /\ current' = Unlisted(q)
    /\ UNCHANGED <<far, peerVars, sent, worker, route, dead, farVars, got, faults>>

(* The link is gone: close, from the handler that ran the read loop. *)
Close ==
    /\ reader = Unread /\ \E c \in Channels : current[c] # NoQueue
    /\ sent' = MaxFrames
    /\ current' = [c \in Channels |-> NoQueue]
    /\ queue' = [q \in Queues |-> IF \E c \in Channels : current[c] = q
                                    THEN [queue[q] EXCEPT !.stopped = TRUE] ELSE queue[q]]
    /\ UNCHANGED <<far, reader, peerVars, worker, route, dead, farVars, got, faults>>

-----------------------------------------------------------------------------
(* serve and forwardToClient, in the goroutine of queue q. *)

Become(q, w) == worker' = [worker EXCEPT ![q] = w]

(* select chooses at random between a stop and a frame.  clientDestination *)
(* then gives the cached route, if it has not expired, or the one in Redis. *)
Take(q) ==
    LET c == queue[q].chan
        Send(cached) == Become(q, [step |-> "dispatch", frame |-> Head(queue[q].frames),
                                   cached |-> cached, acked |-> FALSE])
    IN /\ worker[q].step = "wait" /\ queue[q].frames # <<>>
       /\ queue' = [queue EXCEPT ![q].frames = Tail(queue[q].frames)]
       /\ \/ route[c] /\ Send(TRUE) /\ UNCHANGED <<route, faults>>
          \/ /\ route' = [route EXCEPT ![c] = presence[c]]
             /\ IF presence[c] THEN Send(FALSE) ELSE Become(q, NoWork)
             /\ UNCHANGED faults
          \/ Fault /\ route' = [route EXCEPT ![c] = FALSE] /\ Become(q, NoWork)
       /\ UNCHANGED <<far, peerVars, sent, reader, current, dead, farVars, got>>

Stop(q) ==
    /\ worker[q].step = "wait" /\ queue[q].stopped
    /\ Become(q, [NoWork EXCEPT !.step = "stopped"])
    /\ UNCHANGED <<far, peerVars, linkVars, route, dead, farVars, got, faults>>

RetireIfIdle(q) ==
    /\ worker[q].step = "wait" /\ queue[q].frames = <<>>
    /\ Become(q, [NoWork EXCEPT !.step = "retired"])
    /\ queue' = [queue EXCEPT ![q].stopped = TRUE]
    /\ current' = Unlisted(q)
    /\ UNCHANGED <<far, peerVars, sent, reader, route, dead, farVars, got, faults>>

(* A failed dispatch loses the frame.  If the route came from the cache it  *)
(* is looked up again, but the answer is the same replica, or none.         *)
Failed(q) ==
    LET c == queue[q].chan IN
    /\ Become(q, NoWork)
    /\ IF worker[q].cached
         THEN \/ route' = [route EXCEPT ![c] = presence[c]] /\ UNCHANGED faults
              \/ route' = [route EXCEPT ![c] = FALSE] /\ Fault
         ELSE UNCHANGED <<route, faults>>

Written(c, r) == got' = [got EXCEPT ![c] = Append(got[c], r)]

DeliverHere(q) ==
    LET c == queue[q].chan IN
    /\ worker[q].step = "dispatch" /\ c \notin far
    /\ IF Writable(c)
         THEN /\ Written(c, [n |-> worker[q].frame, from |-> q])
              /\ Become(q, NoWork) /\ UNCHANGED <<route, faults>>
         ELSE Failed(q) /\ UNCHANGED got
    /\ UNCHANGED <<far, peerVars, linkVars, dead, farVars>>

Refuse(q) ==
    /\ worker[q].step = "dispatch" /\ queue[q].chan \in far /\ dead
    /\ Failed(q)
    /\ UNCHANGED <<far, peerVars, linkVars, dead, farVars, got>>

Entered(q) == [chan |-> queue[q].chan, n |-> worker[q].frame, from |-> q]

(* The breaker is closed, or its time has passed. *)
Publish(q) ==
    /\ worker[q].step = "dispatch" /\ queue[q].chan \in far
    /\ dead' = FALSE
    /\ stream' = Append(stream, Entered(q))
    /\ Become(q, [worker[q] EXCEPT !.step = "ack"])
    /\ UNCHANGED <<far, peerVars, linkVars, route, pel, live, consumer, got, faults>>

Confirmed(q) ==
    /\ worker[q].step = "ack" /\ worker[q].acked
    /\ dead' = FALSE
    /\ Become(q, NoWork)
    /\ UNCHANGED <<far, peerVars, linkVars, route, farVars, got, faults>>

TimeOut(q) ==
    /\ worker[q].step = "ack"
    /\ dead' = TRUE
    /\ Failed(q)
    /\ UNCHANGED <<far, peerVars, linkVars, farVars, got>>

(* XADD fails, or the frame is in the stream when XADD or EXPIRE fails. *)
PublishFails(q) ==
    LET c == queue[q].chan IN
    /\ worker[q].step = "dispatch" /\ c \in far
    /\ dead' = TRUE
    /\ stream' \in {stream, Append(stream, Entered(q))}
    /\ route' \in {[route EXCEPT ![c] = r] :
                     r \in IF worker[q].cached THEN {presence[c], FALSE} ELSE {route[c]}}
    /\ Become(q, NoWork) /\ Fault
    /\ UNCHANGED <<far, peerVars, linkVars, pel, live, consumer, got>>

-----------------------------------------------------------------------------
(* consumeOnce, in consumer goroutine g of the other replica.  A cancelled  *)
(* goroutine finishes the read it is blocked in and the batch it got.       *)

Run(g, x) == consumer' = [consumer EXCEPT ![g] = x]

(* The top of the loop. *)
Loop(x) == [x EXCEPT !.step = IF x.ctx THEN "read" ELSE "ended", !.batch = <<>>]
AfterOne(x) == IF Len(x.batch) > 1 THEN [x EXCEPT !.step = "deliver", !.batch = Tail(x.batch)] ELSE Loop(x)

(* XREADGROUP: what is pending after a start or a failure, else what is new. *)
PendingLast(x)  == x.reread /\ stream = <<>>    \* mutant: only once the stream is quiet
PendingFirst(x) == x.reread

Read(g) ==
    LET x == consumer[g] IN
    /\ x.step = "read" /\ (x.reread \/ stream # <<>>)
    /\ IF PendingFirst(x)
         THEN /\ Run(g, IF pel = <<>> THEN [Loop(x) EXCEPT !.reread = FALSE]
                        ELSE [x EXCEPT !.step = "deliver", !.batch = pel, !.reread = FALSE])
              /\ UNCHANGED <<stream, pel>>
         ELSE /\ Run(g, [x EXCEPT !.step = "deliver", !.batch = stream])
              /\ stream' = <<>> /\ pel' = pel \o stream
    /\ UNCHANGED <<far, peerVars, linkVars, worker, route, dead, live, got, faults>>

(* The call fails, or its answer is lost. *)
ReadFails(g) ==
    /\ consumer[g].step = "read"
    /\ \/ ~consumer[g].ctx /\ Run(g, Loop(consumer[g])) /\ UNCHANGED <<stream, pel, faults>>
       \/ /\ Fault /\ Run(g, [Loop(consumer[g]) EXCEPT !.reread = TRUE])
          /\ \/ UNCHANGED <<stream, pel>>
             \/ ~consumer[g].reread /\ stream' = <<>> /\ pel' = pel \o stream
    /\ UNCHANGED <<far, peerVars, linkVars, worker, route, dead, live, got>>

Deliver(g) ==
    LET m == Head(consumer[g].batch) IN
    /\ consumer[g].step = "deliver" /\ Writable(m.chan)
    /\ Written(m.chan, [n |-> m.n, from |-> m.from])
    /\ Run(g, [consumer[g] EXCEPT !.step = "ack"])
    /\ UNCHANGED <<far, peerVars, linkVars, worker, route, dead, stream, pel, live, faults>>

(* XDEL and XACK of the first frame of the batch. *)
Settled(g) ==
    LET here == {i \in 1..Len(pel) : pel[i] = Head(consumer[g].batch)}
        i == CHOOSE i \in here : TRUE
    IN IF here = {} THEN pel ELSE SubSeq(pel, 1, i - 1) \o SubSeq(pel, i + 1, Len(pel))
Done(g) == pel' = Settled(g) /\ Run(g, AfterOne(consumer[g]))

(* RPUSH of its receipt: the sender hears of it if it still waits. *)
Answer(g) ==
    LET m == Head(consumer[g].batch) IN
    worker' = [worker EXCEPT ![m.from].acked =
                 worker[m.from].acked \/ (worker[m.from].step = "ack" /\ worker[m.from].frame = m.n)]

(* acknowledgeFrame: one transaction. *)
Acknowledge(g) ==
    /\ consumer[g].step = "ack"
    /\ Done(g) /\ Answer(g)
    /\ UNCHANGED <<far, peerVars, linkVars, route, dead, stream, live, got, faults>>

(* A frame nobody takes is acknowledged without a receipt. *)
Unwanted(g) == consumer[g].step = "deliver" /\ ~Writable(Head(consumer[g].batch).chan)

DropWithReceipt(g) ==         \* mutant: the receipt is written all the same
    /\ Unwanted(g) /\ Done(g) /\ Answer(g)
    /\ UNCHANGED <<far, peerVars, linkVars, route, dead, stream, live, got, faults>>
KeepPending(g) ==             \* mutant: the frame stays pending and is read again
    /\ Unwanted(g)
    /\ Run(g, [Loop(consumer[g]) EXCEPT !.reread = TRUE])
    /\ UNCHANGED <<far, peerVars, linkVars, worker, route, dead, stream, pel, live, got, faults>>
Drop(g) ==
    /\ Unwanted(g) /\ Done(g)
    /\ UNCHANGED <<far, peerVars, linkVars, worker, route, dead, stream, live, got, faults>>

(* The acknowledgement fails, or only its answer is lost; always so once the *)
(* goroutine is cancelled.  The batch is abandoned, what is pending read again. *)
AcknowledgeFails(g) ==
    /\ consumer[g].step = "ack" \/ Unwanted(g)
    /\ Run(g, [Loop(consumer[g]) EXCEPT !.reread = TRUE])
    /\ \/ UNCHANGED <<pel, worker>>
       \/ pel' = Settled(g) /\ IF Unwanted(g) THEN UNCHANGED worker ELSE Answer(g)
    /\ IF consumer[g].ctx THEN Fault ELSE UNCHANGED faults
    /\ UNCHANGED <<far, peerVars, linkVars, route, dead, stream, live, got>>

-----------------------------------------------------------------------------
BrowserStep(c) ==
    \/ Attach(c) \/ AttachFails(c) \/ Break(c) \/ Detach(c) \/ Unregister(c) \/ Expire(c)

Forwarding(q) ==
    \/ Take(q) \/ DeliverHere(q) \/ Refuse(q)
    \/ Publish(q) \/ Confirmed(q) \/ TimeOut(q)
WorkerStep(q) == Forwarding(q) \/ Stop(q) \/ RetireIfIdle(q) \/ PublishFails(q)

Consuming(g) == Read(g) \/ Deliver(g) \/ Acknowledge(g) \/ Drop(g)
ConsumerStep(g) == Consuming(g) \/ ReadFails(g) \/ AcknowledgeFails(g)

Next ==
    \/ \E c \in Channels : BrowserStep(c) \/ Receive(c)
    \/ Put \/ Close
    \/ \E q \in Queues : WorkerStep(q)
    \/ \E g \in Consumers : ConsumerStep(g)

Spec == Init /\ [][Next]_vars

(* Goroutines run on; nothing is assumed of browsers, the machine or Redis. *)
FairSpec ==
    /\ Spec
    /\ \A q \in Queues : WF_vars(Forwarding(q))
    /\ \A g \in Consumers : WF_vars(Consuming(g))

-----------------------------------------------------------------------------
(* Properties *)

(* The forwarder takes a frame for delivered only when it was written to    *)
(* the browser: a frame that found nobody is acknowledged to the stream but *)
(* never to the sender (consumeOnce).                                       *)
ReceiptMeansDelivered ==
    \A q \in Queues :
        worker[q].step = "ack" /\ worker[q].acked =>
            \E k \in DOMAIN got[queue[q].chan] :
                got[queue[q].chan][k].n = worker[q].frame

(* A queue frames are put into has a worker: a channel is never deaf until  *)
(* the link reconnects (retire and retireIfIdle, racing enqueue).           *)
ListedIsServed ==
    \A c \in Channels : LET q == current[c] IN
        q # NoQueue => /\ queue[q].chan = c /\ ~queue[q].stopped
                       /\ worker[q].step \notin {"off", "stopped", "retired"}

(* Frames one worker sent reach the browser in order, whatever times out,   *)
(* fails and is read again; only a frame already delivered may come once    *)
(* more.  (consumeOnce reads its pending entries first.  A consumer that    *)
(* replaced another shares them with a cancelled one and is excepted.)      *)
OrderedThroughRetries ==
    (\A g, h \in Consumers : g # h => "off" \in {consumer[g].step, consumer[h].step}) =>
        \A c \in Channels : \A i, j \in DOMAIN got[c] :
            LET a == got[c][i]  b == got[c][j] IN
            i < j /\ a.from = b.from /\ b.n < a.n =>
                \E k \in 1..(i - 1) : got[c][k].n = b.n

(* A frame that nobody takes does not hold up the frames behind it: while a *)
(* consumer is registered, what is in the stream is handed out (framebus.go,*)
(* consumeOnce, on why an undeliverable frame is removed).                  *)
StreamDrains ==
    (stream # <<>> /\ live # NoConsumer) ~> (stream = <<>> \/ live = NoConsumer)

(* The fan-out and the consumer keep their types, and every queue listed is served. *)
RelayInv == TypeOK /\ ListedIsServed

-----------------------------------------------------------------------------
(* What the repository says, or a user would expect, and the code does not       *)
(* keep: TLC finds each of these violated (README, section 8).                   *)

(* A queue that is retired for being idle has not been handed a frame       *)
(* (retireIfIdle, fanout.go:138).                                           *)
RetiredWithNothing ==
    \A q \in Queues : worker[q].step = "retired" => queue[q].frames = <<>>
=============================================================================
