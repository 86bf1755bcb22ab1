----------------------------- MODULE RelayProofs -----------------------------
(***************************************************************************)
(* Proofs about Relay, for any channels, queues, consumers, depth, number  *)
(* of frames and of faults: what a receipt means, that a queue listed is   *)
(* served, and that retries keep the order.                                *)
(*                                                                         *)
(* A receipt names a frame and a queue, the browser's log a channel, and   *)
(* between the two lie Redis and a goroutine that may have been cancelled. *)
(* So the invariant follows a frame on its way: every entry in the stream, *)
(* among the pending ones and in a batch carries the channel of the queue  *)
(* it came from, which is given once; a consumer about to acknowledge has  *)
(* written the first frame of its batch.                                   *)
(***************************************************************************)
EXTENDS Relay, SequenceTheorems, TLAPS

\* The entries of s carry the channel of the queue they came from.
OnBoard(s, qs) == s \in Seq(Entry) /\ \A i \in 1 .. Len(s) : qs[s[i].from].chan = s[i].chan

\* Frame n was written to the browser of channel c.
Reached(c, n, log) == \E k \in DOMAIN log[c] : log[c][k].n = n

\* A consumer has a batch to work on, and acknowledges what it has written.
Sound(x, qs, log) ==
    /\ x \in Consumer /\ OnBoard(x.batch, qs)
    /\ x.step \in {"deliver", "ack"} => x.batch # <<>>
    /\ x.step = "ack" => Reached(Head(x.batch).chan, Head(x.batch).n, log)

Simple ==
    /\ far \in SUBSET Channels
    /\ client \in [Channels -> {"new", "open", "broken", "leaving", "last", "gone"}]
    /\ presence \in [Channels -> BOOLEAN]
    /\ sent \in 0 .. MaxFrames
    /\ route \in [Channels -> BOOLEAN]
    /\ dead \in BOOLEAN
    /\ live \in Consumers \cup {NoConsumer}
    /\ faults \in 0 .. MaxFaults

\* The read loop holds a frame for a queue that has a channel.
Holding(r, qs) ==
    /\ r \in [q : Queues \cup {NoQueue}, n : 0 .. MaxFrames]
    /\ r # Unread => r.q \in Queues /\ r.n \in Frames /\ qs[r.q].chan \in Channels

QueuesInv ==
    /\ queue \in [Queues -> Queue]
    /\ \A q \in Queues : Len(queue[q].frames) <= Depth
    /\ \A q \in Queues : queue[q].chan = NoChannel => ~queue[q].stopped /\ worker[q].step = "off"

WorkersInv ==
    /\ worker \in [Queues -> Worker]
    /\ \A q \in Queues : /\ worker[q].step \in {"dispatch", "ack"} => worker[q].frame \in Frames
                         /\ worker[q].acked => worker[q].step = "ack"

LinkInv ==
    /\ Holding(reader, queue)
    /\ current \in [Channels -> Queues \cup {NoQueue}]
    /\ QueuesInv /\ WorkersInv /\ ListedIsServed

BoardInv ==
    /\ OnBoard(stream, queue) /\ OnBoard(pel, queue)
    /\ got \in [Channels -> Seq(Receipt)]
    /\ consumer \in [Consumers -> Consumer]
    /\ \A g \in Consumers : Sound(consumer[g], queue, got)

AcksInv ==
    \A q \in Queues : worker[q].step = "ack" /\ worker[q].acked =>
                          Reached(queue[q].chan, worker[q].frame, got)

RelayIInv == Simple /\ LinkInv /\ BoardInv /\ AcksInv

-----------------------------------------------------------------------------
(* What the parts of the invariant depend on.                                *)

\* A queue keeps the channel it was given, and a browser what it was sent.
ChannelsKept == \A q \in Queues : queue[q].chan # NoChannel => queue'[q].chan = queue[q].chan
LogsKept == \A c \in Channels, n \in Frames : Reached(c, n, got) => Reached(c, n, got')

LEMMA OnBoardKept ==
    ASSUME NEW s, NEW qs, NEW rs, OnBoard(s, qs),
           \A q \in Queues : qs[q].chan # NoChannel => rs[q].chan = qs[q].chan
    PROVE  OnBoard(s, rs)
<1> SUFFICES ASSUME NEW i \in 1 .. Len(s) PROVE rs[s[i].from].chan = s[i].chan
  BY DEF OnBoard
<1>1. s[i] \in Entry /\ qs[s[i].from].chan = s[i].chan
  BY DEF OnBoard
<1>2. s[i].from \in Queues /\ s[i].chan \in Channels
  BY <1>1 DEF Entry
<1> QED BY <1>1, <1>2, RelayAssumption

LEMMA HeadOnBoard ==
    ASSUME NEW s, NEW qs, OnBoard(s, qs), s # <<>>
    PROVE  /\ Head(s) \in Entry /\ Head(s).from \in Queues /\ Head(s).chan \in Channels
           /\ Head(s).n \in Frames /\ qs[Head(s).from].chan = Head(s).chan
<1>1. Head(s) = s[1] /\ 1 \in 1 .. Len(s) /\ s[1] \in Entry
  BY DEF OnBoard
<1> QED BY <1>1 DEF OnBoard, Entry

LEMMA SoundKept ==
    ASSUME NEW x, NEW qs, NEW rs, NEW log, NEW logs, Sound(x, qs, log),
           \A q \in Queues : qs[q].chan # NoChannel => rs[q].chan = qs[q].chan,
           \A c \in Channels, n \in Frames : Reached(c, n, log) => Reached(c, n, logs)
    PROVE  Sound(x, rs, logs)
<1>1. OnBoard(x.batch, rs)
  BY OnBoardKept DEF Sound
<1>2. ASSUME x.step = "ack" PROVE Reached(Head(x.batch).chan, Head(x.batch).n, logs)
  <2>1. x.batch # <<>> /\ OnBoard(x.batch, qs) /\ Reached(Head(x.batch).chan, Head(x.batch).n, log)
    BY <1>2 DEF Sound
  <2>2. Head(x.batch).chan \in Channels /\ Head(x.batch).n \in Frames
    BY <2>1, HeadOnBoard
  <2> QED BY <2>1, <2>2
<1> QED BY <1>1, <1>2 DEF Sound

LEMMA BoardKept ==
    ASSUME BoardInv, ChannelsKept, LogsKept, got' \in [Channels -> Seq(Receipt)],
           OnBoard(stream', queue), OnBoard(pel', queue),
           consumer' \in [Consumers -> Consumer],
           \A g \in Consumers : consumer'[g] = consumer[g] \/ Sound(consumer'[g], queue', got')
    PROVE  BoardInv'
<1>1. OnBoard(stream', queue') /\ OnBoard(pel', queue')
  BY OnBoardKept DEF ChannelsKept
<1>2. ASSUME NEW g \in Consumers, consumer'[g] = consumer[g]
      PROVE  Sound(consumer'[g], queue', got')
  <2>1. Sound(consumer[g], queue, got)
    BY DEF BoardInv
  <2>2. Sound(consumer[g], queue', got')
    BY <2>1, SoundKept DEF ChannelsKept, LogsKept
  <2> QED BY <1>2, <2>2
<1> QED BY <1>1, <1>2 DEF BoardInv

LEMMA BoardStays ==
    ASSUME BoardInv, ChannelsKept, UNCHANGED <<got, stream, pel, consumer>>
    PROVE  BoardInv'
<1>1. LogsKept /\ got' \in [Channels -> Seq(Receipt)] /\ consumer' \in [Consumers -> Consumer]
  BY DEF LogsKept, BoardInv
<1>2. OnBoard(stream', queue) /\ OnBoard(pel', queue)
  BY DEF BoardInv
<1> QED BY <1>1, <1>2, BoardKept

LEMMA LinkStays ==
    ASSUME LinkInv, UNCHANGED <<reader, current, queue, worker>>
    PROVE  LinkInv' /\ ChannelsKept
BY DEF LinkInv, QueuesInv, WorkersInv, ListedIsServed, ChannelsKept

LEMMA AcksStay ==
    ASSUME LinkInv, AcksInv, UNCHANGED <<queue, worker>>, LogsKept
    PROVE  AcksInv'
<1> SUFFICES ASSUME NEW q \in Queues, worker[q].step = "ack", worker[q].acked
             PROVE  Reached(queue[q].chan, worker[q].frame, got')
  BY DEF AcksInv
<1>1. worker[q].frame \in Frames /\ queue[q].chan \in Channels
  BY DEF LinkInv, QueuesInv, WorkersInv, Queue
<1> QED BY <1>1 DEF AcksInv, LogsKept

\* The worker of a queue goes on with w.
LEMMA LinkBecomes ==
    ASSUME LinkInv, NEW q \in Queues, NEW w \in Worker, Become(q, w),
           UNCHANGED <<reader, current, queue>>, worker[q].step # "off",
           w.step \notin {"off", "retired"}, w.step = "stopped" => queue[q].stopped,
           w.step \in {"dispatch", "ack"} => w.frame \in Frames, ~w.acked
    PROVE  LinkInv' /\ ChannelsKept
<1>1. worker' = [worker EXCEPT ![q] = w] /\ worker \in [Queues -> Worker]
  BY DEF Become, LinkInv, WorkersInv
<1>2. \A p \in Queues : worker'[p] = IF p = q THEN w ELSE worker[p]
  BY <1>1
<1>3. WorkersInv'
  BY <1>1, <1>2 DEF LinkInv, WorkersInv
<1>4. QueuesInv'
  BY <1>2 DEF LinkInv, QueuesInv
<1>5. ListedIsServed'
  <2> SUFFICES ASSUME NEW c \in Channels, current[c] # NoQueue
               PROVE  /\ queue[current[c]].chan = c /\ ~queue[current[c]].stopped
                      /\ worker'[current[c]].step \notin {"off", "stopped", "retired"}
    BY DEF ListedIsServed
  <2>1. current[c] \in Queues
    BY DEF LinkInv
  <2> QED BY <1>2, <2>1 DEF LinkInv, ListedIsServed
<1> QED BY <1>3, <1>4, <1>5 DEF LinkInv, ChannelsKept

LEMMA AcksBecome ==
    ASSUME LinkInv, AcksInv, NEW q \in Queues, NEW w, Become(q, w), queue' = queue, LogsKept,
           ~w.acked
    PROVE  AcksInv'
<1>1. worker' = [worker EXCEPT ![q] = w] /\ worker \in [Queues -> Worker]
  BY DEF Become, LinkInv, WorkersInv
<1> SUFFICES ASSUME NEW p \in Queues, worker'[p].step = "ack", worker'[p].acked
             PROVE  Reached(queue[p].chan, worker'[p].frame, got')
  BY DEF AcksInv
<1>2. worker'[p] = worker[p]
  BY <1>1
<1>3. worker[p].frame \in Frames /\ queue[p].chan \in Channels
  BY <1>2 DEF LinkInv, QueuesInv, WorkersInv, Queue
<1> QED BY <1>2, <1>3 DEF AcksInv, LogsKept

\* A consumer goes on with x.
LEMMA BoardRuns ==
    ASSUME BoardInv, ChannelsKept, LogsKept, got' \in [Channels -> Seq(Receipt)],
           OnBoard(stream', queue), OnBoard(pel', queue),
           NEW g \in Consumers, NEW x, Run(g, x), Sound(x, queue, got')
    PROVE  BoardInv'
<1>1. consumer' = [consumer EXCEPT ![g] = x] /\ consumer \in [Consumers -> Consumer] /\ x \in Consumer
  BY DEF Run, BoardInv, Sound
<1>2. Sound(x, queue', got')
  BY SoundKept DEF ChannelsKept
<1>3. \A h \in Consumers : consumer'[h] = IF h = g THEN x ELSE consumer[h]
  BY <1>1
<1> QED BY <1>1, <1>2, <1>3, BoardKept

\* Where a consumer goes from here.
LEMMA LoopSound ==
    ASSUME NEW x \in Consumer, NEW qs, NEW log
    PROVE  /\ Sound(Loop(x), qs, log)
           /\ \A b \in BOOLEAN : Sound([Loop(x) EXCEPT !.reread = b], qs, log)
<1>1. <<>> \in Seq(Entry) /\ OnBoard(<<>>, qs)
  BY DEF OnBoard
<1>2. Loop(x) \in Consumer /\ Loop(x).step \in {"read", "ended"} /\ Loop(x).batch = <<>>
  BY <1>1 DEF Loop, Consumer
<1>3. ASSUME NEW b \in BOOLEAN
      PROVE  /\ [Loop(x) EXCEPT !.reread = b] \in Consumer
             /\ [Loop(x) EXCEPT !.reread = b].step \in {"read", "ended"}
             /\ [Loop(x) EXCEPT !.reread = b].batch = <<>>
  BY <1>2 DEF Consumer
<1> QED BY <1>1, <1>2, <1>3 DEF Sound

LEMMA DeliverSound ==
    ASSUME NEW x \in Consumer, NEW qs, NEW log, NEW s, OnBoard(s, qs), s # <<>>, NEW b \in BOOLEAN
    PROVE  /\ Sound([x EXCEPT !.step = "deliver", !.batch = s], qs, log)
           /\ Sound([x EXCEPT !.step = "deliver", !.batch = s, !.reread = b], qs, log)
<1>1. s \in Seq(Entry)
  BY DEF OnBoard
<1>2. /\ [x EXCEPT !.step = "deliver", !.batch = s] \in Consumer
      /\ [x EXCEPT !.step = "deliver", !.batch = s, !.reread = b] \in Consumer
  BY <1>1 DEF Consumer
<1> QED BY <1>2 DEF Sound, Consumer

LEMMA TailOnBoard ==
    ASSUME NEW s, NEW qs, OnBoard(s, qs), Len(s) > 1
    PROVE  OnBoard(Tail(s), qs) /\ Tail(s) # <<>>
<1>1. s \in Seq(Entry) /\ s # <<>> /\ Len(s) \in Nat
  BY DEF OnBoard
<1>2. Tail(s) \in Seq(Entry) /\ Len(Tail(s)) = Len(s) - 1
  BY <1>1
<1>3. ASSUME NEW i \in 1 .. Len(Tail(s)) PROVE Tail(s)[i] = s[i + 1] /\ i + 1 \in 1 .. Len(s)
  BY <1>1, <1>2
<1>4. Len(Tail(s)) # 0
  BY <1>1, <1>2
<1> QED BY <1>2, <1>3, <1>4 DEF OnBoard

LEMMA AfterOneSound ==
    ASSUME NEW x, NEW qs, NEW log, Sound(x, qs, log), x.batch # <<>>
    PROVE  Sound(AfterOne(x), qs, log)
<1>1. x \in Consumer /\ OnBoard(x.batch, qs)
  BY DEF Sound
<1>2. CASE Len(x.batch) > 1
  BY <1>1, <1>2, TailOnBoard, DeliverSound DEF AfterOne
<1>3. CASE ~(Len(x.batch) > 1)
  BY <1>1, <1>3, LoopSound DEF AfterOne
<1> QED BY <1>2, <1>3

\* Appending and settling.
LEMMA AppendOnBoard ==
    ASSUME NEW s, NEW e \in Entry, NEW qs, OnBoard(s, qs), qs[e.from].chan = e.chan
    PROVE  OnBoard(Append(s, e), qs)
<1>1. s \in Seq(Entry) /\ Append(s, e) \in Seq(Entry) /\ Len(Append(s, e)) = Len(s) + 1
  BY DEF OnBoard
<1>2. ASSUME NEW i \in 1 .. Len(s) + 1
      PROVE  qs[Append(s, e)[i].from].chan = Append(s, e)[i].chan
  <2>1. CASE i = Len(s) + 1
    BY <1>1, <2>1
  <2>2. CASE i # Len(s) + 1
    <3>1. i \in 1 .. Len(s) /\ Append(s, e)[i] = s[i]
      BY <1>1, <2>2
    <3> QED BY <3>1 DEF OnBoard
  <2> QED BY <2>1, <2>2
<1> QED BY <1>1, <1>2 DEF OnBoard

LEMMA ConcatOnBoard ==
    ASSUME NEW s, NEW t, NEW qs, OnBoard(s, qs), OnBoard(t, qs)
    PROVE  OnBoard(s \o t, qs)
<1>1. /\ s \in Seq(Entry) /\ t \in Seq(Entry) /\ s \o t \in Seq(Entry)
      /\ Len(s \o t) = Len(s) + Len(t) /\ Len(s) \in Nat /\ Len(t) \in Nat
  BY DEF OnBoard
<1>2. ASSUME NEW i \in 1 .. Len(s) + Len(t)
      PROVE  qs[(s \o t)[i].from].chan = (s \o t)[i].chan
  <2>1. CASE i <= Len(s)
    <3>1. i \in 1 .. Len(s) /\ (s \o t)[i] = s[i]
      BY <1>1, <2>1
    <3> QED BY <3>1 DEF OnBoard
  <2>2. CASE ~(i <= Len(s))
    <3>1. i - Len(s) \in 1 .. Len(t) /\ (s \o t)[i] = t[i - Len(s)]
      BY <1>1, <2>2
    <3> QED BY <3>1 DEF OnBoard
  <2> QED BY <2>1, <2>2
<1> QED BY <1>1, <1>2 DEF OnBoard

LEMMA PartOnBoard ==
    ASSUME NEW s, NEW qs, OnBoard(s, qs), NEW m \in 1 .. Len(s) + 1, NEW n \in 0 .. Len(s)
    PROVE  OnBoard(SubSeq(s, m, n), qs)
<1>1. s \in Seq(Entry) /\ Len(s) \in Nat
  BY DEF OnBoard
<1>2. /\ SubSeq(s, m, n) \in Seq(Entry)
      /\ Len(SubSeq(s, m, n)) = IF m <= n THEN n - m + 1 ELSE 0
      /\ \A i \in 1 .. n - m + 1 : SubSeq(s, m, n)[i] = s[m + i - 1]
  BY <1>1, SubSeqProperties
<1>3. ASSUME NEW i \in 1 .. Len(SubSeq(s, m, n))
      PROVE  SubSeq(s, m, n)[i] = s[m + i - 1] /\ m + i - 1 \in 1 .. Len(s)
  BY <1>1, <1>2
<1> QED BY <1>2, <1>3 DEF OnBoard

LEMMA SettledOnBoard ==
    ASSUME NEW g, OnBoard(pel, queue)
    PROVE  OnBoard(Settled(g), queue)
<1> DEFINE here == {i \in 1 .. Len(pel) : pel[i] = Head(consumer[g].batch)}
           i == CHOOSE i \in here : TRUE
<1>1. Settled(g) = IF here = {} THEN pel ELSE SubSeq(pel, 1, i - 1) \o SubSeq(pel, i + 1, Len(pel))
  BY DEF Settled
<1>2. here # {} => i \in 1 .. Len(pel)
  OBVIOUS
<1> HIDE DEF i, here
<1>3. CASE here # {}
  <2>1. Len(pel) \in Nat /\ i \in 1 .. Len(pel)
    BY <1>2, <1>3 DEF OnBoard
  <2>2. OnBoard(SubSeq(pel, 1, i - 1), queue)
    <3>1. 1 \in 1 .. Len(pel) + 1 /\ i - 1 \in 0 .. Len(pel)
      BY <2>1
    <3> QED BY <3>1, PartOnBoard
  <2>3. OnBoard(SubSeq(pel, i + 1, Len(pel)), queue)
    <3>1. i + 1 \in 1 .. Len(pel) + 1 /\ Len(pel) \in 0 .. Len(pel)
      BY <2>1
    <3> QED BY <3>1, PartOnBoard
  <2> QED BY <1>1, <1>3, <2>2, <2>3, ConcatOnBoard
<1> QED BY <1>1, <1>3

-----------------------------------------------------------------------------
(* A browser comes and goes, and the link's queues do not notice.            *)

LEMMA GotStays ==
    ASSUME RelayIInv, got' = got
    PROVE  LogsKept /\ got' \in [Channels -> Seq(Receipt)]
BY DEF LogsKept, RelayIInv, BoardInv

LEMMA QueuesStay ==
    ASSUME RelayIInv, UNCHANGED <<reader, current, queue, worker, got>>
    PROVE  LinkInv' /\ AcksInv' /\ ChannelsKept /\ LogsKept /\ got' \in [Channels -> Seq(Receipt)]
<1>1. LogsKept /\ got' \in [Channels -> Seq(Receipt)]
  BY GotStays
<1>2. LinkInv' /\ ChannelsKept
  BY LinkStays DEF RelayIInv
<1> QED BY <1>1, <1>2, AcksStay DEF RelayIInv

\* A consumer that starts has nothing yet.
LEMMA StartSound ==
    ASSUME NEW qs, NEW log
    PROVE  Sound(Starting, qs, log) /\ Sound([Starting EXCEPT !.ctx = FALSE], qs, log)
<1>1. <<>> \in Seq(Entry) /\ OnBoard(<<>>, qs)
  BY DEF OnBoard
<1>2. Starting \in Consumer /\ Starting.step = "read" /\ Starting.batch = <<>>
  BY <1>1 DEF Starting, Consumer
<1>3. /\ [Starting EXCEPT !.ctx = FALSE] \in Consumer
      /\ [Starting EXCEPT !.ctx = FALSE].step = "read"
      /\ [Starting EXCEPT !.ctx = FALSE].batch = <<>>
  BY <1>1 DEF Starting, Consumer
<1> QED BY <1>1, <1>2, <1>3 DEF Sound

LEMMA StartKeeps ==
    ASSUME RelayIInv, UNCHANGED <<reader, current, queue, worker, got, stream>>,
           pel' \in {pel, <<>>}, NEW x, Start(x), Sound(x, queue, got)
    PROVE  BoardInv' /\ live' \in Consumers \cup {NoConsumer}
<1>1. PICK g \in Consumers : Run(g, x) /\ live' = IF x.ctx THEN g ELSE live
  BY DEF Start, Run
<1>2. OnBoard(<<>>, queue)
  BY DEF OnBoard
<1>3. OnBoard(stream', queue) /\ OnBoard(pel', queue)
  BY <1>2 DEF RelayIInv, BoardInv
<1>4. BoardInv'
  BY <1>1, <1>3, QueuesStay, BoardRuns DEF RelayIInv
<1> QED BY <1>1, <1>4 DEF RelayIInv, Simple

LEMMA FaultCounted ==
    ASSUME RelayIInv, Fault \/ faults' = faults
    PROVE  faults' \in 0 .. MaxFaults
<1>1. faults \in 0 .. MaxFaults /\ MaxFaults \in Nat
  BY RelayAssumption DEF RelayIInv, Simple
<1> QED BY <1>1 DEF Fault

LEMMA AttachInv ==
    ASSUME RelayIInv, NEW c \in Channels, Attach(c) \/ AttachFails(c)
    PROVE  RelayIInv'
<1>1. LinkInv' /\ AcksInv' /\ ChannelsKept /\ LogsKept
  BY QueuesStay DEF Attach, AttachFails, linkVars
<1>2. BoardInv' /\ live' \in Consumers \cup {NoConsumer}
  <2>1. CASE Start(Starting) /\ UNCHANGED <<reader, current, queue, worker, got, stream, pel>>
    BY <2>1, StartSound, StartKeeps
  <2>2. CASE /\ Start([Starting EXCEPT !.ctx = FALSE]) /\ pel' \in {pel, <<>>}
             /\ UNCHANGED <<reader, current, queue, worker, got, stream>>
    BY <2>2, StartSound, StartKeeps
  <2>3. CASE UNCHANGED <<live, consumer, got, stream, pel>>
    BY <1>1, <2>3, BoardStays DEF RelayIInv, Simple
  <2> QED BY <2>1, <2>2, <2>3 DEF Attach, AttachFails, linkVars
<1>3. Simple'
  <2>1. client' \in [Channels -> {"new", "open", "broken", "leaving", "last", "gone"}]
    BY DEF RelayIInv, Simple, Attach, AttachFails, peerVars
  <2>2. presence' \in [Channels -> BOOLEAN]
    BY DEF RelayIInv, Simple, Attach, AttachFails, peerVars
  <2>3. faults' \in 0 .. MaxFaults
    BY FaultCounted DEF Attach, AttachFails
  <2>4. UNCHANGED <<far, sent, route, dead>>
    BY DEF Attach, AttachFails, linkVars
  <2> QED BY <1>2, <2>1, <2>2, <2>3, <2>4 DEF RelayIInv, Simple
<1> QED BY <1>1, <1>2, <1>3 DEF RelayIInv

LEMMA BreakInv ==
    ASSUME RelayIInv, NEW c \in Channels, Break(c) \/ Expire(c)
    PROVE  RelayIInv'
<1>1. UNCHANGED <<reader, current, queue, worker, got, stream, pel, consumer>>
  BY DEF Break, Expire, linkVars, farVars
<1>2. LinkInv' /\ AcksInv' /\ ChannelsKept /\ BoardInv'
  BY <1>1, QueuesStay, BoardStays DEF RelayIInv
<1>3. Simple'
  <2>1. client' \in [Channels -> {"new", "open", "broken", "leaving", "last", "gone"}]
    BY DEF RelayIInv, Simple, Break, Expire
  <2>2. presence' \in [Channels -> BOOLEAN]
    BY DEF RelayIInv, Simple, Break, Expire
  <2>3. faults' \in 0 .. MaxFaults
    BY FaultCounted DEF Break, Expire
  <2>4. UNCHANGED <<far, sent, route, dead, live>>
    BY DEF Break, Expire, linkVars, farVars
  <2> QED BY <2>1, <2>2, <2>3, <2>4 DEF RelayIInv, Simple
<1> QED BY <1>2, <1>3 DEF RelayIInv

\* A cancelled consumer keeps what it has.
LEMMA CancelSound ==
    ASSUME NEW x, NEW qs, NEW log, Sound(x, qs, log)
    PROVE  Sound([x EXCEPT !.ctx = FALSE], qs, log)
<1>1. /\ [x EXCEPT !.ctx = FALSE] \in Consumer
      /\ [x EXCEPT !.ctx = FALSE].step = x.step
      /\ [x EXCEPT !.ctx = FALSE].batch = x.batch
  BY DEF Sound, Consumer
<1> QED BY <1>1 DEF Sound

LEMMA DetachInv ==
    ASSUME RelayIInv, NEW c \in Channels, Detach(c)
    PROVE  RelayIInv'
<1>1. UNCHANGED <<reader, current, queue, worker, got, stream, pel>>
  BY DEF Detach, linkVars
<1>2. LinkInv' /\ AcksInv' /\ ChannelsKept /\ LogsKept /\ got' \in [Channels -> Seq(Receipt)]
  BY <1>1, QueuesStay
<1>3. BoardInv'
  <2>1. CASE consumer' = consumer
    BY <1>1, <1>2, <2>1, BoardStays DEF RelayIInv
  <2>2. CASE live' = NoConsumer /\ consumer' = [consumer EXCEPT ![live].ctx = FALSE]
    <3>1. live \in Consumers \/ (live = NoConsumer /\ NoConsumer \notin Consumers)
      BY RelayAssumption DEF RelayIInv, Simple
    <3>2. CASE live = NoConsumer /\ NoConsumer \notin Consumers
      <4>1. consumer' = consumer
        BY <2>2, <3>2 DEF RelayIInv, BoardInv
      <4> QED BY <1>1, <1>2, <4>1, BoardStays DEF RelayIInv
    <3>3. CASE live \in Consumers
      <4>1. PICK g \in Consumers : g = live
        BY <3>3
      <4>2. Run(g, [consumer[g] EXCEPT !.ctx = FALSE])
        BY <2>2, <4>1 DEF Run
      <4>3. PICK x : x = [consumer[g] EXCEPT !.ctx = FALSE]
        OBVIOUS
      <4>4. Sound(x, queue, got')
        BY <1>1, <4>3, CancelSound DEF RelayIInv, BoardInv
      <4>5. OnBoard(stream', queue) /\ OnBoard(pel', queue)
        BY <1>1 DEF RelayIInv, BoardInv
      <4> QED BY <1>2, <4>2, <4>3, <4>4, <4>5, BoardRuns DEF RelayIInv
    <3> QED BY <3>1, <3>2, <3>3
  <2> QED BY <2>1, <2>2 DEF Detach
<1>4. Simple'
  BY DEF RelayIInv, Simple, Detach, linkVars
<1> QED BY <1>2, <1>3, <1>4 DEF RelayIInv

LEMMA UnregisterInv ==
    ASSUME RelayIInv, NEW c \in Channels, Unregister(c)
    PROVE  RelayIInv'
<1>1. UNCHANGED <<reader, current, queue, worker, got, stream, consumer>> /\ pel' \in {pel, <<>>}
  BY DEF Unregister, linkVars
<1>2. LinkInv' /\ AcksInv' /\ ChannelsKept /\ LogsKept /\ got' \in [Channels -> Seq(Receipt)]
  BY <1>1, QueuesStay
<1>3. BoardInv'
  <2>1. OnBoard(<<>>, queue)
    BY DEF OnBoard
  <2>2. OnBoard(stream', queue) /\ OnBoard(pel', queue)
    BY <1>1, <2>1 DEF RelayIInv, BoardInv
  <2>3. consumer' \in [Consumers -> Consumer] /\ consumer' = consumer
    BY <1>1 DEF RelayIInv, BoardInv
  <2> QED BY <1>2, <2>2, <2>3, BoardKept DEF RelayIInv
<1>4. Simple'
  <2>1. client' \in [Channels -> {"new", "open", "broken", "leaving", "last", "gone"}]
    BY DEF RelayIInv, Simple, Unregister
  <2>2. presence' \in [Channels -> BOOLEAN]
    BY DEF RelayIInv, Simple, Unregister
  <2>3. faults' \in 0 .. MaxFaults
    BY FaultCounted DEF Unregister
  <2>4. route' \in [Channels -> BOOLEAN]
    BY DEF RelayIInv, Simple, Unregister
  <2>5. UNCHANGED <<far, sent, dead, live>>
    BY DEF Unregister, linkVars
  <2> QED BY <2>1, <2>2, <2>3, <2>4, <2>5 DEF RelayIInv, Simple
<1> QED BY <1>2, <1>3, <1>4 DEF RelayIInv

-----------------------------------------------------------------------------
(* The read loop.                                                            *)

LEMMA NoWorkIsWorker == NoWork \in Worker /\ NoWork.step = "wait" /\ ~NoWork.acked
BY RelayAssumption DEF NoWork, Worker

\* The read loop gives a queue of a channel its next frame.
LEMMA ReadOn ==
    ASSUME NEW q \in Queues, NEW qs, qs[q].chan \in Channels, RelayIInv, sent < MaxFrames
    PROVE  Holding([q |-> q, n |-> sent + 1], qs) /\ sent + 1 \in 0 .. MaxFrames
<1>1. sent + 1 \in Frames /\ sent + 1 \in 0 .. MaxFrames
  BY RelayAssumption DEF RelayIInv, Simple, Frames
<1> QED BY <1>1 DEF Holding

LEMMA ReceiveInv ==
    ASSUME RelayIInv, NEW c \in Channels, Receive(c)
    PROVE  RelayIInv'
<1>1. /\ sent' = sent + 1 /\ sent < MaxFrames
      /\ UNCHANGED <<far, client, presence, route, dead, stream, pel, live, consumer, got, faults>>
  BY DEF Receive, peerVars, farVars
<1>2. LogsKept /\ got' \in [Channels -> Seq(Receipt)]
  BY <1>1, GotStays
<1>3. CASE /\ current[c] # NoQueue /\ reader' = [q |-> current[c], n |-> sent + 1]
           /\ UNCHANGED <<current, queue, worker>>
  <2>1. current[c] \in Queues /\ queue[current[c]].chan = c
    BY <1>3 DEF RelayIInv, LinkInv, ListedIsServed
  <2>2. Holding(reader', queue') /\ sent' \in 0 .. MaxFrames
    BY <1>1, <1>3, <2>1, ReadOn
  <2>3. LinkInv' /\ ChannelsKept
    BY <1>3, <2>2 DEF RelayIInv, LinkInv, QueuesInv, WorkersInv, ListedIsServed, ChannelsKept
  <2>4. AcksInv' /\ BoardInv'
    BY <1>1, <1>2, <1>3, <2>3, AcksStay, BoardStays DEF RelayIInv
  <2> QED BY <1>1, <2>2, <2>3, <2>4 DEF RelayIInv, Simple
<1>4. ASSUME NEW q \in Queues, queue[q].chan = NoChannel, current[c] = NoQueue,
             reader' = [q |-> q, n |-> sent + 1],
             current' = [current EXCEPT ![c] = q],
             queue' = [queue EXCEPT ![q].chan = c],
             worker' = [worker EXCEPT ![q] = NoWork]
      PROVE  RelayIInv'
  <2>1. /\ queue \in [Queues -> Queue] /\ worker \in [Queues -> Worker]
        /\ current \in [Channels -> Queues \cup {NoQueue}]
    BY DEF RelayIInv, LinkInv, QueuesInv, WorkersInv
  <2>2. /\ queue' \in [Queues -> Queue]
        /\ queue'[q].chan = c /\ queue'[q].frames = queue[q].frames /\ queue'[q].stopped = queue[q].stopped
        /\ \A p \in Queues : p # q => queue'[p] = queue[p]
    BY <1>4, <2>1 DEF Queue
  <2>3. /\ worker' \in [Queues -> Worker] /\ worker'[q] = NoWork
        /\ \A p \in Queues : p # q => worker'[p] = worker[p]
    BY <1>4, <2>1, NoWorkIsWorker
  <2>4. ~queue[q].stopped
    BY <1>4 DEF RelayIInv, LinkInv, QueuesInv
  <2>5. Holding(reader', queue') /\ sent' \in 0 .. MaxFrames
    BY <1>1, <1>4, <2>2, ReadOn, ZenonT(60)
  <2>6. QueuesInv'
    <3>1. \A p \in Queues : Len(queue'[p].frames) <= Depth
      BY <2>2 DEF RelayIInv, LinkInv, QueuesInv
    <3>2. ASSUME NEW p \in Queues, queue'[p].chan = NoChannel
          PROVE  ~queue'[p].stopped /\ worker'[p].step = "off"
      <4>1. p # q
        BY <2>2, <3>2, RelayAssumption
      <4> QED BY <2>2, <2>3, <3>2, <4>1 DEF RelayIInv, LinkInv, QueuesInv
    <3> QED BY <2>2, <3>1, <3>2 DEF QueuesInv
  <2>7. WorkersInv'
    BY <2>3, NoWorkIsWorker DEF RelayIInv, LinkInv, WorkersInv
  <2>8. ListedIsServed'
    <3> SUFFICES ASSUME NEW d \in Channels, current'[d] # NoQueue
                 PROVE  /\ queue'[current'[d]].chan = d /\ ~queue'[current'[d]].stopped
                        /\ worker'[current'[d]].step \notin {"off", "stopped", "retired"}
      BY DEF ListedIsServed
    <3>1. CASE d = c
      BY <1>4, <2>1, <2>2, <2>3, <2>4, <3>1, NoWorkIsWorker
    <3>2. CASE d # c
      <4>1. current'[d] = current[d] /\ current[d] \in Queues
        BY <1>4, <2>1, <3>2
      <4>2. /\ queue[current[d]].chan = d /\ ~queue[current[d]].stopped
            /\ worker[current[d]].step \notin {"off", "stopped", "retired"}
        BY <4>1 DEF RelayIInv, LinkInv, ListedIsServed
      <4>3. current[d] # q
        BY <1>4, <4>2, RelayAssumption
      <4> QED BY <2>2, <2>3, <4>1, <4>2, <4>3
    <3> QED BY <3>1, <3>2
  <2>9. LinkInv' /\ ChannelsKept
    <3>1. current' \in [Channels -> Queues \cup {NoQueue}]
      BY <1>4, <2>1
    <3>2. ChannelsKept
      BY <1>4, <2>2 DEF ChannelsKept
    <3> QED BY <2>5, <2>6, <2>7, <2>8, <3>1, <3>2 DEF LinkInv
  <2>10. BoardInv'
    BY <1>1, <2>9, BoardStays DEF RelayIInv
  <2>11. AcksInv'
    <3> SUFFICES ASSUME NEW p \in Queues, worker'[p].step = "ack", worker'[p].acked
                 PROVE  Reached(queue'[p].chan, worker'[p].frame, got')
      BY DEF AcksInv
    <3>1. p # q
      BY <2>3, NoWorkIsWorker
    <3> QED BY <1>1, <2>2, <2>3, <3>1 DEF RelayIInv, AcksInv
  <2> QED BY <1>1, <2>5, <2>9, <2>10, <2>11 DEF RelayIInv, Simple
<1> QED BY <1>3, <1>4 DEF Receive, First

\* A queue is taken off the list, if it is on it.
LEMMA UnlistedServed ==
    ASSUME RelayIInv, NEW q
    PROVE  /\ Unlisted(q) \in [Channels -> Queues \cup {NoQueue}]
           /\ \A c \in Channels : /\ Unlisted(q)[c] # q \/ q = NoQueue
                                  /\ Unlisted(q)[c] \in {NoQueue, current[c]}
BY DEF Unlisted, RelayIInv, LinkInv

LEMMA PutInv == ASSUME RelayIInv, Put PROVE RelayIInv'
<1> DEFINE q == reader.q
<1>1. /\ reader # Unread /\ reader' = Unread
      /\ UNCHANGED <<far, client, presence, sent, worker, route, dead, stream, pel, live, consumer, got, faults>>
  BY DEF Put, peerVars, farVars
<1>2. q \in Queues /\ reader.n \in Frames /\ queue[q].chan \in Channels
  BY <1>1 DEF RelayIInv, LinkInv, Holding
<1>3. /\ queue \in [Queues -> Queue] /\ current \in [Channels -> Queues \cup {NoQueue}]
      /\ \A p \in Queues : /\ queue[p].frames \in Seq(Frames) /\ queue[p].stopped \in BOOLEAN
                           /\ queue[p].chan \in Channels \cup {NoChannel}
                           /\ Len(queue[p].frames) <= Depth
  BY DEF RelayIInv, LinkInv, QueuesInv, Queue
<1>4. LogsKept
  BY <1>1, GotStays
<1>5. Holding(reader', queue')
  <2>1. Unread \in [q : Queues \cup {NoQueue}, n : 0 .. MaxFrames]
    BY RelayAssumption DEF Unread
  <2> QED BY <1>1, <2>1 DEF Holding
<1>6. CASE /\ Len(queue[q].frames) < Depth /\ current' = current
           /\ queue' = [queue EXCEPT ![q].frames = Append(queue[q].frames, reader.n)]
  <2>1. PICK fs \in Seq(Frames) : fs = Append(queue[q].frames, reader.n) /\ Len(fs) <= Depth
    <3>1. Append(queue[q].frames, reader.n) \in Seq(Frames)
      BY <1>2, <1>3
    <3>2. Len(Append(queue[q].frames, reader.n)) = Len(queue[q].frames) + 1
      BY <1>2, <1>3
    <3>3. Len(queue[q].frames) \in Nat /\ Depth \in Nat
      BY <1>2, <1>3, RelayAssumption
    <3>4. Len(Append(queue[q].frames, reader.n)) <= Depth
      <4>1. Len(queue[q].frames) < Depth
        BY <1>6
      <4> HIDE DEF q
      <4> QED BY <3>2, <3>3, <4>1
    <3> QED BY <3>1, <3>4
  <2>2. /\ queue' \in [Queues -> Queue] /\ queue'[q].frames = fs
        /\ \A p \in Queues : /\ queue'[p].chan = queue[p].chan /\ queue'[p].stopped = queue[p].stopped
                             /\ p # q => queue'[p].frames = queue[p].frames
    BY <1>2, <1>3, <1>6, <2>1 DEF Queue
  <2>3. QueuesInv'
    BY <1>1, <2>1, <2>2 DEF RelayIInv, LinkInv, QueuesInv
  <2>4. ListedIsServed'
    BY <1>1, <1>3, <1>6, <2>2 DEF RelayIInv, LinkInv, ListedIsServed
  <2>5. LinkInv' /\ ChannelsKept
    BY <1>1, <1>5, <1>6, <2>2, <2>3, <2>4 DEF RelayIInv, LinkInv, WorkersInv, ChannelsKept
  <2>6. AcksInv'
    BY <1>1, <2>2 DEF RelayIInv, AcksInv
  <2>7. BoardInv'
    BY <1>1, <2>5, BoardStays DEF RelayIInv
  <2> QED BY <1>1, <2>5, <2>6, <2>7 DEF RelayIInv, Simple
<1>7. CASE queue' = [queue EXCEPT ![q].stopped = TRUE] /\ current' = Unlisted(q)
  <2>1. /\ queue' \in [Queues -> Queue] /\ queue'[q].stopped
        /\ \A p \in Queues : /\ queue'[p].chan = queue[p].chan /\ queue'[p].frames = queue[p].frames
                             /\ p # q => queue'[p] = queue[p]
    BY <1>2, <1>3, <1>7 DEF Queue
  <2>2. QueuesInv'
    <3>1. queue[q].chan # NoChannel
      BY <1>2, RelayAssumption
    <3> QED BY <1>1, <2>1, <3>1 DEF RelayIInv, LinkInv, QueuesInv
  <2>3. ListedIsServed'
    BY <1>1, <1>2, <1>3, <1>7, <2>1, UnlistedServed, RelayAssumption DEF RelayIInv, LinkInv, ListedIsServed
  <2>4. LinkInv' /\ ChannelsKept
    BY <1>1, <1>5, <1>7, <2>1, <2>2, <2>3, UnlistedServed DEF RelayIInv, LinkInv, WorkersInv, ChannelsKept
  <2>5. AcksInv'
    BY <1>1, <2>1 DEF RelayIInv, AcksInv
  <2>6. BoardInv'
    BY <1>1, <2>4, BoardStays DEF RelayIInv
  <2> QED BY <1>1, <2>4, <2>5, <2>6 DEF RelayIInv, Simple
<1> QED BY <1>6, <1>7 DEF Put

LEMMA CloseInv == ASSUME RelayIInv, Close PROVE RelayIInv'
<1>1. /\ sent' = MaxFrames /\ current' = [c \in Channels |-> NoQueue]
      /\ queue' = [q \in Queues |-> IF \E c \in Channels : current[c] = q
                                      THEN [queue[q] EXCEPT !.stopped = TRUE] ELSE queue[q]]
      /\ reader' = reader
      /\ UNCHANGED <<far, client, presence, worker, route, dead, stream, pel, live, consumer, got, faults>>
  BY DEF Close, peerVars, farVars
<1>2. \A q \in Queues : queue[q] \in Queue
  BY DEF RelayIInv, LinkInv, QueuesInv
<1>3. \A q \in Queues : /\ queue'[q] \in Queue
                        /\ queue'[q].chan = queue[q].chan /\ queue'[q].frames = queue[q].frames
                        /\ queue'[q].stopped =>
                              queue[q].stopped \/ \E c \in Channels : current[c] = q
  BY <1>1, <1>2 DEF Queue
<1>4. QueuesInv'
  <2>1. ASSUME NEW q \in Queues, queue'[q].chan = NoChannel
        PROVE  ~queue'[q].stopped /\ worker'[q].step = "off"
    <3>1. queue[q].chan = NoChannel /\ ~queue[q].stopped /\ worker[q].step = "off"
      BY <1>3, <2>1 DEF RelayIInv, LinkInv, QueuesInv
    <3>2. \A c \in Channels : current[c] # q
      BY <3>1, RelayAssumption DEF RelayIInv, LinkInv, ListedIsServed
    <3> QED BY <1>1, <1>3, <3>1, <3>2
  <2>2. \A q \in Queues : Len(queue'[q].frames) <= Depth
    BY <1>3 DEF RelayIInv, LinkInv, QueuesInv
  <2>3. queue' \in [Queues -> Queue]
    BY <1>1, <1>3
  <2> QED BY <2>1, <2>2, <2>3 DEF QueuesInv
<1>5. ListedIsServed' /\ current' \in [Channels -> Queues \cup {NoQueue}]
  BY <1>1 DEF ListedIsServed
<1>6. Holding(reader', queue')
  BY <1>1, <1>3 DEF RelayIInv, LinkInv, Holding
<1>7. LinkInv' /\ ChannelsKept
  BY <1>1, <1>3, <1>4, <1>5, <1>6 DEF RelayIInv, LinkInv, WorkersInv, ChannelsKept
<1>8. AcksInv'
  BY <1>1, <1>3 DEF RelayIInv, AcksInv
<1>9. BoardInv'
  BY <1>1, <1>7, BoardStays DEF RelayIInv
<1>10. Simple'
  BY <1>1, RelayAssumption DEF RelayIInv, Simple
<1> QED BY <1>7, <1>8, <1>9, <1>10 DEF RelayIInv

-----------------------------------------------------------------------------
(* The worker of a queue.                                                    *)

LEMMA AckedStays ==
    ASSUME NEW x \in Worker, NEW s
    PROVE  [x EXCEPT !.step = s].acked = x.acked
BY Zenon DEF Worker

LEMMA WorkerSteps ==
    ASSUME NEW x \in Worker, ~x.acked, NEW s \in {"ack", "stopped", "retired"},
           NEW y, y = [x EXCEPT !.step = s]
    PROVE  y \in Worker /\ y.step = s /\ y.frame = x.frame /\ ~y.acked
<1>1. y \in Worker /\ y.step = s /\ y.frame = x.frame
  BY DEF Worker
<1>2. ~y.acked
  BY AckedStays, Zenon
<1> QED BY <1>1, <1>2

LEMMA AtWork ==
    ASSUME RelayIInv, NEW q \in Queues, worker[q].step # "off"
    PROVE  queue[q].chan \in Channels /\ queue[q] \in Queue /\ worker[q] \in Worker
BY DEF RelayIInv, LinkInv, QueuesInv, WorkersInv, Queue

\* The worker of q goes on with w, and nothing else moves but what Simple speaks of.
LEMMA Goes ==
    ASSUME RelayIInv, NEW q \in Queues, NEW w \in Worker, Become(q, w),
           UNCHANGED <<reader, current, queue, stream, pel, consumer, got>>,
           worker[q].step # "off", w.step \notin {"off", "retired"},
           w.step = "stopped" => queue[q].stopped,
           w.step \in {"dispatch", "ack"} => w.frame \in Frames, ~w.acked
    PROVE  LinkInv' /\ BoardInv' /\ AcksInv' /\ ChannelsKept
<1>1. LogsKept /\ got' \in [Channels -> Seq(Receipt)]
  BY GotStays
<1>2. LinkInv' /\ ChannelsKept
  BY LinkBecomes DEF RelayIInv
<1>3. AcksInv'
  BY <1>1, AcksBecome DEF RelayIInv
<1>4. BoardInv'
  BY <1>2, BoardStays DEF RelayIInv
<1> QED BY <1>2, <1>3, <1>4

\* A frame is lost and its worker goes on; the route may be looked up again.
LEMMA FailedKeeps ==
    ASSUME RelayIInv, NEW q \in Queues, Failed(q), worker[q].step \in {"dispatch", "ack"},
           UNCHANGED <<far, client, presence, sent, reader, current, queue, stream, pel,
                       live, consumer, got>>, dead' \in BOOLEAN
    PROVE  RelayIInv'
<1>1. LinkInv' /\ BoardInv' /\ AcksInv'
  BY Goes, NoWorkIsWorker DEF Failed
<1>2. queue[q].chan \in Channels
  BY AtWork
<1>3. route' \in [Channels -> BOOLEAN]
  BY <1>2 DEF Failed, RelayIInv, Simple
<1>4. faults' \in 0 .. MaxFaults
  BY FaultCounted DEF Failed
<1>5. Simple'
  BY <1>3, <1>4 DEF RelayIInv, Simple
<1> QED BY <1>1, <1>5 DEF RelayIInv

LEMMA TakeInv ==
    ASSUME RelayIInv, NEW q \in Queues, Take(q)
    PROVE  RelayIInv'
<1> DEFINE c == queue[q].chan
           w(cached) == [step |-> "dispatch", frame |-> Head(queue[q].frames),
                         cached |-> cached, acked |-> FALSE]
<1>1. /\ worker[q].step = "wait" /\ queue[q].frames # <<>>
      /\ queue' = [queue EXCEPT ![q].frames = Tail(queue[q].frames)]
      /\ Become(q, NoWork) \/ \E b \in BOOLEAN : Become(q, w(b))
      /\ UNCHANGED <<far, client, presence, sent, reader, current, dead, stream, pel, live, consumer, got>>
  BY DEF Take, peerVars, farVars
<1>2. c \in Channels /\ queue[q].frames \in Seq(Frames)
  BY <1>1, AtWork DEF Queue
<1>3. /\ Head(queue[q].frames) \in Frames /\ Tail(queue[q].frames) \in Seq(Frames)
      /\ Len(Tail(queue[q].frames)) <= Depth
  <2>1. Len(queue[q].frames) <= Depth /\ Depth \in Nat
    BY RelayAssumption DEF RelayIInv, LinkInv, QueuesInv
  <2>2. PICK s \in Seq(Frames) : s = queue[q].frames /\ s # <<>> /\ Len(s) <= Depth
    BY <1>1, <1>2, <2>1
  <2>3. Head(s) \in Frames /\ Tail(s) \in Seq(Frames) /\ Len(Tail(s)) = Len(s) - 1 /\ Len(s) \in Nat
    BY <2>2
  <2>4. Len(Tail(s)) <= Depth
    BY <2>1, <2>2, <2>3
  <2> QED BY <2>2, <2>3, <2>4
<1>4. PICK v \in Worker : /\ Become(q, v) /\ v.step \in {"wait", "dispatch"}
                          /\ v.step = "dispatch" => v.frame \in Frames
                          /\ ~v.acked
  <2>1. PICK n \in Frames : n = Head(queue[q].frames)
    BY <1>3
  <2>2. n \in 0 .. MaxFrames
    BY DEF Frames
  <2>3. ASSUME NEW b \in BOOLEAN
        PROVE  w(b) \in Worker /\ w(b).step = "dispatch" /\ w(b).frame \in Frames /\ ~w(b).acked
    BY <2>1, <2>2 DEF Worker
  <2> HIDE DEF w
  <2> QED BY <1>1, <2>3, NoWorkIsWorker
<1> HIDE DEF c, w
<1>5. /\ worker' = [worker EXCEPT ![q] = v] /\ worker \in [Queues -> Worker]
      /\ \A p \in Queues : worker'[p] = IF p = q THEN v ELSE worker[p]
  BY <1>4 DEF Become, RelayIInv, LinkInv, WorkersInv
<1>6. PICK fs \in Seq(Frames) : fs = Tail(queue[q].frames) /\ Len(fs) <= Depth
  BY <1>3
<1>7. /\ queue' \in [Queues -> Queue] /\ queue'[q].frames = fs
      /\ \A p \in Queues : /\ queue'[p].chan = queue[p].chan /\ queue'[p].stopped = queue[p].stopped
                           /\ p # q => queue'[p].frames = queue[p].frames
  <2>1. queue \in [Queues -> Queue] /\ queue' = [queue EXCEPT ![q].frames = fs]
    BY <1>1, <1>6 DEF RelayIInv, LinkInv, QueuesInv
  <2> HIDE <1>6
  <2> QED BY <2>1 DEF Queue
<1>8. QueuesInv'
  BY <1>1, <1>4, <1>5, <1>6, <1>7 DEF RelayIInv, LinkInv, QueuesInv
<1>9. WorkersInv'
  BY <1>4, <1>5 DEF RelayIInv, LinkInv, WorkersInv
<1>10. ListedIsServed'
  <2> SUFFICES ASSUME NEW d \in Channels, current[d] # NoQueue
               PROVE  /\ queue'[current[d]].chan = d /\ ~queue'[current[d]].stopped
                      /\ worker'[current[d]].step \notin {"off", "stopped", "retired"}
    BY <1>1 DEF ListedIsServed
  <2>1. current[d] \in Queues
    BY DEF RelayIInv, LinkInv
  <2> QED BY <1>4, <1>5, <1>7, <2>1 DEF RelayIInv, LinkInv, ListedIsServed
<1>11. LinkInv' /\ ChannelsKept
  BY <1>1, <1>7, <1>8, <1>9, <1>10 DEF RelayIInv, LinkInv, Holding, ChannelsKept
<1>12. BoardInv'
  BY <1>1, <1>11, BoardStays DEF RelayIInv
<1>13. AcksInv'
  BY <1>1, <1>4, <1>5, <1>7 DEF RelayIInv, AcksInv
<1>14. route' \in [Channels -> BOOLEAN] /\ faults' \in 0 .. MaxFaults
  <2>1. /\ \/ route' = route
           \/ route' = [route EXCEPT ![c] = presence[c]]
           \/ route' = [route EXCEPT ![c] = FALSE]
        /\ Fault \/ faults' = faults
    BY DEF Take, c
  <2> QED BY <1>2, <2>1, FaultCounted DEF RelayIInv, Simple, c
<1>15. Simple'
  BY <1>1, <1>14 DEF RelayIInv, Simple
<1> QED BY <1>11, <1>12, <1>13, <1>15 DEF RelayIInv

LEMMA StopInv ==
    ASSUME RelayIInv, NEW q \in Queues, Stop(q)
    PROVE  RelayIInv'
<1>1. PICK w : w = [NoWork EXCEPT !.step = "stopped"]
  OBVIOUS
<1>2. w \in Worker /\ w.step = "stopped" /\ ~w.acked
  BY <1>1, NoWorkIsWorker, WorkerSteps
<1>3. /\ worker[q].step = "wait" /\ queue[q].stopped /\ Become(q, w)
      /\ UNCHANGED <<far, client, presence, sent, reader, current, queue, route, dead,
                     stream, pel, live, consumer, got, faults>>
  BY <1>1 DEF Stop, peerVars, linkVars, farVars
<1>4. LinkInv' /\ BoardInv' /\ AcksInv'
  BY <1>2, <1>3, Goes
<1> QED BY <1>3, <1>4 DEF RelayIInv, Simple

LEMMA RetireInv ==
    ASSUME RelayIInv, NEW q \in Queues, RetireIfIdle(q)
    PROVE  RelayIInv'
<1>1. PICK w : w = [NoWork EXCEPT !.step = "retired"]
  OBVIOUS
<1>2. w \in Worker /\ w.step = "retired" /\ ~w.acked
  BY <1>1, NoWorkIsWorker, WorkerSteps
<1>3. /\ worker[q].step = "wait" /\ worker' = [worker EXCEPT ![q] = w]
      /\ queue' = [queue EXCEPT ![q].stopped = TRUE] /\ current' = Unlisted(q)
      /\ UNCHANGED <<far, client, presence, sent, reader, route, dead, stream, pel, live, consumer, got, faults>>
  BY <1>1 DEF RetireIfIdle, Become, peerVars, farVars
<1>4. /\ queue \in [Queues -> Queue] /\ worker \in [Queues -> Worker]
      /\ queue[q].chan \in Channels
  BY <1>3, AtWork DEF RelayIInv, LinkInv, QueuesInv, WorkersInv
<1>5. /\ queue' \in [Queues -> Queue]
      /\ \A p \in Queues : /\ queue'[p].chan = queue[p].chan /\ queue'[p].frames = queue[p].frames
                           /\ p # q => queue'[p] = queue[p]
      /\ \A p \in Queues : worker'[p] = IF p = q THEN w ELSE worker[p]
  BY <1>3, <1>4 DEF Queue
<1>6. QueuesInv'
  <2>1. queue[q].chan # NoChannel
    BY <1>4, RelayAssumption
  <2> QED BY <1>5, <2>1 DEF RelayIInv, LinkInv, QueuesInv
<1>7. WorkersInv'
  BY <1>2, <1>3, <1>4, <1>5 DEF RelayIInv, LinkInv, WorkersInv
<1>8. ListedIsServed'
  <2> SUFFICES ASSUME NEW d \in Channels, current'[d] # NoQueue
               PROVE  /\ queue'[current'[d]].chan = d /\ ~queue'[current'[d]].stopped
                      /\ worker'[current'[d]].step \notin {"off", "stopped", "retired"}
    BY DEF ListedIsServed
  <2>1. q # NoQueue
    BY RelayAssumption
  <2>2. current'[d] = current[d] /\ current[d] \in Queues /\ current[d] # q
    BY <1>3, <2>1, UnlistedServed DEF RelayIInv, LinkInv
  <2> QED BY <1>5, <2>2 DEF RelayIInv, LinkInv, ListedIsServed
<1>9. LinkInv' /\ ChannelsKept
  BY <1>3, <1>5, <1>6, <1>7, <1>8, UnlistedServed DEF RelayIInv, LinkInv, Holding, ChannelsKept
<1>10. BoardInv'
  BY <1>3, <1>9, BoardStays DEF RelayIInv
<1>11. AcksInv'
  BY <1>2, <1>3, <1>5 DEF RelayIInv, AcksInv
<1> QED BY <1>3, <1>9, <1>10, <1>11 DEF RelayIInv, Simple

\* A write to a browser: what it was sent before stays.
LEMMA WrittenKeeps ==
    ASSUME RelayIInv, NEW c \in Channels, NEW r \in Receipt, Written(c, r)
    PROVE  LogsKept /\ got' \in [Channels -> Seq(Receipt)] /\ Reached(c, r.n, got')
<1>1. got \in [Channels -> Seq(Receipt)] /\ got' = [got EXCEPT ![c] = Append(got[c], r)]
  BY DEF RelayIInv, BoardInv, Written
<1>2. PICK s \in Seq(Receipt) : s = got[c]
  BY <1>1
<1>3. /\ Append(s, r) \in Seq(Receipt) /\ Len(Append(s, r)) = Len(s) + 1
      /\ DOMAIN Append(s, r) = 1 .. Len(s) + 1 /\ DOMAIN s = 1 .. Len(s)
      /\ Append(s, r)[Len(s) + 1] = r /\ Len(s) \in Nat
      /\ \A k \in 1 .. Len(s) : Append(s, r)[k] = s[k]
  OBVIOUS
<1>4. PICK t \in Seq(Receipt) : t = Append(s, r)
  BY <1>3
<1>5. got' = [got EXCEPT ![c] = t] /\ got' \in [Channels -> Seq(Receipt)] /\ got'[c] = t
  BY <1>1, <1>2, <1>4
<1>6. Reached(c, r.n, got')
  BY <1>3, <1>4, <1>5 DEF Reached
<1>7. ASSUME NEW d \in Channels, NEW n \in Frames, Reached(d, n, got)
      PROVE  Reached(d, n, got')
  <2>1. CASE d = c
    <3>1. PICK k \in 1 .. Len(s) : s[k].n = n
      BY <1>2, <1>3, <1>7, <2>1 DEF Reached
    <3>2. k \in DOMAIN t /\ t[k].n = n
      BY <1>3, <1>4, <3>1
    <3> QED BY <1>5, <2>1, <3>2 DEF Reached
  <2>2. CASE d # c
    <3>1. got'[d] = got[d]
      BY <1>1, <1>5, <2>2
    <3> QED BY <1>7, <3>1 DEF Reached
  <2> QED BY <2>1, <2>2
<1> QED BY <1>5, <1>6, <1>7 DEF LogsKept

LEMMA DeliverHereInv ==
    ASSUME RelayIInv, NEW q \in Queues, DeliverHere(q)
    PROVE  RelayIInv'
<1>1. /\ worker[q].step = "dispatch"
      /\ UNCHANGED <<far, client, presence, sent, reader, current, queue, dead, stream, pel, live, consumer>>
  BY DEF DeliverHere, peerVars, linkVars, farVars
<1>2. CASE Failed(q) /\ got' = got
  BY <1>1, <1>2, FailedKeeps DEF RelayIInv, Simple
<1>3. CASE /\ Written(queue[q].chan, [n |-> worker[q].frame, from |-> q])
           /\ Become(q, NoWork) /\ UNCHANGED <<route, faults>>
  <2>1. queue[q].chan \in Channels /\ worker[q].frame \in Frames
    BY <1>1, AtWork DEF RelayIInv, LinkInv, WorkersInv
  <2>2. [n |-> worker[q].frame, from |-> q] \in Receipt
    BY <2>1 DEF Receipt
  <2>3. LogsKept /\ got' \in [Channels -> Seq(Receipt)]
    BY <1>3, <2>1, <2>2, WrittenKeeps
  <2>4. LinkInv' /\ ChannelsKept
    BY <1>1, <1>3, NoWorkIsWorker, LinkBecomes DEF RelayIInv
  <2>5. AcksInv'
    BY <1>1, <1>3, <2>3, NoWorkIsWorker, AcksBecome DEF RelayIInv
  <2>6. BoardInv'
    <3>1. OnBoard(stream', queue) /\ OnBoard(pel', queue) /\ consumer' \in [Consumers -> Consumer]
      BY <1>1 DEF RelayIInv, BoardInv
    <3> QED BY <1>1, <2>3, <2>4, <3>1, BoardKept DEF RelayIInv
  <2> QED BY <1>1, <1>3, <2>4, <2>5, <2>6 DEF RelayIInv, Simple
<1> QED BY <1>2, <1>3 DEF DeliverHere

LEMMA RefuseInv ==
    ASSUME RelayIInv, NEW q \in Queues, Refuse(q) \/ TimeOut(q)
    PROVE  RelayIInv'
<1>1. /\ Failed(q) /\ worker[q].step \in {"dispatch", "ack"} /\ dead' \in BOOLEAN
      /\ UNCHANGED <<far, client, presence, sent, reader, current, queue, stream, pel, live, consumer, got>>
  BY DEF Refuse, TimeOut, peerVars, linkVars, farVars, RelayIInv, Simple
<1> QED BY <1>1, FailedKeeps

LEMMA ConfirmedInv ==
    ASSUME RelayIInv, NEW q \in Queues, Confirmed(q)
    PROVE  RelayIInv'
<1>1. /\ worker[q].step = "ack" /\ Become(q, NoWork) /\ dead' = FALSE
      /\ UNCHANGED <<far, client, presence, sent, reader, current, queue, route, stream, pel,
                     live, consumer, got, faults>>
  BY DEF Confirmed, peerVars, linkVars, farVars
<1>2. LinkInv' /\ BoardInv' /\ AcksInv'
  BY <1>1, NoWorkIsWorker, Goes
<1> QED BY <1>1, <1>2 DEF RelayIInv, Simple

\* The entry of a frame carries the channel of its queue.
LEMMA EnteredOnBoard ==
    ASSUME RelayIInv, NEW q \in Queues, worker[q].step = "dispatch"
    PROVE  OnBoard(stream, queue) /\ OnBoard(Append(stream, Entered(q)), queue)
<1>1. queue[q].chan \in Channels /\ worker[q].frame \in Frames
  BY AtWork DEF RelayIInv, LinkInv, WorkersInv
<1>2. /\ Entered(q) \in Entry /\ queue[Entered(q).from].chan = Entered(q).chan
  BY <1>1 DEF Entered, Entry
<1>3. OnBoard(stream, queue)
  BY DEF RelayIInv, BoardInv
<1> QED BY <1>2, <1>3, AppendOnBoard

LEMMA PublishKeeps ==
    ASSUME RelayIInv, NEW q \in Queues, worker[q].step = "dispatch",
           stream' \in {stream, Append(stream, Entered(q))},
           NEW w \in Worker, Become(q, w), w.step \in {"wait", "ack"}, ~w.acked,
           w.step = "ack" => w.frame \in Frames,
           UNCHANGED <<reader, current, queue, pel, consumer, got>>
    PROVE  LinkInv' /\ BoardInv' /\ AcksInv'
<1>1. LogsKept /\ got' \in [Channels -> Seq(Receipt)]
  BY GotStays
<1>2. LinkInv' /\ ChannelsKept
  BY LinkBecomes DEF RelayIInv
<1>3. AcksInv'
  BY <1>1, AcksBecome DEF RelayIInv
<1>4. OnBoard(stream', queue) /\ OnBoard(pel', queue) /\ consumer' \in [Consumers -> Consumer]
  BY EnteredOnBoard DEF RelayIInv, BoardInv
<1>5. BoardInv'
  BY <1>1, <1>2, <1>4, BoardKept DEF RelayIInv
<1> QED BY <1>2, <1>3, <1>5

LEMMA PublishInv ==
    ASSUME RelayIInv, NEW q \in Queues, Publish(q)
    PROVE  RelayIInv'
<1>1. PICK w : w = [worker[q] EXCEPT !.step = "ack"]
  OBVIOUS
<1>2. /\ worker[q].step = "dispatch" /\ stream' = Append(stream, Entered(q)) /\ Become(q, w)
      /\ dead' = FALSE
      /\ UNCHANGED <<far, client, presence, sent, reader, current, queue, route, pel, live,
                     consumer, got, faults>>
  BY <1>1 DEF Publish, peerVars, linkVars
<1>3. worker[q] \in Worker /\ worker[q].frame \in Frames /\ ~worker[q].acked
  BY <1>2, AtWork DEF RelayIInv, LinkInv, WorkersInv
<1>4. w \in Worker /\ w.step = "ack" /\ w.frame = worker[q].frame /\ ~w.acked
  BY <1>1, <1>3, WorkerSteps
<1>5. LinkInv' /\ BoardInv' /\ AcksInv'
  BY <1>2, <1>3, <1>4, PublishKeeps
<1> QED BY <1>2, <1>5 DEF RelayIInv, Simple

LEMMA PublishFailsInv ==
    ASSUME RelayIInv, NEW q \in Queues, PublishFails(q)
    PROVE  RelayIInv'
<1> DEFINE c == queue[q].chan
<1>1. /\ worker[q].step = "dispatch" /\ stream' \in {stream, Append(stream, Entered(q))}
      /\ Become(q, NoWork) /\ dead' = TRUE /\ Fault
      /\ UNCHANGED <<far, client, presence, sent, reader, current, queue, pel, live, consumer, got>>
  BY DEF PublishFails, peerVars, linkVars
<1>2. LinkInv' /\ BoardInv' /\ AcksInv'
  BY <1>1, NoWorkIsWorker, PublishKeeps
<1>3. route' \in [Channels -> BOOLEAN]
  <2>1. c \in Channels
    BY <1>1, AtWork
  <2>2. PICK r : r \in {presence[c], FALSE, route[c]} /\ route' = [route EXCEPT ![c] = r]
    BY DEF PublishFails
  <2> HIDE DEF c
  <2> QED BY <2>1, <2>2 DEF RelayIInv, Simple
<1>4. Simple'
  BY <1>1, <1>3, FaultCounted DEF RelayIInv, Simple
<1> QED BY <1>2, <1>4 DEF RelayIInv

-----------------------------------------------------------------------------
(* A consumer of the other replica.                                          *)

LEMMA ConsumerSound ==
    ASSUME RelayIInv, NEW g \in Consumers
    PROVE  Sound(consumer[g], queue, got) /\ consumer[g] \in Consumer
BY DEF RelayIInv, BoardInv

\* A consumer goes on with x, and the queues do not notice.
LEMMA ConsumerGoes ==
    ASSUME RelayIInv, NEW g \in Consumers, NEW x, Run(g, x), Sound(x, queue, got),
           OnBoard(stream', queue), OnBoard(pel', queue),
           UNCHANGED <<reader, current, queue, worker, got>>
    PROVE  LinkInv' /\ BoardInv' /\ AcksInv'
<1>1. LinkInv' /\ AcksInv' /\ ChannelsKept /\ LogsKept /\ got' \in [Channels -> Seq(Receipt)]
  BY QueuesStay
<1> QED BY <1>1, BoardRuns DEF RelayIInv

LEMMA ReadInv ==
    ASSUME RelayIInv, NEW g \in Consumers, Read(g)
    PROVE  RelayIInv'
<1> DEFINE x == consumer[g]
<1>1. UNCHANGED <<far, client, presence, sent, reader, current, queue, worker, route, dead, live, got, faults>>
  BY DEF Read, peerVars, linkVars
<1>2. Sound(x, queue, got) /\ x \in Consumer /\ OnBoard(stream, queue) /\ OnBoard(pel, queue)
  BY ConsumerSound DEF RelayIInv, BoardInv
<1>3. OnBoard(pel \o stream, queue)
  BY <1>2, ConcatOnBoard
<1>4. PICK y \in Consumer : y = consumer[g]
  BY <1>2
<1>5. PICK z : /\ Run(g, z) /\ Sound(z, queue, got)
               /\ OnBoard(stream', queue) /\ OnBoard(pel', queue)
  <2>1. CASE pel = <<>> /\ Run(g, [Loop(y) EXCEPT !.reread = FALSE]) /\ UNCHANGED <<stream, pel>>
    BY <1>2, <2>1, LoopSound
  <2>2. CASE /\ pel # <<>> /\ Run(g, [y EXCEPT !.step = "deliver", !.batch = pel, !.reread = FALSE])
             /\ UNCHANGED <<stream, pel>>
    BY <1>2, <2>2, DeliverSound
  <2>3. CASE /\ stream # <<>> /\ Run(g, [y EXCEPT !.step = "deliver", !.batch = stream])
             /\ stream' = <<>> /\ pel' = pel \o stream
    <3>1. OnBoard(<<>>, queue)
      BY DEF OnBoard
    <3>2. FALSE \in BOOLEAN
      OBVIOUS
    <3>3. Sound([y EXCEPT !.step = "deliver", !.batch = stream], queue, got)
      BY <1>2, <2>3, <3>2, DeliverSound
    <3> QED BY <1>3, <2>3, <3>1, <3>3
  <2> QED BY <1>4, <2>1, <2>2, <2>3 DEF Read, PendingFirst
<1>6. LinkInv' /\ BoardInv' /\ AcksInv'
  BY <1>1, <1>5, ConsumerGoes
<1> QED BY <1>1, <1>6 DEF RelayIInv, Simple

LEMMA ReadFailsInv ==
    ASSUME RelayIInv, NEW g \in Consumers, ReadFails(g)
    PROVE  RelayIInv'
<1>1. UNCHANGED <<far, client, presence, sent, reader, current, queue, worker, route, dead, live, got>>
  BY DEF ReadFails, peerVars, linkVars
<1>2. consumer[g] \in Consumer /\ OnBoard(stream, queue) /\ OnBoard(pel, queue) /\ OnBoard(<<>>, queue)
  BY ConsumerSound DEF RelayIInv, BoardInv, OnBoard
<1>3. OnBoard(pel \o stream, queue)
  BY <1>2, ConcatOnBoard
<1>4. PICK y \in Consumer : y = consumer[g]
  BY <1>2
<1>5. OnBoard(stream', queue) /\ OnBoard(pel', queue)
  BY <1>2, <1>3 DEF ReadFails
<1>6. PICK z : Run(g, z) /\ Sound(z, queue, got)
  <2>1. Run(g, Loop(y)) \/ Run(g, [Loop(y) EXCEPT !.reread = TRUE])
    BY <1>4 DEF ReadFails
  <2> QED BY <2>1, LoopSound
<1>7. LinkInv' /\ BoardInv' /\ AcksInv'
  BY <1>1, <1>5, <1>6, ConsumerGoes
<1>8. faults' \in 0 .. MaxFaults
  BY FaultCounted DEF ReadFails
<1> QED BY <1>1, <1>7, <1>8 DEF RelayIInv, Simple

LEMMA DeliverInv ==
    ASSUME RelayIInv, NEW g \in Consumers, Deliver(g)
    PROVE  RelayIInv'
<1> DEFINE m == Head(consumer[g].batch)
<1>1. /\ consumer[g].step = "deliver" /\ Written(m.chan, [n |-> m.n, from |-> m.from])
      /\ Run(g, [consumer[g] EXCEPT !.step = "ack"])
      /\ UNCHANGED <<far, client, presence, sent, reader, current, queue, worker, route, dead,
                     stream, pel, live, faults>>
  BY DEF Deliver, peerVars, linkVars
<1>2. PICK x \in Consumer : x = consumer[g]
  BY ConsumerSound
<1>3. OnBoard(x.batch, queue) /\ x.batch # <<>> /\ x.step = "deliver"
  BY <1>1, <1>2, ConsumerSound DEF Sound
<1>4. m \in Entry /\ m.from \in Queues /\ m.chan \in Channels /\ m.n \in Frames
  BY <1>2, <1>3, HeadOnBoard
<1>5. [n |-> m.n, from |-> m.from] \in Receipt
  BY <1>4 DEF Receipt
<1>6. LogsKept /\ got' \in [Channels -> Seq(Receipt)] /\ Reached(m.chan, m.n, got')
  BY <1>1, <1>4, <1>5, WrittenKeeps
<1>7. LinkInv' /\ ChannelsKept /\ AcksInv'
  BY <1>1, <1>6, LinkStays, AcksStay DEF RelayIInv
<1>8. PICK y : y = [x EXCEPT !.step = "ack"]
  OBVIOUS
<1>9. y \in Consumer /\ y.step = "ack" /\ y.batch = x.batch
  BY <1>8 DEF Consumer
<1>10. Sound(y, queue, got')
  BY <1>2, <1>3, <1>6, <1>9 DEF Sound
<1>11. OnBoard(stream', queue) /\ OnBoard(pel', queue) /\ Run(g, y)
  BY <1>1, <1>2, <1>8 DEF RelayIInv, BoardInv
<1>12. BoardInv'
  BY <1>6, <1>7, <1>10, <1>11, BoardRuns DEF RelayIInv
<1> QED BY <1>1, <1>7, <1>12 DEF RelayIInv, Simple

\* A receipt reaches the worker that waits for it, or nobody: what it tells was written.
LEMMA AnswerKeeps ==
    ASSUME RelayIInv, NEW g \in Consumers, consumer[g].step = "ack", Answer(g),
           UNCHANGED <<reader, current, queue, got>>
    PROVE  LinkInv' /\ AcksInv' /\ ChannelsKept
<1> DEFINE m == Head(consumer[g].batch)
           a == worker[m.from].acked \/ (worker[m.from].step = "ack" /\ worker[m.from].frame = m.n)
<1>1. OnBoard(consumer[g].batch, queue) /\ consumer[g].batch # <<>> /\ Reached(m.chan, m.n, got)
  BY ConsumerSound DEF Sound
<1>2. m.from \in Queues /\ m.n \in Frames /\ queue[m.from].chan = m.chan
  BY <1>1, HeadOnBoard
<1>3. worker \in [Queues -> Worker] /\ worker' = [worker EXCEPT ![m.from].acked = a] /\ a \in BOOLEAN
  <2>1. worker[m.from].acked \in BOOLEAN
    BY <1>2 DEF RelayIInv, LinkInv, WorkersInv, Worker
  <2> QED BY <2>1 DEF Answer, RelayIInv, LinkInv, WorkersInv
<1>4. PICK b \in BOOLEAN : b = a
  BY <1>3
<1>5. PICK p \in Queues : p = m.from
  BY <1>2
<1> HIDE DEF a, m
<1>6. worker' = [worker EXCEPT ![p] = [worker[p] EXCEPT !.acked = b]]
  BY <1>3, <1>4, <1>5
<1>7. PICK w : w = [worker[p] EXCEPT !.acked = b]
  OBVIOUS
<1>8. w \in Worker /\ w.step = worker[p].step /\ w.frame = worker[p].frame
  BY <1>3, <1>5, <1>7 DEF Worker
<1>9. w.acked = b
  BY <1>3, <1>5, <1>7, Zenon DEF Worker
<1>10. /\ worker' \in [Queues -> Worker]
       /\ \A q \in Queues : worker'[q] = IF q = p THEN w ELSE worker[q]
  BY <1>3, <1>6, <1>7, <1>8
<1>11. b => /\ worker[p].step = "ack"
            /\ Reached(queue[p].chan, worker[p].frame, got)
  <2>1. ASSUME worker[p].acked
        PROVE  worker[p].step = "ack" /\ Reached(queue[p].chan, worker[p].frame, got)
    BY <2>1 DEF RelayIInv, LinkInv, WorkersInv, AcksInv
  <2>2. ASSUME worker[p].step = "ack", worker[p].frame = m.n
        PROVE  Reached(queue[p].chan, worker[p].frame, got)
    BY <1>1, <1>2, <1>5, <2>2
  <2>3. b => worker[p].acked \/ (worker[p].step = "ack" /\ worker[p].frame = m.n)
    BY <1>4, <1>5 DEF a
  <2> QED BY <2>1, <2>2, <2>3
<1>12. WorkersInv'
  <2>1. ASSUME NEW q \in Queues
        PROVE  /\ worker'[q].step \in {"dispatch", "ack"} => worker'[q].frame \in Frames
               /\ worker'[q].acked => worker'[q].step = "ack"
    <3>1. /\ worker[q].step \in {"dispatch", "ack"} => worker[q].frame \in Frames
          /\ worker[q].acked => worker[q].step = "ack"
      BY DEF RelayIInv, LinkInv, WorkersInv
    <3>2. CASE q = p
      BY <1>8, <1>9, <1>10, <1>11, <3>1, <3>2
    <3>3. CASE q # p
      BY <1>10, <3>1, <3>3
    <3> QED BY <3>2, <3>3
  <2> QED BY <1>10, <2>1 DEF WorkersInv
<1>13. QueuesInv' /\ ListedIsServed'
  <2>1. \A q \in Queues : worker'[q].step = worker[q].step
    BY <1>8, <1>10
  <2> QED BY <2>1 DEF RelayIInv, LinkInv, QueuesInv, ListedIsServed
<1>14. AcksInv'
  <2> SUFFICES ASSUME NEW q \in Queues, worker'[q].step = "ack", worker'[q].acked
               PROVE  Reached(queue[q].chan, worker'[q].frame, got)
    BY DEF AcksInv
  <2>1. CASE q = p
    BY <1>8, <1>9, <1>10, <1>11, <2>1
  <2>2. CASE q # p
    BY <1>10, <2>2 DEF RelayIInv, AcksInv
  <2> QED BY <2>1, <2>2
<1> QED BY <1>12, <1>13, <1>14 DEF RelayIInv, LinkInv, ChannelsKept

\* The first frame of a batch is done.
LEMMA DoneSound ==
    ASSUME RelayIInv, NEW g \in Consumers, consumer[g].step \in {"deliver", "ack"}
    PROVE  /\ Sound(AfterOne(consumer[g]), queue, got)
           /\ Sound([Loop(consumer[g]) EXCEPT !.reread = TRUE], queue, got)
           /\ OnBoard(Settled(g), queue) /\ OnBoard(stream, queue) /\ OnBoard(pel, queue)
<1>1. PICK x \in Consumer : x = consumer[g]
  BY ConsumerSound
<1>2. Sound(x, queue, got) /\ x.batch # <<>>
  BY <1>1, ConsumerSound DEF Sound
<1>3. OnBoard(stream, queue) /\ OnBoard(pel, queue)
  BY DEF RelayIInv, BoardInv
<1> QED BY <1>1, <1>2, <1>3, AfterOneSound, LoopSound, SettledOnBoard

\* With or without a receipt.
LEMMA DoneKeeps ==
    ASSUME RelayIInv, NEW g \in Consumers, NEW x, Run(g, x), Sound(x, queue, got),
           OnBoard(stream', queue), OnBoard(pel', queue),
           worker' = worker \/ (consumer[g].step = "ack" /\ Answer(g)),
           UNCHANGED <<reader, current, queue, got>>
    PROVE  LinkInv' /\ BoardInv' /\ AcksInv'
<1>1. LinkInv' /\ AcksInv' /\ ChannelsKept
  BY QueuesStay, AnswerKeeps
<1>2. LogsKept /\ got' \in [Channels -> Seq(Receipt)]
  BY GotStays
<1> QED BY <1>1, <1>2, BoardRuns DEF RelayIInv

LEMMA AcknowledgeInv ==
    ASSUME RelayIInv, NEW g \in Consumers, Acknowledge(g) \/ Drop(g)
    PROVE  RelayIInv'
<1>1. /\ consumer[g].step \in {"deliver", "ack"}
      /\ pel' = Settled(g) /\ Run(g, AfterOne(consumer[g]))
      /\ worker' = worker \/ (consumer[g].step = "ack" /\ Answer(g))
      /\ UNCHANGED <<far, client, presence, sent, reader, current, queue, route, dead, stream, live, got, faults>>
  BY DEF Acknowledge, Drop, Unwanted, Done, peerVars, linkVars
<1>2. PICK x : x = AfterOne(consumer[g])
  OBVIOUS
<1>3. LinkInv' /\ BoardInv' /\ AcksInv'
  BY <1>1, <1>2, DoneSound, DoneKeeps
<1> QED BY <1>1, <1>3 DEF RelayIInv, Simple

LEMMA AcknowledgeFailsInv ==
    ASSUME RelayIInv, NEW g \in Consumers, AcknowledgeFails(g)
    PROVE  RelayIInv'
<1>1. /\ consumer[g].step \in {"deliver", "ack"}
      /\ pel' \in {pel, Settled(g)} /\ Run(g, [Loop(consumer[g]) EXCEPT !.reread = TRUE])
      /\ worker' = worker \/ (consumer[g].step = "ack" /\ Answer(g))
      /\ UNCHANGED <<far, client, presence, sent, reader, current, queue, route, dead, stream, live, got>>
  BY DEF AcknowledgeFails, Unwanted, peerVars, linkVars
<1>2. PICK x : x = [Loop(consumer[g]) EXCEPT !.reread = TRUE]
  OBVIOUS
<1>3. LinkInv' /\ BoardInv' /\ AcksInv'
  BY <1>1, <1>2, DoneSound, DoneKeeps
<1>4. faults' \in 0 .. MaxFaults
  BY FaultCounted DEF AcknowledgeFails
<1> QED BY <1>1, <1>3, <1>4 DEF RelayIInv, Simple

-----------------------------------------------------------------------------

LEMMA RelayStarts == Init => RelayIInv
<1> SUFFICES ASSUME Init PROVE RelayIInv
  OBVIOUS
<1>1. Simple
  <2>1. far \in SUBSET Channels /\ 0 \in 0 .. MaxFrames /\ 0 \in 0 .. MaxFaults
    BY RelayAssumption DEF Init
  <2> QED BY <2>1 DEF Init, Simple
<1>2. /\ <<>> \in Seq(Frames) /\ <<>> \in Seq(Entry) /\ <<>> \in Seq(Receipt)
      /\ Len(<<>>) = 0 /\ OnBoard(<<>>, queue)
  BY DEF OnBoard
<1>3. Holding(reader, queue)
  BY RelayAssumption DEF Init, Holding, Unread
<1>4. QueuesInv /\ WorkersInv
  <2>1. [NoWork EXCEPT !.step = "off"] \in Worker /\ [NoWork EXCEPT !.step = "off"].step = "off"
    BY NoWorkIsWorker DEF Worker
  <2>2. ~[NoWork EXCEPT !.step = "off"].acked
    BY NoWorkIsWorker, AckedStays, Zenon
  <2>3. PICK w \in Worker : w = [NoWork EXCEPT !.step = "off"] /\ w.step = "off" /\ ~w.acked
    BY <2>1, <2>2
  <2>4. worker = [q \in Queues |-> w]
    BY <2>3 DEF Init
  <2>5. WorkersInv
    BY <2>3, <2>4 DEF WorkersInv
  <2>6. [chan |-> NoChannel, frames |-> <<>>, stopped |-> FALSE] \in Queue
    BY <1>2 DEF Queue
  <2>7. queue = [q \in Queues |-> [chan |-> NoChannel, frames |-> <<>>, stopped |-> FALSE]]
    BY DEF Init
  <2>8. QueuesInv
    <3>1. PICK e \in Queue : e = [chan |-> NoChannel, frames |-> <<>>, stopped |-> FALSE]
      BY <2>6
    <3>2. e.frames = <<>> /\ ~e.stopped
      BY <3>1
    <3>3. \A q \in Queues : queue[q] = e /\ worker[q] = w
      BY <2>4, <2>7, <3>1
    <3>4. Len(e.frames) <= Depth
      BY <1>2, <3>2, RelayAssumption
    <3>5. queue \in [Queues -> Queue]
      BY <2>7, <3>1
    <3> QED BY <2>3, <3>2, <3>3, <3>4, <3>5 DEF QueuesInv
  <2> QED BY <2>5, <2>8
<1>5. LinkInv /\ AcksInv
  <2>1. current = [c \in Channels |-> NoQueue]
    BY DEF Init
  <2>2. ListedIsServed
    BY <2>1 DEF ListedIsServed
  <2>3. \A q \in Queues : worker[q].step = "off"
    BY NoWorkIsWorker DEF Init, Worker
  <2> QED BY <1>3, <1>4, <2>1, <2>2, <2>3 DEF LinkInv, AcksInv
<1>6. BoardInv
  <2>1. Starting \in Consumer /\ Starting.batch = <<>>
    BY <1>2 DEF Starting, Consumer
  <2>2. PICK x \in Consumer : x = [Starting EXCEPT !.step = "off"] /\ x.step = "off" /\ x.batch = <<>>
    <3>1. PICK y \in Consumer : y = Starting /\ y.batch = <<>>
      BY <2>1
    <3>2. PICK x : x = [y EXCEPT !.step = "off"]
      OBVIOUS
    <3>3. x \in Consumer /\ x.step = "off" /\ x.batch = y.batch
      BY <3>2 DEF Consumer
    <3> QED BY <3>1, <3>2, <3>3
  <2>3. Sound(x, queue, got)
    BY <1>2, <2>2 DEF Sound
  <2>4. consumer = [g \in Consumers |-> x]
    BY <2>2 DEF Init
  <2>5. stream = <<>> /\ pel = <<>> /\ got = [c \in Channels |-> <<>>]
    BY DEF Init
  <2> QED BY <1>2, <2>3, <2>4, <2>5 DEF BoardInv
<1> QED BY <1>1, <1>5, <1>6 DEF RelayIInv

LEMMA RelaySteps == RelayIInv /\ [Next]_vars => RelayIInv'
<1> SUFFICES ASSUME RelayIInv, [Next]_vars PROVE RelayIInv'
  OBVIOUS
<1>1. ASSUME NEW c \in Channels, BrowserStep(c) \/ Receive(c) PROVE RelayIInv'
  BY <1>1, AttachInv, BreakInv, DetachInv, UnregisterInv, ReceiveInv DEF BrowserStep
<1>2. CASE Put \/ Close
  BY <1>2, PutInv, CloseInv
<1>3. ASSUME NEW q \in Queues, WorkerStep(q) PROVE RelayIInv'
  BY <1>3, TakeInv, DeliverHereInv, RefuseInv, PublishInv, ConfirmedInv, PublishFailsInv, StopInv,
     RetireInv DEF WorkerStep, Forwarding
<1>4. ASSUME NEW g \in Consumers, ConsumerStep(g) PROVE RelayIInv'
  BY <1>4, ReadInv, DeliverInv, AcknowledgeInv, ReadFailsInv, AcknowledgeFailsInv
     DEF ConsumerStep, Consuming
<1>5. CASE UNCHANGED vars
  <2>1. LinkInv' /\ AcksInv' /\ ChannelsKept
    BY <1>5, QueuesStay DEF vars
  <2>2. BoardInv'
    BY <1>5, <2>1, BoardStays DEF vars, RelayIInv
  <2> QED BY <1>5, <2>1, <2>2 DEF vars, RelayIInv, Simple
<1> QED BY <1>1, <1>2, <1>3, <1>4, <1>5 DEF Next

\* Every channel of the link that has a queue has a worker that serves it, and a full queue
\* takes no more: whatever retires, overflows, breaks or reconnects (fanout.go).
THEOREM QueuesAreServed == Spec => []RelayInv
<1>1. RelayIInv => RelayInv
  <2>1. ASSUME BoardInv PROVE stream \in Seq(Entry) /\ pel \in Seq(Entry)
    BY <2>1 DEF BoardInv, OnBoard
  <2>2. ASSUME LinkInv PROVE reader \in [q : Queues \cup {NoQueue}, n : 0 .. MaxFrames]
    BY <2>2 DEF LinkInv, Holding
  <2> QED BY <2>1, <2>2 DEF RelayIInv, RelayInv, TypeOK, Simple, LinkInv, QueuesInv, WorkersInv, BoardInv
<1> QED BY RelayStarts, RelaySteps, <1>1, PTL DEF Spec

\* A forwarder that takes a frame for delivered is right: it was written to the browser of
\* its channel, whichever consumer wrote it and however often its batch was read again
\* (framebus.go, consumeOnce, acknowledgeFrame).
THEOREM ReceiptsAreTrue == Spec => []ReceiptMeansDelivered
<1>1. RelayIInv => ReceiptMeansDelivered
  BY DEF RelayIInv, AcksInv, ReceiptMeansDelivered, Reached
<1> QED BY RelayStarts, RelaySteps, <1>1, PTL DEF Spec

-----------------------------------------------------------------------------
(* Order.  While one consumer at most was ever started, what is on its way to *)
(* the browsers stands in line: each frame is due, that is already delivered  *)
(* or later than all that were delivered of its queue, and a frame the worker *)
(* has not sent is later than all that it sent.                               *)

Alone == \A g, h \in Consumers : g # h => "off" \in {consumer[g].step, consumer[h].step}

Entries(s) == {s[i] : i \in 1 .. Len(s)}

\* What is in the stream, pending, or in a batch.
Aboard == {e \in Entry : \/ e \in Entries(stream) \/ e \in Entries(pel)
                         \/ \E g \in Consumers : e \in Entries(consumer[g].batch)}

\* Frame n of queue q was written to the browser of channel c.
Had(c, q, n, log) == \E k \in DOMAIN log[c] : log[c][k].n = n /\ log[c][k].from = q
Due(c, q, n, log) == Had(c, q, n, log) \/ \A m \in Frames : Had(c, q, m, log) => m < n

\* The frames of a queue that its worker has sent.
Out(q) == {n \in Frames : \/ \E e \in Aboard : e.from = q /\ e.n = n
                          \/ \E c \in Channels : Had(c, q, n, got)}
Below(q, n) == \A m \in Out(q) : m < n
Past(q, n) == Below(q, n) /\ (worker[q].step = "dispatch" => worker[q].frame < n)

Sorted(s) == \A i, j \in 1 .. Len(s) : i < j /\ s[i].from = s[j].from => s[i].n < s[j].n
Before(s, t) == \A i \in 1 .. Len(s), j \in 1 .. Len(t) : s[i].from = t[j].from => s[i].n < t[j].n
Part(s, t) == s \in Seq(Entry) /\ Entries(s) \subseteq Aboard /\ Sorted(s) /\ Before(s, t)

\* A frame that comes after a later one of its queue came before it too.
FirstsInOrder(log) ==
    \A c \in Channels : \A i, j \in DOMAIN log[c] :
        i < j /\ log[c][i].from = log[c][j].from /\ log[c][j].n < log[c][i].n =>
            \E k \in 1 .. (i - 1) : log[c][k].n = log[c][j].n /\ log[c][k].from = log[c][j].from

LineInv ==
    /\ \A e \in Aboard : e.chan \in far /\ Due(e.chan, e.from, e.n, got)
    /\ Sorted(stream) /\ Sorted(pel) /\ Before(pel, stream)
    /\ \A g \in Consumers : Sorted(consumer[g].batch) /\ Before(consumer[g].batch, stream)

\* The batch of a consumer is what is pending, unless that was discarded.
ReadersInv ==
    /\ (\A g \in Consumers : consumer[g].step = "off") => pel = <<>>
    /\ \A g \in Consumers :
          /\ consumer[g].step = "off" => consumer[g].batch = <<>>
          /\ consumer[g].step \in {"deliver", "ack"} =>
                 pel \in {consumer[g].batch, <<>>} /\ ~consumer[g].reread
          /\ consumer[g].step = "read" /\ ~consumer[g].reread => pel = <<>>

\* The frames of a queue are sent in the order they came.
Fresh(q) ==
    /\ worker[q].step = "dispatch" => Below(q, worker[q].frame)
    /\ \A i \in 1 .. Len(queue[q].frames) :
           /\ Past(q, queue[q].frames[i]) /\ queue[q].frames[i] <= sent
           /\ \A j \in 1 .. Len(queue[q].frames) :
                  i < j => queue[q].frames[i] < queue[q].frames[j]
    /\ Past(q, sent + 1)
    /\ reader # Unread /\ reader.q = q =>
           /\ Past(q, reader.n) /\ reader.n <= sent
           /\ \A i \in 1 .. Len(queue[q].frames) : queue[q].frames[i] < reader.n

FreshInv == \A q \in Queues : Fresh(q)

OrderInv == LineInv /\ ReadersInv /\ FreshInv /\ FirstsInOrder(got)

\* What has been sent grows by nothing.
OutKept == \A q \in Queues : Out(q)' \subseteq Out(q)

-----------------------------------------------------------------------------

LEMMA TailInLine ==
    ASSUME NEW s \in Seq(Entry), s # <<>>
    PROVE  /\ Tail(s) \in Seq(Entry) /\ Entries(Tail(s)) \subseteq Entries(s)
           /\ Sorted(s) => Sorted(Tail(s))
           /\ \A t : Before(s, t) => Before(Tail(s), t)
<1>1. /\ Tail(s) \in Seq(Entry) /\ Len(s) \in Nat /\ Len(Tail(s)) = Len(s) - 1
      /\ \A i \in 1 .. Len(Tail(s)) : i + 1 \in 1 .. Len(s) /\ Tail(s)[i] = s[i + 1]
  OBVIOUS
<1>2. Entries(Tail(s)) \subseteq Entries(s)
  BY <1>1 DEF Entries
<1>3. ASSUME Sorted(s) PROVE Sorted(Tail(s))
  <2> SUFFICES ASSUME NEW i \in 1 .. Len(Tail(s)), NEW j \in 1 .. Len(Tail(s)), i < j,
                      Tail(s)[i].from = Tail(s)[j].from
               PROVE  Tail(s)[i].n < Tail(s)[j].n
    BY DEF Sorted
  <2>1. /\ i + 1 \in 1 .. Len(s) /\ Tail(s)[i] = s[i + 1]
        /\ j + 1 \in 1 .. Len(s) /\ Tail(s)[j] = s[j + 1] /\ i + 1 < j + 1
    BY <1>1
  <2> QED BY <1>3, <2>1 DEF Sorted
<1>4. ASSUME NEW t, Before(s, t) PROVE Before(Tail(s), t)
  <2> SUFFICES ASSUME NEW i \in 1 .. Len(Tail(s)), NEW j \in 1 .. Len(t),
                      Tail(s)[i].from = t[j].from
               PROVE  Tail(s)[i].n < t[j].n
    BY DEF Before
  <2>1. i + 1 \in 1 .. Len(s) /\ Tail(s)[i] = s[i + 1]
    BY <1>1
  <2> QED BY <1>4, <2>1 DEF Before
<1> QED BY <1>1, <1>2, <1>3, <1>4

LEMMA NothingInLine ==
    /\ <<>> \in Seq(Entry) /\ Entries(<<>>) = {} /\ Sorted(<<>>)
    /\ \A t : Before(<<>>, t) /\ Before(t, <<>>)
<1>1. <<>> \in Seq(Entry) /\ 1 .. Len(<<>>) = {}
  OBVIOUS
<1> QED BY <1>1 DEF Entries, Sorted, Before

\* What stands in line now still does when the stream stays or was handed out.
LEMMA PartsOf ==
    ASSUME RelayIInv, LineInv, NEW t, t \in {stream, <<>>}
    PROVE  /\ Part(<<>>, t) /\ Part(pel, t)
           /\ \A g \in Consumers :
                 /\ Part(consumer[g].batch, t)
                 /\ consumer[g].batch # <<>> => Part(Tail(consumer[g].batch), t)
           /\ t = <<>> => Part(stream, t)
<1>1. stream \in Seq(Entry) /\ pel \in Seq(Entry) /\ \A g \in Consumers : consumer[g].batch \in Seq(Entry)
  BY DEF RelayIInv, BoardInv, OnBoard, Sound
<1>2. ASSUME NEW s \in Seq(Entry), NEW i \in 1 .. Len(s) PROVE s[i] \in Entry
  OBVIOUS
<1>3. /\ Entries(stream) \subseteq Aboard /\ Entries(pel) \subseteq Aboard
      /\ \A g \in Consumers : Entries(consumer[g].batch) \subseteq Aboard
  BY <1>1, <1>2 DEF Aboard, Entries
<1>4. /\ Before(pel, t) /\ \A g \in Consumers : Before(consumer[g].batch, t)
      /\ t = <<>> => Before(stream, t)
  BY NothingInLine DEF LineInv
<1>5. Part(<<>>, t) /\ Part(pel, t) /\ (t = <<>> => Part(stream, t))
      /\ \A g \in Consumers : Part(consumer[g].batch, t)
  BY <1>1, <1>3, <1>4, NothingInLine DEF Part, LineInv
<1>6. ASSUME NEW g \in Consumers, consumer[g].batch # <<>>
      PROVE  Part(Tail(consumer[g].batch), t)
  BY <1>1, <1>3, <1>4, <1>6, TailInLine DEF Part, LineInv
<1> QED BY <1>5, <1>6

\* Nothing comes aboard: the line stays, and nothing is sent.
LEMMA NothingSent ==
    ASSUME Aboard' \subseteq Aboard, UNCHANGED got
    PROVE  OutKept
BY DEF OutKept, Out

LEMMA LineKept ==
    ASSUME RelayIInv, LineInv, stream' \in {stream, <<>>}, UNCHANGED <<far, got>>,
           Part(pel', stream'), \A g \in Consumers : Part(consumer'[g].batch, stream')
    PROVE  LineInv' /\ OutKept
<1>1. Aboard' \subseteq Aboard
  <2> SUFFICES ASSUME NEW e \in Entry, \/ e \in Entries(stream') \/ e \in Entries(pel')
                                       \/ \E g \in Consumers : e \in Entries(consumer'[g].batch)
               PROVE  e \in Aboard
    BY DEF Aboard
  <2>1. e \in Entries(stream') => e \in Aboard
    BY NothingInLine DEF Aboard
  <2> QED BY <2>1 DEF Part
<1>2. OutKept
  BY <1>1, NothingSent
<1>3. \A e \in Aboard' : e.chan \in far' /\ Due(e.chan, e.from, e.n, got')
  BY <1>1 DEF LineInv
<1>4. /\ Sorted(stream') /\ Sorted(pel') /\ Before(pel', stream')
      /\ \A g \in Consumers : Sorted(consumer'[g].batch) /\ Before(consumer'[g].batch, stream')
  BY NothingInLine DEF LineInv, Part
<1> QED BY <1>2, <1>3, <1>4 DEF LineInv

\* One consumer goes on.
LEMMA LineRuns ==
    ASSUME RelayIInv, LineInv, stream' \in {stream, <<>>}, UNCHANGED <<far, got>>,
           Part(pel', stream'), NEW g \in Consumers, NEW x, Run(g, x), Part(x.batch, stream')
    PROVE  LineInv' /\ OutKept
<1>1. \A h \in Consumers : consumer'[h] = IF h = g THEN x ELSE consumer[h]
  BY DEF Run, RelayIInv, BoardInv
<1>2. \A h \in Consumers : Part(consumer'[h].batch, stream')
  BY <1>1, PartsOf
<1> QED BY <1>2, LineKept

LEMMA LineStays ==
    ASSUME RelayIInv, LineInv, UNCHANGED <<far, got, stream, consumer>>, pel' \in {pel, <<>>}
    PROVE  LineInv' /\ OutKept
BY PartsOf, LineKept

\* Nothing is sent, and the read loop and the workers do as before, or nothing.
LEMMA FreshKept ==
    ASSUME RelayIInv, FreshInv, OutKept, UNCHANGED reader, sent' \in Nat, sent <= sent',
           \A q \in Queues : queue'[q].frames = queue[q].frames,
           \A q \in Queues : worker'[q].step = "dispatch" =>
                 worker[q].step = "dispatch" /\ worker'[q].frame = worker[q].frame
    PROVE  FreshInv'
<1> SUFFICES ASSUME NEW q \in Queues PROVE Fresh(q)'
  BY DEF FreshInv
<1>1. Fresh(q) /\ \A m \in Out(q)' : m \in Out(q)
  BY DEF FreshInv, OutKept
<1>2. /\ sent \in Nat /\ worker[q].frame \in Nat /\ \A m \in Out(q) : m \in Nat
      /\ queue'[q].frames = queue[q].frames
  BY RelayAssumption DEF RelayIInv, Simple, Out, Frames, LinkInv, WorkersInv, Worker
<1>3. \A m \in Out(q) : m < sent' + 1
  BY <1>1, <1>2 DEF Fresh, Past, Below
<1>4. worker'[q].step = "dispatch" => worker'[q].frame < sent' + 1
  BY <1>1, <1>2 DEF Fresh, Past
<1>5. \A i \in 1 .. Len(queue[q].frames) : queue[q].frames[i] <= sent'
  <2>1. \A i \in 1 .. Len(queue[q].frames) : queue[q].frames[i] \in Nat
    BY RelayAssumption DEF RelayIInv, LinkInv, QueuesInv, Queue, Frames
  <2> QED BY <1>1, <1>2, <2>1 DEF Fresh
<1>6. reader # Unread => reader.n \in Nat
  BY RelayAssumption DEF RelayIInv, LinkInv, Holding
<1> QED BY <1>1, <1>2, <1>3, <1>4, <1>5, <1>6 DEF Fresh, Past, Below

\* The worker of q has sent its frame.
LEMMA FreshSends ==
    ASSUME RelayIInv, FreshInv, NEW q \in Queues, worker[q].step = "dispatch",
           NEW w, Become(q, w), w.step # "dispatch", UNCHANGED <<reader, queue, sent>>,
           \A p \in Queues : Out(p)' \subseteq Out(p) \cup IF p = q THEN {worker[q].frame} ELSE {}
    PROVE  FreshInv'
<1> SUFFICES ASSUME NEW p \in Queues PROVE Fresh(p)'
  BY DEF FreshInv
<1>1. Fresh(p)
  BY DEF FreshInv
<1>2. worker'[p] = IF p = q THEN w ELSE worker[p]
  BY DEF Become, RelayIInv, LinkInv, WorkersInv
<1>3. \A m \in Out(p)' : m \in Out(p) \/ (p = q /\ m = worker[q].frame)
  OBVIOUS
<1> QED BY <1>1, <1>2, <1>3 DEF Fresh, Past, Below

\* What comes aboard when a frame is published.
LEMMA PublishSends ==
    ASSUME RelayIInv, LineInv, FreshInv, NEW q \in Queues, worker[q].step = "dispatch",
           queue[q].chan \in far, stream' \in {stream, Append(stream, Entered(q))},
           UNCHANGED <<far, got, pel, consumer>>
    PROVE  /\ LineInv'
           /\ \A p \in Queues : Out(p)' \subseteq Out(p) \cup IF p = q THEN {worker[q].frame} ELSE {}
<1> DEFINE e == Entered(q)
<1>1. queue[q].chan \in Channels /\ worker[q].frame \in Frames
  BY AtWork DEF RelayIInv, LinkInv, WorkersInv
<1>2. e \in Entry /\ e.from = q /\ e.n = worker[q].frame /\ e.chan = queue[q].chan
  BY <1>1 DEF Entered, Entry
<1> HIDE DEF e
<1>3. stream \in Seq(Entry) /\ pel \in Seq(Entry) /\ \A g \in Consumers : consumer[g].batch \in Seq(Entry)
  BY DEF RelayIInv, BoardInv, OnBoard, Sound
<1>4. CASE stream' = stream
  BY <1>4, LineStays DEF OutKept
<1>5. CASE stream' = Append(stream, e)
  <2>1. /\ Len(stream') = Len(stream) + 1 /\ Len(stream) \in Nat /\ stream'[Len(stream) + 1] = e
        /\ \A i \in 1 .. Len(stream) : stream'[i] = stream[i]
    BY <1>2, <1>3, <1>5
  <2>2. Entries(stream') \subseteq Entries(stream) \cup {e}
    BY <2>1 DEF Entries
  <2>3. Aboard' \subseteq Aboard \cup {e}
    BY <1>2, <2>2 DEF Aboard
  <2>4. \A a \in Aboard : a.from = q => a.n < e.n
    BY <1>2 DEF FreshInv, Fresh, Below, Out, Aboard, Entry
  <2>5. /\ \A i \in 1 .. Len(stream) : stream[i] \in Aboard
        /\ \A i \in 1 .. Len(pel) : pel[i] \in Aboard
        /\ \A g \in Consumers : \A i \in 1 .. Len(consumer[g].batch) : consumer[g].batch[i] \in Aboard
    BY <1>3 DEF Aboard, Entries
  <2>6. Sorted(stream')
    <3> SUFFICES ASSUME NEW i \in 1 .. Len(stream) + 1, NEW j \in 1 .. Len(stream) + 1, i < j,
                        stream'[i].from = stream'[j].from
                 PROVE  stream'[i].n < stream'[j].n
      BY <2>1 DEF Sorted
    <3>1. i \in 1 .. Len(stream) /\ stream'[i] = stream[i] /\ stream[i] \in Aboard
      BY <2>1, <2>5
    <3>2. CASE j = Len(stream) + 1
      BY <1>2, <2>1, <2>4, <3>1, <3>2
    <3>3. CASE j # Len(stream) + 1
      <4>1. j \in 1 .. Len(stream) /\ stream'[j] = stream[j]
        BY <2>1, <3>3
      <4> QED BY <3>1, <4>1 DEF LineInv, Sorted
    <3> QED BY <3>2, <3>3
  <2>7. ASSUME NEW s, Before(s, stream), \A i \in 1 .. Len(s) : s[i] \in Aboard
        PROVE  Before(s, stream')
    <3> SUFFICES ASSUME NEW i \in 1 .. Len(s), NEW j \in 1 .. Len(stream) + 1,
                        s[i].from = stream'[j].from
                 PROVE  s[i].n < stream'[j].n
      BY <2>1 DEF Before
    <3>1. CASE j = Len(stream) + 1
      BY <1>2, <2>1, <2>4, <2>7, <3>1
    <3>2. CASE j # Len(stream) + 1
      <4>1. j \in 1 .. Len(stream) /\ stream'[j] = stream[j]
        BY <2>1, <3>2
      <4> QED BY <2>7, <4>1 DEF Before
    <3> QED BY <3>1, <3>2
  <2>8. Due(e.chan, e.from, e.n, got)
    BY <1>1, <1>2 DEF Due, FreshInv, Fresh, Below, Out
  <2>9. LineInv'
    <3>1. \A a \in Aboard' : a.chan \in far' /\ Due(a.chan, a.from, a.n, got')
      BY <1>2, <2>3, <2>8 DEF LineInv
    <3>2. Before(pel', stream') /\ Sorted(pel')
      BY <2>5, <2>7 DEF LineInv
    <3>3. \A g \in Consumers : Sorted(consumer'[g].batch) /\ Before(consumer'[g].batch, stream')
      BY <2>5, <2>7 DEF LineInv
    <3> QED BY <2>6, <3>1, <3>2, <3>3 DEF LineInv
  <2>10. ASSUME NEW p \in Queues
         PROVE  Out(p)' \subseteq Out(p) \cup IF p = q THEN {worker[q].frame} ELSE {}
    <3> SUFFICES ASSUME NEW n \in Frames,
                        \/ \E a \in Aboard' : a.from = p /\ a.n = n
                        \/ \E c \in Channels : Had(c, p, n, got)
                 PROVE  n \in Out(p) \/ (p = q /\ n = worker[q].frame)
      BY DEF Out
    <3> QED BY <1>2, <2>3 DEF Out
  <2> QED BY <2>9, <2>10
<1> QED BY <1>4, <1>5 DEF e

\* A browser's log, with one frame more.
LEMMA LogGrows ==
    ASSUME RelayIInv, NEW c \in Channels, NEW r \in Receipt, Written(c, r)
    PROVE  /\ \A d \in Channels : \A p, n :
                 Had(d, p, n, got') <=> Had(d, p, n, got) \/ (d = c /\ p = r.from /\ n = r.n)
           /\ FirstsInOrder(got) /\ Due(c, r.from, r.n, got) => FirstsInOrder(got')
<1>1. got \in [Channels -> Seq(Receipt)] /\ got' = [got EXCEPT ![c] = Append(got[c], r)]
  BY DEF RelayIInv, BoardInv, Written
<1>2. PICK s \in Seq(Receipt) : s = got[c]
  BY <1>1
<1>3. PICK t \in Seq(Receipt) : t = Append(s, r)
  <2>1. Append(s, r) \in Seq(Receipt)
    OBVIOUS
  <2> QED BY <2>1
<1>4. /\ DOMAIN t = 1 .. Len(s) + 1 /\ DOMAIN s = 1 .. Len(s) /\ t[Len(s) + 1] = r /\ Len(s) \in Nat
      /\ \A k \in 1 .. Len(s) : t[k] = s[k] /\ s[k] \in Receipt
  BY <1>3
<1>5. got'[c] = t /\ \A d \in Channels : d # c => got'[d] = got[d]
  BY <1>1, <1>2, <1>3
<1>6. ASSUME NEW p, NEW n
      PROVE  Had(c, p, n, got') <=> Had(c, p, n, got) \/ (p = r.from /\ n = r.n)
  <2>1. Had(c, p, n, got') <=> \E k \in 1 .. Len(s) + 1 : t[k].n = n /\ t[k].from = p
    BY <1>4, <1>5 DEF Had
  <2>2. Had(c, p, n, got) <=> \E k \in 1 .. Len(s) : s[k].n = n /\ s[k].from = p
    BY <1>2, <1>4 DEF Had
  <2>3. \A k \in 1 .. Len(s) : k \in 1 .. Len(s) + 1
    BY <1>4
  <2>4. \A k \in 1 .. Len(s) + 1 : k = Len(s) + 1 \/ k \in 1 .. Len(s)
    BY <1>4
  <2>5. Len(s) + 1 \in 1 .. Len(s) + 1
    BY <1>4
  <2> QED BY <1>4, <2>1, <2>2, <2>3, <2>4, <2>5
<1>7. \A d \in Channels : \A p, n :
          Had(d, p, n, got') <=> Had(d, p, n, got) \/ (d = c /\ p = r.from /\ n = r.n)
  <2> SUFFICES ASSUME NEW d \in Channels, NEW p, NEW n
               PROVE  Had(d, p, n, got') <=> Had(d, p, n, got) \/ (d = c /\ p = r.from /\ n = r.n)
    OBVIOUS
  <2>1. CASE d = c
    BY <1>6, <2>1
  <2>2. CASE d # c
    BY <1>5, <2>2 DEF Had
  <2> QED BY <2>1, <2>2
<1>8. ASSUME FirstsInOrder(got), Due(c, r.from, r.n, got) PROVE FirstsInOrder(got')
  <2>1. \A i, j \in 1 .. Len(s) : i < j /\ s[i].from = s[j].from /\ s[j].n < s[i].n =>
            \E k \in 1 .. (i - 1) : s[k].n = s[j].n /\ s[k].from = s[j].from
    <3>1. \A i, j \in DOMAIN got[c] :
              i < j /\ got[c][i].from = got[c][j].from /\ got[c][j].n < got[c][i].n =>
                  \E k \in 1 .. (i - 1) : got[c][k].n = got[c][j].n /\ got[c][k].from = got[c][j].from
      BY <1>8 DEF FirstsInOrder
    <3> QED BY <1>2, <1>4, <3>1, SMTT(30)
  <2>2. ASSUME NEW i \in 1 .. Len(s) + 1, NEW j \in 1 .. Len(s) + 1, i < j,
               t[i].from = t[j].from, t[j].n < t[i].n
        PROVE  \E k \in 1 .. (i - 1) : t[k].n = t[j].n /\ t[k].from = t[j].from
    <3>1. i \in 1 .. Len(s) /\ t[i] = s[i] /\ s[i] \in Receipt
      BY <1>4, <2>2
    <3>2. \A k \in 1 .. (i - 1) : k \in 1 .. Len(s) /\ t[k] = s[k]
      BY <1>4, <3>1
    <3>3. CASE j # Len(s) + 1
      <4>1. j \in 1 .. Len(s) /\ t[j] = s[j]
        BY <1>4, <3>3
      <4>2. PICK k \in 1 .. (i - 1) : s[k].n = s[j].n /\ s[k].from = s[j].from
        BY <2>1, <2>2, <3>1, <4>1
      <4> QED BY <3>2, <4>1, <4>2
    <3>4. CASE j = Len(s) + 1
      <4>1. t[j] = r /\ s[i].from = r.from /\ r.n < s[i].n
        BY <1>4, <2>2, <3>1, <3>4
      <4>2. s[i].n \in Frames /\ r.n \in Frames /\ \A m \in Frames : m \in Int
        BY <3>1 DEF Receipt, Frames
      <4>3. Had(c, r.from, s[i].n, got)
        BY <1>2, <1>4, <3>1, <4>1 DEF Had
      <4>4. Had(c, r.from, r.n, got)
        BY <1>8, <4>1, <4>2, <4>3 DEF Due
      <4>5. PICK k \in 1 .. Len(s) : s[k].n = r.n /\ s[k].from = r.from
        BY <1>2, <1>4, <4>4 DEF Had
      <4>6. CASE k < i
        <5>1. k \in 1 .. (i - 1) /\ t[k] = s[k]
          BY <1>4, <3>1, <4>6
        <5> QED BY <4>1, <4>5, <5>1
      <4>7. CASE k >= i
        <5>1. k # i
          BY <4>1, <4>2, <4>5
        <5>2. i < k
          BY <3>1, <4>7, <5>1
        <5>3. PICK l \in 1 .. (i - 1) : s[l].n = s[k].n /\ s[l].from = s[k].from
          BY <2>1, <3>1, <4>1, <4>5, <5>2
        <5> QED BY <3>2, <4>1, <4>5, <5>3
      <4> QED BY <3>1, <4>6, <4>7
    <3> QED BY <3>3, <3>4
  <2>3. ASSUME NEW d \in Channels, NEW i \in DOMAIN got'[d], NEW j \in DOMAIN got'[d], i < j,
               got'[d][i].from = got'[d][j].from, got'[d][j].n < got'[d][i].n
        PROVE  \E k \in 1 .. (i - 1) :
                   got'[d][k].n = got'[d][j].n /\ got'[d][k].from = got'[d][j].from
    <3>1. CASE d = c
      <4>1. got'[d] = t /\ i \in 1 .. Len(s) + 1 /\ j \in 1 .. Len(s) + 1
        BY <1>4, <1>5, <2>3, <3>1
      <4>2. t[i].from = t[j].from /\ t[j].n < t[i].n
        BY <2>3, <4>1
      <4> QED BY <2>2, <2>3, <4>1, <4>2
    <3>2. CASE d # c
      BY <1>5, <1>8, <2>3, <3>2 DEF FirstsInOrder
    <3> QED BY <3>1, <3>2
  <2> QED BY <2>3 DEF FirstsInOrder
<1> QED BY <1>7, <1>8

-----------------------------------------------------------------------------
(* The consumers, while one at most was started.                             *)

LEMMA ReadersStay ==
    ASSUME ReadersInv, pel' \in {pel, <<>>}, UNCHANGED consumer
    PROVE  ReadersInv'
BY DEF ReadersInv

LEMMA ReadersRun ==
    ASSUME RelayIInv, ReadersInv, Alone, NEW g \in Consumers, consumer[g].step # "off",
           NEW x, Run(g, x), x.step # "off",
           x.step \in {"deliver", "ack"} => pel' \in {x.batch, <<>>} /\ ~x.reread,
           x.step = "read" /\ ~x.reread => pel' = <<>>
    PROVE  ReadersInv'
<1>1. \A h \in Consumers : consumer'[h] = IF h = g THEN x ELSE consumer[h]
  BY DEF Run, RelayIInv, BoardInv
<1>2. \A h \in Consumers : h # g => consumer'[h] = consumer[h] /\ consumer[h].step = "off"
  BY <1>1 DEF Alone
<1> QED BY <1>1, <1>2 DEF ReadersInv

\* Everything but the line and the consumers is as it was.
LEMMA OrderKept ==
    ASSUME RelayIInv, OrderInv, LineInv', OutKept, ReadersInv', UNCHANGED <<reader, got>>,
           sent' \in Nat, sent <= sent',
           \A q \in Queues : queue'[q].frames = queue[q].frames,
           \A q \in Queues : worker'[q].step = "dispatch" =>
                 worker[q].step = "dispatch" /\ worker'[q].frame = worker[q].frame
    PROVE  OrderInv'
<1>1. FreshInv'
  BY FreshKept DEF OrderInv
<1> QED BY <1>1 DEF OrderInv

LEMMA SentIsNat == ASSUME RelayIInv PROVE sent \in Nat /\ sent <= sent
BY RelayAssumption DEF RelayIInv, Simple

LEMMA StartOrder ==
    ASSUME RelayIInv, OrderInv, UNCHANGED <<far, sent, reader, queue, worker, stream, got>>,
           pel' \in {pel, <<>>}, NEW x, Start(x), x.step = "read", x.reread, x.batch = <<>>
    PROVE  OrderInv'
<1>1. PICK g \in Consumers : Run(g, x) /\ consumer[g].step = "off"
  BY DEF Start, Run, First
<1>2. LineInv' /\ OutKept
  BY <1>1, PartsOf, LineRuns DEF OrderInv
<1>3. ReadersInv'
  <2>1. \A h \in Consumers : consumer'[h] = IF h = g THEN x ELSE consumer[h]
    BY <1>1 DEF Run, RelayIInv, BoardInv
  <2> QED BY <1>1, <2>1 DEF OrderInv, ReadersInv
<1> QED BY <1>2, <1>3, SentIsNat, OrderKept

LEMMA BrowserOrder ==
    ASSUME RelayIInv, OrderInv, NEW c \in Channels, BrowserStep(c)
    PROVE  OrderInv'
<1>1. UNCHANGED <<far, sent, reader, queue, worker, stream, got>> /\ pel' \in {pel, <<>>}
  BY DEF BrowserStep, Attach, AttachFails, Break, Detach, Unregister, Expire, linkVars, farVars
<1>2. CASE consumer' = consumer
  BY <1>1, <1>2, LineStays, ReadersStay, SentIsNat, OrderKept DEF OrderInv
<1>3. CASE Start(Starting)
  <2>1. Starting.step = "read" /\ Starting.reread /\ Starting.batch = <<>>
    BY DEF Starting
  <2> QED BY <1>1, <1>3, <2>1, StartOrder
<1>4. CASE Start([Starting EXCEPT !.ctx = FALSE])
  <2>1. PICK x : x = [Starting EXCEPT !.ctx = FALSE]
    OBVIOUS
  <2>2. x.step = "read" /\ x.batch = <<>>
    BY <2>1 DEF Starting
  <2>3. x.reread
    BY <2>1, Zenon DEF Starting
  <2> QED BY <1>1, <1>4, <2>1, <2>2, <2>3, StartOrder
<1>5. CASE live \in Consumers /\ consumer' = [consumer EXCEPT ![live].ctx = FALSE]
  <2>1. PICK g \in Consumers : g = live
    BY <1>5
  <2>2. PICK y \in Consumer : y = consumer[g]
    BY ConsumerSound
  <2>3. PICK x : x = [y EXCEPT !.ctx = FALSE]
    OBVIOUS
  <2>4. Run(g, x)
    BY <1>5, <2>1, <2>2, <2>3 DEF Run
  <2>5. x.step = y.step /\ x.batch = y.batch
    BY <2>3 DEF Consumer
  <2>6. x.reread = y.reread
    BY <2>3, Zenon DEF Consumer
  <2>7. LineInv' /\ OutKept
    BY <1>1, <2>2, <2>4, <2>5, PartsOf, LineRuns DEF OrderInv
  <2>8. ReadersInv'
    <3>1. \A h \in Consumers : consumer'[h] = IF h = g THEN x ELSE consumer[h]
      BY <2>4 DEF Run, RelayIInv, BoardInv
    <3> QED BY <1>1, <2>2, <2>5, <2>6, <3>1 DEF OrderInv, ReadersInv
  <2> QED BY <1>1, <2>7, <2>8, SentIsNat, OrderKept
<1>6. \/ consumer' = consumer \/ Start(Starting) \/ Start([Starting EXCEPT !.ctx = FALSE])
      \/ live \in Consumers /\ consumer' = [consumer EXCEPT ![live].ctx = FALSE]
  <2>1. \/ consumer' = consumer \/ Start(Starting) \/ Start([Starting EXCEPT !.ctx = FALSE])
        \/ consumer' = [consumer EXCEPT ![live].ctx = FALSE]
    BY DEF BrowserStep, Attach, AttachFails, Break, Detach, Unregister, Expire, farVars
  <2>2. live \in Consumers \/ (live = NoConsumer /\ NoConsumer \notin Consumers)
    BY RelayAssumption DEF RelayIInv, Simple
  <2>3. live \notin Consumers /\ consumer' = [consumer EXCEPT ![live].ctx = FALSE] =>
            consumer' = consumer
    BY <2>2 DEF RelayIInv, BoardInv
  <2> QED BY <2>1, <2>3
<1> QED BY <1>2, <1>3, <1>4, <1>5, <1>6

-----------------------------------------------------------------------------
(* The read loop.                                                            *)

LEMMA LinkOrder ==
    ASSUME RelayIInv, OrderInv, UNCHANGED <<far, stream, pel, consumer, got>>
    PROVE  OutKept /\ (FreshInv' => OrderInv')
<1>1. LineInv' /\ OutKept /\ ReadersInv'
  BY LineStays, ReadersStay DEF OrderInv
<1> QED BY <1>1 DEF OrderInv

\* The numbers there are.
LEMMA FramesAreNat ==
    ASSUME RelayIInv
    PROVE  /\ sent \in Nat /\ (reader # Unread => reader.n \in Nat)
           /\ \A q \in Queues :
                 /\ worker[q].frame \in Nat /\ \A m \in Out(q) : m \in Nat
                 /\ queue[q].frames \in Seq(Frames)
                 /\ \A i \in 1 .. Len(queue[q].frames) : queue[q].frames[i] \in Nat
<1>1. MaxFrames \in Nat /\ \A n \in Frames : n \in Nat
  BY RelayAssumption DEF Frames
<1>2. sent \in Nat /\ (reader # Unread => reader.n \in Nat)
  BY <1>1 DEF RelayIInv, Simple, LinkInv, Holding
<1>3. \A q \in Queues : worker[q].frame \in Nat /\ \A m \in Out(q) : m \in Nat
  BY <1>1 DEF RelayIInv, LinkInv, WorkersInv, Worker, Out
<1>4. \A q \in Queues : queue[q].frames \in Seq(Frames)
  BY DEF RelayIInv, LinkInv, QueuesInv, Queue
<1>5. \A q \in Queues : \A i \in 1 .. Len(queue[q].frames) : queue[q].frames[i] \in Nat
  BY <1>1, <1>4
<1> QED BY <1>2, <1>3, <1>4, <1>5

LEMMA ReceiveOrder ==
    ASSUME RelayIInv, OrderInv, NEW c \in Channels, Receive(c)
    PROVE  OrderInv'
<1>1. /\ sent' = sent + 1 /\ reader = Unread
      /\ UNCHANGED <<far, stream, pel, consumer, got>>
  BY DEF Receive, farVars
<1>2. PICK q : /\ reader' = [q |-> q, n |-> sent + 1]
               /\ \/ UNCHANGED <<queue, worker>>
                  \/ /\ q \in Queues /\ queue' = [queue EXCEPT ![q].chan = c]
                     /\ worker' = [worker EXCEPT ![q] = NoWork]
  BY DEF Receive
<1>3. \A p \in Queues : /\ queue'[p].frames = queue[p].frames
                        /\ worker'[p].step = "dispatch" => worker'[p] = worker[p]
  <2>1. queue \in [Queues -> Queue] /\ worker \in [Queues -> Worker]
    BY DEF RelayIInv, LinkInv, QueuesInv, WorkersInv
  <2>2. CASE UNCHANGED <<queue, worker>>
    BY <2>2
  <2>3. CASE q \in Queues /\ queue' = [queue EXCEPT ![q].chan = c] /\ worker' = [worker EXCEPT ![q] = NoWork]
    <3>1. \A p \in Queues : queue'[p].frames = queue[p].frames
      BY <2>1, <2>3 DEF Queue
    <3>2. \A p \in Queues : worker'[p] = IF p = q THEN NoWork ELSE worker[p]
      BY <2>1, <2>3
    <3> QED BY <3>1, <3>2, NoWorkIsWorker
  <2> QED BY <1>2, <2>2, <2>3
<1> SUFFICES ASSUME NEW p \in Queues PROVE Fresh(p)'
  BY <1>1, LinkOrder DEF FreshInv
<1>4. Fresh(p) /\ \A m \in Out(p)' : m \in Out(p)
  BY <1>1, LinkOrder DEF OutKept, OrderInv, FreshInv
<1>5. \A m \in Out(p) : m < sent + 1 /\ m < sent + 2
  BY <1>4, FramesAreNat DEF Fresh, Past, Below
<1>6. worker[p].step = "dispatch" => worker[p].frame < sent + 1 /\ worker[p].frame < sent + 2
  BY <1>4, FramesAreNat DEF Fresh, Past
<1>7. \A i \in 1 .. Len(queue[p].frames) : queue[p].frames[i] <= sent + 1 /\ queue[p].frames[i] < sent + 1
  BY <1>4, FramesAreNat DEF Fresh
<1>8. sent' + 1 = sent + 2 /\ reader'.n = sent + 1 /\ sent + 1 <= sent + 1
  BY <1>1, <1>2, FramesAreNat
<1> QED BY <1>1, <1>3, <1>4, <1>5, <1>6, <1>7, <1>8 DEF Fresh, Past, Below

LEMMA PutOrder == ASSUME RelayIInv, OrderInv, Put PROVE OrderInv'
<1> DEFINE q == reader.q
<1>1. /\ reader # Unread /\ reader' = Unread
      /\ UNCHANGED <<far, sent, worker, stream, pel, consumer, got>>
      /\ \/ queue' = [queue EXCEPT ![q].frames = Append(queue[q].frames, reader.n)]
         \/ queue' = [queue EXCEPT ![q].stopped = TRUE]
  BY DEF Put, farVars
<1>2. q \in Queues /\ reader.n \in Frames /\ queue \in [Queues -> Queue]
  BY <1>1 DEF RelayIInv, LinkInv, Holding, QueuesInv
<1> SUFFICES ASSUME NEW p \in Queues PROVE Fresh(p)'
  BY <1>1, LinkOrder DEF FreshInv
<1>3. Fresh(p) /\ \A m \in Out(p)' : m \in Out(p)
  BY <1>1, LinkOrder DEF OutKept, OrderInv, FreshInv
<1>4. CASE queue'[p].frames = queue[p].frames
  BY <1>1, <1>3, <1>4 DEF Fresh, Past, Below
<1>5. CASE p = q /\ queue'[p].frames = Append(queue[p].frames, reader.n)
  <2>1. PICK s \in Seq(Frames) : s = queue[p].frames
    BY FramesAreNat
  <2>2. PICK n \in Frames : n = reader.n
    BY <1>2
  <2>3. /\ Len(Append(s, n)) = Len(s) + 1 /\ Append(s, n)[Len(s) + 1] = n /\ Len(s) \in Nat
        /\ \A i \in 1 .. Len(s) : Append(s, n)[i] = s[i]
    OBVIOUS
  <2>4. PICK t : t = Append(s, n) /\ t = queue'[p].frames
    BY <1>5, <2>1, <2>2
  <2>5. /\ Past(p, n) /\ n <= sent /\ \A i \in 1 .. Len(s) : s[i] < n
    BY <1>1, <1>3, <1>5, <2>1, <2>2 DEF Fresh
  <2>6. ASSUME NEW i \in 1 .. Len(t)
        PROVE  /\ Past(p, t[i]) /\ t[i] <= sent
               /\ \A j \in 1 .. Len(t) : i < j => t[i] < t[j]
    <3>1. CASE i = Len(s) + 1
      BY <2>3, <2>4, <2>5, <3>1
    <3>2. CASE i # Len(s) + 1
      <4>1. i \in 1 .. Len(s) /\ t[i] = s[i]
        BY <2>3, <2>4, <3>2
      <4>2. Past(p, s[i]) /\ s[i] <= sent /\ \A j \in 1 .. Len(s) : i < j => s[i] < s[j]
        BY <1>3, <2>1, <4>1 DEF Fresh
      <4>3. ASSUME NEW j \in 1 .. Len(t), i < j PROVE t[i] < t[j]
        <5>1. CASE j = Len(s) + 1
          BY <2>3, <2>4, <2>5, <4>1, <5>1
        <5>2. CASE j # Len(s) + 1
          <6>1. j \in 1 .. Len(s) /\ t[j] = s[j]
            BY <2>3, <2>4, <5>2
          <6> QED BY <4>1, <4>2, <4>3, <6>1
        <5> QED BY <5>1, <5>2
      <4> QED BY <4>1, <4>2, <4>3
    <3> QED BY <3>1, <3>2
  <2> QED BY <1>1, <1>3, <2>4, <2>6 DEF Fresh, Past, Below
<1>6. \/ queue'[p].frames = queue[p].frames
      \/ p = q /\ queue'[p].frames = Append(queue[p].frames, reader.n)
  <2>1. PICK r \in Queues : r = q
    BY <1>2
  <2>2. PICK t : t = Append(queue[r].frames, reader.n)
    OBVIOUS
  <2>3. \/ queue' = [queue EXCEPT ![r].frames = t]
        \/ queue' = [queue EXCEPT ![r].stopped = TRUE]
    BY <1>1, <2>1, <2>2
  <2> HIDE DEF q
  <2> QED BY <1>2, <2>1, <2>2, <2>3 DEF Queue
<1> QED BY <1>4, <1>5, <1>6

LEMMA CloseOrder == ASSUME RelayIInv, OrderInv, Close PROVE OrderInv'
<1>1. /\ sent' = MaxFrames /\ UNCHANGED <<far, reader, worker, stream, pel, consumer, got>>
      /\ queue' = [q \in Queues |-> IF \E c \in Channels : current[c] = q
                                      THEN [queue[q] EXCEPT !.stopped = TRUE] ELSE queue[q]]
  BY DEF Close, farVars
<1>2. \A q \in Queues : queue[q] \in Queue
  BY DEF RelayIInv, LinkInv, QueuesInv
<1>3. \A q \in Queues : queue'[q].frames = queue[q].frames
  BY <1>1, <1>2 DEF Queue
<1>4. sent' \in Nat /\ sent <= sent'
  BY <1>1, RelayAssumption DEF RelayIInv, Simple
<1>5. LineInv' /\ OutKept /\ ReadersInv'
  BY <1>1, LineStays, ReadersStay DEF OrderInv
<1> QED BY <1>1, <1>3, <1>4, <1>5, OrderKept

-----------------------------------------------------------------------------
(* The worker of a queue.                                                    *)

\* It does not turn to another frame.
LEMMA RestOrder ==
    ASSUME RelayIInv, OrderInv, NEW q \in Queues, NEW w, Become(q, w), w.step # "dispatch",
           \A p \in Queues : queue'[p].frames = queue[p].frames,
           UNCHANGED <<far, sent, reader, stream, pel, consumer, got>>
    PROVE  OrderInv'
<1>1. \A p \in Queues : worker'[p] = IF p = q THEN w ELSE worker[p]
  BY DEF Become, RelayIInv, LinkInv, WorkersInv
<1>2. LineInv' /\ OutKept /\ ReadersInv'
  BY LineStays, ReadersStay DEF OrderInv
<1> QED BY <1>1, <1>2, SentIsNat, OrderKept

LEMMA TakeOrder ==
    ASSUME RelayIInv, OrderInv, NEW q \in Queues, Take(q)
    PROVE  OrderInv'
<1> DEFINE v(b) == [step |-> "dispatch", frame |-> Head(queue[q].frames),
                    cached |-> b, acked |-> FALSE]
<1>1. /\ worker[q].step = "wait" /\ queue[q].frames # <<>>
      /\ queue' = [queue EXCEPT ![q].frames = Tail(queue[q].frames)]
      /\ Become(q, NoWork) \/ \E b \in BOOLEAN : Become(q, v(b))
      /\ UNCHANGED <<far, sent, reader, stream, pel, consumer, got>>
  BY DEF Take, farVars
<1>2. PICK w : /\ Become(q, w)
               /\ w.step = "dispatch" => w.frame = Head(queue[q].frames)
  <2>1. \A b \in BOOLEAN : v(b).frame = Head(queue[q].frames)
    OBVIOUS
  <2>2. CASE Become(q, NoWork)
    BY <2>2, NoWorkIsWorker
  <2>3. CASE \E b \in BOOLEAN : Become(q, v(b))
    <3> HIDE DEF v
    <3> QED BY <2>1, <2>3
  <2> QED BY <1>1, <2>2, <2>3
<1>3. PICK s \in Seq(Frames) : s = queue[q].frames /\ s # <<>>
  BY <1>1, FramesAreNat
<1>4. /\ Len(s) \in Nat \ {0} /\ Head(s) = s[1] /\ Len(Tail(s)) = Len(s) - 1
      /\ \A i \in 1 .. Len(Tail(s)) : i + 1 \in 1 .. Len(s) /\ Tail(s)[i] = s[i + 1]
  BY <1>3
<1>5. PICK t : t = Tail(s)
  OBVIOUS
<1>6. /\ \A p \in Queues : worker'[p] = IF p = q THEN w ELSE worker[p]
      /\ \A p \in Queues : queue'[p].frames = IF p = q THEN t ELSE queue[p].frames
  <2>1. queue \in [Queues -> Queue] /\ worker \in [Queues -> Worker]
    BY DEF RelayIInv, LinkInv, QueuesInv, WorkersInv
  <2>2. queue' = [queue EXCEPT ![q].frames = t]
    BY <1>1, <1>3, <1>5
  <2> QED BY <1>2, <2>1, <2>2 DEF Become, Queue
<1> HIDE DEF v
<1> SUFFICES ASSUME NEW p \in Queues PROVE Fresh(p)'
  BY <1>1, LinkOrder DEF FreshInv
<1>7. Fresh(p) /\ \A m \in Out(p)' : m \in Out(p)
  BY <1>1, LinkOrder DEF OutKept, OrderInv, FreshInv
<1>8. CASE p # q
  BY <1>1, <1>6, <1>7, <1>8 DEF Fresh, Past, Below
<1>9. CASE p = q
  <2>1. /\ worker'[p] = w /\ queue'[p].frames = t /\ Len(t) = Len(s) - 1
        /\ \A i \in 1 .. Len(t) : i + 1 \in 1 .. Len(s) /\ t[i] = s[i + 1]
        /\ w.step = "dispatch" => w.frame = s[1]
    BY <1>2, <1>3, <1>4, <1>5, <1>6, <1>9
  <2>2. /\ 1 \in 1 .. Len(s)
        /\ \A i \in 1 .. Len(s) : /\ Past(p, s[i]) /\ s[i] <= sent /\ s[i] \in Nat
                                  /\ \A j \in 1 .. Len(s) : i < j => s[i] < s[j]
    BY <1>3, <1>4, <1>7, <1>9, FramesAreNat DEF Fresh
  <2>3. Past(p, sent + 1) /\ s[1] < sent + 1
    BY <1>7, <2>2, FramesAreNat DEF Fresh
  <2>4. reader # Unread /\ reader.q = p =>
            /\ Past(p, reader.n) /\ reader.n <= sent
            /\ \A i \in 1 .. Len(s) : s[i] < reader.n
    BY <1>3, <1>7, <1>9 DEF Fresh
  <2>5. \A i \in 1 .. Len(t) : s[1] < t[i]
    <3> SUFFICES ASSUME NEW i \in 1 .. Len(t) PROVE s[1] < t[i]
      OBVIOUS
    <3>1. i + 1 \in 1 .. Len(s) /\ 1 < i + 1 /\ t[i] = s[i + 1]
      BY <2>1
    <3> QED BY <2>2, <3>1
  <2>6. \A i \in 1 .. Len(t) : \A j \in 1 .. Len(t) : i < j => t[i] < t[j]
    <3> SUFFICES ASSUME NEW i \in 1 .. Len(t), NEW j \in 1 .. Len(t), i < j PROVE t[i] < t[j]
      OBVIOUS
    <3>1. /\ i + 1 \in 1 .. Len(s) /\ j + 1 \in 1 .. Len(s) /\ i + 1 < j + 1
          /\ t[i] = s[i + 1] /\ t[j] = s[j + 1]
      BY <2>1
    <3> QED BY <2>2, <3>1
  <2> QED BY <1>1, <1>7, <2>1, <2>2, <2>3, <2>4, <2>5, <2>6 DEF Fresh, Past, Below
<1> QED BY <1>8, <1>9

LEMMA IdleOrder ==
    ASSUME RelayIInv, OrderInv, NEW q \in Queues,
           \/ Stop(q) \/ RetireIfIdle(q) \/ Refuse(q) \/ TimeOut(q) \/ Confirmed(q)
           \/ DeliverHere(q) /\ Failed(q) /\ UNCHANGED got
    PROVE  OrderInv'
<1>1. UNCHANGED <<far, sent, reader, stream, pel, consumer, got>>
  BY DEF Stop, RetireIfIdle, Refuse, TimeOut, Confirmed, DeliverHere, linkVars, farVars
<1>2. \A p \in Queues : queue'[p].frames = queue[p].frames
  <2>1. queue' = queue \/ queue' = [queue EXCEPT ![q].stopped = TRUE]
    BY DEF Stop, RetireIfIdle, Refuse, TimeOut, Confirmed, DeliverHere, linkVars
  <2> QED BY <2>1 DEF RelayIInv, LinkInv, QueuesInv, Queue
<1>3. PICK w : Become(q, w) /\ w.step # "dispatch"
  <2>1. \/ Become(q, NoWork) \/ Become(q, [NoWork EXCEPT !.step = "stopped"])
        \/ Become(q, [NoWork EXCEPT !.step = "retired"])
    BY DEF Stop, RetireIfIdle, Refuse, TimeOut, Confirmed, Failed
  <2>2. /\ [NoWork EXCEPT !.step = "stopped"].step # "dispatch"
        /\ [NoWork EXCEPT !.step = "retired"].step # "dispatch"
    BY DEF NoWork
  <2> QED BY <2>1, <2>2, NoWorkIsWorker
<1> QED BY <1>1, <1>2, <1>3, RestOrder

LEMMA DeliverHereOrder ==
    ASSUME RelayIInv, OrderInv, NEW q \in Queues, DeliverHere(q)
    PROVE  OrderInv'
<1> DEFINE c == queue[q].chan
           n == worker[q].frame
<1>1. /\ worker[q].step = "dispatch" /\ c \notin far
      /\ UNCHANGED <<far, sent, reader, queue, stream, pel, consumer>>
  BY DEF DeliverHere, linkVars, farVars
<1>2. CASE Failed(q) /\ UNCHANGED got
  BY <1>2, IdleOrder
<1>3. CASE Written(c, [n |-> n, from |-> q]) /\ Become(q, NoWork)
  <2>1. c \in Channels /\ n \in Frames
    BY <1>1, AtWork DEF RelayIInv, LinkInv, WorkersInv
  <2>2. PICK r \in Receipt : r = [n |-> n, from |-> q] /\ r.n = n /\ r.from = q
    <3>1. [n |-> n, from |-> q] \in Receipt
      BY <2>1 DEF Receipt
    <3> HIDE DEF n
    <3> QED BY <3>1
  <2>3. Due(c, r.from, r.n, got)
    BY <1>1, <2>1, <2>2 DEF Due, OrderInv, FreshInv, Fresh, Below, Out
  <2>4. /\ FirstsInOrder(got')
        /\ \A d \in Channels : \A p, m :
               Had(d, p, m, got') <=> Had(d, p, m, got) \/ (d = c /\ p = q /\ m = n)
    <3>1. Written(c, r)
      BY <1>3, <2>2
    <3> HIDE DEF c, n
    <3> QED BY <2>1, <2>2, <2>3, <3>1, LogGrows DEF OrderInv
  <2> HIDE DEF c
  <2>5. Aboard' = Aboard
    BY <1>1 DEF Aboard
  <2>6. LineInv'
    <3>1. ASSUME NEW e \in Aboard PROVE e.chan \in far' /\ Due(e.chan, e.from, e.n, got')
      <4>1. e.chan \in far /\ Due(e.chan, e.from, e.n, got) /\ e.chan \in Channels
        BY DEF OrderInv, LineInv, Aboard, Entry
      <4>2. \A m : Had(e.chan, e.from, m, got') <=> Had(e.chan, e.from, m, got)
        BY <1>1, <2>4, <4>1
      <4> QED BY <1>1, <4>1, <4>2 DEF Due
    <3> QED BY <1>1, <2>5, <3>1 DEF OrderInv, LineInv
  <2>7. \A p \in Queues : Out(p)' \subseteq Out(p) \cup IF p = q THEN {n} ELSE {}
    BY <2>4, <2>5 DEF Out
  <2>8. FreshInv'
    BY <1>1, <1>3, <2>7, NoWorkIsWorker, FreshSends DEF OrderInv
  <2>9. ReadersInv'
    BY <1>1, ReadersStay DEF OrderInv
  <2> QED BY <2>4, <2>6, <2>8, <2>9 DEF OrderInv
<1> QED BY <1>2, <1>3 DEF DeliverHere

LEMMA PublishOrder ==
    ASSUME RelayIInv, OrderInv, NEW q \in Queues, Publish(q) \/ PublishFails(q)
    PROVE  OrderInv'
<1>1. /\ worker[q].step = "dispatch" /\ queue[q].chan \in far
      /\ stream' \in {stream, Append(stream, Entered(q))}
      /\ UNCHANGED <<far, sent, reader, queue, pel, consumer, got>>
      /\ Become(q, NoWork) \/ Become(q, [worker[q] EXCEPT !.step = "ack"])
  BY DEF Publish, PublishFails, linkVars
<1>2. PICK w : Become(q, w) /\ w.step # "dispatch"
  <2>1. worker[q] \in Worker
    BY DEF RelayIInv, LinkInv, WorkersInv
  <2>2. [worker[q] EXCEPT !.step = "ack"].step # "dispatch"
    BY <2>1 DEF Worker
  <2> QED BY <1>1, <2>2, NoWorkIsWorker
<1>3. /\ LineInv'
      /\ \A p \in Queues : Out(p)' \subseteq Out(p) \cup IF p = q THEN {worker[q].frame} ELSE {}
  BY <1>1, PublishSends DEF OrderInv
<1>4. FreshInv'
  BY <1>1, <1>2, <1>3, FreshSends DEF OrderInv
<1>5. ReadersInv'
  BY <1>1, ReadersStay DEF OrderInv
<1> QED BY <1>1, <1>3, <1>4, <1>5 DEF OrderInv

-----------------------------------------------------------------------------
(* The consumer.                                                             *)

LEMMA LoopGoes ==
    ASSUME NEW y \in Consumer
    PROVE  /\ Loop(y).step \in {"read", "ended"} /\ Loop(y).batch = <<>>
           /\ Loop(y).reread = y.reread
           /\ \A b \in BOOLEAN : LET x == [Loop(y) EXCEPT !.reread = b] IN
                  x.step \in {"read", "ended"} /\ x.batch = <<>> /\ x.reread = b
<1>1. Loop(y).step \in {"read", "ended"} /\ Loop(y).batch = <<>>
  BY DEF Loop, Consumer
<1>2. Loop(y).reread = y.reread
  BY Zenon DEF Loop, Consumer
<1>3. PICK z \in Consumer : z = Loop(y)
  <2>1. <<>> \in Seq(Entry)
    OBVIOUS
  <2>2. Loop(y) \in Consumer
    BY <2>1 DEF Loop, Consumer
  <2> QED BY <2>2
<1>4. ASSUME NEW b \in BOOLEAN, NEW x, x = [z EXCEPT !.reread = b]
      PROVE  x.step = z.step /\ x.batch = z.batch /\ x.reread = b
  <2>1. x.step = z.step /\ x.batch = z.batch
    BY <1>4 DEF Consumer
  <2>2. x.reread = b
    BY <1>4, Zenon DEF Consumer
  <2> QED BY <2>1, <2>2
<1> QED BY <1>1, <1>2, <1>3, <1>4

\* What a consumer does that leaves the link and the workers alone.
LEMMA RunOrder ==
    ASSUME RelayIInv, OrderInv, Alone, stream' \in {stream, <<>>}, Part(pel', stream'),
           NEW g \in Consumers, consumer[g].step # "off",
           NEW x, Run(g, x), x.step # "off", Part(x.batch, stream'),
           x.step \in {"deliver", "ack"} => pel' \in {x.batch, <<>>} /\ ~x.reread,
           x.step = "read" /\ ~x.reread => pel' = <<>>,
           UNCHANGED <<far, sent, reader, queue, got>>,
           \A q \in Queues : worker'[q].step = worker[q].step /\ worker'[q].frame = worker[q].frame
    PROVE  OrderInv'
<1>1. LineInv' /\ OutKept /\ ReadersInv'
  BY LineRuns, ReadersRun DEF OrderInv
<1> QED BY <1>1, SentIsNat, OrderKept

LEMMA ReadOrder ==
    ASSUME RelayIInv, OrderInv, Alone, NEW g \in Consumers, Read(g)
    PROVE  OrderInv'
<1>1. consumer[g].step = "read" /\ UNCHANGED <<far, sent, reader, queue, worker, got>>
  BY DEF Read, linkVars
<1>2. PICK y \in Consumer : y = consumer[g]
  BY ConsumerSound
<1>3. Part(<<>>, <<>>) /\ Part(<<>>, stream) /\ Part(pel, stream) /\ Part(stream, <<>>)
  BY PartsOf DEF OrderInv
<1>4. CASE pel = <<>> /\ Run(g, [Loop(y) EXCEPT !.reread = FALSE]) /\ UNCHANGED <<stream, pel>>
  <2>1. PICK x : x = [Loop(y) EXCEPT !.reread = FALSE]
    OBVIOUS
  <2>2. x.step \in {"read", "ended"} /\ x.batch = <<>> /\ Run(g, x)
    BY <1>4, <2>1, LoopGoes
  <2> QED BY <1>1, <1>3, <1>4, <2>2, RunOrder
<1>5. CASE /\ Run(g, [y EXCEPT !.step = "deliver", !.batch = pel, !.reread = FALSE])
           /\ UNCHANGED <<stream, pel>>
  <2>1. PICK x : x = [y EXCEPT !.step = "deliver", !.batch = pel, !.reread = FALSE]
    OBVIOUS
  <2>2. x.step = "deliver" /\ x.batch = pel /\ Run(g, x)
    BY <1>5, <2>1 DEF Consumer
  <2>3. ~x.reread
    BY <2>1, Zenon DEF Consumer
  <2> QED BY <1>1, <1>3, <1>5, <2>2, <2>3, RunOrder
<1>6. CASE /\ ~y.reread /\ Run(g, [y EXCEPT !.step = "deliver", !.batch = stream])
           /\ stream' = <<>> /\ pel' = pel \o stream
  <2>1. PICK x : x = [y EXCEPT !.step = "deliver", !.batch = stream]
    OBVIOUS
  <2>2. x.step = "deliver" /\ x.batch = stream /\ Run(g, x)
    BY <1>6, <2>1 DEF Consumer
  <2>3. ~x.reread
    <3>1. x.reread = y.reread
      BY <2>1, Zenon DEF Consumer
    <3> QED BY <1>6, <3>1
  <2>4. pel = <<>> /\ stream \in Seq(Entry)
    BY <1>1, <1>2, <1>3, <1>6 DEF OrderInv, ReadersInv, Part
  <2>5. pel' = stream
    BY <1>6, <2>4
  <2> QED BY <1>1, <1>3, <1>6, <2>2, <2>3, <2>5, RunOrder
<1> QED BY <1>2, <1>4, <1>5, <1>6 DEF Read, PendingFirst

LEMMA ReadFailsOrder ==
    ASSUME RelayIInv, OrderInv, Alone, NEW g \in Consumers, ReadFails(g)
    PROVE  OrderInv'
<1>1. consumer[g].step = "read" /\ UNCHANGED <<far, sent, reader, queue, worker, got>>
  BY DEF ReadFails, linkVars
<1>2. PICK y \in Consumer : y = consumer[g]
  BY ConsumerSound
<1>3. Part(<<>>, <<>>) /\ Part(<<>>, stream) /\ Part(pel, stream) /\ Part(stream, <<>>)
  BY PartsOf DEF OrderInv
<1>4. CASE Run(g, Loop(y)) /\ UNCHANGED <<stream, pel>>
  <2>1. PICK x : x = Loop(y)
    OBVIOUS
  <2>2. /\ x.step \in {"read", "ended"} /\ x.batch = <<>> /\ Run(g, x)
        /\ x.step = "read" /\ ~x.reread => pel = <<>>
    BY <1>1, <1>2, <1>4, <2>1, LoopGoes DEF OrderInv, ReadersInv
  <2> QED BY <1>1, <1>3, <1>4, <2>2, RunOrder
<1>5. CASE /\ Run(g, [Loop(y) EXCEPT !.reread = TRUE])
           /\ \/ UNCHANGED <<stream, pel>>
              \/ ~y.reread /\ stream' = <<>> /\ pel' = pel \o stream
  <2>1. PICK x : x = [Loop(y) EXCEPT !.reread = TRUE]
    OBVIOUS
  <2>2. x.step \in {"read", "ended"} /\ x.batch = <<>> /\ x.reread /\ Run(g, x)
    BY <1>5, <2>1, LoopGoes
  <2>3. ASSUME ~y.reread, pel' = pel \o stream PROVE pel' = stream
    <3>1. pel = <<>> /\ stream \in Seq(Entry)
      BY <1>1, <1>2, <1>3, <2>3 DEF OrderInv, ReadersInv, Part
    <3> QED BY <2>3, <3>1
  <2> QED BY <1>1, <1>3, <1>5, <2>2, <2>3, RunOrder
<1> QED BY <1>2, <1>4, <1>5 DEF ReadFails

\* A batch stands in line: the first frame of it is pending once, or not at all.
LEMMA SettledIs ==
    ASSUME NEW g \in Consumers, NEW b \in Seq(Entry), b = consumer[g].batch, b # <<>>,
           Sorted(b), pel \in {b, <<>>}
    PROVE  Settled(g) = IF pel = <<>> THEN <<>> ELSE Tail(b)
<1> DEFINE here == {i \in 1 .. Len(pel) : pel[i] = Head(consumer[g].batch)}
           k == CHOOSE i \in here : TRUE
<1>1. Settled(g) = IF here = {} THEN pel ELSE SubSeq(pel, 1, k - 1) \o SubSeq(pel, k + 1, Len(pel))
  BY DEF Settled
<1>2. CASE pel = <<>>
  <2>1. here = {}
    BY <1>2
  <2> QED BY <1>1, <1>2, <2>1
<1>3. CASE pel = b /\ pel # <<>>
  <2>1. Len(b) \in Nat \ {0} /\ Head(b) = b[1] /\ 1 \in 1 .. Len(b)
    OBVIOUS
  <2>2. ASSUME NEW i \in 1 .. Len(b), b[i] = b[1] PROVE i = 1
    <3>1. b[1].n \in Int
      <4>1. b[1] \in Entry
        BY <2>1
      <4> QED BY <4>1, RelayAssumption DEF Entry, Frames
    <3>2. ~(1 < i)
      BY <2>1, <2>2, <3>1 DEF Sorted
    <3> QED BY <2>2, <3>2
  <2>3. here = {1}
    BY <1>3, <2>1, <2>2
  <2>4. k = 1 /\ here # {}
    BY <2>3
  <2> HIDE DEF k, here
  <2>5. Settled(g) = SubSeq(b, 1, 0) \o SubSeq(b, 2, Len(b))
    BY <1>1, <1>3, <2>4
  <2>6. SubSeq(b, 1, 0) = <<>> /\ SubSeq(b, 2, Len(b)) = Tail(b) /\ Tail(b) \in Seq(Entry)
    BY <2>1
  <2> QED BY <1>3, <2>5, <2>6
<1> QED BY <1>2, <1>3

LEMMA AnswerSteps ==
    ASSUME RelayIInv, NEW g \in Consumers, worker' = worker \/ Answer(g)
    PROVE  \A q \in Queues : worker'[q].step = worker[q].step /\ worker'[q].frame = worker[q].frame
<1> SUFFICES ASSUME NEW q \in Queues
             PROVE  worker'[q].step = worker[q].step /\ worker'[q].frame = worker[q].frame
  OBVIOUS
<1>1. PICK p, b : worker' = worker \/ worker' = [worker EXCEPT ![p].acked = b]
  BY DEF Answer
<1>2. worker \in [Queues -> Worker]
  BY DEF RelayIInv, LinkInv, WorkersInv
<1> QED BY <1>1, <1>2 DEF Worker

LEMMA AfterGoes ==
    ASSUME NEW y \in Consumer, y.batch # <<>>, NEW x, x = AfterOne(y)
    PROVE  /\ x.reread = y.reread /\ x.batch = Tail(y.batch)
           /\ x.step = "deliver" \/ (x.step \in {"read", "ended"} /\ Tail(y.batch) = <<>>)
<1>1. PICK s \in Seq(Entry) : s = y.batch
  BY DEF Consumer
<1>2. CASE Len(s) > 1
  <2>1. PICK t : t = Tail(s)
    OBVIOUS
  <2>2. x = [y EXCEPT !.step = "deliver", !.batch = t]
    BY <1>1, <1>2, <2>1 DEF AfterOne
  <2>3. x.step = "deliver" /\ x.batch = t
    BY <2>2 DEF Consumer
  <2>4. x.reread = y.reread
    BY <2>2, Zenon DEF Consumer
  <2> QED BY <1>1, <2>1, <2>3, <2>4
<1>3. CASE ~(Len(s) > 1)
  <2>1. Tail(s) = <<>>
    <3>1. s # <<>> /\ Len(s) \in Nat
      BY <1>1
    <3>2. Tail(s) \in Seq(Entry) /\ Len(Tail(s)) = Len(s) - 1 /\ Len(s) # 0
      BY <3>1
    <3>3. Len(Tail(s)) = 0
      BY <1>3, <3>1, <3>2
    <3> QED BY <3>2, <3>3, EmptySeq
  <2>2. x = Loop(y)
    BY <1>1, <1>3 DEF AfterOne
  <2> QED BY <1>1, <2>1, <2>2, LoopGoes
<1> QED BY <1>2, <1>3

\* What is left when the first frame of a batch is done.
LEMMA DoneLeaves ==
    ASSUME RelayIInv, OrderInv, NEW g \in Consumers, consumer[g].step \in {"deliver", "ack"}
    PROVE  /\ consumer[g].batch # <<>> /\ ~consumer[g].reread
           /\ pel \in {consumer[g].batch, <<>>}
           /\ Settled(g) = IF pel = <<>> THEN <<>> ELSE Tail(consumer[g].batch)
           /\ Part(pel, stream) /\ Part(<<>>, stream) /\ Part(Settled(g), stream)
           /\ Part(Tail(consumer[g].batch), stream)
<1>1. consumer[g].batch # <<>> /\ consumer[g].batch \in Seq(Entry)
  BY DEF RelayIInv, BoardInv, Sound, OnBoard
<1>2. ~consumer[g].reread /\ pel \in {consumer[g].batch, <<>>}
  BY DEF OrderInv, ReadersInv
<1>3. Sorted(consumer[g].batch)
  BY DEF OrderInv, LineInv
<1>4. Settled(g) = IF pel = <<>> THEN <<>> ELSE Tail(consumer[g].batch)
  <2>1. PICK b \in Seq(Entry) : b = consumer[g].batch
    BY <1>1
  <2> QED BY <1>1, <1>2, <1>3, <2>1, SettledIs
<1>5. Part(pel, stream) /\ Part(<<>>, stream) /\ Part(Tail(consumer[g].batch), stream)
  BY <1>1, PartsOf DEF OrderInv
<1> QED BY <1>1, <1>2, <1>4, <1>5

LEMMA AcknowledgeOrder ==
    ASSUME RelayIInv, OrderInv, Alone, NEW g \in Consumers, Acknowledge(g) \/ Drop(g)
    PROVE  OrderInv'
<1>1. /\ consumer[g].step \in {"deliver", "ack"}
      /\ pel' = Settled(g) /\ Run(g, AfterOne(consumer[g]))
      /\ worker' = worker \/ Answer(g)
      /\ UNCHANGED <<far, sent, reader, queue, stream, got>>
  BY DEF Acknowledge, Drop, Unwanted, Done, linkVars
<1>2. PICK y \in Consumer : y = consumer[g]
  BY ConsumerSound
<1>3. PICK x : x = AfterOne(y)
  OBVIOUS
<1>4. /\ ~x.reread /\ x.batch = Tail(y.batch) /\ Run(g, x)
      /\ x.step = "deliver" \/ (x.step \in {"read", "ended"} /\ Tail(y.batch) = <<>>)
  BY <1>1, <1>2, <1>3, AfterGoes, DoneLeaves
<1>5. pel' \in {x.batch, <<>>} /\ Part(x.batch, stream) /\ Part(pel', stream)
  BY <1>1, <1>2, <1>4, DoneLeaves
<1>6. x.step = "read" => pel' = <<>>
  BY <1>4, <1>5
<1> QED BY <1>1, <1>4, <1>5, <1>6, AnswerSteps, RunOrder

LEMMA AcknowledgeFailsOrder ==
    ASSUME RelayIInv, OrderInv, Alone, NEW g \in Consumers, AcknowledgeFails(g)
    PROVE  OrderInv'
<1>1. /\ consumer[g].step \in {"deliver", "ack"}
      /\ pel' \in {pel, Settled(g)} /\ Run(g, [Loop(consumer[g]) EXCEPT !.reread = TRUE])
      /\ worker' = worker \/ Answer(g)
      /\ UNCHANGED <<far, sent, reader, queue, stream, got>>
  BY DEF AcknowledgeFails, Unwanted, linkVars
<1>2. PICK x : x = [Loop(consumer[g]) EXCEPT !.reread = TRUE]
  OBVIOUS
<1>3. x.step \in {"read", "ended"} /\ x.batch = <<>> /\ x.reread /\ Run(g, x)
  BY <1>1, <1>2, ConsumerSound, LoopGoes
<1>4. Part(x.batch, stream) /\ Part(pel', stream)
  BY <1>1, <1>3, DoneLeaves
<1> QED BY <1>1, <1>3, <1>4, AnswerSteps, RunOrder

\* The first frame of a batch is due, and comes before all that is behind it.
LEMMA DeliverOrder ==
    ASSUME RelayIInv, OrderInv, Alone, NEW g \in Consumers, Deliver(g)
    PROVE  OrderInv'
<1>1. PICK m : m = Head(consumer[g].batch)
  OBVIOUS
<1>2. /\ consumer[g].step = "deliver" /\ Written(m.chan, [n |-> m.n, from |-> m.from])
      /\ Run(g, [consumer[g] EXCEPT !.step = "ack"])
      /\ UNCHANGED <<far, sent, reader, queue, worker, stream, pel>>
  BY <1>1 DEF Deliver, linkVars
<1>3. PICK y \in Consumer : y = consumer[g]
  BY ConsumerSound
<1>4. OnBoard(y.batch, queue) /\ y.batch # <<>>
  BY <1>2, <1>3, ConsumerSound DEF Sound
<1>5. m \in Entry /\ m.from \in Queues /\ m.chan \in Channels /\ m.n \in Frames
  BY <1>1, <1>3, <1>4, HeadOnBoard
<1>6. m = y.batch[1] /\ 1 \in 1 .. Len(y.batch) /\ y.batch \in Seq(Entry)
  BY <1>1, <1>3, <1>4 DEF OnBoard
<1>7. m \in Aboard
  BY <1>3, <1>5, <1>6 DEF Aboard, Entries
<1>8. PICK r \in Receipt : r = [n |-> m.n, from |-> m.from] /\ r.n = m.n /\ r.from = m.from
  <2>1. [n |-> m.n, from |-> m.from] \in Receipt
    BY <1>5 DEF Receipt
  <2> QED BY <2>1
<1>9. Due(m.chan, m.from, m.n, got)
  BY <1>7 DEF OrderInv, LineInv
<1>10. /\ FirstsInOrder(got')
       /\ \A d \in Channels : \A p, n :
              Had(d, p, n, got') <=> Had(d, p, n, got) \/ (d = m.chan /\ p = m.from /\ n = m.n)
  BY <1>2, <1>5, <1>8, <1>9, LogGrows DEF OrderInv
<1>11. PICK x : x = [y EXCEPT !.step = "ack"]
  OBVIOUS
<1>12. x.step = "ack" /\ x.batch = y.batch /\ Run(g, x)
  BY <1>2, <1>3, <1>11 DEF Consumer
<1>13. x.reread = y.reread
  BY <1>11, Zenon DEF Consumer
<1>14. \A h \in Consumers : consumer'[h] = IF h = g THEN x ELSE consumer[h]
  BY <1>12 DEF Run, RelayIInv, BoardInv
<1>15. \A h \in Consumers : consumer'[h].batch = consumer[h].batch
  BY <1>3, <1>12, <1>14
<1>16. Aboard' = Aboard
  BY <1>2, <1>15 DEF Aboard
<1>17. ASSUME NEW e \in Aboard, e.from = m.from PROVE e.n = m.n \/ m.n < e.n
  <2>1. \/ e \in Entries(stream) \/ e \in Entries(pel)
        \/ \E h \in Consumers : e \in Entries(consumer[h].batch)
    BY DEF Aboard
  <2>2. CASE e \in Entries(stream)
    <3>1. PICK i \in 1 .. Len(stream) : e = stream[i]
      BY <2>2 DEF Entries
    <3>2. Before(y.batch, stream)
      BY <1>3 DEF OrderInv, LineInv
    <3> QED BY <1>6, <1>17, <3>1, <3>2 DEF Before
  <2>3. CASE e \in Entries(y.batch)
    <3>1. PICK i \in 1 .. Len(y.batch) : e = y.batch[i]
      BY <2>3 DEF Entries
    <3>2. i = 1 \/ 1 < i
      BY <3>1
    <3>3. Sorted(y.batch)
      BY <1>3 DEF OrderInv, LineInv
    <3> QED BY <1>6, <1>17, <3>1, <3>2, <3>3 DEF Sorted
  <2>4. e \notin Entries(<<>>)
    BY NothingInLine
  <2>5. pel \in {y.batch, <<>>}
    BY <1>2, <1>3, DoneLeaves
  <2>6. ASSUME NEW h \in Consumers, h # g PROVE consumer[h].batch = <<>>
    BY <1>2, <2>6 DEF Alone, OrderInv, ReadersInv
  <2> QED BY <1>3, <2>1, <2>2, <2>3, <2>4, <2>5, <2>6
<1>18. ASSUME NEW e \in Aboard PROVE e.chan \in far' /\ Due(e.chan, e.from, e.n, got')
  <2>1. e.chan \in far /\ Due(e.chan, e.from, e.n, got) /\ e.chan \in Channels
    BY DEF OrderInv, LineInv, Aboard, Entry
  <2>2. CASE e.chan = m.chan /\ e.from = m.from
    <3>1. \A n : Had(e.chan, e.from, n, got') <=> Had(e.chan, e.from, n, got) \/ n = m.n
      BY <1>10, <2>1, <2>2
    <3>2. e.n = m.n \/ m.n < e.n
      BY <1>17, <2>2
    <3> QED BY <1>2, <2>1, <3>1, <3>2 DEF Due
  <2>3. CASE ~(e.chan = m.chan /\ e.from = m.from)
    <3>1. \A n : Had(e.chan, e.from, n, got') <=> Had(e.chan, e.from, n, got)
      BY <1>10, <2>1, <2>3
    <3> QED BY <1>2, <2>1, <3>1 DEF Due
  <2> QED BY <1>2, <2>1, <2>2, <2>3
<1>19. LineInv'
  BY <1>2, <1>15, <1>16, <1>18 DEF OrderInv, LineInv
<1>20. ReadersInv'
  <2>1. ~x.reread /\ pel' \in {x.batch, <<>>}
    BY <1>2, <1>3, <1>12, <1>13, DoneLeaves
  <2> QED BY <1>2, <1>12, <2>1, ReadersRun DEF OrderInv
<1>21. OutKept
  <2> SUFFICES ASSUME NEW q \in Queues, NEW n \in Frames,
                      \/ \E e \in Aboard' : e.from = q /\ e.n = n
                      \/ \E c \in Channels : Had(c, q, n, got')
               PROVE  n \in Out(q)
    BY DEF OutKept, Out
  <2> QED BY <1>7, <1>10, <1>16 DEF Out
<1>22. FreshInv'
  BY <1>2, <1>21, SentIsNat, FreshKept DEF OrderInv
<1> QED BY <1>10, <1>19, <1>20, <1>22 DEF OrderInv

-----------------------------------------------------------------------------

\* A consumer that was started stays so.
LEMMA StartedStays ==
    ASSUME RelayIInv, [Next]_vars, NEW g \in Consumers, consumer[g].step # "off"
    PROVE  consumer'[g].step # "off"
<1>1. consumer \in [Consumers -> Consumer] /\ consumer[g] \in Consumer
  BY ConsumerSound DEF RelayIInv, BoardInv
<1>2. ASSUME NEW h \in Consumers, NEW x, Run(h, x), x.step # "off" PROVE consumer'[g].step # "off"
  <2>1. consumer'[g] = IF g = h THEN x ELSE consumer[g]
    BY <1>1, <1>2 DEF Run
  <2> QED BY <1>2, <2>1
<1>3. ASSUME NEW c \in Channels, BrowserStep(c) PROVE consumer'[g].step # "off"
  <2>1. CASE consumer' = consumer
    BY <2>1
  <2>2. CASE Start(Starting) \/ Start([Starting EXCEPT !.ctx = FALSE])
    <3>0. PICK x \in {Starting, [Starting EXCEPT !.ctx = FALSE]} : \E h \in Consumers : Run(h, x)
      BY <2>2 DEF Start, Run
    <3>1. PICK h \in Consumers : Run(h, x) /\ x \in {Starting, [Starting EXCEPT !.ctx = FALSE]}
      BY <3>0
    <3>2. x.step # "off"
      BY <3>1 DEF Starting
    <3> QED BY <1>2, <3>1, <3>2
  <2>3. CASE consumer' = [consumer EXCEPT ![live].ctx = FALSE]
    BY <1>1, <2>3 DEF Consumer
  <2> QED BY <1>3, <2>1, <2>2, <2>3
          DEF BrowserStep, Attach, AttachFails, Break, Detach, Unregister, Expire, farVars
<1>4. ASSUME NEW h \in Consumers, ConsumerStep(h) PROVE consumer'[g].step # "off"
  <2>1. PICK y \in Consumer : y = consumer[h]
    BY ConsumerSound
  <2>2. PICK x : Run(h, x) /\ x.step # "off"
    <3>1. ASSUME NEW s PROVE /\ [y EXCEPT !.step = "deliver", !.batch = s].step = "deliver"
                             /\ [y EXCEPT !.step = "deliver", !.batch = s, !.reread = FALSE].step = "deliver"
                             /\ [y EXCEPT !.step = "ack"].step = "ack"
      BY DEF Consumer
    <3>2. Read(h) => \/ Run(h, [Loop(y) EXCEPT !.reread = FALSE])
                     \/ Run(h, [y EXCEPT !.step = "deliver", !.batch = pel, !.reread = FALSE])
                     \/ Run(h, [y EXCEPT !.step = "deliver", !.batch = stream])
      BY <2>1 DEF Read
    <3>3. ReadFails(h) \/ AcknowledgeFails(h) =>
              Run(h, Loop(y)) \/ Run(h, [Loop(y) EXCEPT !.reread = TRUE])
      BY <2>1 DEF ReadFails, AcknowledgeFails
    <3>4. Deliver(h) => Run(h, [y EXCEPT !.step = "ack"])
      BY <2>1 DEF Deliver
    <3>5. ASSUME Acknowledge(h) \/ Drop(h) PROVE \E x : Run(h, x) /\ x.step # "off"
      <4>1. Run(h, AfterOne(y)) /\ y.step \in {"deliver", "ack"}
        BY <2>1, <3>5 DEF Acknowledge, Drop, Unwanted, Done
      <4>2. y.batch # <<>>
        BY <2>1, <4>1, ConsumerSound DEF Sound
      <4>3. AfterOne(y).step \in {"deliver", "read", "ended"}
        BY <4>2, AfterGoes
      <4> QED BY <4>1, <4>3
    <3>6. /\ Loop(y).step # "off" /\ [Loop(y) EXCEPT !.reread = FALSE].step # "off"
          /\ [Loop(y) EXCEPT !.reread = TRUE].step # "off"
      BY LoopGoes
    <3> QED BY <1>4, <3>1, <3>2, <3>3, <3>4, <3>5, <3>6 DEF ConsumerStep, Consuming
  <2> QED BY <1>2, <2>2
<1>5. ASSUME UNCHANGED consumer PROVE consumer'[g].step # "off"
  BY <1>5
<1>6. ASSUME NEW q \in Queues, WorkerStep(q) PROVE UNCHANGED consumer
  BY <1>6 DEF WorkerStep, Forwarding, Take, DeliverHere, Refuse, Publish, Confirmed, TimeOut, Stop,
              RetireIfIdle, PublishFails, farVars
<1>7. ASSUME NEW c \in Channels, Receive(c) \/ Put \/ Close PROVE UNCHANGED consumer
  BY <1>7 DEF Receive, Put, Close, farVars
<1>8. Put \/ Close => UNCHANGED consumer
  BY DEF Put, Close, farVars
<1> QED BY <1>3, <1>4, <1>5, <1>6, <1>7, <1>8 DEF Next, vars

LEMMA OrderStarts == Init => OrderInv
<1> SUFFICES ASSUME Init PROVE OrderInv
  OBVIOUS
<1>1. /\ stream = <<>> /\ pel = <<>> /\ got = [c \in Channels |-> <<>>]
      /\ queue = [q \in Queues |-> [chan |-> NoChannel, frames |-> <<>>, stopped |-> FALSE]]
      /\ reader = Unread /\ sent = 0
  BY DEF Init
<1>2. \A g \in Consumers : consumer[g].batch = <<>> /\ consumer[g].step = "off"
  BY DEF Init, Starting
<1>3. \A q \in Queues : worker[q].step = "off"
  BY DEF Init, NoWork
<1>4. Aboard = {}
  BY <1>1, <1>2, NothingInLine DEF Aboard
<1>5. \A c \in Channels : DOMAIN got[c] = {}
  <2>1. DOMAIN <<>> = {}
    OBVIOUS
  <2>2. \A c \in Channels : got[c] = <<>>
    BY <1>1
  <2> QED BY <2>1, <2>2
<1>6. \A q \in Queues : Out(q) = {}
  BY <1>4, <1>5 DEF Out, Had
<1>7. LineInv
  BY <1>1, <1>2, <1>4, NothingInLine DEF LineInv
<1>8. ReadersInv
  BY <1>1, <1>2 DEF ReadersInv
<1>9. FreshInv
  <2>1. \A q \in Queues : 1 .. Len(queue[q].frames) = {}
    <3>1. \A q \in Queues : queue[q].frames = <<>>
      BY <1>1
    <3> QED BY <3>1
  <2> QED BY <1>1, <1>3, <1>6, <2>1 DEF FreshInv, Fresh, Past, Below
<1>10. FirstsInOrder(got)
  BY <1>5 DEF FirstsInOrder
<1> QED BY <1>7, <1>8, <1>9, <1>10 DEF OrderInv

LEMMA OrderSteps ==
    ASSUME RelayIInv, Alone => OrderInv, [Next]_vars, Alone'
    PROVE  OrderInv'
<1>1. Alone
  BY StartedStays DEF Alone
<1>2. OrderInv
  BY <1>1
<1>3. ASSUME NEW c \in Channels, BrowserStep(c) \/ Receive(c) PROVE OrderInv'
  BY <1>2, <1>3, BrowserOrder, ReceiveOrder
<1>4. CASE Put \/ Close
  BY <1>2, <1>4, PutOrder, CloseOrder
<1>5. ASSUME NEW q \in Queues, WorkerStep(q) PROVE OrderInv'
  BY <1>2, <1>5, TakeOrder, IdleOrder, DeliverHereOrder, PublishOrder DEF WorkerStep, Forwarding
<1>6. ASSUME NEW g \in Consumers, ConsumerStep(g) PROVE OrderInv'
  BY <1>1, <1>2, <1>6, ReadOrder, ReadFailsOrder, DeliverOrder, AcknowledgeOrder,
     AcknowledgeFailsOrder DEF ConsumerStep, Consuming
<1>7. CASE UNCHANGED vars
  <2>1. LineInv' /\ OutKept /\ ReadersInv'
    BY <1>2, <1>7, LineStays, ReadersStay DEF OrderInv, vars
  <2> QED BY <1>2, <1>7, <2>1, SentIsNat, OrderKept DEF vars
<1> QED BY <1>3, <1>4, <1>5, <1>6, <1>7 DEF Next

\* Frames of one queue reach the browser in order through time-outs, lost acknowledgements
\* and batches read again; one comes a second time only if it had been delivered, for every
\* number of channels, frames and failures (framebus.go, consumeOnce).
THEOREM FramesStayInOrder == Spec => []OrderedThroughRetries
<1>1. Init => (Alone => OrderInv)
  BY OrderStarts
<1>2. RelayIInv /\ (Alone => OrderInv) /\ [Next]_vars => (Alone => OrderInv)'
  BY OrderSteps
<1>3. RelayIInv /\ (Alone => OrderInv) => OrderedThroughRetries
  BY DEF Alone, OrderInv, FirstsInOrder, OrderedThroughRetries
<1> QED BY RelayStarts, RelaySteps, <1>1, <1>2, <1>3, PTL DEF Spec
=============================================================================
