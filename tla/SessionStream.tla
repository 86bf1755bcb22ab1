---------------------------- MODULE SessionStream ----------------------------
(* How a relay client (frontend lib/relayClient.ts) keeps its copy of one
   conversation complete: live frames pass a gate on their sequence number, a gap
   or a new connection starts a catch-up, and a catch-up attaches and pulls page
   after page. The machine numbers its rows, may rewrite a row under a new number
   (which leaves a hole), may forget an old prefix, and sends live frames only to
   an attached client; frames may be lost on the way, but not overtake.       *)
EXTENDS Naturals, Sequences, FiniteSets

CONSTANTS MaxSeq,         \* rows the machine ever numbers
          PageLimit,      \* rows of one page
          MaxWire,        \* frames and answers on their way to the client
          MaxStreamFaults,\* lost frames, unanswered requests, dropped connections
          MaxBad          \* rows this client cannot decode

ASSUME StreamAssumption ==
    MaxSeq \in Nat \ {0} /\ PageLimit \in Nat /\ MaxWire \in Nat

Seqs == 1 .. MaxSeq

VARIABLES log, bad, head, oldest,    \* the machine: rows there are, undecodable ones
          subscribed, request, wire, \* the connection: live stream, questions, answers
          online,                    \* the handshake of this connection is done
          stream,                    \* SessionState of the client
          base, times, gap,          \* history: first cursor, deliveries, gap seen and not given up
          streamFaults

streamVars == <<log, bad, head, oldest, subscribed, request, wire, online, stream,
                base, times, gap, streamFaults>>
machine == <<log, bad, head, oldest>>

\* attach: "no", "asked" (attaching) or "yes" (attached); fill: what catchUp awaits.
NewStream(cursor) ==
    [cursor |-> cursor, attach |-> "no", watched |-> FALSE,
     fill |-> "none", before |-> 0, sent |-> 0, refill |-> FALSE]

StreamInit ==
    \E m \in 0 .. 1 :
        /\ log = 1 .. 1 /\ bad = {} /\ head = 1 /\ oldest = 1
        /\ subscribed = FALSE /\ request = <<>> /\ wire = <<>> /\ online = TRUE
        /\ stream = NewStream(m)
        /\ base = m /\ times = [s \in Seqs |-> 0] /\ gap = 0
        /\ streamFaults = MaxStreamFaults

Disturb == streamFaults > 0 /\ streamFaults' = streamFaults - 1

-----------------------------------------------------------------------------
(* The client. An operator takes the SessionState s and the questions q that are on
   their way, and gives the next ones.                                       *)

Ask(s, q, what) == [s |-> s, q |-> Append(q, what)]

Pull(s, q) == Ask([s EXCEPT !.fill = "pull", !.sent = s.cursor], q,
                  [kind |-> "pull", cursor |-> s.cursor])

Attach(s, q) == Ask([s EXCEPT !.attach = "asked"], q, [kind |-> "attach", cursor |-> 0])

\* pullUntilCaughtUp up to its first await: a client that is attached, or whose
\* attach is on its way, sends no second one.
PullUntilCaughtUp(s, q) ==
    LET t == [s EXCEPT !.before = s.cursor, !.fill = "attach"] IN
    IF s.attach = "yes" THEN Pull(t, q)
    ELSE IF s.attach = "asked" THEN [s |-> t, q |-> q]
    ELSE Attach(t, q)

\* Mutant: a second trigger starts a catch-up of its own.
CatchUpTwice(s, q) == PullUntilCaughtUp(s, q)

CatchUp(s, q) ==
    IF s.fill # "none" THEN [s |-> [s EXCEPT !.refill = TRUE], q |-> q]
    ELSE PullUntilCaughtUp(s, q)

\* The finally of catchUp: a gap seen meanwhile is filled by another round, but only
\* if this one has moved the cursor.
CatchUpEnds(s, q) ==
    LET t == [s EXCEPT !.fill = "none", !.refill = FALSE] IN
    IF s.refill /\ s.cursor > s.before THEN CatchUp(t, q) ELSE [s |-> t, q |-> q]

Deliver(rows) == times' = [s \in Seqs |-> times[s] + (IF s \in rows \ bad THEN 1 ELSE 0)]

Step(x) == stream' = x.s /\ request' = x.q

-----------------------------------------------------------------------------
(* What the client does with a message; each is taken off the wire in order.  *)

Took == wire # <<>> /\ wire' = Tail(wire)

\* Mutant: a live frame beyond the next one is applied like any other.
ReceiveLiveAhead ==
    LET n == Head(wire).seq IN
    /\ Took /\ Head(wire).kind = "live"
    /\ IF n \in bad \/ n <= stream.cursor
       THEN UNCHANGED <<stream, times>>
       ELSE stream' = [stream EXCEPT !.cursor = n] /\ Deliver({n})
    /\ UNCHANGED <<request, gap, machine, subscribed, online, base, streamFaults>>

\* Mutant: a frame beyond the next one is dropped, and nobody asks for what is missing.
ReceiveLiveNoPull ==
    LET n == Head(wire).seq IN
    /\ Took /\ Head(wire).kind = "live"
    /\ IF n \in bad \/ n <= stream.cursor THEN UNCHANGED <<stream, times, gap>>
       ELSE IF n > stream.cursor + 1 THEN gap' = n /\ UNCHANGED <<stream, times>>
       ELSE stream' = [stream EXCEPT !.cursor = n] /\ Deliver({n}) /\ UNCHANGED gap
    /\ UNCHANGED <<request, machine, subscribed, online, base, streamFaults>>

\* applyDedup for a live frame: the next number is consumed, a known one dropped, and
\* one beyond the next starts a catch-up. A frame that cannot be decoded is ignored.
ReceiveLive ==
    LET n == Head(wire).seq IN
    /\ Took /\ Head(wire).kind = "live"
    /\ IF n \in bad \/ n <= stream.cursor
       THEN UNCHANGED <<stream, request, times, gap>>
       ELSE IF n > stream.cursor + 1
       THEN Step(CatchUp(stream, request)) /\ gap' = n /\ UNCHANGED times
       ELSE /\ stream' = [stream EXCEPT !.cursor = n] /\ Deliver({n})
            /\ UNCHANGED <<request, gap>>
    /\ UNCHANGED <<machine, subscribed, online, base, streamFaults>>

ReceiveAttach ==
    LET ok == Head(wire).ok
        s == [stream EXCEPT !.attach = IF ok THEN "yes" ELSE "no",
                            !.watched = stream.watched \/ ok]
    IN  /\ Took /\ Head(wire).kind = "attached"
        /\ Step(IF s.fill = "attach" THEN Pull(s, request) ELSE [s |-> s, q |-> request])
        /\ UNCHANGED <<machine, subscribed, online, base, times, gap, streamFaults>>

\* Mutant: a page is applied as it comes, without the gate of the live frames.
ReceivePageUngated ==
    LET page == Head(wire)
        new == page.rows \ bad
        cursor == IF new = {} THEN stream.cursor ELSE CHOOSE m \in new : \A r \in new : r <= m
        s == [stream EXCEPT !.cursor = cursor]
    IN  /\ Took /\ page.kind = "page"
        /\ Deliver(new)
        /\ Step(IF page.more /\ cursor > stream.sent THEN Pull(s, request) ELSE CatchUpEnds(s, request))
        /\ UNCHANGED <<machine, subscribed, online, base, gap, streamFaults>>

\* A page of undecodable rows only leaves the cursor c where it was when it was asked for.
AtWall(page, c) == page.more /\ page.rows \subseteq bad /\ c <= stream.sent

\* One page: a cursor behind what is kept is moved up to it, rows above the cursor are
\* consumed even where numbers are missing, undecodable rows take no slot; the loop
\* goes on while there is more and the cursor moves. At a wall the gap behind it is given
\* up (history).
ReceivePage ==
    LET page == Head(wire)
        start == IF page.oldest > 0 /\ stream.sent + 1 < page.oldest
                 THEN page.oldest - 1 ELSE stream.cursor
        new == {r \in page.rows \ bad : r > start}
        cursor == IF new = {} THEN start ELSE CHOOSE m \in new : \A r \in new : r <= m
        s == [stream EXCEPT !.cursor = cursor]
    IN  /\ Took /\ page.kind = "page"
        /\ Deliver(new)
        /\ Step(IF page.more /\ cursor > stream.sent THEN Pull(s, request) ELSE CatchUpEnds(s, request))
        /\ gap' = IF AtWall(page, cursor) THEN 0 ELSE gap
        /\ UNCHANGED <<machine, subscribed, online, base, streamFaults>>

\* A page of the browser asks for a catch-up, or for the live stream only.
PageCatchesUp ==
    /\ online /\ stream.fill = "none"
    /\ Step(CatchUp(stream, request))
    /\ UNCHANGED <<machine, subscribed, wire, online, base, times, gap, streamFaults>>

PageAttaches ==
    /\ online /\ stream.attach = "no"
    /\ Step(Attach(stream, request))
    /\ UNCHANGED <<machine, subscribed, wire, online, base, times, gap, streamFaults>>

\* 30 s without an answer, in the direction of the machine: a failed attach is
\* swallowed and the pull goes out all the same, a failed pull ends the catch-up.
RequestTimesOut ==
    /\ request # <<>> /\ Disturb
    /\ LET s == [stream EXCEPT !.attach = "no"]
           q == Tail(request)
       IN  IF Head(request).kind = "attach"
           THEN /\ Step(IF s.fill = "attach" THEN Pull(s, q) ELSE [s |-> s, q |-> q])
                /\ UNCHANGED gap
           ELSE Step(CatchUpEnds(stream, q)) /\ gap' = 0
    /\ UNCHANGED <<machine, subscribed, wire, online, base, times>>

\* Mutant: a catch-up survives the connection it asked on.
DropKeepsFill ==
    /\ online /\ Disturb
    /\ online' = FALSE /\ subscribed' = FALSE /\ wire' = <<>> /\ request' = <<>> /\ gap' = 0
    /\ stream' = [stream EXCEPT !.attach = "no"]
    /\ UNCHANGED <<machine, base, times>>

\* The connection drops: what was asked fails, what was on its way is gone, and the
\* machine must be attached to again.
Drop ==
    /\ online /\ Disturb
    /\ online' = FALSE /\ subscribed' = FALSE /\ wire' = <<>> /\ request' = <<>> /\ gap' = 0
    /\ stream' = [stream EXCEPT !.attach = "no", !.fill = "none", !.refill = FALSE]
    /\ UNCHANGED <<machine, base, times>>

\* The handshake of the next connection: watched conversations catch up.
Reconnected ==
    /\ ~online /\ online' = TRUE
    /\ Step(IF stream.watched THEN CatchUp(stream, request) ELSE [s |-> stream, q |-> request])
    /\ UNCHANGED <<machine, subscribed, wire, base, times, gap, streamFaults>>

-----------------------------------------------------------------------------
(* The machine and the way between.                                          *)

Room == Len(wire) < MaxWire
Asked(kind) == request # <<>> /\ Head(request).kind = kind
Send(m) == wire' = Append(wire, m)
Live(n) == IF subscribed THEN Send([kind |-> "live", seq |-> n]) ELSE UNCHANGED wire

Emit(undecodable) ==
    LET n == head + 1 IN
    /\ head < MaxSeq /\ Room
    /\ undecodable => Cardinality(bad) < MaxBad
    /\ head' = n /\ log' = log \cup {n} /\ Live(n)
    /\ bad' = IF undecodable THEN bad \cup {n} ELSE bad
    /\ UNCHANGED <<oldest, subscribed, request, online, stream, base, times, gap, streamFaults>>

Rewrite(r) ==
    LET n == head + 1 IN
    /\ r \in log /\ head < MaxSeq /\ Room
    /\ head' = n /\ log' = (log \ {r}) \cup {n} /\ Live(n)
    /\ UNCHANGED <<bad, oldest, subscribed, request, online, stream, base, times, gap, streamFaults>>

Forget(r) ==
    /\ r \in log /\ r < head
    /\ log' = {s \in log : s > r} /\ oldest' = r + 1
    /\ UNCHANGED <<bad, head, subscribed, request, wire, online, stream, base, times, gap, streamFaults>>

\* attach: a conversation whose turn died with the machine's process is refused.
AnswerAttach(ok) ==
    /\ Asked("attach") /\ Room
    /\ request' = Tail(request) /\ subscribed' = ok /\ Send([kind |-> "attached", ok |-> ok])
    /\ UNCHANGED <<machine, online, stream, base, times, gap, streamFaults>>

\* pull: the next PageLimit rows above the cursor; the floor of what is kept may be
\* unknown (0).
AnswerPull(floor) ==
    LET above == {s \in log : s > Head(request).cursor}
        rows == {s \in above : Cardinality({t \in above : t <= s}) <= PageLimit}
    IN  /\ Asked("pull") /\ Room
        /\ Send([kind |-> "page", rows |-> rows, more |-> rows # above, oldest |-> floor])
        /\ request' = Tail(request)
        /\ UNCHANGED <<machine, subscribed, online, stream, base, times, gap, streamFaults>>

\* The relay drops a live frame of a channel that has too many.
LoseFrame ==
    /\ wire # <<>> /\ Head(wire).kind = "live" /\ Disturb /\ wire' = Tail(wire)
    /\ UNCHANGED <<machine, subscribed, request, online, stream, base, times, gap>>

StreamNext ==
    \/ ReceiveLive \/ ReceiveAttach \/ ReceivePage
    \/ PageCatchesUp \/ PageAttaches \/ RequestTimesOut \/ Drop \/ Reconnected
    \/ LoseFrame
    \/ \E b \in BOOLEAN : Emit(b) \/ AnswerAttach(b)
    \/ \E r \in Seqs : Rewrite(r) \/ Forget(r)
    \/ \E f \in {0, oldest} : AnswerPull(f)

\* What is on the wire arrives, and the machine answers what reaches it.
StreamFair ==
    /\ WF_streamVars(ReceiveLive \/ ReceiveAttach \/ ReceivePage)
    /\ WF_streamVars(\E b \in BOOLEAN : AnswerAttach(b))
    /\ WF_streamVars(\E f \in {0, oldest} : AnswerPull(f))
    /\ WF_streamVars(Reconnected)

StreamSpec == StreamInit /\ [][StreamNext]_streamVars /\ StreamFair

-----------------------------------------------------------------------------
(* Properties.                                                               *)

(* The types; a catch-up that awaits an attach has one on its way.            *)
StreamTypeOK ==
    /\ log \subseteq Seqs /\ bad \subseteq Seqs /\ head \in Seqs /\ oldest \in Seqs
    /\ subscribed \in BOOLEAN /\ online \in BOOLEAN /\ Len(wire) <= MaxWire
    /\ Len(request) <= 2
    /\ stream \in [cursor : 0 .. MaxSeq, attach : {"no", "asked", "yes"}, watched : BOOLEAN,
                   fill : {"none", "attach", "pull"}, before : 0 .. MaxSeq,
                   sent : 0 .. MaxSeq, refill : BOOLEAN]
    /\ stream.fill = "attach" => stream.attach = "asked"
    /\ base \in 0 .. MaxSeq /\ gap \in 0 .. MaxSeq /\ times \in [Seqs -> Nat]

(* The cursor never passes a row that exists and was not handed to the page: live
   frames behind a gap, pages with holes and a forgotten prefix included.     *)
NothingSkipped ==
    \A s \in log \ bad : base < s /\ s <= stream.cursor => times[s] > 0

(* Catching up and the live stream share one gate: a row is applied only once
   (relayClient.ts, the head of the file).  It does not hold alone: a machine that
   forgot its history has rows handed over again.                             *)
AppliedOnce == \A s \in Seqs : times[s] <= 1

(* As long as the machine has forgotten nothing, no row is handed over twice,
   though live frames and pages overlap.                                      *)
OnceWhileKept == oldest = 1 => AppliedOnce

(* One pull at a time: a question is only asked by the one catch-up, and while it
   waits, exactly one question or answer of its kind is on its way.           *)
OnePull ==
    LET pages == {i \in DOMAIN wire : wire[i].kind = "page"}
        pulls == {i \in DOMAIN request : request[i].kind = "pull"}
    IN  Cardinality(pages) + Cardinality(pulls) = IF stream.fill = "pull" THEN 1 ELSE 0

(* A gap that a live frame has shown is filled, unless the connection drops or a
   pull fails: no round of catching up swallows the news of a gap. The one other
   exception is a page of nothing but rows the client cannot decode, with more behind
   it: it does not move the cursor, and the pulls end there for good.         *)
GapHealed ==
    gap > stream.cursor ~> \A s \in log \ bad : s <= gap => s <= stream.cursor

(* The frames of a session: none skipped, none handed over twice while it is
   kept, one pull at a time. *)
StreamInv == StreamTypeOK /\ NothingSkipped /\ OnceWhileKept /\ OnePull

-----------------------------------------------------------------------------
(* What the comments of the code say and the code does not keep: TLC finds it      *)
(* violated (README, section 8).                                                 *)

(* A row that cannot be decoded takes its slot, and does not keep what is behind it from
   the client (relayClient.ts, applyDedup and durableFromProtobuf).           *)
NeverWalled == [][ReceivePage => ~AtWall(Head(wire), stream.cursor)]_streamVars
=============================================================================
