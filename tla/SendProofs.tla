------------------------------ MODULE SendProofs ------------------------------
(* That a text which was submitted never disappears unless its user lets it go or the code
   sheds it in one of the four named places, that it stays in its conversation, and that
   the spinner and the withdrawing chips tell the truth: for any conversations, messages and
   bounds.  SendInv is not inductive: it does not say which call the machine has answered.
   SendIInv adds the books of the calls (each answer on its way belongs to one call) and
   what carries a text: a send that was accepted does not, once the machine has it, unless
   a mailbox answer behind it takes the text back.                                     *)
EXTENDS SessionSend, FiniteSetTheorems, SequenceTheorems, TLAPS

FailedSends == [ms : SUBSET Msgs, kind : FailKinds]
ChipTypes == [ms : SUBSET Msgs, st : {"local", "queued", "withdrawing", "locked"}]
Screens == [failed : SUBSET FailedSends, pending : SUBSET Msgs, queue : SUBSET ChipTypes,
            dropped : SUBSET Msgs, draft : SUBSET Msgs, active : BOOLEAN, sending : BOOLEAN,
            att : {"none", "known", "listed", "ready"}, snap : BOOLEAN, pinned : BOOLEAN]

MailOps == {"drain", "cancel", "withdraw"}
Statuses == {"connected", "reconnecting", "lost", "pinned"}
Calls == [op : SendOps \cup MailOps, conv : Convs, ms : SUBSET Msgs, visit : Nat,
          first : BOOLEAN, repl : BOOLEAN, no : Nat,
          at : {"out", "lost", "ok", "rejected", "unavailable", "kept"}]
Checks == [op : {"check"}, conv : Convs, ms : SUBSET Msgs, visit : Nat, st : Statuses,
           listed : BOOLEAN, at : {"out"}, no : Nat]
Events == [k : {"started", "done", "consumed"}, c : Convs, ms : SUBSET Msgs, ok : BOOLEAN]
Answers == [k : {"answer"}, t : Calls]
LateCalls == [op : SendOps, conv : Convs, ms : SUBSET Msgs]
Machines == [run : SUBSET Convs, box : [Convs -> SUBSET Msgs]]
Histories == [at : [Msgs -> Convs \cup {None}], got : SUBSET (Msgs \X Convs),
              gone : [Msgs -> {None, "letGo", "shed"}], strayed : SUBSET Msgs]

SendTypes ==
    /\ view.conv \in Convs /\ view.visit \in Nat
    /\ view = [conv |-> view.conv, visit |-> view.visit, link |-> view.link, left |-> view.left]
    /\ view.link \in {"connected", "reconnecting", "lost"}
    /\ scr \in Screens /\ late \subseteq LateCalls
    /\ machine \in Machines /\ said \in Histories
    /\ \A t \in tasks : t.visit <= view.visit

\* The books: a call is answered once, and its answer is on its way until it is taken.
Answered(t) == t.op # "check" /\ t.at \notin {"out", "lost"}
IsAnswer(q, i, t) == q[i].k = "answer" /\ q[i].t = t

Numbered(ts) == \A t, u \in ts : t.op = u.op /\ t.no = u.no => t = u

Books(ts, q) ==
    /\ IsFiniteSet(ts) /\ ts \subseteq Calls \cup Checks
    /\ Numbered(ts)
    /\ q \in Seq(Events \cup Answers)
    /\ \A i \in 1 .. Len(q) : q[i].k = "answer" => q[i].t \in ts /\ Answered(q[i].t)
    /\ \A i, j \in 1 .. Len(q) :
          q[i].k = "answer" /\ q[j].k = "answer" /\ q[i].t = q[j].t => i = j
    /\ \A t \in ts : Answered(t) => \E i \in 1 .. Len(q) : IsAnswer(q, i, t)
    /\ \A t \in ts : t.op = "drain" /\ t.at # "ok" => t.ms = {}

\* A call that holds texts nobody else holds: one the machine has not accepted, or an answer
\* that takes them from its mailbox.
Carries(t) == \/ t.op = "check"
              \/ t.op \in SendOps /\ t.at # "ok"
              \/ t.op \in MailOps /\ t.at = "ok"

Carried(ts) == UNION {t.ms : t \in {u \in ts : Carries(u)}}

AtMachine(m) == \E c \in Convs : m \in machine.box[c] \/ <<m, c>> \in said.got

Safe(m) == said.gone[m] # None \/ m \in OnScreen(scr) \/ AtMachine(m) \/ m \in Carried(tasks)

\* An answer behind t's takes m from the mailbox again.
Behind(q, t, m) == \E i, j \in 1 .. Len(q) :
    /\ i < j /\ IsAnswer(q, i, t) /\ q[j].k = "answer"
    /\ q[j].t.op \in MailOps /\ q[j].t.at = "ok" /\ m \in q[j].t.ms

SafeSent(t) == t.op \in SendOps /\ t.at = "ok" =>
    \A m \in t.ms : said.gone[m] # None \/ AtMachine(m) \/ Behind(inbox, t, m)

KeptInv == /\ \A m \in Msgs : said.at[m] # None => Safe(m)
           /\ \A t \in tasks : SafeSent(t)

\* What a call of this visit brings back belongs to this conversation, or has strayed.
HomeInv ==
    /\ StaysHome
    /\ \A t \in tasks : t.visit = view.visit =>
          t.conv = view.conv \/ (t.op # "drain" /\ t.ms \subseteq said.strayed)
    /\ \A t \in tasks \cup late : \A m \in t.ms \ said.strayed : said.at[m] = t.conv

SendIInv ==
    /\ SendTypes /\ Books(tasks, inbox)
    /\ SpinnerIsHonest /\ WithdrawIsAwaited
    /\ KeptInv /\ HomeInv

-----------------------------------------------------------------------------
(* The screen: what the operators of the hooks do to the texts it shows.       *)

Chips(s) == ChipMsgs(s.queue)
Withdrawing(s) == {i.ms : i \in {j \in s.queue : j.st = "withdrawing"}}

\* What a screen shows depends on its texts.
LEMMA SameTexts ==
    ASSUME NEW s, NEW u, u.failed = s.failed, u.pending = s.pending, u.queue = s.queue,
           u.dropped = s.dropped, u.draft = s.draft
    PROVE  OnScreen(u) = OnScreen(s) /\ Chips(u) = Chips(s) /\ Withdrawing(u) = Withdrawing(s)
  BY DEF OnScreen, Chips, Withdrawing

LEMMA SameQueue ==
    ASSUME NEW s, NEW u, u.queue = s.queue
    PROVE  Chips(u) = Chips(s) /\ Withdrawing(u) = Withdrawing(s)
  BY DEF Chips, Withdrawing

LEMMA QueueFailedIs ==
    ASSUME NEW s \in Screens, NEW ms \in SUBSET Msgs, NEW kind \in FailKinds
    PROVE  LET u == QueueFailed(s, ms, kind) IN
           /\ u \in Screens /\ u.queue = s.queue /\ u.sending = s.sending
           /\ u.pending = s.pending /\ u.dropped = s.dropped /\ u.draft = s.draft
           /\ OnScreen(u) = OnScreen(s) \cup ms
<1> DEFINE u == QueueFailed(s, ms, kind)
<1>1. u.failed = {f \in s.failed : f.ms # ms} \cup {[ms |-> ms, kind |-> kind]}
  BY DEF QueueFailed, Screens
<1>2. [ms |-> ms, kind |-> kind] \in FailedSends
  BY DEF FailedSends
<1>3. /\ u \in Screens /\ u.queue = s.queue /\ u.sending = s.sending
      /\ u.pending = s.pending /\ u.dropped = s.dropped /\ u.draft = s.draft
  BY <1>2 DEF QueueFailed, Screens
<1>4. UNION {f.ms : f \in u.failed} = (UNION {f.ms : f \in s.failed}) \cup ms
  <2>1. \A f \in u.failed : f \in s.failed \/ f.ms = ms
    BY <1>1
  <2>2. \A f \in s.failed : f \in u.failed \/ f.ms = ms
    BY <1>1
  <2>3. \E f \in u.failed : f.ms = ms
    <3>1. [ms |-> ms, kind |-> kind] \in u.failed /\ [ms |-> ms, kind |-> kind].ms = ms
      BY <1>1
    <3> QED
      BY <3>1
  <2> HIDE DEF u
  <2> QED
    BY <2>1, <2>2, <2>3
<1> QED
  BY <1>3, <1>4 DEF OnScreen

LEMMA DropFailedIs ==
    ASSUME NEW s \in Screens, NEW ms \in SUBSET Msgs
    PROVE  LET u == DropFailed(s, ms) IN
           /\ u \in Screens /\ u.queue = s.queue /\ u.sending = s.sending
           /\ u.pending = s.pending /\ u.dropped = s.dropped /\ u.draft = s.draft
           /\ OnScreen(u) \subseteq OnScreen(s) /\ OnScreen(s) \subseteq OnScreen(u) \cup ms
<1> DEFINE u == DropFailed(s, ms)
<1>1. u.failed = {f \in s.failed : f.ms # ms}
  BY DEF DropFailed, Screens
<1>3. /\ u \in Screens /\ u.queue = s.queue /\ u.sending = s.sending
      /\ u.pending = s.pending /\ u.dropped = s.dropped /\ u.draft = s.draft
  BY DEF DropFailed, Screens
<1>4. /\ UNION {f.ms : f \in u.failed} \subseteq UNION {f.ms : f \in s.failed}
      /\ UNION {f.ms : f \in s.failed} \subseteq (UNION {f.ms : f \in u.failed}) \cup ms
  BY <1>1
<1> QED
  BY <1>3, <1>4 DEF OnScreen

LEMMA ChipsUnion ==
    ASSUME NEW q \in SUBSET ChipTypes
    PROVE  ChipMsgs(q) = {m \in Msgs : \E i \in q : m \in i.ms}
  BY DEF ChipMsgs, ChipTypes

LEMMA EnqueueIs ==
    ASSUME NEW s \in Screens, NEW ms \in SUBSET Msgs
    PROVE  LET u == Enqueue(s, ms) IN
           /\ u \in Screens /\ u.sending = s.sending /\ OnScreen(u) = OnScreen(s)
           /\ Chips(u) = Chips(s) \cup ms /\ Withdrawing(u) = Withdrawing(s)
<1> DEFINE u == Enqueue(s, ms)
<1>1. u.queue = s.queue \cup {[ms |-> ms, st |-> "local"]}
  BY DEF Enqueue, Screens
<1>2. /\ u \in Screens /\ u.sending = s.sending /\ u.failed = s.failed
      /\ u.pending = s.pending /\ u.dropped = s.dropped /\ u.draft = s.draft
  BY DEF Enqueue, Screens, ChipTypes
<1>3. OnScreen(u) = OnScreen(s)
  BY <1>2 DEF OnScreen
<1>4. Chips(u) = Chips(s) \cup ms
  <2>1. s.queue \in SUBSET ChipTypes /\ u.queue \in SUBSET ChipTypes
    BY <1>2 DEF Screens
  <2>2. /\ \A i \in u.queue : i \in s.queue \/ i.ms = ms
        /\ \A i \in s.queue : i \in u.queue
        /\ [ms |-> ms, st |-> "local"] \in u.queue /\ [ms |-> ms, st |-> "local"].ms = ms
    BY <1>1
  <2> HIDE DEF u
  <2> QED
    BY <2>1, <2>2, ChipsUnion DEF Chips
<1>5. Withdrawing(u) = Withdrawing(s)
  BY <1>1 DEF Withdrawing
<1> QED
  BY <1>2, <1>3, <1>4, <1>5

LEMMA RestateIs ==
    ASSUME NEW s \in Screens, NEW ms \in SUBSET Msgs,
           NEW st \in {"local", "queued", "withdrawing", "locked"}
    PROVE  LET u == Restate(s, ms, st) IN
           /\ u \in Screens /\ u.sending = s.sending /\ OnScreen(u) = OnScreen(s)
           /\ Chips(u) = Chips(s) /\ Withdrawing(u) \subseteq Withdrawing(s) \cup {ms}
           /\ st # "withdrawing" => Withdrawing(u) = Withdrawing(s) \ {ms}
<1> DEFINE u == Restate(s, ms, st)
           R(i) == IF i.ms = ms THEN [i EXCEPT !.st = st] ELSE i
<1>1. u.queue = {R(i) : i \in s.queue}
  BY DEF Restate, Screens
<1>2. \A i \in s.queue : /\ R(i) \in ChipTypes /\ R(i).ms = i.ms
                         /\ R(i).st = IF i.ms = ms THEN st ELSE i.st
  BY DEF Screens, ChipTypes
<1>3. /\ u \in Screens /\ u.sending = s.sending /\ u.failed = s.failed
      /\ u.pending = s.pending /\ u.dropped = s.dropped /\ u.draft = s.draft
  <2>1. {R(i) : i \in s.queue} \in SUBSET ChipTypes
    BY <1>2
  <2> HIDE DEF R
  <2>2. u = [s EXCEPT !.queue = {R(i) : i \in s.queue}]
    BY DEF Restate, R
  <2> QED
    BY <2>1, <2>2 DEF Screens
<1> HIDE DEF R
<1>4. OnScreen(u) = OnScreen(s)
  BY <1>3 DEF OnScreen
<1>5. Chips(u) = Chips(s)
  BY <1>1, <1>2 DEF Chips, ChipMsgs
<1>6. Withdrawing(u) \subseteq Withdrawing(s) \cup {ms}
  BY <1>1, <1>2 DEF Withdrawing
<1>7. st # "withdrawing" => Withdrawing(u) = Withdrawing(s) \ {ms}
  BY <1>1, <1>2 DEF Withdrawing
<1> QED
  BY <1>3, <1>4, <1>5, <1>6, <1>7

LEMMA DropChipsIs ==
    ASSUME NEW s \in Screens, NEW ms \in SUBSET Msgs
    PROVE  LET u == DropChips(s, ms) IN
           /\ u \in Screens /\ u.sending = s.sending /\ OnScreen(u) = OnScreen(s)
           /\ u.draft = s.draft
           /\ Chips(u) \subseteq Chips(s) /\ Withdrawing(u) \subseteq Withdrawing(s) \ {ms}
<1> DEFINE u == DropChips(s, ms)
<1>1. u.queue = {i \in s.queue : ~(i.ms \subseteq ms)}
  BY DEF DropChips, Screens
<1>2. /\ u \in Screens /\ u.sending = s.sending /\ u.failed = s.failed
      /\ u.pending = s.pending /\ u.dropped = s.dropped /\ u.draft = s.draft
  BY DEF DropChips, Screens
<1>3. OnScreen(u) = OnScreen(s)
  BY <1>2 DEF OnScreen
<1>4. Chips(u) \subseteq Chips(s)
  BY <1>1 DEF Chips, ChipMsgs
<1>5. Withdrawing(u) \subseteq Withdrawing(s) \ {ms}
  BY <1>1 DEF Withdrawing
<1> QED
  BY <1>2, <1>3, <1>4, <1>5

LEMMA EndTurnIs ==
    ASSUME NEW s \in Screens
    PROVE  LET u == EndTurn(s) IN
           /\ u \in Screens /\ u.sending = s.sending
           /\ OnScreen(s) \subseteq OnScreen(u) /\ OnScreen(u) \subseteq OnScreen(s) \cup Chips(s)
           /\ Chips(u) = {} /\ Withdrawing(u) = {}
<1> DEFINE u == EndTurn(s)
<1>1. Chips(s) \in SUBSET Msgs
  BY DEF Chips, ChipMsgs, Screens, ChipTypes
<1>2. u.queue = {} /\ u.dropped = IF s.dropped = {} THEN Chips(s) ELSE s.dropped
  BY DEF EndTurn, Screens, Chips
<1>3. /\ u \in Screens /\ u.sending = s.sending /\ u.failed = s.failed
      /\ u.pending = s.pending /\ u.draft = s.draft
  BY <1>1 DEF EndTurn, Screens, Chips
<1>4. OnScreen(s) \subseteq OnScreen(u) /\ OnScreen(u) \subseteq OnScreen(s) \cup Chips(s)
  BY <1>2, <1>3 DEF OnScreen
<1>5. Chips(u) = {} /\ Withdrawing(u) = {}
  BY <1>2 DEF Chips, ChipMsgs, Withdrawing
<1> QED
  BY <1>3, <1>4, <1>5

-----------------------------------------------------------------------------
(* The books of the calls.                                                     *)

LEMMA TailIs ==
    ASSUME NEW S, NEW q \in Seq(S), q # <<>>
    PROVE  /\ Tail(q) \in Seq(S) /\ Len(Tail(q)) = Len(q) - 1 /\ Len(q) \in Nat \ {0}
           /\ Head(q) = q[1]
           /\ \A i \in 1 .. Len(Tail(q)) : i + 1 \in 1 .. Len(q) /\ Tail(q)[i] = q[i + 1]
           /\ \A i \in 1 .. Len(q) : i # 1 => i - 1 \in 1 .. Len(Tail(q)) /\ Tail(q)[i - 1] = q[i]
<1>1. /\ Tail(q) \in Seq(S) /\ Len(Tail(q)) = Len(q) - 1 /\ Len(q) \in Nat \ {0}
      /\ Head(q) = q[1]
      /\ \A i \in 1 .. Len(Tail(q)) : Tail(q)[i] = q[i + 1]
  BY HeadTailProperties, EmptySeq
<1> QED
  BY <1>1

LEMMA OneMore ==
    ASSUME NEW S, NEW q \in Seq(S), NEW r \in Seq(S)
    PROVE  /\ q \o r \in Seq(S) /\ Len(q \o r) = Len(q) + Len(r) /\ Len(q) \in Nat /\ Len(r) \in Nat
           /\ \A i \in 1 .. Len(q) : i \in 1 .. Len(q \o r) /\ (q \o r)[i] = q[i]
           /\ \A i \in 1 .. Len(q \o r) : i \notin 1 .. Len(q) =>
                 i - Len(q) \in 1 .. Len(r) /\ (q \o r)[i] = r[i - Len(q)]
<1>1. Len(q) \in Nat /\ Len(r) \in Nat
  BY LenProperties
<1>2. /\ q \o r \in Seq(S) /\ Len(q \o r) = Len(q) + Len(r)
      /\ \A i \in 1 .. Len(q) + Len(r) : (q \o r)[i] = IF i <= Len(q) THEN q[i] ELSE r[i - Len(q)]
  BY ConcatProperties
<1> QED
  BY <1>1, <1>2

\* A call gets a number that no call of its kind has.
LEMMA NumberIs ==
    ASSUME IsFiniteSet(tasks), NEW op
    PROVE  Number(op) \in Nat /\ \A t \in tasks : t.op = op => t.no # Number(op)
<1> DEFINE c == Cardinality(tasks)
           taken == {t.no : t \in tasks}
<1>1. c \in Nat
  BY FS_CardinalityType
<1>2. IsFiniteSet(taken) /\ Cardinality(taken) <= c
  <2> DEFINE f == [t \in tasks |-> t.no]
  <2>1. f \in Surjection(tasks, taken)
    BY DEF Surjection
  <2> QED
    BY <2>1, FS_Surjection
<1>3. \E n \in 0 .. c : n \notin taken
  <2>1. SUFFICES ASSUME 0 .. c \subseteq taken PROVE FALSE
    OBVIOUS
  <2>2. Cardinality(0 .. c) = c + 1
    BY <1>1, FS_Interval
  <2>3. Cardinality(0 .. c) <= Cardinality(taken)
    BY <1>2, <2>1, FS_Subset
  <2>4. Cardinality(taken) \in Nat
    BY <1>2, FS_CardinalityType
  <2> QED
    BY <1>1, <1>2, <2>2, <2>3, <2>4
<1>4. \E n \in 0 .. c : \A t \in tasks : t.op = op => t.no # n
  BY <1>3
<1>5. Number(op) \in 0 .. c /\ \A t \in tasks : t.op = op => t.no # Number(op)
  BY <1>4 DEF Number
<1> QED
  BY <1>1, <1>5

\* A call nobody has answered is new, or given up.
LEMMA BooksAsked ==
    ASSUME NEW ts, NEW q, Books(ts, q), NEW n \in Calls \cup Checks, ~Answered(n),
           n.op = "drain" => n.ms = {}, \A t \in ts : t.op = n.op => t.no # n.no
    PROVE  Books(ts \cup {n}, q)
<1>1. IsFiniteSet(ts \cup {n})
  BY FS_AddElement DEF Books
<1>2. Numbered(ts \cup {n})
  BY DEF Books, Numbered
<1> QED
  BY <1>1, <1>2 DEF Books

LEMMA BooksGivenUp ==
    ASSUME NEW ts, NEW q, Books(ts, q), NEW t \in ts, ~Answered(t)
    PROVE  Books(ts \ {t}, q)
<1>1. IsFiniteSet(ts \ {t})
  BY FS_RemoveElement DEF Books
<1>2. Numbered(ts \ {t})
  BY DEF Books, Numbered
<1> QED
  BY <1>1, <1>2 DEF Books

LEMMA BooksTaken ==
    ASSUME NEW ts, NEW q, Books(ts, q), NEW t \in ts, q # <<>>,
           Head(q) = [k |-> "answer", t |-> t]
    PROVE  Books(ts \ {t}, Tail(q))
<1>1. IsFiniteSet(ts \ {t})
  BY FS_RemoveElement DEF Books
<1>2. Numbered(ts \ {t})
  BY DEF Books, Numbered
<1>3. /\ Tail(q) \in Seq(Events \cup Answers) /\ Len(q) \in Nat \ {0} /\ IsAnswer(q, 1, t)
      /\ \A i \in 1 .. Len(Tail(q)) : i + 1 \in 1 .. Len(q) /\ Tail(q)[i] = q[i + 1]
      /\ \A i \in 1 .. Len(q) : i # 1 => i - 1 \in 1 .. Len(Tail(q)) /\ Tail(q)[i - 1] = q[i]
  BY TailIs DEF Books, IsAnswer
<1>4. \A i \in 1 .. Len(Tail(q)) : Tail(q)[i].k = "answer" =>
         Tail(q)[i].t \in ts \ {t} /\ Answered(Tail(q)[i].t)
  <2> SUFFICES ASSUME NEW i \in 1 .. Len(Tail(q)), Tail(q)[i].k = "answer"
               PROVE  Tail(q)[i].t \in ts \ {t} /\ Answered(Tail(q)[i].t)
    OBVIOUS
  <2>1. i + 1 # 1 /\ 1 \in 1 .. Len(q)
    BY <1>3
  <2> QED
    BY <1>3, <2>1 DEF Books, IsAnswer
<1>5. \A i, j \in 1 .. Len(Tail(q)) : Tail(q)[i].k = "answer" /\ Tail(q)[j].k = "answer"
         /\ Tail(q)[i].t = Tail(q)[j].t => i = j
  <2> SUFFICES ASSUME NEW i \in 1 .. Len(Tail(q)), NEW j \in 1 .. Len(Tail(q)),
                      Tail(q)[i].k = "answer", Tail(q)[j].k = "answer", Tail(q)[i].t = Tail(q)[j].t
               PROVE  i = j
    OBVIOUS
  <2>1. i + 1 = j + 1
    BY <1>3 DEF Books
  <2> QED
    BY <2>1
<1>6. ASSUME NEW u \in ts \ {t}, Answered(u)
      PROVE  \E i \in 1 .. Len(Tail(q)) : IsAnswer(Tail(q), i, u)
  <2>1. PICK i \in 1 .. Len(q) : IsAnswer(q, i, u)
    BY <1>6 DEF Books
  <2>2. i # 1
    BY <1>3, <2>1 DEF IsAnswer
  <2> QED
    BY <1>3, <2>1, <2>2 DEF IsAnswer
<1> QED
  BY <1>1, <1>2, <1>3, <1>4, <1>5, <1>6 DEF Books

LEMMA BooksTold ==
    ASSUME NEW ts, NEW q, Books(ts, q), q # <<>>, Head(q).k # "answer"
    PROVE  Books(ts, Tail(q))
<1>3. /\ Tail(q) \in Seq(Events \cup Answers) /\ Len(q) \in Nat \ {0} /\ Head(q) = q[1]
      /\ \A i \in 1 .. Len(Tail(q)) : i + 1 \in 1 .. Len(q) /\ Tail(q)[i] = q[i + 1]
      /\ \A i \in 1 .. Len(q) : i # 1 => i - 1 \in 1 .. Len(Tail(q)) /\ Tail(q)[i - 1] = q[i]
  BY TailIs DEF Books
<1>5. \A i, j \in 1 .. Len(Tail(q)) : Tail(q)[i].k = "answer" /\ Tail(q)[j].k = "answer"
         /\ Tail(q)[i].t = Tail(q)[j].t => i = j
  <2> SUFFICES ASSUME NEW i \in 1 .. Len(Tail(q)), NEW j \in 1 .. Len(Tail(q)),
                      Tail(q)[i].k = "answer", Tail(q)[j].k = "answer", Tail(q)[i].t = Tail(q)[j].t
               PROVE  i = j
    OBVIOUS
  <2>1. i + 1 = j + 1
    BY <1>3 DEF Books
  <2> QED
    BY <2>1
<1>6. ASSUME NEW u \in ts, Answered(u)
      PROVE  \E i \in 1 .. Len(Tail(q)) : IsAnswer(Tail(q), i, u)
  <2>1. PICK i \in 1 .. Len(q) : IsAnswer(q, i, u)
    BY <1>6 DEF Books
  <2>2. i # 1
    BY <1>3, <2>1 DEF IsAnswer
  <2> QED
    BY <1>3, <2>1, <2>2 DEF IsAnswer
<1> QED
  BY <1>3, <1>5, <1>6 DEF Books

\* The machine has told something.
LEMMA BooksEmitted ==
    ASSUME NEW ts, NEW q, Books(ts, q), NEW r \in Seq(Events)
    PROVE  Books(ts, q \o r)
<1>1. r \in Seq(Events \cup Answers)
  BY SeqMonotonic
<1>2. /\ q \o r \in Seq(Events \cup Answers)
      /\ \A i \in 1 .. Len(q) : i \in 1 .. Len(q \o r) /\ (q \o r)[i] = q[i]
      /\ \A i \in 1 .. Len(q \o r) : i \notin 1 .. Len(q) =>
            i - Len(q) \in 1 .. Len(r) /\ (q \o r)[i] = r[i - Len(q)]
  BY <1>1, OneMore DEF Books
<1>3. \A i \in 1 .. Len(r) : r[i].k # "answer"
  <2>1. \A i \in 1 .. Len(r) : r[i] \in Events
    BY ElementOfSeq
  <2> QED
    BY <2>1 DEF Events
<1>4. \A i \in 1 .. Len(q \o r) : (q \o r)[i].k = "answer" => i \in 1 .. Len(q)
  BY <1>2, <1>3
<1>5. \A t \in ts : Answered(t) => \E i \in 1 .. Len(q \o r) : IsAnswer(q \o r, i, t)
  BY <1>2 DEF Books, IsAnswer
<1> HIDE DEF Answered
<1>6. \A i \in 1 .. Len(q \o r) : (q \o r)[i].k = "answer" =>
         (q \o r)[i].t \in ts /\ Answered((q \o r)[i].t)
  BY <1>2, <1>4 DEF Books
<1>7. \A i, j \in 1 .. Len(q \o r) : (q \o r)[i].k = "answer" /\ (q \o r)[j].k = "answer"
         /\ (q \o r)[i].t = (q \o r)[j].t => i = j
  BY <1>2, <1>4 DEF Books
<1> QED
  BY <1>2, <1>5, <1>6, <1>7 DEF Books

\* The machine has answered.
LEMMA BooksAnswered ==
    ASSUME NEW ts, NEW q, Books(ts, q), NEW t \in ts, ~Answered(t), NEW d \in Calls, Answered(d),
           d.op = t.op, d.no = t.no, d.op = "drain" => d.at = "ok"
    PROVE  /\ Books((ts \ {t}) \cup {d}, q \o <<[k |-> "answer", t |-> d]>>)
           /\ LET r == q \o <<[k |-> "answer", t |-> d]>> IN
              /\ Len(q) \in Nat /\ Len(q) + 1 \in 1 .. Len(r) /\ IsAnswer(r, Len(q) + 1, d)
              /\ \A i \in 1 .. Len(q) : i \in 1 .. Len(r) /\ r[i] = q[i]
<1> DEFINE e == [k |-> "answer", t |-> d]
           r == q \o <<e>>
           us == (ts \ {t}) \cup {d}
<1>1. e \in Events \cup Answers /\ e.k = "answer" /\ e.t = d
  BY DEF Answers
<1> HIDE DEF e
<1>2. <<e>> \in Seq(Events \cup Answers) /\ Len(<<e>>) = 1 /\ <<e>>[1] = e
  BY <1>1
<1>3. /\ r \in Seq(Events \cup Answers) /\ Len(r) = Len(q) + 1 /\ Len(q) \in Nat
      /\ \A i \in 1 .. Len(q) : i \in 1 .. Len(r) /\ r[i] = q[i]
      /\ \A i \in 1 .. Len(r) : i \notin 1 .. Len(q) => i = Len(q) + 1
      /\ r[Len(q) + 1] = e
  <2>1. /\ r \in Seq(Events \cup Answers) /\ Len(r) = Len(q) + 1 /\ Len(q) \in Nat
        /\ \A i \in 1 .. Len(q) : i \in 1 .. Len(r) /\ r[i] = q[i]
        /\ \A i \in 1 .. Len(r) : i \notin 1 .. Len(q) =>
              i - Len(q) \in 1 .. 1 /\ r[i] = <<e>>[i - Len(q)]
    BY <1>2, OneMore DEF Books
  <2>2. Len(q) + 1 \in 1 .. Len(r) /\ Len(q) + 1 \notin 1 .. Len(q)
    BY <2>1
  <2>3. r[Len(q) + 1] = <<e>>[Len(q) + 1 - Len(q)] /\ Len(q) + 1 - Len(q) = 1
    BY <2>1, <2>2
  <2> QED
    BY <1>2, <2>1, <2>2, <2>3
<1> HIDE DEF r
<1>4. IsFiniteSet(us) /\ us \subseteq Calls \cup Checks
  BY FS_AddElement, FS_RemoveElement DEF Books
<1>5. Numbered(us)
  BY DEF Books, Numbered
<1>6. d \notin ts
  BY DEF Books, Numbered
<1>7. \A i \in 1 .. Len(q) : q[i].k = "answer" => q[i].t \in ts \ {t}
  BY DEF Books
<1>8. \A i \in 1 .. Len(r) : r[i].k = "answer" => r[i].t \in us /\ Answered(r[i].t)
  BY <1>1, <1>3, <1>7 DEF Books
<1>9. \A i, j \in 1 .. Len(r) : r[i].k = "answer" /\ r[j].k = "answer" /\ r[i].t = r[j].t => i = j
  BY <1>1, <1>3, <1>6, <1>7 DEF Books
<1>10. Len(q) + 1 \in 1 .. Len(r) /\ IsAnswer(r, Len(q) + 1, d)
  BY <1>1, <1>3 DEF IsAnswer
<1>11. \A u \in us : Answered(u) => \E i \in 1 .. Len(r) : IsAnswer(r, i, u)
  <2> SUFFICES ASSUME NEW u \in us, Answered(u), u # d
               PROVE  \E i \in 1 .. Len(r) : IsAnswer(r, i, u)
    BY <1>10
  <2>1. PICK i \in 1 .. Len(q) : IsAnswer(q, i, u)
    BY DEF Books
  <2> QED
    BY <1>3, <2>1 DEF IsAnswer
<1>12. \A u \in us : u.op = "drain" /\ u.at # "ok" => u.ms = {}
  BY DEF Books
<1>13. Books(us, r)
  BY <1>3, <1>4, <1>5, <1>8, <1>9, <1>11, <1>12 DEF Books
<1> QED
  BY <1>3, <1>10, <1>13 DEF r, e

\* An answer behind t's stays behind it.
LEMMA BehindTail ==
    ASSUME NEW S, NEW q \in Seq(S), q # <<>>, NEW t, NEW m, ~IsAnswer(q, 1, t), Behind(q, t, m)
    PROVE  Behind(Tail(q), t, m)
<1>1. /\ Len(q) \in Nat
      /\ \A i \in 1 .. Len(q) : i # 1 => i - 1 \in 1 .. Len(Tail(q)) /\ Tail(q)[i - 1] = q[i]
  BY TailIs
<1>2. PICK i \in 1 .. Len(q), j \in 1 .. Len(q) :
         /\ i < j /\ IsAnswer(q, i, t) /\ q[j].k = "answer"
         /\ q[j].t.op \in MailOps /\ q[j].t.at = "ok" /\ m \in q[j].t.ms
  BY DEF Behind
<1>3. i # 1 /\ j # 1 /\ i - 1 < j - 1
  BY <1>1, <1>2
<1>4. IsAnswer(Tail(q), i - 1, t) /\ Tail(q)[j - 1] = q[j]
  BY <1>1, <1>2, <1>3 DEF IsAnswer
<1> QED
  BY <1>1, <1>2, <1>3, <1>4 DEF Behind

LEMMA BehindMore ==
    ASSUME NEW q, NEW r, NEW t, NEW m, Behind(q, t, m),
           \A i \in 1 .. Len(q) : i \in 1 .. Len(r) /\ r[i] = q[i]
    PROVE  Behind(r, t, m)
  BY DEF Behind, IsAnswer

\* Behind an accepted send there is a call that carries the text.
LEMMA BehindCarried ==
    ASSUME NEW ts, NEW q, Books(ts, q), NEW t, NEW m, Behind(q, t, m), t.op \in SendOps
    PROVE  m \in Carried(ts \ {t})
<1>1. PICK j \in 1 .. Len(q) :
         q[j].k = "answer" /\ q[j].t.op \in MailOps /\ q[j].t.at = "ok" /\ m \in q[j].t.ms
  BY DEF Behind
<1>2. q[j].t \in ts \ {t} /\ Carries(q[j].t)
  BY <1>1 DEF Books, Carries, SendOps, MailOps
<1> QED
  BY <1>1, <1>2 DEF Carried

-----------------------------------------------------------------------------
(* Steps that have much in common.                                             *)

LEMMA NoneIsNoConv == None \notin Convs
  BY SendAssumption DEF None

\* A text is let go or shed for good.
LEMMA GoneIs ==
    ASSUME said \in Histories, NEW ms, NEW why \in {"letGo", "shed"}
    PROVE  LET u == Gone(ms, why) IN
           /\ u \in Histories /\ u.at = said.at /\ u.got = said.got /\ u.strayed = said.strayed
           /\ \A m \in Msgs : u.gone[m] # None <=> said.gone[m] # None \/ m \in ms
<1> DEFINE g == [m \in Msgs |-> IF m \in ms /\ said.gone[m] = None THEN why ELSE said.gone[m]]
<1>1. said.gone \in [Msgs -> {None, "letGo", "shed"}]
  BY DEF Histories
<1>2. g \in [Msgs -> {None, "letGo", "shed"}]
  BY <1>1
<1>3. \A m \in Msgs : g[m] # None <=> said.gone[m] # None \/ m \in ms
  BY <1>1 DEF None
<1>4. Gone(ms, why) = [said EXCEPT !.gone = g]
  BY DEF Gone
<1> HIDE DEF g
<1>5. /\ Gone(ms, why) \in Histories /\ Gone(ms, why).gone = g
      /\ Gone(ms, why).at = said.at /\ Gone(ms, why).got = said.got
      /\ Gone(ms, why).strayed = said.strayed
  BY <1>2, <1>4 DEF Histories
<1> QED
  BY <1>3, <1>5

\* The history keeps its other parts, and nothing comes back.
KeepsGone(h) ==
    /\ h \in Histories /\ h.at = said.at /\ h.got = said.got /\ h.strayed = said.strayed
    /\ \A m \in Msgs : said.gone[m] # None => h.gone[m] # None

\* The answers behind accepted sends of ts stay there.
StaysBehind(ts) ==
    \A t \in ts : t.op \in SendOps /\ t.at = "ok" =>
        \A m \in t.ms : Behind(inbox, t, m) => Behind(inbox', t, m)

LEMMA SafeSentStays ==
    ASSUME SendIInv, NEW ts \in SUBSET tasks, StaysBehind(ts),
           \A m \in Msgs : said.gone[m] # None => said'.gone[m] # None,
           \A m \in Msgs : AtMachine(m) => AtMachine(m)'
    PROVE  \A t \in ts : SafeSent(t)'
<1> SUFFICES ASSUME NEW t \in ts, t.op \in SendOps, t.at = "ok", NEW m \in t.ms
             PROVE  said'.gone[m] # None \/ AtMachine(m)' \/ Behind(inbox', t, m)
  BY DEF SafeSent
<1>1. said.gone[m] # None \/ AtMachine(m) \/ Behind(inbox, t, m)
  BY DEF SendIInv, KeptInv, SafeSent
<1>2. m \in Msgs
  BY DEF SendIInv, Books, Calls, Checks
<1> QED
  BY <1>1, <1>2 DEF StaysBehind

\* The same machine has the same texts.
LEMMA MachineStays ==
    ASSUME machine' = machine, said'.got = said.got
    PROVE  \A m : AtMachine(m) => AtMachine(m)'
  BY DEF AtMachine

LEMMA WhereScreen ==
    ASSUME SendIInv
    PROVE  /\ OnScreen(scr) \subseteq Msgs /\ Chips(scr) \subseteq Msgs
           /\ \A m \in OnScreen(scr) \cup Chips(scr) : m \notin said.strayed => said.at[m] = view.conv
<1>1. OnScreen(scr) \subseteq Msgs
  BY DEF SendIInv, SendTypes, Screens, FailedSends, OnScreen
<1>2. Chips(scr) \subseteq Msgs
  BY DEF SendIInv, SendTypes, Screens, ChipTypes, Chips, ChipMsgs
<1> QED
  BY <1>1, <1>2 DEF SendIInv, HomeInv, StaysHome, Chips

LEMMA WithdrawAgain ==
    WithdrawIsAwaited <=> \A ms \in Withdrawing(scr) : \E t \in tasks : t.op = "withdraw" /\ t.ms = ms
  BY DEF WithdrawIsAwaited, Withdrawing

\* Only the screen changes.
LEMMA ScreenStep ==
    ASSUME SendIInv, scr' \in Screens, tasks' = tasks, late' = late, machine' = machine,
           view'.conv = view.conv, view'.visit = view.visit, view'.left = view.left,
           view'.link \in {"connected", "reconnecting", "lost"},
           view' = [conv |-> view'.conv, visit |-> view'.visit, link |-> view'.link,
                    left |-> view'.left],
           Books(tasks, inbox'), StaysBehind(tasks), KeepsGone(said'),
           scr'.sending = scr.sending, Withdrawing(scr') \subseteq Withdrawing(scr),
           OnScreen(scr') \cup Chips(scr') \subseteq OnScreen(scr) \cup Chips(scr),
           \A m \in OnScreen(scr) : m \in OnScreen(scr') \/ said'.gone[m] # None
    PROVE  SendIInv'
<1>1. SendTypes' /\ Books(tasks, inbox)'
  BY DEF SendIInv, SendTypes, KeepsGone
<1>2. SpinnerIsHonest'
  BY DEF SendIInv, SpinnerIsHonest, StillHere
<1>3. WithdrawIsAwaited'
  BY WithdrawAgain DEF SendIInv, WithdrawIsAwaited, Withdrawing
<1>4. \A m : AtMachine(m) => AtMachine(m)'
  BY MachineStays DEF KeepsGone
<1>5. KeptInv'
  <2>1. ASSUME NEW m \in Msgs, said'.at[m] # None PROVE Safe(m)'
    <3>1. Safe(m)
      BY <2>1 DEF SendIInv, KeptInv, KeepsGone
    <3> QED
      BY <1>4, <3>1 DEF Safe, KeepsGone
  <2>2. \A t \in tasks : SafeSent(t)'
    BY <1>4, SafeSentStays DEF KeepsGone
  <2> QED
    BY <2>1, <2>2 DEF KeptInv
<1>6. HomeInv'
  <2>1. \A m \in OnScreen(scr') \cup Chips(scr') : m \notin said'.strayed => said'.at[m] = view'.conv
    BY WhereScreen DEF KeepsGone
  <2>2. StaysHome'
    BY <2>1 DEF SendIInv, HomeInv, StaysHome, KeepsGone, Chips
  <2> QED
    BY <2>2 DEF SendIInv, HomeInv, KeepsGone
<1> QED
  BY <1>1, <1>2, <1>3, <1>5, <1>6 DEF SendIInv

\* An answer is taken, or the call fails with its connection.
LEMMA DueIs ==
    ASSUME SendIInv, NEW t \in tasks, Due(t)
    PROVE  /\ Books(tasks \ {t}, inbox') /\ StaysBehind(tasks \ {t})
           /\ view' = view /\ late' = late /\ machine' = machine
<1>1. Books(tasks, inbox)
  BY DEF SendIInv
<1>2. CASE t.at = "lost" /\ inbox' = inbox
  <2>1. Books(tasks \ {t}, inbox')
    BY <1>1, <1>2, BooksGivenUp DEF Answered
  <2> QED
    BY <1>2, <2>1 DEF StaysBehind, Due
<1>3. CASE inbox # <<>> /\ Head(inbox) = [k |-> "answer", t |-> t] /\ inbox' = Tail(inbox)
  <2>1. Books(tasks \ {t}, inbox')
    BY <1>1, <1>3, BooksTaken
  <2>2. Head(inbox) = inbox[1] /\ inbox \in Seq(Events \cup Answers)
    BY <1>1, <1>3, TailIs DEF Books
  <2>3. \A u \in tasks \ {t} : ~IsAnswer(inbox, 1, u)
    BY <1>3, <2>2 DEF IsAnswer
  <2> QED
    BY <1>3, <2>1, <2>2, <2>3, BehindTail DEF StaysBehind, Due
<1> QED
  BY <1>2, <1>3 DEF Due

\* The answer to t is taken, and t is over.
LEMMA TakenStep ==
    ASSUME SendIInv, NEW t \in tasks, Due(t), scr' \in Screens, tasks' = tasks \ {t},
           KeepsGone(said'),
           scr'.sending => scr.sending /\ (t.op \notin SendOps \/ ~StillHere(t)),
           Withdrawing(scr') \subseteq Withdrawing(scr),
           t.op = "withdraw" => t.ms \notin Withdrawing(scr'),
           \A m \in OnScreen(scr') \cup Chips(scr') :
              m \in OnScreen(scr) \cup Chips(scr) \/ ((StillHere(t) \/ SameTarget(t)) /\ m \in t.ms),
           \A m \in OnScreen(scr) :
              \/ m \in OnScreen(scr') \/ said'.gone[m] # None
              \/ t.op \in SendOps /\ t.at = "ok" /\ m \in t.ms,
           Carries(t) => \A m \in t.ms : m \in OnScreen(scr') \/ said'.gone[m] # None
    PROVE  SendIInv'
<1>1. /\ Books(tasks', inbox') /\ StaysBehind(tasks')
      /\ view' = view /\ late' = late /\ machine' = machine
  BY DueIs
<1>2. SendTypes' /\ Books(tasks, inbox)'
  BY <1>1 DEF SendIInv, SendTypes, KeepsGone
<1>3. SpinnerIsHonest'
  BY <1>1 DEF SendIInv, SpinnerIsHonest, StillHere
<1>4. WithdrawIsAwaited'
  <2>1. \A ms \in Withdrawing(scr) : \E u \in tasks : u.op = "withdraw" /\ u.ms = ms
    BY WithdrawAgain DEF SendIInv
  <2>2. \A ms \in Withdrawing(scr') : \E u \in tasks' : u.op = "withdraw" /\ u.ms = ms
    BY <2>1
  <2> QED
    BY <2>2 DEF WithdrawIsAwaited, Withdrawing
<1>5. \A m : AtMachine(m) => AtMachine(m)'
  BY <1>1, MachineStays DEF KeepsGone
<1>6. KeptInv'
  <2>1. ASSUME NEW m \in Msgs, said'.at[m] # None PROVE Safe(m)'
    <3>1. Safe(m)
      BY <2>1 DEF SendIInv, KeptInv, KeepsGone
    <3>2. CASE said.gone[m] # None \/ AtMachine(m)
      BY <1>5, <3>2 DEF Safe, KeepsGone
    <3>3. CASE t.op \in SendOps /\ t.at = "ok" /\ m \in t.ms
      <4>1. said.gone[m] # None \/ AtMachine(m) \/ Behind(inbox, t, m)
        BY <3>3 DEF SendIInv, KeptInv, SafeSent
      <4>2. Behind(inbox, t, m) => m \in Carried(tasks')
        BY <3>3, BehindCarried DEF SendIInv
      <4> QED
        BY <1>5, <4>1, <4>2 DEF Safe, KeepsGone
    <3>4. CASE m \in OnScreen(scr)
      BY <3>3, <3>4 DEF Safe
    <3>5. CASE m \in Carried(tasks)
      <4>1. PICK u \in tasks : Carries(u) /\ m \in u.ms
        BY <3>5 DEF Carried
      <4>2. CASE u = t
        BY <4>1, <4>2 DEF Safe
      <4>3. CASE u # t
        BY <4>1, <4>3 DEF Safe, Carried
      <4> QED
        BY <4>2, <4>3
    <3> QED
      BY <3>1, <3>2, <3>4, <3>5 DEF Safe
  <2>2. \A u \in tasks' : SafeSent(u)'
    BY <1>1, <1>5, SafeSentStays DEF KeepsGone
  <2> QED
    BY <2>1, <2>2 DEF KeptInv
<1>7. HomeInv'
  <2>1. ASSUME NEW m \in OnScreen(scr') \cup Chips(scr'), m \notin said'.strayed
        PROVE  said'.at[m] = view'.conv
    BY <1>1, <2>1, WhereScreen DEF KeepsGone, SendIInv, HomeInv, StillHere, SameTarget
  <2>2. StaysHome'
    BY <1>1, <2>1 DEF SendIInv, HomeInv, StaysHome, KeepsGone, Chips
  <2> QED
    BY <1>1, <2>2 DEF SendIInv, HomeInv, KeepsGone
<1> QED
  BY <1>2, <1>3, <1>4, <1>6, <1>7 DEF SendIInv

\* What sendMessage does to the text ms of conversation c: it stands on the screen, or a
\* call carries it.
Sent(s, c, ms, rest) ==
    /\ scr' \in Screens
    /\ Chips(scr') \subseteq Chips(s) \cup ms /\ Withdrawing(scr') = Withdrawing(s)
    /\ OnScreen(scr') \subseteq OnScreen(s) \cup ms /\ OnScreen(s) \subseteq OnScreen(scr') \cup ms
    /\ \/ tasks' = rest /\ scr'.sending = s.sending /\ ms \subseteq OnScreen(scr')
       \/ \E n \in Calls :
             /\ tasks' = rest \cup {n} /\ n.op \in SendOps /\ n.conv = c /\ n.ms = ms
             /\ n.visit = view.visit /\ n.at \in {"out", "lost"}
             /\ \A t \in tasks : t.op = n.op => t.no # n.no

LEMMA SendMessageIs ==
    ASSUME SendIInv, NEW s \in Screens, NEW c \in Convs, NEW ms \in SUBSET Msgs, NEW st,
           NEW listed, NEW repl \in BOOLEAN, NEW rest,
           SendMessage(s, c, ms, st, listed, repl, rest)
    PROVE  Sent(s, c, ms, rest)
<1>1. CASE st = "reconnecting"
  <2> DEFINE t == IF repl THEN DropFailed(s, ms) ELSE s
             u == IF s.pending = {} THEN t ELSE QueueFailed(t, s.pending, "notSent")
  <2>1. scr' = [u EXCEPT !.pending = ms] /\ tasks' = rest
    BY <1>1 DEF SendMessage
  <2>2. /\ t \in Screens /\ t.queue = s.queue /\ t.sending = s.sending
        /\ t.pending = s.pending /\ t.dropped = s.dropped /\ t.draft = s.draft
        /\ OnScreen(t) \subseteq OnScreen(s) /\ OnScreen(s) \subseteq OnScreen(t) \cup ms
    BY DropFailedIs
  <2>3. s.pending \in SUBSET Msgs /\ s.pending \subseteq OnScreen(s) /\ "notSent" \in FailKinds
    BY DEF Screens, OnScreen, FailKinds
  <2> HIDE DEF t
  <2>4. /\ u \in Screens /\ u.queue = s.queue /\ u.sending = s.sending
        /\ OnScreen(u) = OnScreen(t) \cup s.pending
    <3>1. CASE s.pending = {}
      BY <2>2, <3>1
    <3>2. CASE s.pending # {}
      BY <2>2, <2>3, <3>2, QueueFailedIs
    <3> QED
      BY <3>1, <3>2
  <2>4a. u.pending \subseteq UNION {f.ms : f \in u.failed}
    <3>1. CASE s.pending = {}
      BY <2>2, <3>1
    <3>2. CASE s.pending # {}
      <4>1. u = QueueFailed(t, s.pending, "notSent")
        BY <3>2
      <4>2. u.pending = s.pending
        BY <2>2, <2>3, <4>1, QueueFailedIs
      <4>3. [ms |-> s.pending, kind |-> "notSent"] \in u.failed
        BY <2>2, <4>1 DEF QueueFailed, Screens
      <4> QED
        BY <4>2, <4>3
    <3> QED
      BY <3>1, <3>2
  <2> HIDE DEF u
  <2>5. /\ scr' \in Screens /\ scr'.queue = u.queue /\ scr'.sending = u.sending
        /\ scr'.pending = ms /\ scr'.failed = u.failed /\ scr'.dropped = u.dropped
        /\ scr'.draft = u.draft
    BY <2>1, <2>4 DEF Screens
  <2>6. OnScreen(scr') = OnScreen(u) \cup ms
    BY <2>4a, <2>5 DEF OnScreen
  <2>7. Chips(scr') = Chips(s) /\ Withdrawing(scr') = Withdrawing(s)
    BY <2>4, <2>5, SameQueue
  <2> QED
    BY <2>1, <2>2, <2>3, <2>4, <2>5, <2>6, <2>7 DEF Sent
<1>2. CASE \E kind \in FailKinds : scr' = QueueFailed(s, ms, kind) /\ tasks' = rest
  <2>1. PICK kind \in FailKinds : scr' = QueueFailed(s, ms, kind) /\ tasks' = rest
    BY <1>2
  <2>2. /\ scr' \in Screens /\ scr'.queue = s.queue /\ scr'.sending = s.sending
        /\ OnScreen(scr') = OnScreen(s) \cup ms
    BY <2>1, QueueFailedIs
  <2>3. Chips(scr') = Chips(s) /\ Withdrawing(scr') = Withdrawing(s)
    BY <2>2, SameQueue
  <2> QED
    BY <2>1, <2>2, <2>3 DEF Sent
<1>3. CASE \E op \in SendOps :
              LET t == [s EXCEPT !.sending = TRUE]
              IN  /\ scr' = IF op = "steer" THEN Enqueue(t, ms) ELSE t
                  /\ tasks' = rest \cup {Ask(op, c, ms, view.visit, TRUE, repl)}
  <2> DEFINE t == [s EXCEPT !.sending = TRUE]
  <2>1. PICK op \in SendOps :
           /\ scr' = IF op = "steer" THEN Enqueue(t, ms) ELSE t
           /\ tasks' = rest \cup {Ask(op, c, ms, view.visit, TRUE, repl)}
    BY <1>3
  <2>2. /\ t \in Screens /\ t.failed = s.failed /\ t.pending = s.pending
        /\ t.queue = s.queue /\ t.dropped = s.dropped /\ t.draft = s.draft
    BY DEF Screens
  <2> HIDE DEF t
  <2>3. OnScreen(t) = OnScreen(s) /\ Chips(t) = Chips(s) /\ Withdrawing(t) = Withdrawing(s)
    BY <2>2, SameTexts
  <2>4. /\ scr' \in Screens /\ OnScreen(scr') = OnScreen(s)
        /\ Chips(scr') \subseteq Chips(s) \cup ms /\ Withdrawing(scr') = Withdrawing(s)
    BY <2>1, <2>2, <2>3, EnqueueIs
  <2>5. /\ view.visit \in Nat /\ SendTypes /\ Books(tasks, inbox)
        /\ op \in SendOps \cup MailOps
    BY <2>1 DEF SendIInv, SendTypes
  <2> DEFINE n == Ask(op, c, ms, view.visit, TRUE, repl)
  <2>6. tasks' = rest \cup {n}
    BY <2>1
  <2>7. /\ n \in Calls /\ n.op = op /\ n.conv = c /\ n.ms = ms /\ n.visit = view.visit
        /\ n.at \in {"out", "lost"} /\ \A u \in tasks : u.op = n.op => u.no # n.no
    BY <2>5, NumberIs DEF Ask, Books, Calls
  <2> HIDE DEF n
  <2> QED
    BY <2>1, <2>4, <2>6, <2>7 DEF Sent
<1> QED
  <2>1. CASE st # "reconnecting" /\ ~listed
    BY <1>2, <2>1 DEF SendMessage, FailKinds
  <2>2. CASE st # "reconnecting" /\ listed /\ CannotSteer(s, ms)
    BY <1>2, <2>2 DEF SendMessage, FailKinds
  <2>3. CASE st # "reconnecting" /\ listed /\ ~CannotSteer(s, ms)
    <3>1. Route(s, ms) \in SendOps
      BY DEF Route, SendOps
    <3> QED
      BY <1>3, <2>3, <3>1 DEF SendMessage
  <2> QED
    BY <1>1, <2>1, <2>2, <2>3 DEF SendMessage

\* A text is sent: from the composer, the waiting bubble, a failed one, or what was left of
\* a queue.
LEMMA SentStep ==
    ASSUME SendIInv, NEW s \in Screens, NEW c \in Convs, NEW ms \in SUBSET Msgs,
           NEW rest \in SUBSET tasks, Sent(s, c, ms, rest),
           view' = view, late' = late, machine' = machine,
           Books(rest, inbox'), StaysBehind(rest),
           \A t \in tasks \ rest : t.op \notin SendOps \cup {"withdraw"},
           s.sending = scr.sending, Withdrawing(s) \subseteq Withdrawing(scr),
           OnScreen(s) \subseteq OnScreen(scr) \cup Chips(scr), Chips(s) \subseteq Chips(scr),
           OnScreen(scr) \subseteq OnScreen(s) \cup ms,
           Carried(tasks) \subseteq Carried(rest) \cup ms,
           said' \in Histories, said'.got = said.got, said.strayed \subseteq said'.strayed,
           \A m \in Msgs : said.gone[m] # None => said'.gone[m] # None,
           \A m \in Msgs : \/ said'.at[m] = said.at[m]
                           \/ m \in ms /\ said.at[m] = None,
           \A m \in ms \ said'.strayed : said'.at[m] = c,
           c = view.conv \/ ms \subseteq said'.strayed
    PROVE  SendIInv'
<1>1. /\ scr' \in Screens
      /\ Chips(scr') \subseteq Chips(s) \cup ms /\ Withdrawing(scr') = Withdrawing(s)
      /\ OnScreen(scr') \subseteq OnScreen(s) \cup ms /\ OnScreen(s) \subseteq OnScreen(scr') \cup ms
  BY DEF Sent
<1> DEFINE New(n) == /\ n \in Calls
                     /\ tasks' = rest \cup {n} /\ n.op \in SendOps /\ n.conv = c /\ n.ms = ms
                     /\ n.visit = view.visit /\ n.at \in {"out", "lost"}
                     /\ \A t \in tasks : t.op = n.op => t.no # n.no
<1>2. \/ tasks' = rest /\ scr'.sending = s.sending /\ ms \subseteq OnScreen(scr')
      \/ \E n : New(n)
  BY DEF Sent
<1>3. \A t \in tasks' : t \in rest \/ New(t)
  BY <1>2
<1>4. rest \subseteq tasks'
  BY <1>2
<1>5. ASSUME NEW m \in ms PROVE m \in OnScreen(scr') \/ m \in Carried(tasks')
  <2>1. ASSUME NEW n, New(n) PROVE m \in Carried(tasks')
    <3>1. Carries(n) /\ n \in tasks' /\ m \in n.ms
      BY <2>1 DEF Carries
    <3> QED
      BY <3>1 DEF Carried
  <2> QED
    BY <1>2, <2>1
<1>6. Books(tasks', inbox')
  <2>1. ASSUME NEW n, New(n) PROVE Books(rest \cup {n}, inbox')
    <3>1. ~Answered(n) /\ n.op # "drain" /\ n \in Calls \cup Checks
      BY <2>1 DEF Answered, SendOps
    <3>2. \A t \in rest : t.op = n.op => t.no # n.no
      BY <2>1
    <3> QED
      BY <3>1, <3>2, BooksAsked
  <2> QED
    BY <1>2, <2>1
<1>7. \A t \in tasks' : t.visit <= view.visit
  BY <1>3 DEF SendIInv, SendTypes
<1>8. SendTypes'
  BY <1>1, <1>7 DEF SendIInv, SendTypes
<1>9. SpinnerIsHonest'
  <2>1. ASSUME NEW n, New(n) PROVE SpinnerIsHonest'
    BY <2>1 DEF SpinnerIsHonest, StillHere
  <2>2. CASE tasks' = rest /\ scr'.sending = s.sending
    BY <2>2 DEF SendIInv, SpinnerIsHonest, StillHere
  <2> QED
    BY <1>2, <2>1, <2>2
<1> HIDE DEF New
<1>10. WithdrawIsAwaited'
  <2>1. \A w \in Withdrawing(scr) : \E u \in tasks : u.op = "withdraw" /\ u.ms = w
    BY WithdrawAgain DEF SendIInv
  <2>2. \A w \in Withdrawing(scr') : \E u \in tasks' : u.op = "withdraw" /\ u.ms = w
    BY <1>1, <1>4, <2>1
  <2> QED
    BY <2>2 DEF WithdrawIsAwaited, Withdrawing
<1>11. \A m : AtMachine(m) => AtMachine(m)'
  BY MachineStays
<1>12. KeptInv'
  <2>1. ASSUME NEW m \in Msgs, said'.at[m] # None PROVE Safe(m)'
    <3>1. m \in ms \/ Safe(m)
      BY <2>1 DEF SendIInv, KeptInv
    <3>2. CASE m \in ms
      BY <1>5, <3>2 DEF Safe
    <3>3. CASE m \notin ms /\ m \in Carried(tasks)
      <4>1. m \in Carried(rest)
        BY <3>3
      <4>2. m \in Carried(tasks')
        BY <1>4, <4>1 DEF Carried
      <4> QED
        BY <4>2 DEF Safe
    <3>4. CASE m \notin ms /\ m \in OnScreen(scr)
      BY <1>1, <3>4 DEF Safe
    <3>5. CASE said.gone[m] # None \/ AtMachine(m)
      BY <1>11, <3>5 DEF Safe
    <3> QED
      BY <3>1, <3>2, <3>3, <3>4, <3>5 DEF Safe
  <2>2. \A t \in rest : SafeSent(t)'
    BY <1>11, SafeSentStays
  <2>3. ASSUME NEW t, New(t) PROVE SafeSent(t)'
    BY <2>3 DEF New, SafeSent
  <2> QED
    BY <1>3, <2>1, <2>2, <2>3 DEF KeptInv
<1>13. HomeInv'
  <2>1. \A m \in Msgs : m \notin said'.strayed /\ said.at[m] # None => said'.at[m] = said.at[m]
    OBVIOUS
  <2>2. view.conv \in Convs
    BY DEF SendIInv, SendTypes
  <2>3. ASSUME NEW m \in OnScreen(scr') \cup Chips(scr'), m \notin said'.strayed
        PROVE  said'.at[m] = view'.conv
    <3>1. CASE m \in ms
      BY <2>3, <3>1
    <3>2. CASE m \notin ms
      <4>1. m \in OnScreen(scr) \cup Chips(scr) /\ m \notin said.strayed
        BY <1>1, <2>3, <3>2
      <4>2. said.at[m] = view.conv /\ m \in Msgs
        BY <4>1, WhereScreen
      <4> QED
        BY <2>1, <2>2, <2>3, <4>2, NoneIsNoConv
    <3> QED
      BY <3>1, <3>2
  <2>4. ASSUME NEW m \in Msgs \ said'.strayed, NEW d \in Convs,
               <<m, d>> \in said'.got \/ m \in machine'.box[d]
        PROVE  said'.at[m] = d
    <3>1. said.at[m] = d
      BY <2>4 DEF SendIInv, HomeInv, StaysHome
    <3> QED
      BY <2>1, <2>4, <3>1, NoneIsNoConv
  <2>5. StaysHome'
    BY <2>3, <2>4 DEF StaysHome, Chips
  <2>6. \A t \in tasks' : t.visit = view'.visit =>
            t.conv = view'.conv \/ (t.op # "drain" /\ t.ms \subseteq said'.strayed)
    BY <1>3 DEF SendIInv, HomeInv, New, SendOps
  <2>7. \A t \in tasks' \cup late' : \A m \in t.ms \ said'.strayed : said'.at[m] = t.conv
    <3> SUFFICES ASSUME NEW t \in tasks' \cup late', NEW m \in t.ms \ said'.strayed
                 PROVE  said'.at[m] = t.conv
      OBVIOUS
    <3>1. CASE New(t)
      BY <3>1 DEF New
    <3>2. CASE t \in tasks \cup late
      <4>1. t.conv \in Convs /\ m \in Msgs
        BY <3>2 DEF SendIInv, SendTypes, Books, Calls, Checks, LateCalls
      <4>2. said.at[m] = t.conv
        BY <3>2 DEF SendIInv, HomeInv
      <4> QED
        BY <2>1, <4>1, <4>2, NoneIsNoConv
    <3> QED
      BY <1>3, <3>1, <3>2
  <2> QED
    BY <2>5, <2>6, <2>7 DEF HomeInv
<1> QED
  BY <1>6, <1>8, <1>9, <1>10, <1>12, <1>13 DEF SendIInv

\* The screen changes where the user looks.
LEMMA HereStep ==
    ASSUME SendIInv, scr' \in Screens, tasks' = tasks, late' = late, machine' = machine,
           view' = view, inbox' = inbox, KeepsGone(said'),
           scr'.sending = scr.sending, Withdrawing(scr') \subseteq Withdrawing(scr),
           OnScreen(scr') \cup Chips(scr') \subseteq OnScreen(scr) \cup Chips(scr),
           \A m \in OnScreen(scr) : m \in OnScreen(scr') \/ said'.gone[m] # None
    PROVE  SendIInv'
<1>1. Books(tasks, inbox') /\ StaysBehind(tasks)
  BY DEF SendIInv, StaysBehind
<1>2. /\ view'.conv = view.conv /\ view'.visit = view.visit /\ view'.left = view.left
      /\ view'.link \in {"connected", "reconnecting", "lost"}
      /\ view' = [conv |-> view'.conv, visit |-> view'.visit, link |-> view'.link,
                  left |-> view'.left]
  BY DEF SendIInv, SendTypes
<1> QED
  BY <1>1, <1>2, ScreenStep

LEMMA SaidStays ==
    ASSUME SendIInv
    PROVE  said \in Histories /\ KeepsGone(said) /\ scr \in Screens
  BY DEF SendIInv, SendTypes, KeepsGone

LEMMA GoneKeeps ==
    ASSUME SendIInv, NEW ms, NEW why \in {"letGo", "shed"}
    PROVE  KeepsGone(Gone(ms, why)) /\ \A m \in Msgs : m \in ms => Gone(ms, why).gone[m] # None
  BY SaidStays, GoneIs DEF KeepsGone

-----------------------------------------------------------------------------
(* The user's steps.                                                           *)

LEMMA DiscardFailedInv == ASSUME SendIInv, NEW f \in scr.failed, DiscardFailed(f) PROVE SendIInv'
<1>1. scr \in Screens /\ f.ms \in SUBSET Msgs
  BY SaidStays DEF Screens, FailedSends
<1>2. scr' = DropFailed(scr, f.ms) /\ said' = Gone(f.ms, "letGo")
  BY DEF DiscardFailed, LetGo
<1>3. /\ scr' \in Screens /\ scr'.queue = scr.queue /\ scr'.sending = scr.sending
      /\ OnScreen(scr') \subseteq OnScreen(scr) /\ OnScreen(scr) \subseteq OnScreen(scr') \cup f.ms
  BY <1>1, <1>2, DropFailedIs
<1>4. Chips(scr') = Chips(scr) /\ Withdrawing(scr') = Withdrawing(scr)
  BY <1>3, SameQueue
<1>5. KeepsGone(said') /\ \A m \in Msgs : m \in f.ms => said'.gone[m] # None
  BY <1>2, GoneKeeps
<1> QED
  BY <1>1, <1>3, <1>4, <1>5, HereStep DEF DiscardFailed

LEMMA CancelPendingInv == ASSUME SendIInv, CancelPending PROVE SendIInv'
<1>1. scr \in Screens /\ scr.pending \in SUBSET Msgs
  BY SaidStays DEF Screens
<1>2. scr' = [scr EXCEPT !.pending = {}] /\ said' = Gone(scr.pending, "letGo")
  BY DEF CancelPending, LetGo
<1>3. /\ scr' \in Screens /\ scr'.queue = scr.queue /\ scr'.sending = scr.sending
      /\ OnScreen(scr') \subseteq OnScreen(scr)
      /\ OnScreen(scr) \subseteq OnScreen(scr') \cup scr.pending
  BY <1>1, <1>2 DEF Screens, OnScreen
<1>4. Chips(scr') = Chips(scr) /\ Withdrawing(scr') = Withdrawing(scr)
  BY <1>3, SameQueue
<1>5. KeepsGone(said') /\ \A m \in Msgs : m \in scr.pending => said'.gone[m] # None
  BY <1>2, GoneKeeps
<1> QED
  BY <1>1, <1>3, <1>4, <1>5, HereStep DEF CancelPending

LEMMA RestoreDroppedInv == ASSUME SendIInv, RestoreDropped PROVE SendIInv'
<1>1. scr \in Screens
  BY SaidStays
<1>2. scr' = [scr EXCEPT !.draft = scr.draft \cup scr.dropped, !.dropped = {}] /\ said' = said
  BY DEF RestoreDropped
<1>3. /\ scr' \in Screens /\ scr'.queue = scr.queue /\ scr'.sending = scr.sending
      /\ OnScreen(scr') = OnScreen(scr)
  BY <1>1, <1>2 DEF Screens, OnScreen
<1>4. Chips(scr') = Chips(scr) /\ Withdrawing(scr') = Withdrawing(scr)
  BY <1>3, SameQueue
<1> QED
  BY <1>2, <1>3, <1>4, HereStep, SaidStays DEF RestoreDropped

LEMMA DiscardDroppedInv == ASSUME SendIInv, DiscardDropped PROVE SendIInv'
<1>1. scr \in Screens /\ scr.dropped \in SUBSET Msgs
  BY SaidStays DEF Screens
<1>2. scr' = [scr EXCEPT !.dropped = {}] /\ said' = Gone(scr.dropped, "letGo")
  BY DEF DiscardDropped, LetGo
<1>3. /\ scr' \in Screens /\ scr'.queue = scr.queue /\ scr'.sending = scr.sending
      /\ OnScreen(scr') \subseteq OnScreen(scr)
      /\ OnScreen(scr) \subseteq OnScreen(scr') \cup scr.dropped
  BY <1>1, <1>2 DEF Screens, OnScreen
<1>4. Chips(scr') = Chips(scr) /\ Withdrawing(scr') = Withdrawing(scr)
  BY <1>3, SameQueue
<1>5. KeepsGone(said') /\ \A m \in Msgs : m \in scr.dropped => said'.gone[m] # None
  BY <1>2, GoneKeeps
<1> QED
  BY <1>1, <1>3, <1>4, <1>5, HereStep DEF DiscardDropped

\* The composer's text is a new one of this conversation, with what stood there before.
LEMMA SubmitInv == ASSUME SendIInv, NEW new \in SUBSET Msgs, Submit(new) PROVE SendIInv'
<1> DEFINE s == [scr EXCEPT !.draft = {}]
           ms == scr.draft \cup new
           at == [m \in Msgs |-> IF m \in new THEN view.conv ELSE said.at[m]]
<1>1. /\ scr \in Screens /\ said \in Histories /\ view.conv \in Convs
      /\ view' = view /\ late' = late /\ machine' = machine /\ inbox' = inbox
  BY DEF SendIInv, SendTypes, Submit
<1>2. /\ s \in Screens /\ s.queue = scr.queue /\ s.sending = scr.sending /\ ms \in SUBSET Msgs
      /\ OnScreen(s) \subseteq OnScreen(scr) /\ OnScreen(scr) \subseteq OnScreen(s) \cup ms
  BY <1>1 DEF Screens, OnScreen
<1>3. Chips(s) = Chips(scr) /\ Withdrawing(s) = Withdrawing(scr)
  BY <1>2, SameQueue
<1>4. /\ SendMessage(s, view.conv, ms, ViewStatus, scr.att # "none", FALSE, tasks)
      /\ said' = [said EXCEPT !.at = at] /\ \A m \in new : said.at[m] = None
  BY DEF Submit
<1>5. /\ said' \in Histories /\ said'.at = at /\ said'.got = said.got /\ said'.gone = said.gone
      /\ said'.strayed = said.strayed
  <2>1. at \in [Msgs -> Convs \cup {None}]
    BY <1>1 DEF Histories
  <2> HIDE DEF at
  <2> QED
    BY <1>1, <1>4, <2>1 DEF Histories
<1>6. ms \subseteq new \cup OnScreen(scr)
  BY DEF OnScreen
<1>7. \A m \in Msgs : said'.at[m] = said.at[m] \/ (m \in ms /\ said.at[m] = None)
  BY <1>4, <1>5
<1>8. \A m \in ms \ said'.strayed : said'.at[m] = view.conv
  BY <1>2, <1>5, <1>6, WhereScreen
<1> HIDE DEF s, ms, at
<1>9. Sent(s, view.conv, ms, tasks)
  BY <1>1, <1>2, <1>4, SendMessageIs
<1>10. Books(tasks, inbox') /\ StaysBehind(tasks)
  BY <1>1 DEF SendIInv, StaysBehind
<1> QED
  BY <1>1, <1>2, <1>3, <1>5, <1>7, <1>8, <1>9, <1>10, SentStep

\* A request of this visit is made.
LEMMA AskedStep ==
    ASSUME SendIInv, NEW n \in Calls \cup Checks, tasks' = tasks \cup {n}, ~Answered(n),
           n.op = "drain" => n.ms = {}, \A t \in tasks : t.op = n.op => t.no # n.no,
           n.conv = view.conv, n.visit = view.visit,
           \A m \in n.ms \ said.strayed : said.at[m] = view.conv,
           view' = view, late' = late, machine' = machine, inbox' = inbox, said' = said,
           scr' \in Screens, scr'.sending = scr.sending,
           OnScreen(scr') = OnScreen(scr), Chips(scr') = Chips(scr),
           Withdrawing(scr') \subseteq Withdrawing(scr) \cup {ms \in {n.ms} : n.op = "withdraw"}
    PROVE  SendIInv'
<1>1. Books(tasks', inbox')
  BY BooksAsked DEF SendIInv
<1>2. SendTypes'
  BY DEF SendIInv, SendTypes
<1>3. SpinnerIsHonest'
  BY DEF SendIInv, SpinnerIsHonest, StillHere
<1>4. WithdrawIsAwaited'
  <2>1. \A ms \in Withdrawing(scr) : \E u \in tasks : u.op = "withdraw" /\ u.ms = ms
    BY WithdrawAgain DEF SendIInv
  <2>2. \A ms \in Withdrawing(scr') : \E u \in tasks' : u.op = "withdraw" /\ u.ms = ms
    BY <2>1
  <2> QED
    BY <2>2 DEF WithdrawIsAwaited, Withdrawing
<1>5. \A m : AtMachine(m) => AtMachine(m)'
  BY MachineStays
<1>6. KeptInv'
  <2>1. Carried(tasks) \subseteq Carried(tasks')
    BY DEF Carried
  <2>2. ASSUME NEW m \in Msgs, said'.at[m] # None PROVE Safe(m)'
    <3>1. Safe(m)
      BY <2>2 DEF SendIInv, KeptInv
    <3> QED
      BY <1>5, <2>1, <3>1 DEF Safe
  <2>3. StaysBehind(tasks)
    BY DEF StaysBehind
  <2>4. \A t \in tasks : SafeSent(t)'
    BY <1>5, <2>3, SafeSentStays
  <2>5. SafeSent(n)'
    BY DEF SafeSent, Answered, SendOps
  <2> QED
    BY <2>2, <2>4, <2>5 DEF KeptInv
<1>7. HomeInv'
  <2>1. StaysHome'
    BY DEF SendIInv, HomeInv, StaysHome, Chips
  <2> QED
    BY <2>1 DEF SendIInv, HomeInv
<1> QED
  BY <1>1, <1>2, <1>3, <1>4, <1>6, <1>7 DEF SendIInv

LEMMA RequestIs ==
    ASSUME SendIInv, NEW op \in {"cancel", "withdraw"}, NEW i \in scr.queue, Request(op, i.ms)
    PROVE  \E n \in Calls :
              /\ tasks' = tasks \cup {n} /\ ~Answered(n) /\ n.op = op /\ n.ms = i.ms
              /\ \A t \in tasks : t.op = n.op => t.no # n.no
              /\ n.conv = view.conv /\ n.visit = view.visit
              /\ \A m \in n.ms \ said.strayed : said.at[m] = view.conv
<1> DEFINE n == Ask(op, view.conv, i.ms, view.visit, TRUE, FALSE)
<1>1. tasks' = tasks \cup {n}
  BY DEF Request
<1>2. i.ms \in SUBSET Msgs /\ i.ms \subseteq Chips(scr)
  BY SaidStays DEF Screens, ChipTypes, Chips, ChipMsgs
<1>3. IsFiniteSet(tasks) /\ view.visit \in Nat /\ view.conv \in Convs
  BY DEF SendIInv, SendTypes, Books
<1>4. /\ n \in Calls /\ n.op = op /\ n.conv = view.conv /\ n.ms = i.ms /\ n.visit = view.visit
      /\ n.at \in {"out", "lost"} /\ \A t \in tasks : t.op = n.op => t.no # n.no
  BY <1>2, <1>3, NumberIs DEF Ask, Calls, MailOps
<1> HIDE DEF n
<1>5. \A m \in n.ms \ said.strayed : said.at[m] = view.conv
  BY <1>2, <1>4, WhereScreen
<1> QED
  BY <1>1, <1>4, <1>5 DEF Answered

LEMMA CancelInv == ASSUME SendIInv, NEW i \in scr.queue, Cancel(i) PROVE SendIInv'
<1>1. PICK n \in Calls :
         /\ tasks' = tasks \cup {n} /\ ~Answered(n) /\ n.op = "cancel" /\ n.ms = i.ms
         /\ \A t \in tasks : t.op = n.op => t.no # n.no
         /\ n.conv = view.conv /\ n.visit = view.visit
         /\ \A m \in n.ms \ said.strayed : said.at[m] = view.conv
  BY RequestIs DEF Cancel
<1> QED
  BY <1>1, AskedStep, SaidStays DEF Cancel

LEMMA WithdrawInv == ASSUME SendIInv, NEW i \in scr.queue, Withdraw(i) PROVE SendIInv'
<1>1. PICK n \in Calls :
         /\ tasks' = tasks \cup {n} /\ ~Answered(n) /\ n.op = "withdraw" /\ n.ms = i.ms
         /\ \A t \in tasks : t.op = n.op => t.no # n.no
         /\ n.conv = view.conv /\ n.visit = view.visit
         /\ \A m \in n.ms \ said.strayed : said.at[m] = view.conv
  BY RequestIs DEF Withdraw
<1>2. scr \in Screens /\ i.ms \in SUBSET Msgs /\ scr' = Restate(scr, i.ms, "withdrawing")
  BY SaidStays DEF Screens, ChipTypes, Withdraw
<1>3. /\ scr' \in Screens /\ scr'.sending = scr.sending /\ OnScreen(scr') = OnScreen(scr)
      /\ Chips(scr') = Chips(scr) /\ Withdrawing(scr') \subseteq Withdrawing(scr) \cup {i.ms}
  BY <1>2, RestateIs
<1> QED
  BY <1>1, <1>3, AskedStep DEF Withdraw

\* What a step of this visit sends from the screen: the waiting text, or a failed one.
LEMMA SendHere ==
    ASSUME SendIInv, NEW s \in Screens, NEW ms \in SUBSET Msgs, NEW st, NEW listed,
           NEW repl \in BOOLEAN, SendMessage(s, view.conv, ms, st, listed, repl, tasks),
           view' = view, late' = late, machine' = machine, inbox' = inbox, said' = said,
           s.sending = scr.sending, s.queue = scr.queue, OnScreen(s) \subseteq OnScreen(scr),
           OnScreen(scr) \subseteq OnScreen(s) \cup ms, ms \subseteq OnScreen(scr)
    PROVE  SendIInv'
<1>1. Chips(s) = Chips(scr) /\ Withdrawing(s) = Withdrawing(scr)
  BY SameQueue
<1>2. Sent(s, view.conv, ms, tasks)
  BY SendMessageIs DEF SendIInv, SendTypes
<1>3. Books(tasks, inbox') /\ StaysBehind(tasks) /\ view.conv \in Convs
  BY DEF SendIInv, SendTypes, StaysBehind
<1>4. \A m \in ms \ said'.strayed : said'.at[m] = view.conv
  BY WhereScreen
<1>5. said' \in Histories
  BY SaidStays
<1> QED
  BY <1>1, <1>2, <1>3, <1>4, <1>5, SentStep

LEMMA PendingGoesInv == ASSUME SendIInv, PendingGoes PROVE SendIInv'
<1> DEFINE s == [scr EXCEPT !.pending = {}]
<1>1. /\ s \in Screens /\ s.queue = scr.queue /\ s.sending = scr.sending
      /\ scr.pending \in SUBSET Msgs /\ OnScreen(s) \subseteq OnScreen(scr)
      /\ OnScreen(scr) = OnScreen(s) \cup scr.pending
  BY SaidStays DEF Screens, OnScreen
<1>2. ASSUME SendMessage(s, view.conv, scr.pending, "connected", TRUE, FALSE, tasks)
      PROVE  SendIInv'
  <2> HIDE DEF s
  <2> QED
    BY <1>1, <1>2, SendHere DEF PendingGoes
<1>3. ASSUME scr' = QueueFailed(s, scr.pending, "notSent"), tasks' = tasks
      PROVE  SendIInv'
  <2> HIDE DEF s
  <2>1. /\ scr' \in Screens /\ scr'.queue = s.queue /\ scr'.sending = s.sending
        /\ OnScreen(scr') = OnScreen(s) \cup scr.pending
    BY <1>1, <1>3, QueueFailedIs DEF FailKinds
  <2>2. Chips(scr') = Chips(scr) /\ Withdrawing(scr') = Withdrawing(scr)
    BY <1>1, <2>1, SameQueue
  <2> QED
    BY <1>1, <1>3, <2>1, <2>2, HereStep, SaidStays DEF PendingGoes
<1> QED
  BY <1>2, <1>3 DEF PendingGoes

LEMMA RetryFailedInv == ASSUME SendIInv, NEW f \in scr.failed, RetryFailed(f) PROVE SendIInv'
<1>1. scr \in Screens /\ f.ms \in SUBSET Msgs /\ f.ms \subseteq OnScreen(scr)
  BY SaidStays DEF Screens, FailedSends, OnScreen
<1>2. CASE f.kind = "transport"
  <2> DEFINE n == [op |-> "check", conv |-> view.conv, ms |-> f.ms, visit |-> view.visit,
                   st |-> ViewStatus, listed |-> scr.att # "none", at |-> "out",
                   no |-> Number("check")]
  <2>1. tasks' = tasks \cup {n} /\ scr' = scr
    BY <1>2 DEF RetryFailed
  <2>2. ViewStatus \in Statuses /\ view.conv \in Convs /\ view.visit \in Nat /\ IsFiniteSet(tasks)
    BY DEF ViewStatus, Statuses, SendIInv, SendTypes, Books
  <2>3. n \in Checks /\ \A t \in tasks : t.op = n.op => t.no # n.no
    BY <1>1, <2>2, NumberIs DEF Checks
  <2>4. n.op = "check" /\ n.conv = view.conv /\ n.ms = f.ms /\ n.visit = view.visit
    OBVIOUS
  <2> HIDE DEF n
  <2>5. \A m \in n.ms \ said.strayed : said.at[m] = view.conv
    BY <1>1, <2>4, WhereScreen
  <2> QED
    BY <1>1, <2>1, <2>3, <2>4, <2>5, AskedStep DEF Answered, RetryFailed
<1>3. CASE f.kind # "transport"
  <2>1. SendMessage(scr, view.conv, f.ms, ViewStatus, scr.att # "none", TRUE, tasks)
    BY <1>3 DEF RetryFailed
  <2> QED
    BY <1>1, <2>1, SendHere DEF RetryFailed
<1> QED
  BY <1>2, <1>3

-----------------------------------------------------------------------------
(* Answers.                                                                    *)

\* The catch-up before a retry is over.
LEMMA CheckDoneInv == ASSUME SendIInv, NEW t \in tasks, CheckDone(t) PROVE SendIInv'
<1> DEFINE rest == tasks \ {t}
<1>1. /\ t.conv \in Convs /\ t.ms \in SUBSET Msgs /\ t.op = "check"
      /\ view' = view /\ late' = late /\ machine' = machine /\ inbox' = inbox
      /\ SendMessage(scr, t.conv, t.ms, t.st, t.listed, TRUE, rest)
      /\ said' = IF StillHere(t) THEN said ELSE [said EXCEPT !.strayed = said.strayed \cup t.ms]
  BY DEF SendIInv, Books, Calls, Checks, CheckDone
<1>2. Books(rest, inbox') /\ StaysBehind(rest)
  <2>1. ~Answered(t) /\ Books(tasks, inbox)
    BY <1>1 DEF Answered, SendIInv
  <2>2. Books(rest, inbox)
    BY <2>1, BooksGivenUp
  <2> QED
    BY <1>1, <2>2 DEF StaysBehind
<1>3. Carried(tasks) \subseteq Carried(rest) \cup t.ms
  BY DEF Carried
<1> HIDE DEF rest
<1>4. rest \subseteq tasks /\ \A u \in tasks \ rest : u.op \notin SendOps \cup {"withdraw"}
  BY <1>1 DEF rest, SendOps
<1>5. Sent(scr, t.conv, t.ms, rest) /\ scr \in Screens
  BY <1>1, SendMessageIs, SaidStays
<1>6. /\ said' \in Histories /\ said'.got = said.got /\ said.strayed \subseteq said'.strayed
      /\ said'.gone = said.gone /\ said'.at = said.at
      /\ ~StillHere(t) => t.ms \subseteq said'.strayed
  <2>1. said \in Histories
    BY SaidStays
  <2> QED
    BY <1>1, <2>1 DEF Histories
<1>7. \A m \in t.ms \ said'.strayed : said'.at[m] = t.conv
  BY <1>6 DEF SendIInv, HomeInv
<1>8. t.conv = view.conv \/ t.ms \subseteq said'.strayed
  BY <1>6 DEF SendIInv, HomeInv, StillHere
<1> QED
  BY <1>1, <1>2, <1>3, <1>4, <1>5, <1>6, <1>7, <1>8, SentStep

\* The machine accepted a send: its failed bubble goes.
LEMMA SendSucceedsInv == ASSUME SendIInv, NEW t \in tasks, SendSucceeds(t) PROVE SendIInv'
<1> DEFINE chip == IF t.op = "steer" THEN Restate(scr, t.ms, "queued") ELSE scr
           gone == IF t.repl /\ t.op # "compact" THEN DropFailed(chip, t.ms) ELSE chip
           done == [MarkActive(gone, TRUE) EXCEPT !.pinned = FALSE, !.sending = FALSE]
<1>1. /\ t.ms \in SUBSET Msgs /\ scr \in Screens /\ Due(t) /\ t.op \in SendOps /\ t.at = "ok"
      /\ scr' = (IF StillHere(t) THEN done ELSE chip)
      /\ tasks' = tasks \ {t} /\ KeepsGone(said')
  BY SaidStays DEF SendIInv, Books, Calls, Checks, SendSucceeds
<1>2. /\ chip \in Screens /\ chip.sending = scr.sending /\ OnScreen(chip) = OnScreen(scr)
      /\ Chips(chip) = Chips(scr) /\ Withdrawing(chip) \subseteq Withdrawing(scr)
  <2>1. CASE t.op = "steer"
    <3>1. chip = Restate(scr, t.ms, "queued")
      BY <2>1
    <3> QED
      BY <1>1, <3>1, RestateIs
  <2> QED
    BY <1>1, <2>1
<1> HIDE DEF chip
<1>3. /\ gone \in Screens /\ gone.queue = chip.queue /\ gone.sending = scr.sending
      /\ OnScreen(gone) \subseteq OnScreen(scr) /\ OnScreen(scr) \subseteq OnScreen(gone) \cup t.ms
  BY <1>1, <1>2, DropFailedIs
<1> HIDE DEF gone
<1>4. Chips(gone) = Chips(scr) /\ Withdrawing(gone) \subseteq Withdrawing(scr)
  BY <1>2, <1>3, SameQueue
<1>5. /\ done \in Screens /\ done.sending = FALSE /\ done.failed = gone.failed
      /\ done.pending = gone.pending /\ done.queue = gone.queue
      /\ done.dropped = gone.dropped /\ done.draft = gone.draft
  BY <1>3 DEF Screens, MarkActive
<1> HIDE DEF done
<1>6. OnScreen(done) = OnScreen(gone) /\ Chips(done) = Chips(gone) /\ Withdrawing(done) = Withdrawing(gone)
  BY <1>5, SameTexts
<1>7. t.op # "withdraw" /\ ~Carries(t)
  BY <1>1 DEF SendOps, MailOps, Carries
<1>8. CASE StillHere(t)
  <2>1. scr' = done
    BY <1>1, <1>8
  <2> QED
    BY <1>1, <1>3, <1>4, <1>5, <1>6, <1>7, <2>1, TakenStep
<1>9. CASE ~StillHere(t)
  <2>1. scr' = chip
    BY <1>1, <1>9
  <2> QED
    BY <1>1, <1>2, <1>7, <1>9, <2>1, TakenStep
<1> QED
  BY <1>8, <1>9

LEMMA UnchippedIs ==
    ASSUME SendIInv, NEW t
    PROVE  LET u == Unchipped(t) IN
           /\ u \in Screens /\ u.sending = scr.sending /\ OnScreen(u) = OnScreen(scr)
           /\ Chips(u) \subseteq Chips(scr) /\ Withdrawing(u) \subseteq Withdrawing(scr)
<1> DEFINE u == Unchipped(t)
<1>1. scr \in Screens
  BY SaidStays
<1>2. /\ u \in Screens /\ u.sending = scr.sending /\ u.failed = scr.failed
      /\ u.pending = scr.pending /\ u.dropped = scr.dropped /\ u.draft = scr.draft
      /\ u.queue \subseteq scr.queue
  BY <1>1 DEF Unchipped, Screens
<1> HIDE DEF u
<1>3. OnScreen(u) = OnScreen(scr)
  BY <1>2 DEF OnScreen
<1>4. Chips(u) \subseteq Chips(scr) /\ Withdrawing(u) \subseteq Withdrawing(scr)
  BY <1>2 DEF Chips, ChipMsgs, Withdrawing
<1> QED
  BY <1>2, <1>3, <1>4 DEF u

LEMMA SendFailsInv == ASSUME SendIInv, NEW t \in tasks, SendFails(t) PROVE SendIInv'
<1> DEFINE s == Unchipped(t)
           base == IF t.repl THEN DropFailed(s, t.ms) ELSE s
           pin == [base EXCEPT !.pinned = TRUE]
           queued == QueueFailed(s, t.ms, FailureKind(t))
           unavailable == FailureKind(t) = "executionUnavailable"
           told == IF unavailable THEN pin ELSE queued
<1>1. /\ t.ms \in SUBSET Msgs /\ Due(t) /\ t.op \in SendOps /\ tasks' = tasks \ {t}
      /\ scr' = (IF StillHere(t) THEN [told EXCEPT !.sending = FALSE] ELSE s)
      /\ said' = (IF StillHere(t) /\ ~unavailable THEN said ELSE Gone(t.ms, "shed"))
  BY DEF SendIInv, Books, Calls, Checks, SendFails, Shed
<1>2. /\ s \in Screens /\ s.sending = scr.sending /\ OnScreen(s) = OnScreen(scr)
      /\ Chips(s) \subseteq Chips(scr) /\ Withdrawing(s) \subseteq Withdrawing(scr)
  BY UnchippedIs
<1> HIDE DEF s
<1>3. KeepsGone(said')
  BY <1>1, GoneKeeps, SaidStays
<1>4. ~(StillHere(t) /\ ~unavailable) => \A m \in t.ms : said'.gone[m] # None
  BY <1>1, GoneKeeps
<1>5. t.op # "withdraw"
  BY <1>1 DEF SendOps
<1>6. CASE ~StillHere(t)
  <2>1. scr' = s
    BY <1>1, <1>6
  <2> QED
    BY <1>1, <1>2, <1>3, <1>4, <1>5, <1>6, <2>1, TakenStep
<1>7. CASE StillHere(t)
  <2>1. scr' = [told EXCEPT !.sending = FALSE]
    BY <1>1, <1>7
  <2>2. CASE unavailable
    <3>1. /\ base \in Screens /\ base.queue = s.queue /\ OnScreen(base) \subseteq OnScreen(s)
          /\ OnScreen(s) \subseteq OnScreen(base) \cup t.ms
      BY <1>1, <1>2, DropFailedIs
    <3>2. told = pin
      BY <2>2
    <3> HIDE DEF base
    <3>3. /\ scr' \in Screens /\ scr'.sending = FALSE /\ scr'.failed = base.failed
          /\ scr'.pending = base.pending /\ scr'.queue = base.queue
          /\ scr'.dropped = base.dropped /\ scr'.draft = base.draft
      BY <2>1, <3>1, <3>2 DEF Screens
    <3>4. /\ OnScreen(scr') = OnScreen(base) /\ Chips(scr') = Chips(s)
          /\ Withdrawing(scr') = Withdrawing(s)
      BY <3>1, <3>3, SameTexts, SameQueue
    <3> QED
      BY <1>1, <1>2, <1>3, <1>4, <1>5, <1>7, <2>2, <3>1, <3>3, <3>4, TakenStep
  <2>3. CASE ~unavailable
    <3>1. FailureKind(t) \in FailKinds
      BY <2>3 DEF FailureKind, FailKinds
    <3>2. /\ queued \in Screens /\ queued.queue = s.queue
          /\ OnScreen(queued) = OnScreen(s) \cup t.ms
      BY <1>1, <1>2, <3>1, QueueFailedIs
    <3>3. told = queued
      BY <2>3
    <3> HIDE DEF queued
    <3>4. /\ scr' \in Screens /\ scr'.sending = FALSE /\ scr'.failed = queued.failed
          /\ scr'.pending = queued.pending /\ scr'.queue = queued.queue
          /\ scr'.dropped = queued.dropped /\ scr'.draft = queued.draft
      BY <2>1, <3>2, <3>3 DEF Screens
    <3>5. /\ OnScreen(scr') = OnScreen(queued) /\ Chips(scr') = Chips(s)
          /\ Withdrawing(scr') = Withdrawing(s)
      BY <3>2, <3>4, SameTexts, SameQueue
    <3> QED
      BY <1>1, <1>2, <1>3, <1>5, <1>7, <3>2, <3>4, <3>5, TakenStep
  <2> QED
    BY <2>2, <2>3
<1> QED
  BY <1>6, <1>7

\* A mailbox answer: what it removed leaves the queue, and goes back or is let go.
LEMMA WithdrawnInv == ASSUME SendIInv, NEW t \in tasks, Withdrawn(t) PROVE SendIInv'
<1> DEFINE st == IF t.at = "kept" THEN "queued" ELSE "locked"
           restated == t.op = "withdraw" \/ t.at # "kept"
           s == IF t.at = "ok" THEN DropChips(scr, t.ms)
                ELSE IF restated THEN Restate(scr, t.ms, st) ELSE scr
           back == t.op = "withdraw" /\ t.at = "ok"
<1>1. /\ t.ms \in SUBSET Msgs /\ scr \in Screens /\ Due(t) /\ tasks' = tasks \ {t}
      /\ t.op \in {"cancel", "withdraw"}
      /\ scr' = (IF back /\ SameTarget(t) THEN [s EXCEPT !.draft = s.draft \cup t.ms] ELSE s)
      /\ said' = (IF t.at = "ok" /\ ~(back /\ SameTarget(t)) THEN Gone(t.ms, "letGo") ELSE said)
  BY SaidStays DEF SendIInv, Books, Calls, Checks, Withdrawn, LetGo
<1>2. /\ s \in Screens /\ s.sending = scr.sending /\ OnScreen(s) = OnScreen(scr)
      /\ Chips(s) \subseteq Chips(scr) /\ Withdrawing(s) \subseteq Withdrawing(scr)
      /\ t.op = "withdraw" => t.ms \notin Withdrawing(s)
  <2>1. CASE t.at = "ok"
    <3>1. s = DropChips(scr, t.ms)
      BY <2>1
    <3> QED
      BY <1>1, <3>1, DropChipsIs
  <2>2. CASE t.at # "ok" /\ restated
    <3>1. s = Restate(scr, t.ms, st)
      BY <2>2
    <3>2. st \in {"local", "queued", "withdrawing", "locked"} /\ st # "withdrawing"
      OBVIOUS
    <3> HIDE DEF st
    <3> QED
      BY <1>1, <3>1, <3>2, RestateIs
  <2>3. CASE t.at # "ok" /\ ~restated
    BY <1>1, <2>3
  <2> QED
    BY <2>1, <2>2, <2>3
<1> HIDE DEF s
<1>3. KeepsGone(said')
  BY <1>1, GoneKeeps, SaidStays
<1>4. t.op \notin SendOps /\ (Carries(t) <=> t.at = "ok")
  BY <1>1 DEF SendOps, MailOps, Carries
<1>5. CASE back /\ SameTarget(t)
  <2>1. scr' = [s EXCEPT !.draft = s.draft \cup t.ms]
    BY <1>1, <1>5
  <2>2. /\ scr' \in Screens /\ scr'.sending = scr.sending /\ scr'.queue = s.queue
        /\ OnScreen(scr') = OnScreen(s) \cup t.ms
    BY <1>1, <1>2, <2>1 DEF Screens, OnScreen
  <2>3. Chips(scr') = Chips(s) /\ Withdrawing(scr') = Withdrawing(s)
    BY <2>2, SameQueue
  <2> QED
    BY <1>1, <1>2, <1>3, <1>4, <1>5, <2>2, <2>3, TakenStep
<1>6. CASE ~(back /\ SameTarget(t))
  <2>1. scr' = s
    BY <1>1, <1>6
  <2>2. t.at = "ok" => \A m \in t.ms : said'.gone[m] # None
    BY <1>1, <1>6, GoneKeeps
  <2> QED
    BY <1>1, <1>2, <1>3, <1>4, <2>1, <2>2, TakenStep
<1> QED
  BY <1>5, <1>6

\* A mailbox that was drained after a turn: what was left is sent as the next one.
LEMMA DrainedInv == ASSUME SendIInv, NEW t \in tasks, Drained(t) PROVE SendIInv'
<1> DEFINE s == IF t.at = "ok" THEN DropChips(scr, t.ms) ELSE scr
           e == EndTurn(s)
           rest == tasks \ {t}
<1>1. /\ t.ms \in SUBSET Msgs /\ t.conv \in Convs /\ scr \in Screens /\ Due(t) /\ t.op = "drain"
      /\ said \in Histories
  BY SaidStays DEF SendIInv, Books, Calls, Checks, Drained
<1>2. \/ scr' = scr /\ tasks' = rest /\ said' = Gone(t.ms, "shed")
      \/ /\ StillHere(t) /\ t.ms = {}
         /\ scr' = e /\ said' = Gone(ShedByBanner(s), "shed") /\ tasks' = rest
      \/ /\ StillHere(t) /\ t.ms # {}
         /\ SendMessage(e, t.conv, t.ms, "connected", TRUE, FALSE, rest)
         /\ said' = Gone(ShedByBanner(s), "shed")
  BY DEF Drained, Shed
<1>3. /\ s \in Screens /\ s.sending = scr.sending /\ OnScreen(s) = OnScreen(scr)
      /\ Chips(s) \subseteq Chips(scr)
  <2>1. CASE t.at = "ok"
    BY <1>1, <2>1, DropChipsIs
  <2>2. CASE t.at # "ok"
    BY <1>1, <2>2
  <2> QED
    BY <2>1, <2>2
<1> HIDE DEF s
<1>4. /\ e \in Screens /\ e.sending = scr.sending /\ OnScreen(scr) \subseteq OnScreen(e)
      /\ OnScreen(e) \subseteq OnScreen(scr) \cup Chips(scr)
      /\ Chips(e) = {} /\ Withdrawing(e) = {}
  BY <1>3, EndTurnIs
<1> HIDE DEF e
<1>5. t.op \notin SendOps \cup {"withdraw"}
  BY <1>1 DEF SendOps
<1>6. ASSUME scr' = scr, tasks' = rest, said' = Gone(t.ms, "shed") PROVE SendIInv'
  <2>1. KeepsGone(said') /\ \A m \in t.ms : said'.gone[m] # None
    BY <1>1, <1>6, GoneKeeps
  <2> QED
    BY <1>1, <1>5, <1>6, <2>1, TakenStep
<1>7. ASSUME t.ms = {}, scr' = e, tasks' = rest, said' = Gone(ShedByBanner(s), "shed")
      PROVE  SendIInv'
  <2>1. KeepsGone(said')
    BY <1>7, GoneKeeps
  <2> QED
    BY <1>1, <1>4, <1>5, <1>7, <2>1, TakenStep
<1>8. ASSUME StillHere(t), SendMessage(e, t.conv, t.ms, "connected", TRUE, FALSE, rest),
             said' = Gone(ShedByBanner(s), "shed")
      PROVE  SendIInv'
  <2>1. KeepsGone(said')
    BY <1>8, GoneKeeps
  <2>2. Sent(e, t.conv, t.ms, rest)
    BY <1>1, <1>4, <1>8, SendMessageIs
  <2>3. /\ Books(rest, inbox') /\ StaysBehind(rest)
        /\ view' = view /\ late' = late /\ machine' = machine
    BY <1>1, DueIs
  <2>4. Carried(tasks) \subseteq Carried(rest) \cup t.ms
    BY DEF Carried
  <2>5. \A m \in t.ms \ said'.strayed : said'.at[m] = t.conv
    BY <2>1 DEF SendIInv, HomeInv, KeepsGone
  <2>6. t.conv = view.conv \/ t.ms \subseteq said'.strayed
    BY <1>8, <2>1 DEF SendIInv, HomeInv, StillHere, KeepsGone
  <2>7. /\ said' \in Histories /\ said'.got = said.got /\ said.strayed \subseteq said'.strayed
        /\ said'.at = said.at /\ \A m \in Msgs : said.gone[m] # None => said'.gone[m] # None
    BY <2>1 DEF KeepsGone
  <2> QED
    BY <1>1, <1>4, <1>5, <2>2, <2>3, <2>4, <2>5, <2>6, <2>7, SentStep
<1> QED
  BY <1>2, <1>6, <1>7, <1>8

\* A refused route gives way to the other one, in the same visit and conversation.
LEMMA SendFallsBackInv == ASSUME SendIInv, NEW t \in tasks, SendFallsBack(t) PROVE SendIInv'
<1> DEFINE other == IF t.op = "steer" THEN "run" ELSE "steer"
           ask == Ask(other, t.conv, t.ms, t.visit, FALSE, t.repl)
           rest == tasks \ {t}
<1>1. /\ t.ms \in SUBSET Msgs /\ t.conv \in Convs /\ t.visit \in Nat /\ t.repl \in BOOLEAN
      /\ scr \in Screens /\ said \in Histories /\ Due(t) /\ t.op \in SendOps /\ t.at = "rejected"
      /\ IsFiniteSet(tasks) /\ t.visit <= view.visit
  BY SaidStays DEF SendIInv, SendTypes, Books, Calls, Checks, SendFallsBack, FallsBack, SendOps
<1>2. /\ scr' = (IF other = "steer" THEN Enqueue(scr, t.ms) ELSE Unchipped(t))
      /\ tasks' = rest \cup {ask}
      /\ said' = (IF other = "steer" /\ ~StillHere(t)
                    THEN [said EXCEPT !.strayed = said.strayed \cup t.ms] ELSE said)
  BY DEF SendFallsBack
<1>3. other \in SendOps
  BY DEF SendOps
<1>4. PICK n \in Calls :
         /\ tasks' = rest \cup {n} /\ n.op \in SendOps /\ n.conv = t.conv /\ n.ms = t.ms
         /\ n.visit = t.visit /\ n.at \in {"out", "lost"}
         /\ \A u \in tasks : u.op = n.op => u.no # n.no
  <2>1. /\ ask \in Calls /\ ask.op \in SendOps /\ ask.conv = t.conv /\ ask.ms = t.ms
        /\ ask.visit = t.visit /\ ask.at \in {"out", "lost"}
        /\ \A u \in tasks : u.op = ask.op => u.no # ask.no
    BY <1>1, <1>3, NumberIs DEF Ask, Calls
  <2> QED
    BY <1>2, <2>1
<1>5. /\ scr' \in Screens /\ scr'.sending = scr.sending /\ OnScreen(scr') = OnScreen(scr)
      /\ Withdrawing(scr') \subseteq Withdrawing(scr)
      /\ \A m \in Chips(scr') : m \in Chips(scr) \/ (m \in t.ms /\ other = "steer")
  <2>1. CASE other = "steer"
    <3>1. scr' = Enqueue(scr, t.ms)
      BY <1>2, <2>1
    <3> QED
      BY <1>1, <2>1, <3>1, EnqueueIs
  <2>2. CASE other # "steer"
    <3>1. scr' = Unchipped(t)
      BY <1>2, <2>2
    <3> QED
      BY <3>1, UnchippedIs
  <2> QED
    BY <2>1, <2>2
<1>6. /\ said' \in Histories /\ said'.at = said.at /\ said'.got = said.got
      /\ said'.gone = said.gone /\ said.strayed \subseteq said'.strayed
      /\ other = "steer" /\ ~StillHere(t) => t.ms \subseteq said'.strayed
  BY <1>1, <1>2 DEF Histories
<1> HIDE DEF ask, other
<1>7. /\ Books(rest, inbox') /\ StaysBehind(rest)
      /\ view' = view /\ late' = late /\ machine' = machine
  BY <1>1, DueIs
<1>8. Books(tasks', inbox')
  <2>1. ~Answered(n) /\ n.op # "drain" /\ n \in Calls \cup Checks
    BY <1>4 DEF Answered, SendOps
  <2>2. \A u \in rest : u.op = n.op => u.no # n.no
    BY <1>4
  <2> QED
    BY <1>4, <1>7, <2>1, <2>2, BooksAsked
<1>9. SendTypes'
  <2>1. \A u \in tasks' : u.visit <= view.visit
    BY <1>1, <1>2, <1>4 DEF SendIInv, SendTypes
  <2> QED
    BY <1>5, <1>6, <1>7, <2>1 DEF SendIInv, SendTypes
<1>10. SpinnerIsHonest'
  BY <1>2, <1>4, <1>5, <1>7 DEF SendIInv, SpinnerIsHonest, StillHere
<1>11. WithdrawIsAwaited'
  <2>1. \A w \in Withdrawing(scr) : \E u \in tasks : u.op = "withdraw" /\ u.ms = w
    BY WithdrawAgain DEF SendIInv
  <2>2. \A w \in Withdrawing(scr') : \E u \in tasks' : u.op = "withdraw" /\ u.ms = w
    BY <1>1, <1>4, <1>5, <2>1 DEF SendOps
  <2> QED
    BY <2>2 DEF WithdrawIsAwaited, Withdrawing
<1>12. \A m : AtMachine(m) => AtMachine(m)'
  BY <1>6, <1>7, MachineStays
<1>13. KeptInv'
  <2>1. Carried(tasks) \subseteq Carried(tasks')
    <3>1. Carries(n)
      BY <1>4 DEF Carries
    <3> QED
      BY <1>2, <1>4, <3>1 DEF Carried
  <2>2. ASSUME NEW m \in Msgs, said'.at[m] # None PROVE Safe(m)'
    <3>1. Safe(m)
      BY <1>6, <2>2 DEF SendIInv, KeptInv
    <3> QED
      BY <1>5, <1>6, <1>12, <2>1, <3>1 DEF Safe
  <2>3. \A u \in rest : SafeSent(u)'
    BY <1>6, <1>7, <1>12, SafeSentStays
  <2>4. SafeSent(n)'
    BY <1>4 DEF SafeSent
  <2> QED
    BY <1>4, <2>2, <2>3, <2>4 DEF KeptInv
<1>14. HomeInv'
  <2>1. ASSUME NEW m \in OnScreen(scr') \cup Chips(scr'), m \notin said'.strayed
        PROVE  said'.at[m] = view.conv
    <3>1. CASE m \in OnScreen(scr) \cup Chips(scr)
      BY <1>6, <2>1, <3>1, WhereScreen
    <3>2. CASE m \in t.ms /\ other = "steer"
      BY <1>6, <2>1, <3>2 DEF SendIInv, HomeInv, StillHere
    <3> QED
      BY <1>5, <2>1, <3>1, <3>2
  <2>2. StaysHome'
    BY <1>6, <1>7, <2>1 DEF SendIInv, HomeInv, StaysHome, Chips
  <2>3. \A u \in tasks' : u.visit = view.visit =>
            u.conv = view.conv \/ (u.op # "drain" /\ u.ms \subseteq said'.strayed)
    BY <1>2, <1>4, <1>6 DEF SendIInv, HomeInv, SendOps
  <2>4. \A u \in tasks' \cup late : \A m \in u.ms \ said'.strayed : said'.at[m] = u.conv
    BY <1>2, <1>4, <1>6 DEF SendIInv, HomeInv
  <2> QED
    BY <1>7, <2>2, <2>3, <2>4 DEF HomeInv
<1> QED
  BY <1>8, <1>9, <1>10, <1>11, <1>13, <1>14 DEF SendIInv

-----------------------------------------------------------------------------
(* Events.                                                                     *)

LEMMA ToldIs ==
    ASSUME SendIInv, NEW k, k # "answer", Taken(k), inbox' = Tail(inbox)
    PROVE  /\ Books(tasks, inbox') /\ StaysBehind(tasks)
           /\ view' = view /\ late' = late /\ machine' = machine
<1>1. Books(tasks, inbox) /\ inbox # <<>> /\ Head(inbox).k # "answer"
  BY DEF SendIInv, Taken
<1>2. Books(tasks, inbox')
  BY <1>1, BooksTold
<1>3. Head(inbox) = inbox[1] /\ inbox \in Seq(Events \cup Answers)
  BY <1>1, TailIs DEF Books
<1>4. \A t : ~IsAnswer(inbox, 1, t)
  BY <1>1, <1>3 DEF IsAnswer
<1> QED
  BY <1>1, <1>2, <1>3, <1>4, BehindTail DEF StaysBehind, Taken

\* An event changes the screen.
LEMMA EventStep ==
    ASSUME SendIInv, NEW k, k # "answer", Taken(k), inbox' = Tail(inbox), tasks' = tasks,
           scr' \in Screens, KeepsGone(said'), scr'.sending = scr.sending,
           Withdrawing(scr') \subseteq Withdrawing(scr),
           OnScreen(scr') \cup Chips(scr') \subseteq OnScreen(scr) \cup Chips(scr),
           \A m \in OnScreen(scr) : m \in OnScreen(scr') \/ said'.gone[m] # None
    PROVE  SendIInv'
<1>1. /\ Books(tasks, inbox') /\ StaysBehind(tasks)
      /\ view' = view /\ late' = late /\ machine' = machine
  BY ToldIs
<1>2. /\ view'.conv = view.conv /\ view'.visit = view.visit /\ view'.left = view.left
      /\ view'.link \in {"connected", "reconnecting", "lost"}
      /\ view' = [conv |-> view'.conv, visit |-> view'.visit, link |-> view'.link,
                  left |-> view'.left]
  BY <1>1 DEF SendIInv, SendTypes
<1> QED
  BY <1>1, <1>2, ScreenStep

LEMMA TurnStartedInv == ASSUME SendIInv, TurnStarted PROVE SendIInv'
<1>1. scr \in Screens /\ KeepsGone(said)
  BY SaidStays
<1>2. Taken("started") /\ inbox' = Tail(inbox) /\ tasks' = tasks /\ said' = said
  BY DEF TurnStarted
<1>3. CASE scr.active
  BY <1>1, <1>2, <1>3, EventStep DEF TurnStarted
<1>4. CASE ~scr.active
  <2>1. scr' = MarkActive(scr, TRUE)
    BY <1>4 DEF TurnStarted
  <2>2. /\ scr' \in Screens /\ scr'.sending = scr.sending /\ OnScreen(scr') = OnScreen(scr)
        /\ Chips(scr') = Chips(scr) /\ Withdrawing(scr') = Withdrawing(scr)
    <3>1. /\ scr' \in Screens /\ scr'.sending = scr.sending /\ scr'.failed = scr.failed
          /\ scr'.pending = scr.pending /\ scr'.queue = scr.queue
          /\ scr'.dropped = scr.dropped /\ scr'.draft = scr.draft
      BY <1>1, <2>1 DEF MarkActive, Screens
    <3> QED
      BY <3>1, SameTexts
  <2> QED
    BY <1>1, <1>2, <2>2, EventStep
<1> QED
  BY <1>3, <1>4

LEMMA SteersConsumedInv == ASSUME SendIInv, SteersConsumed PROVE SendIInv'
<1>1. scr \in Screens /\ KeepsGone(said)
  BY SaidStays
<1>2. Taken("consumed") /\ inbox' = Tail(inbox) /\ tasks' = tasks /\ said' = said
  BY DEF SteersConsumed
<1>3. Head(inbox).ms \in SUBSET Msgs
  <2>1. inbox # <<>> /\ inbox \in Seq(Events \cup Answers) /\ Head(inbox).k = "consumed"
    BY <1>2 DEF Taken, SendIInv, Books
  <2>2. Head(inbox) \in Events \cup Answers
    BY <2>1, HeadTailProperties
  <2> QED
    BY <2>1, <2>2 DEF Events, Answers
<1>4. CASE Head(inbox).c = view.conv
  <2>1. scr' = DropChips(scr, Head(inbox).ms)
    BY <1>4 DEF SteersConsumed
  <2>2. /\ scr' \in Screens /\ scr'.sending = scr.sending /\ OnScreen(scr') = OnScreen(scr)
        /\ Chips(scr') \subseteq Chips(scr) /\ Withdrawing(scr') \subseteq Withdrawing(scr)
    BY <1>1, <1>3, <2>1, DropChipsIs
  <2> QED
    BY <1>1, <1>2, <2>2, EventStep
<1>5. CASE Head(inbox).c # view.conv
  BY <1>1, <1>2, <1>5, EventStep DEF SteersConsumed
<1> QED
  BY <1>4, <1>5

\* What is left of the queue when a turn is over goes to the banner.
LEMMA TurnEndIs ==
    ASSUME SendIInv, NEW s, s = EndTurn(MarkActive(scr, FALSE))
    PROVE  /\ s \in Screens /\ s.sending = scr.sending
           /\ Withdrawing(s) \subseteq Withdrawing(scr)
           /\ OnScreen(s) \cup Chips(s) \subseteq OnScreen(scr) \cup Chips(scr)
           /\ OnScreen(scr) \subseteq OnScreen(s)
<1> DEFINE u == MarkActive(scr, FALSE)
<1>1. /\ u \in Screens /\ u.sending = scr.sending /\ u.failed = scr.failed
      /\ u.pending = scr.pending /\ u.queue = scr.queue
      /\ u.dropped = scr.dropped /\ u.draft = scr.draft
  BY SaidStays DEF MarkActive, Screens
<1> HIDE DEF u
<1>2. OnScreen(u) = OnScreen(scr) /\ Chips(u) = Chips(scr)
  BY <1>1, SameTexts
<1>3. s = EndTurn(u)
  BY DEF u
<1>4. /\ s \in Screens /\ s.sending = u.sending
      /\ OnScreen(u) \subseteq OnScreen(s) /\ OnScreen(s) \subseteq OnScreen(u) \cup Chips(u)
      /\ Chips(s) = {} /\ Withdrawing(s) = {}
  BY <1>1, <1>3, EndTurnIs
<1> QED
  BY <1>1, <1>2, <1>4

\* An older drain is given up: nothing but its mark changes.
LEMMA OldIs ==
    ASSUME NEW t \in Calls \cup Checks
    PROVE  /\ Old(t) \in Calls \cup Checks /\ (t \in Calls => Old(t) \in Calls)
           /\ Old(t).op = t.op /\ Old(t).conv = t.conv /\ Old(t).ms = t.ms
           /\ Old(t).visit = t.visit /\ Old(t).at = t.at /\ Old(t).no = t.no
           /\ (t.op \in SendOps => Old(t) = t)
<1>1. CASE t.op = "drain"
  <2>1. t \in Calls
    BY <1>1 DEF Calls, Checks
  <2> QED
    BY <1>1, <2>1 DEF Old, Calls, SendOps
<1>2. CASE t.op # "drain"
  BY <1>2 DEF Old
<1> QED
  BY <1>1, <1>2

LEMMA BooksOld ==
    ASSUME NEW ts, NEW q, Books(ts, q)
    PROVE  LET us == {Old(t) : t \in ts}
               r == [i \in 1 .. Len(q) |-> OldAnswer(q[i])]
           IN  /\ Books(us, r) /\ Carried(us) = Carried(ts)
               /\ \A t, m : t.op \in SendOps /\ t \in ts /\ Behind(q, t, m) => Behind(r, t, m)
<1> DEFINE us == {Old(t) : t \in ts}
           r == [i \in 1 .. Len(q) |-> OldAnswer(q[i])]
<1>1. /\ ts \subseteq Calls \cup Checks /\ IsFiniteSet(ts) /\ q \in Seq(Events \cup Answers)
      /\ Len(q) \in Nat /\ Numbered(ts)
  BY LenProperties DEF Books
<1>2. \A t \in ts : /\ Old(t) \in Calls \cup Checks
                    /\ Old(t).op = t.op /\ Old(t).ms = t.ms /\ Old(t).at = t.at
                    /\ Old(t).no = t.no /\ (t.op \in SendOps => Old(t) = t)
  BY <1>1, OldIs
<1>3. IsFiniteSet(us)
  <2> DEFINE f == [t \in ts |-> Old(t)]
  <2>1. f \in Surjection(ts, us)
    BY DEF Surjection
  <2> QED
    BY <1>1, <2>1, FS_Surjection
<1>4. us \subseteq Calls \cup Checks /\ Numbered(us)
  <2>1. us \subseteq Calls \cup Checks
    BY <1>2
  <2>2. ASSUME NEW t \in us, NEW u \in us, t.op = u.op, t.no = u.no PROVE t = u
    <3>1. PICK a \in ts, b \in ts : t = Old(a) /\ u = Old(b)
      BY <2>2
    <3>2. a = b
      BY <1>1, <1>2, <2>2, <3>1 DEF Numbered
    <3> QED
      BY <3>1, <3>2
  <2> QED
    BY <2>1, <2>2 DEF Numbered
<1>5. \A i \in 1 .. Len(q) : /\ q[i] \in Events \cup Answers
                             /\ OldAnswer(q[i]) \in Events \cup Answers
                             /\ OldAnswer(q[i]).k = q[i].k
                             /\ q[i].k = "answer" => OldAnswer(q[i]).t = Old(q[i].t)
  <2> SUFFICES ASSUME NEW i \in 1 .. Len(q)
               PROVE  /\ q[i] \in Events \cup Answers
                      /\ OldAnswer(q[i]) \in Events \cup Answers
                      /\ OldAnswer(q[i]).k = q[i].k
                      /\ q[i].k = "answer" => OldAnswer(q[i]).t = Old(q[i].t)
    OBVIOUS
  <2>1. q[i] \in Events \cup Answers
    BY <1>1, ElementOfSeq
  <2>2. CASE q[i].k = "answer"
    <3>1. q[i] \in Answers /\ q[i].t \in Calls
      BY <2>1, <2>2 DEF Events, Answers
    <3>2. Old(q[i].t) \in Calls
      BY <3>1, OldIs
    <3> QED
      BY <2>2, <3>1, <3>2 DEF OldAnswer, Answers
  <2>3. CASE q[i].k # "answer"
    BY <2>1, <2>3 DEF OldAnswer
  <2> QED
    BY <2>1, <2>2, <2>3
<1>6. r \in Seq(Events \cup Answers) /\ Len(r) = Len(q)
  <2>1. r \in [1 .. Len(q) -> Events \cup Answers]
    BY <1>5
  <2> QED
    BY <1>1, <2>1
<1>7. \A i \in 1 .. Len(q) : r[i].k = q[i].k /\ (q[i].k = "answer" => r[i].t = Old(q[i].t))
  BY <1>5
<1> HIDE DEF r
<1>8. \A i \in 1 .. Len(q) : q[i].k = "answer" => q[i].t \in ts /\ Answered(q[i].t)
  BY DEF Books
<1>9. \A i \in 1 .. Len(r) : r[i].k = "answer" => r[i].t \in us /\ Answered(r[i].t)
  BY <1>2, <1>6, <1>7, <1>8 DEF Answered
<1>10. \A i, j \in 1 .. Len(r) : r[i].k = "answer" /\ r[j].k = "answer" /\ r[i].t = r[j].t => i = j
  <2> SUFFICES ASSUME NEW i \in 1 .. Len(q), NEW j \in 1 .. Len(q),
                      q[i].k = "answer", q[j].k = "answer", Old(q[i].t) = Old(q[j].t)
               PROVE  i = j
    BY <1>6, <1>7
  <2>1. q[i].t = q[j].t
    BY <1>1, <1>2, <1>8 DEF Numbered
  <2> QED
    BY <2>1 DEF Books
<1>11. ASSUME NEW u \in us, Answered(u) PROVE \E i \in 1 .. Len(r) : IsAnswer(r, i, u)
  <2>1. PICK t \in ts : u = Old(t)
    OBVIOUS
  <2>2. Answered(t)
    BY <1>2, <1>11, <2>1 DEF Answered
  <2>3. PICK i \in 1 .. Len(q) : IsAnswer(q, i, t)
    BY <2>2 DEF Books
  <2> QED
    BY <1>6, <1>7, <2>1, <2>3 DEF IsAnswer
<1>12. \A u \in us : u.op = "drain" /\ u.at # "ok" => u.ms = {}
  BY <1>2 DEF Books
<1>13. Books(us, r)
  BY <1>3, <1>4, <1>6, <1>9, <1>10, <1>11, <1>12 DEF Books
<1>14. Carried(us) = Carried(ts)
  <2>1. \A t \in ts : Carries(Old(t)) <=> Carries(t)
    BY <1>2 DEF Carries
  <2>2. \A m : m \in Carried(us) <=> \E t \in ts : Carries(t) /\ m \in t.ms
    BY <1>2, <2>1 DEF Carried
  <2> QED
    BY <2>2 DEF Carried
<1>15. ASSUME NEW t \in ts, t.op \in SendOps, NEW m, Behind(q, t, m) PROVE Behind(r, t, m)
  <2>1. PICK i \in 1 .. Len(q), j \in 1 .. Len(q) :
           /\ i < j /\ IsAnswer(q, i, t) /\ q[j].k = "answer"
           /\ q[j].t.op \in MailOps /\ q[j].t.at = "ok" /\ m \in q[j].t.ms
    BY <1>15 DEF Behind
  <2>2. IsAnswer(r, i, t)
    BY <1>2, <1>7, <1>15, <2>1 DEF IsAnswer
  <2>3. /\ r[j].k = "answer" /\ r[j].t.op \in MailOps /\ r[j].t.at = "ok" /\ m \in r[j].t.ms
    BY <1>2, <1>7, <1>8, <2>1
  <2> QED
    BY <1>6, <2>1, <2>2, <2>3 DEF Behind
<1> QED
  BY <1>13, <1>14, <1>15 DEF r

\* A turn is over: the mailbox is asked for what was left, or the queue goes to the banner.
LEMMA TurnDoneInv == ASSUME SendIInv, TurnDone PROVE SendIInv'
<1> DEFINE active == MarkActive(scr, FALSE)
           e == EndTurn(active)
           us == {Old(t) : t \in tasks}
           q == Tail(inbox)
           r == [i \in 1 .. Len(q) |-> OldAnswer(q[i])]
           ask == Ask("drain", view.conv, {}, view.visit, TRUE, FALSE)
<1>1. Taken("done") /\ scr \in Screens /\ said \in Histories /\ KeepsGone(said)
  BY SaidStays DEF TurnDone
<1>2. \/ inbox' = q /\ scr' = scr /\ tasks' = tasks /\ said' = said
      \/ scr' = active /\ said' = said /\ inbox' = r /\ tasks' = us \cup {ask}
      \/ scr' = e /\ said' = Gone(ShedByBanner(active), "shed") /\ tasks' = tasks /\ inbox' = q
  BY DEF TurnDone, Shed
<1>3. ASSUME inbox' = q, scr' = scr, tasks' = tasks, said' = said PROVE SendIInv'
  BY <1>1, <1>3, EventStep
<1>4. ASSUME scr' = e, said' = Gone(ShedByBanner(active), "shed"), tasks' = tasks, inbox' = q
      PROVE  SendIInv'
  <2>1. KeepsGone(said')
    BY <1>4, GoneKeeps
  <2>2. /\ scr' \in Screens /\ scr'.sending = scr.sending
        /\ Withdrawing(scr') \subseteq Withdrawing(scr)
        /\ OnScreen(scr') \cup Chips(scr') \subseteq OnScreen(scr) \cup Chips(scr)
        /\ OnScreen(scr) \subseteq OnScreen(scr')
    BY <1>4, TurnEndIs
  <2> QED
    BY <1>1, <1>4, <2>1, <2>2, EventStep
<1>5. ASSUME scr' = active, said' = said, inbox' = r, tasks' = us \cup {ask} PROVE SendIInv'
  <2>1. /\ scr' \in Screens /\ scr'.sending = scr.sending /\ OnScreen(scr') = OnScreen(scr)
        /\ Chips(scr') = Chips(scr) /\ Withdrawing(scr') = Withdrawing(scr)
    <3>1. /\ scr' \in Screens /\ scr'.sending = scr.sending /\ scr'.failed = scr.failed
          /\ scr'.pending = scr.pending /\ scr'.queue = scr.queue
          /\ scr'.dropped = scr.dropped /\ scr'.draft = scr.draft
      BY <1>1, <1>5 DEF MarkActive, Screens
    <3> QED
      BY <3>1, SameTexts
  <2>2. /\ view' = view /\ late' = late /\ machine' = machine /\ inbox # <<>>
        /\ Head(inbox).k = "done" /\ Books(tasks, inbox)
    BY <1>1 DEF Taken, SendIInv
  <2>3. Books(tasks, q)
    BY <2>2, BooksTold
  <2>4. /\ Books(us, r) /\ Carried(us) = Carried(tasks)
        /\ \A t, m : t.op \in SendOps /\ t \in tasks /\ Behind(q, t, m) => Behind(r, t, m)
    BY <2>3, BooksOld
  <2>5. \A t \in tasks : \A m : Behind(inbox, t, m) => Behind(q, t, m)
    <3>1. Head(inbox) = inbox[1] /\ inbox \in Seq(Events \cup Answers)
      BY <2>2, TailIs DEF Books
    <3>2. \A t : ~IsAnswer(inbox, 1, t)
      BY <2>2, <3>1 DEF IsAnswer
    <3> QED
      BY <2>2, <3>1, <3>2, BehindTail
  <2>6. StaysBehind(tasks)
    BY <1>5, <2>4, <2>5 DEF StaysBehind
  <2>7. tasks \subseteq Calls \cup Checks /\ IsFiniteSet(tasks) /\ view.conv \in Convs /\ view.visit \in Nat
    BY DEF SendIInv, SendTypes, Books
  <2>8. \A t \in tasks : /\ Old(t).op = t.op /\ Old(t).conv = t.conv /\ Old(t).ms = t.ms
                         /\ Old(t).visit = t.visit /\ Old(t).no = t.no
                         /\ (t.op \in SendOps => Old(t) = t)
    BY <2>7, OldIs
  <2>9. PICK n \in Calls : /\ tasks' = us \cup {n} /\ n.op = "drain" /\ n.conv = view.conv
                           /\ n.ms = {} /\ n.visit = view.visit /\ n.at \in {"out", "lost"}
                           /\ \A t \in tasks : t.op = n.op => t.no # n.no
    <3>1. /\ ask \in Calls /\ ask.op = "drain" /\ ask.conv = view.conv
          /\ ask.ms = {} /\ ask.visit = view.visit /\ ask.at \in {"out", "lost"}
          /\ \A t \in tasks : t.op = ask.op => t.no # ask.no
      BY <2>7, NumberIs DEF Ask, Calls, MailOps
    <3> HIDE DEF us
    <3> QED
      BY <1>5, <3>1
  <2>10. \A u \in tasks' : u = n \/ \E t \in tasks : u = Old(t)
    BY <2>9
  <2>11. \A t \in tasks : Old(t) \in tasks'
    BY <2>9
  <2> HIDE DEF us, r, q, active, ask
  <2>12. Books(tasks', inbox')
    <3>1. ~Answered(n) /\ n \in Calls \cup Checks
      BY <2>9 DEF Answered
    <3>2. \A u \in us : u.op = n.op => u.no # n.no
      BY <2>8, <2>9 DEF us
    <3> QED
      BY <1>5, <2>4, <2>9, <3>1, <3>2, BooksAsked
  <2>13. SendTypes'
    <3>1. \A u \in tasks' : u.visit <= view.visit
      BY <2>7, <2>8, <2>9, <2>10 DEF SendIInv, SendTypes
    <3> QED
      BY <1>5, <2>1, <2>2, <3>1 DEF SendIInv, SendTypes
  <2>14. SpinnerIsHonest'
    BY <2>1, <2>2, <2>8, <2>11 DEF SendIInv, SpinnerIsHonest, StillHere
  <2>15. WithdrawIsAwaited'
    <3>1. \A w \in Withdrawing(scr) : \E u \in tasks : u.op = "withdraw" /\ u.ms = w
      BY WithdrawAgain DEF SendIInv
    <3>2. \A w \in Withdrawing(scr') : \E u \in tasks' : u.op = "withdraw" /\ u.ms = w
      BY <2>1, <2>8, <2>11, <3>1
    <3> QED
      BY <3>2 DEF WithdrawIsAwaited, Withdrawing
  <2>16. \A m : AtMachine(m) => AtMachine(m)'
    BY <1>5, <2>2, MachineStays
  <2>17. KeptInv'
    <3>1. Carried(us) \subseteq Carried(tasks')
      BY <2>9 DEF Carried
    <3>2. ASSUME NEW m \in Msgs, said'.at[m] # None PROVE Safe(m)'
      <4>1. Safe(m)
        BY <1>5, <3>2 DEF SendIInv, KeptInv
      <4> QED
        BY <1>5, <2>1, <2>4, <2>16, <3>1, <4>1 DEF Safe
    <3>3. \A t \in tasks : SafeSent(t)'
      BY <1>5, <2>6, <2>16, SafeSentStays
    <3>4. ASSUME NEW u \in tasks' PROVE SafeSent(u)'
      <4>1. CASE u.op \in SendOps
        <5>1. PICK t \in tasks : u = Old(t)
          BY <2>9, <2>10, <4>1 DEF SendOps
        <5>2. u = t
          BY <2>8, <4>1, <5>1
        <5> QED
          BY <3>3, <5>2
      <4>2. CASE u.op \notin SendOps
        BY <4>2 DEF SafeSent
      <4> QED
        BY <4>1, <4>2
    <3> QED
      BY <3>2, <3>4 DEF KeptInv
  <2>18. HomeInv'
    <3>1. StaysHome'
      BY <1>5, <2>1, <2>2 DEF SendIInv, HomeInv, StaysHome, Chips
    <3>2. \A u \in tasks' : u.visit = view.visit =>
            u.conv = view.conv \/ (u.op # "drain" /\ u.ms \subseteq said'.strayed)
      BY <1>5, <2>8, <2>9, <2>10 DEF SendIInv, HomeInv
    <3>3. \A u \in tasks' \cup late : \A m \in u.ms \ said'.strayed : said'.at[m] = u.conv
      BY <1>5, <2>8, <2>9, <2>10 DEF SendIInv, HomeInv
    <3> QED
      BY <2>2, <3>1, <3>2, <3>3 DEF HomeInv
  <2> QED
    BY <2>12, <2>13, <2>14, <2>15, <2>17, <2>18 DEF SendIInv
<1> QED
  BY <1>2, <1>3, <1>4, <1>5

-----------------------------------------------------------------------------
(* The view and its connection.                                                *)

\* What only the screen held is let go with it; no call is of the new visit yet.
LEMMA OpenInv == ASSUME SendIInv, NEW c \in Convs, Open(c) PROVE SendIInv'
<1> DEFINE ms == OnScreen(scr) \cup InFlight
           left == [view.left EXCEPT !.visits = @ - 1]
<1>1. /\ view = [conv |-> view.conv, visit |-> view.visit, link |-> view.link, left |-> view.left]
      /\ view.visit \in Nat /\ view.link \in {"connected", "reconnecting", "lost"}
      /\ \A t \in tasks : t.visit <= view.visit
      /\ \A t \in tasks : t.visit \in Nat
  BY DEF SendIInv, SendTypes, Books, Calls, Checks
<1>2. /\ view' = [view EXCEPT !.conv = c, !.visit = view.visit + 1, !.left = left]
      /\ scr' = EmptyScreen /\ said' = Gone(ms, "letGo")
      /\ tasks' = tasks /\ late' = late /\ machine' = machine /\ inbox' = inbox
  BY DEF Open, LetGo
<1> HIDE DEF ms, left
<1>3. /\ view' = [conv |-> c, visit |-> view.visit + 1, link |-> view.link, left |-> left]
      /\ view'.conv = c /\ view'.visit = view.visit + 1 /\ view'.link = view.link
      /\ view'.left = left
  BY <1>1, <1>2
<1>4. KeepsGone(said') /\ \A m \in Msgs : m \in ms => said'.gone[m] # None
  BY <1>2, GoneKeeps
<1>5. /\ scr' \in Screens /\ scr'.sending = FALSE /\ scr'.queue = {}
      /\ OnScreen(scr') = {} /\ Chips(scr') = {} /\ Withdrawing(scr') = {}
  BY <1>2 DEF EmptyScreen, Screens, OnScreen, Chips, ChipMsgs, Withdrawing
<1>6. Books(tasks', inbox') /\ StaysBehind(tasks)
  BY <1>2 DEF SendIInv, StaysBehind
<1>7. SendTypes'
  <2>1. \A t \in tasks' : t.visit <= view'.visit
    BY <1>1, <1>2, <1>3
  <2>2. view'.visit \in Nat
    BY <1>1, <1>3
  <2> QED
    BY <1>1, <1>2, <1>3, <1>4, <1>5, <2>1, <2>2 DEF SendIInv, SendTypes, KeepsGone
<1>8. SpinnerIsHonest' /\ WithdrawIsAwaited'
  BY <1>5 DEF SpinnerIsHonest, WithdrawIsAwaited
<1>9. \A m : AtMachine(m) => AtMachine(m)'
  BY <1>2, <1>4, MachineStays DEF KeepsGone
<1>10. KeptInv'
  <2>1. ASSUME NEW m \in Msgs, said'.at[m] # None PROVE Safe(m)'
    <3>1. Safe(m)
      BY <1>4, <2>1 DEF SendIInv, KeptInv, KeepsGone
    <3> QED
      BY <1>2, <1>4, <1>9, <3>1 DEF Safe, KeepsGone, ms
  <2>2. \A t \in tasks : SafeSent(t)'
    BY <1>4, <1>6, <1>9, SafeSentStays DEF KeepsGone
  <2> QED
    BY <1>2, <2>1, <2>2 DEF KeptInv
<1>11. HomeInv'
  <2>1. \A t \in tasks : t.visit # view'.visit
    BY <1>1, <1>3
  <2>2. StaysHome'
    BY <1>2, <1>4, <1>5 DEF SendIInv, HomeInv, StaysHome, Chips, KeepsGone
  <2> QED
    BY <1>2, <1>4, <2>1, <2>2 DEF SendIInv, HomeInv, KeepsGone
<1> QED
  BY <1>6, <1>7, <1>8, <1>10, <1>11 DEF SendIInv

LEMMA ListedInv == ASSUME SendIInv, Listed PROVE SendIInv'
<1>1. /\ scr' \in Screens /\ scr'.sending = scr.sending /\ scr'.failed = scr.failed
      /\ scr'.pending = scr.pending /\ scr'.queue = scr.queue
      /\ scr'.dropped = scr.dropped /\ scr'.draft = scr.draft
  <2>1. scr \in Screens
    BY SaidStays
  <2> DEFINE on == view.conv \in machine.run
  <2>2. scr' = [scr EXCEPT !.att = "listed", !.snap = on] /\ on \in BOOLEAN
    BY DEF Listed
  <2> HIDE DEF on
  <2> QED
    BY <2>1, <2>2 DEF Screens
<1> QED
  BY <1>1, SameTexts, HereStep, SaidStays DEF Listed

LEMMA ReplayDoneInv == ASSUME SendIInv, ReplayDone PROVE SendIInv'
<1> DEFINE active == MarkActive(scr, FALSE)
<1>1. scr' = EndTurn(active) /\ said' = Gone(ShedByBanner(active), "shed")
  BY DEF ReplayDone, Shed
<1>2. KeepsGone(said')
  BY <1>1, GoneKeeps
<1>3. /\ scr' \in Screens /\ scr'.sending = scr.sending
      /\ Withdrawing(scr') \subseteq Withdrawing(scr)
      /\ OnScreen(scr') \cup Chips(scr') \subseteq OnScreen(scr) \cup Chips(scr)
      /\ OnScreen(scr) \subseteq OnScreen(scr')
  BY <1>1, TurnEndIs
<1> QED
  BY <1>2, <1>3, HereStep DEF ReplayDone

LEMMA AttachReadyInv == ASSUME SendIInv, AttachReady PROVE SendIInv'
<1>1. /\ scr' \in Screens /\ scr'.sending = scr.sending /\ scr'.failed = scr.failed
      /\ scr'.pending = scr.pending /\ scr'.queue = scr.queue
      /\ scr'.dropped = scr.dropped /\ scr'.draft = scr.draft
  <2> DEFINE a == MarkActive(scr, scr.snap)
  <2>1. scr \in Screens /\ scr' = [a EXCEPT !.att = "ready"]
    BY SaidStays DEF AttachReady
  <2>2. a = [scr EXCEPT !.active = scr.snap] /\ scr.snap \in BOOLEAN
    BY <2>1 DEF MarkActive, Screens
  <2> HIDE DEF a
  <2>3. /\ a \in Screens /\ a.sending = scr.sending /\ a.failed = scr.failed
        /\ a.pending = scr.pending /\ a.queue = scr.queue
        /\ a.dropped = scr.dropped /\ a.draft = scr.draft
    BY <2>1, <2>2 DEF Screens
  <2> QED
    BY <2>1, <2>3 DEF Screens
<1> QED
  BY <1>1, SameTexts, HereStep, SaidStays DEF AttachReady

LEMMA LinkChangesInv == ASSUME SendIInv, LinkReturns \/ LinkGivesUp PROVE SendIInv'
<1>1. /\ tasks' = tasks /\ late' = late /\ machine' = machine /\ inbox' = inbox /\ said' = said
      /\ scr' = scr
  BY DEF LinkReturns, LinkGivesUp
<1>2. /\ view'.conv = view.conv /\ view'.visit = view.visit /\ view'.left = view.left
      /\ view'.link \in {"connected", "reconnecting", "lost"}
      /\ view' = [conv |-> view'.conv, visit |-> view'.visit, link |-> view'.link,
                  left |-> view'.left]
  <2>1. view = [conv |-> view.conv, visit |-> view.visit, link |-> view.link, left |-> view.left]
    BY DEF SendIInv, SendTypes
  <2>2. \E l \in {"connected", "reconnecting", "lost"} : view' = [view EXCEPT !.link = l]
    BY DEF LinkReturns, LinkGivesUp
  <2> QED
    BY <2>1, <2>2
<1>3. Books(tasks, inbox') /\ StaysBehind(tasks)
  BY <1>1 DEF SendIInv, StaysBehind
<1> QED
  BY <1>1, <1>2, <1>3, ScreenStep, SaidStays

\* Every call fails with its connection; a mailbox answer on its way is lost with its texts.
LEMMA LinkDropsInv == ASSUME SendIInv, LinkDrops PROVE SendIInv'
<1> DEFINE L(t) == IF t.op = "check" THEN t
                   ELSE [t EXCEPT !.at = "lost", !.ms = IF t.op = "drain" THEN {} ELSE t.ms]
           sent == {u \in tasks : u.at = "out" /\ u.op \in SendOps}
           asked == {[op |-> t.op, conv |-> t.conv, ms |-> t.ms] : t \in sent}
           mail == {u \in tasks : u.op \in MailOps}
           shed == UNION {t.ms : t \in mail}
           left == [view.left EXCEPT !.drops = @ - 1]
<1>1. /\ view' = [view EXCEPT !.link = "reconnecting", !.left = left]
      /\ late' = late \cup asked /\ tasks' = {L(t) : t \in tasks}
      /\ scr' = (IF scr.att = "listed" THEN [scr EXCEPT !.att = "known"] ELSE scr)
      /\ said' = Gone(shed, "shed") /\ machine' = machine
  BY DEF LinkDrops, Shed, MailOps
<1>2. /\ view = [conv |-> view.conv, visit |-> view.visit, link |-> view.link, left |-> view.left]
      /\ tasks \subseteq Calls \cup Checks /\ IsFiniteSet(tasks) /\ Numbered(tasks)
      /\ scr \in Screens
  BY DEF SendIInv, SendTypes, Books
<1>3. /\ view'.conv = view.conv /\ view'.visit = view.visit /\ view'.link = "reconnecting"
      /\ view' = [conv |-> view'.conv, visit |-> view'.visit, link |-> view'.link,
                  left |-> view'.left]
  BY <1>1, <1>2
<1>4. /\ scr' \in Screens /\ scr'.sending = scr.sending /\ scr'.queue = scr.queue
      /\ OnScreen(scr') = OnScreen(scr) /\ Chips(scr') = Chips(scr)
      /\ Withdrawing(scr') = Withdrawing(scr)
  <2>1. /\ scr' \in Screens /\ scr'.sending = scr.sending /\ scr'.failed = scr.failed
        /\ scr'.pending = scr.pending /\ scr'.queue = scr.queue
        /\ scr'.dropped = scr.dropped /\ scr'.draft = scr.draft
    BY <1>1, <1>2 DEF Screens
  <2> QED
    BY <2>1, SameTexts
<1>5. KeepsGone(said') /\ \A m \in Msgs : m \in shed => said'.gone[m] # None
  BY <1>1, GoneKeeps
<1>6. \A t \in tasks : /\ L(t) \in Calls \cup Checks /\ ~Answered(L(t))
                       /\ L(t).op = t.op /\ L(t).conv = t.conv /\ L(t).visit = t.visit
                       /\ L(t).no = t.no /\ L(t).ms \subseteq t.ms
                       /\ (t.op # "drain" => L(t).ms = t.ms) /\ (t.op = "drain" => L(t).ms = {})
                       /\ (t.op # "check" => L(t).at = "lost")
  <2> SUFFICES ASSUME NEW t \in tasks
               PROVE  /\ L(t) \in Calls \cup Checks /\ ~Answered(L(t))
                      /\ L(t).op = t.op /\ L(t).conv = t.conv /\ L(t).visit = t.visit
                      /\ L(t).no = t.no /\ L(t).ms \subseteq t.ms
                      /\ (t.op # "drain" => L(t).ms = t.ms) /\ (t.op = "drain" => L(t).ms = {})
                      /\ (t.op # "check" => L(t).at = "lost")
    OBVIOUS
  <2>1. CASE t.op = "check"
    BY <1>2, <2>1 DEF Answered
  <2>2. CASE t.op # "check"
    <3>1. t \in Calls
      BY <1>2, <2>2 DEF Checks
    <3> QED
      BY <2>2, <3>1 DEF Answered, Calls
  <2> QED
    BY <2>1, <2>2
<1> HIDE DEF L
<1>7. /\ \A u \in tasks' : \E t \in tasks : u = L(t)
      /\ \A t \in tasks : L(t) \in tasks'
  BY <1>1
<1>8. inbox' \in Seq(Events)
  <2> DEFINE events == {i \in 1 .. Len(inbox) : inbox[i].k # "answer"}
  <2>1. inbox \in Seq(Events \cup Answers) /\ Len(inbox) \in Nat
    BY LenProperties DEF SendIInv, Books
  <2>2. \A i \in events : inbox[i] \in Events
    <3>1. \A i \in 1 .. Len(inbox) : inbox[i] \in Events \cup Answers
      BY <2>1, ElementOfSeq
    <3> QED
      BY <3>1 DEF Events, Answers
  <2>3. Cardinality(events) \in Nat
    <3>1. IsFiniteSet(1 .. Len(inbox))
      BY <2>1, FS_Interval
    <3>2. events \in SUBSET (1 .. Len(inbox))
      OBVIOUS
    <3> HIDE DEF events
    <3> QED
      BY <3>1, <3>2, FS_Subset, FS_CardinalityType
  <2>4. PICK in \in [1 .. Cardinality(events) -> events] :
           inbox' = [n \in 1 .. Cardinality(events) |-> inbox[in[n]]]
    BY DEF LinkDrops
  <2> HIDE DEF events
  <2>5. inbox' \in [1 .. Cardinality(events) -> Events]
    BY <2>2, <2>4
  <2> QED
    BY <2>3, <2>5
<1>9. Books(tasks', inbox')
  <2>1. IsFiniteSet(tasks')
    <3> DEFINE f == [t \in tasks |-> L(t)]
    <3>1. f \in Surjection(tasks, tasks')
      BY <1>7 DEF Surjection
    <3> QED
      BY <1>2, <3>1, FS_Surjection
  <2>2. Numbered(tasks')
    <3> SUFFICES ASSUME NEW t \in tasks', NEW u \in tasks', t.op = u.op, t.no = u.no
                 PROVE  t = u
      BY DEF Numbered
    <3>1. PICK a \in tasks, b \in tasks : t = L(a) /\ u = L(b)
      BY <1>7
    <3>2. a = b
      BY <1>2, <1>6, <3>1 DEF Numbered
    <3> QED
      BY <3>1, <3>2
  <2>3. inbox' \in Seq(Events \cup Answers) /\ \A i \in 1 .. Len(inbox') : inbox'[i].k # "answer"
    <3>1. inbox' \in Seq(Events \cup Answers)
      BY <1>8, SeqMonotonic
    <3>2. \A i \in 1 .. Len(inbox') : inbox'[i] \in Events
      BY <1>8, ElementOfSeq
    <3> QED
      BY <3>1, <3>2 DEF Events
  <2>4. tasks' \subseteq Calls \cup Checks /\ \A u \in tasks' : ~Answered(u)
    BY <1>6, <1>7
  <2>5. \A u \in tasks' : u.op = "drain" => u.ms = {}
    BY <1>6, <1>7
  <2> QED
    BY <2>1, <2>2, <2>3, <2>4, <2>5 DEF Books
<1>10. asked \subseteq LateCalls /\ \A r \in asked : \E t \in tasks : r.ms = t.ms /\ r.conv = t.conv
  <2>1. \A t \in sent : [op |-> t.op, conv |-> t.conv, ms |-> t.ms] \in LateCalls
    BY <1>2 DEF Calls, Checks, LateCalls
  <2> QED
    BY <2>1
<1> HIDE DEF asked, shed
<1>11. SendTypes'
  <2>1. \A u \in tasks' : u.visit <= view'.visit
    <3>1. \A t \in tasks : L(t).visit <= view.visit
      BY <1>6 DEF SendIInv, SendTypes
    <3> QED
      BY <1>3, <1>7, <3>1
  <2> QED
    BY <1>1, <1>3, <1>4, <1>5, <1>10, <2>1 DEF SendIInv, SendTypes, KeepsGone
<1>12. SpinnerIsHonest'
  BY <1>3, <1>4, <1>6, <1>7 DEF SendIInv, SpinnerIsHonest, StillHere
<1>13. WithdrawIsAwaited'
  <2>1. \A w \in Withdrawing(scr) : \E u \in tasks : u.op = "withdraw" /\ u.ms = w
    BY WithdrawAgain DEF SendIInv
  <2>2. \A w \in Withdrawing(scr') : \E u \in tasks' : u.op = "withdraw" /\ u.ms = w
    BY <1>4, <1>6, <1>7, <2>1
  <2> QED
    BY <2>2 DEF WithdrawIsAwaited, Withdrawing
<1>14. \A m : AtMachine(m) => AtMachine(m)'
  BY <1>1, <1>5, MachineStays DEF KeepsGone
<1>15. KeptInv'
  <2>1. ASSUME NEW m \in Msgs, said'.at[m] # None PROVE Safe(m)'
    <3>1. Safe(m)
      BY <1>5, <2>1 DEF SendIInv, KeptInv, KeepsGone
    <3>2. CASE m \in Carried(tasks)
      <4>1. PICK t \in tasks : Carries(t) /\ m \in t.ms
        BY <3>2 DEF Carried
      <4>2. CASE t.op \in MailOps
        <5>1. m \in shed
          BY <4>1, <4>2 DEF shed
        <5> QED
          BY <1>5, <5>1 DEF Safe
      <4>3. CASE t.op \notin MailOps
        <5>1. Carries(L(t)) /\ m \in L(t).ms
          BY <1>2, <1>6, <4>1, <4>3 DEF Carries, Calls, Checks, MailOps
        <5>2. m \in Carried(tasks')
          BY <1>7, <5>1 DEF Carried
        <5> QED
          BY <5>2 DEF Safe
      <4> QED
        BY <4>2, <4>3
    <3> QED
      BY <1>4, <1>5, <1>14, <3>1, <3>2 DEF Safe, KeepsGone
  <2>2. \A u \in tasks' : SafeSent(u)'
    <3>1. \A u \in tasks' : u.op # "check" => u.at = "lost"
      BY <1>6, <1>7
    <3> QED
      BY <3>1 DEF SafeSent, SendOps
  <2> QED
    BY <2>1, <2>2 DEF KeptInv
<1>16. HomeInv'
  <2>1. StaysHome'
    BY <1>1, <1>3, <1>4, <1>5 DEF SendIInv, HomeInv, StaysHome, Chips, KeepsGone
  <2>2. \A u \in tasks' : u.visit = view'.visit =>
            u.conv = view'.conv \/ (u.op # "drain" /\ u.ms \subseteq said'.strayed)
    <3>1. \A t \in tasks : t.visit = view.visit =>
             t.conv = view.conv \/ (t.op # "drain" /\ t.ms \subseteq said.strayed)
      BY DEF SendIInv, HomeInv
    <3> QED
      BY <1>3, <1>5, <1>6, <1>7, <3>1 DEF KeepsGone
  <2>3. \A u \in tasks' \cup late' : \A m \in u.ms \ said'.strayed : said'.at[m] = u.conv
    <3>1. \A t \in tasks \cup late : \A m \in t.ms \ said.strayed : said.at[m] = t.conv
      BY DEF SendIInv, HomeInv
    <3>2. \A u \in tasks' : \E t \in tasks : u.conv = t.conv /\ u.ms \subseteq t.ms
      BY <1>6, <1>7
    <3> QED
      BY <1>1, <1>5, <1>10, <3>1, <3>2 DEF KeepsGone
  <2> QED
    BY <2>1, <2>2, <2>3 DEF HomeInv
<1> QED
  BY <1>9, <1>11, <1>12, <1>13, <1>15, <1>16 DEF SendIInv

-----------------------------------------------------------------------------
(* The machine.                                                                *)

LEMMA EventIs ==
    ASSUME NEW k \in {"started", "done", "consumed"}, NEW c \in Convs, NEW ms \in SUBSET Msgs,
           NEW ok \in BOOLEAN
    PROVE  Event(k, c, ms, ok) \in Seq(Events)
<1>1. [k |-> k, c |-> c, ms |-> ms, ok |-> ok] \in Events
  BY DEF Events
<1> QED
  BY <1>1 DEF Event

\* The machine goes on by itself: it tells of it, and keeps what it has.
LEMMA MachineStep ==
    ASSUME SendIInv, view' = view, scr' = scr, tasks' = tasks, late' \subseteq late,
           NEW r \in Seq(Events), inbox' = inbox \o r,
           machine' \in Machines, said' \in Histories, said'.at = said.at,
           said'.gone = said.gone, said'.strayed = said.strayed,
           \A m : AtMachine(m) => AtMachine(m)',
           \A m \in Msgs \ said.strayed, c \in Convs :
              <<m, c>> \in said'.got \/ m \in machine'.box[c] => said.at[m] = c
    PROVE  SendIInv'
<1>1. Books(tasks, inbox')
  BY BooksEmitted DEF SendIInv
<1>2. StaysBehind(tasks)
  <2>1. r \in Seq(Events \cup Answers) /\ inbox \in Seq(Events \cup Answers)
    BY SeqMonotonic DEF SendIInv, Books
  <2>2. \A i \in 1 .. Len(inbox) : i \in 1 .. Len(inbox') /\ inbox'[i] = inbox[i]
    BY <2>1, OneMore
  <2> QED
    BY <2>2, BehindMore DEF StaysBehind
<1>3. SendTypes'
  BY DEF SendIInv, SendTypes
<1>4. SpinnerIsHonest' /\ WithdrawIsAwaited'
  BY DEF SendIInv, SpinnerIsHonest, WithdrawIsAwaited, StillHere
<1>5. KeptInv'
  <2>1. ASSUME NEW m \in Msgs, said'.at[m] # None PROVE Safe(m)'
    <3>1. Safe(m)
      BY <2>1 DEF SendIInv, KeptInv
    <3> QED
      BY <3>1 DEF Safe
  <2>2. \A t \in tasks : SafeSent(t)'
    BY <1>2, SafeSentStays
  <2> QED
    BY <2>1, <2>2 DEF KeptInv
<1>6. HomeInv'
  <2>1. StaysHome'
    BY DEF SendIInv, HomeInv, StaysHome
  <2> QED
    BY <2>1 DEF SendIInv, HomeInv
<1> QED
  BY <1>1, <1>3, <1>4, <1>5, <1>6 DEF SendIInv

LEMMA MachineIs ==
    ASSUME SendIInv
    PROVE  /\ machine \in Machines /\ said \in Histories
           /\ machine.run \in SUBSET Convs /\ machine.box \in [Convs -> SUBSET Msgs]
           /\ \A m \in Msgs \ said.strayed, c \in Convs :
                 <<m, c>> \in said.got \/ m \in machine.box[c] => said.at[m] = c
  BY DEF SendIInv, SendTypes, Machines, HomeInv, StaysHome

\* What is handed over to conversation c.
LEMMA HandOverIs ==
    ASSUME SendIInv, NEW ms \in SUBSET Msgs, NEW c \in Convs, HandOver(ms, c)
    PROVE  /\ said' \in Histories /\ said'.at = said.at /\ said'.gone = said.gone
           /\ said'.strayed = said.strayed /\ said'.got = said.got \cup (ms \X {c})
  BY MachineIs DEF HandOver, Histories

LEMMA MachineConsumesInv == ASSUME SendIInv, NEW c \in Convs, MachineConsumes(c) PROVE SendIInv'
<1> DEFINE ms == machine.box[c]
<1>1. /\ ms \in SUBSET Msgs /\ machine' = [machine EXCEPT !.box[c] = {}] /\ HandOver(ms, c)
      /\ inbox' = inbox \o Event("consumed", c, ms, TRUE)
  BY MachineIs DEF MachineConsumes, Emit
<1>2. /\ said' \in Histories /\ said'.at = said.at /\ said'.gone = said.gone
      /\ said'.strayed = said.strayed /\ said'.got = said.got \cup (ms \X {c})
  BY <1>1, HandOverIs
<1>3. /\ machine' \in Machines /\ machine'.box[c] = {}
      /\ \A d \in Convs : d # c => machine'.box[d] = machine.box[d]
  BY <1>1, MachineIs DEF Machines
<1>4. Event("consumed", c, ms, TRUE) \in Seq(Events)
  <2>1. [k |-> "consumed", c |-> c, ms |-> ms, ok |-> TRUE] \in Events
    BY <1>1 DEF Events
  <2> QED
    BY <2>1 DEF Event
<1>5. \A m : AtMachine(m) => AtMachine(m)'
  BY <1>2, <1>3 DEF AtMachine
<1>6. \A m \in Msgs \ said.strayed, d \in Convs :
         <<m, d>> \in said'.got \/ m \in machine'.box[d] => said.at[m] = d
  BY <1>2, <1>3, MachineIs
<1> HIDE DEF ms
<1> QED
  BY <1>1, <1>2, <1>3, <1>4, <1>5, <1>6, MachineStep DEF MachineConsumes

LEMMA MachineFinishesInv ==
    ASSUME SendIInv, NEW c \in Convs, NEW ok \in BOOLEAN, MachineFinishes(c, ok)
    PROVE  SendIInv'
<1> DEFINE goesOn == ok /\ ~Agentred /\ machine.box[c] # {}
           ms == IF goesOn THEN machine.box[c] ELSE {}
<1>1. /\ ms \in SUBSET Msgs /\ HandOver(ms, c) /\ inbox' = inbox \o Event("done", c, {}, ok)
      /\ machine' = [run |-> IF goesOn THEN machine.run ELSE machine.run \ {c},
                     box |-> IF goesOn THEN [machine.box EXCEPT ![c] = {}] ELSE machine.box]
  BY MachineIs DEF MachineFinishes, Emit
<1>2. /\ said' \in Histories /\ said'.at = said.at /\ said'.gone = said.gone
      /\ said'.strayed = said.strayed /\ said'.got = said.got \cup (ms \X {c})
  BY <1>1, HandOverIs
<1>3. /\ machine' \in Machines
      /\ \A d \in Convs : \A m : m \in machine'.box[d] => m \in machine.box[d]
      /\ \A d \in Convs : \A m : m \in machine.box[d] => m \in machine'.box[d] \/ (d = c /\ m \in ms)
  BY <1>1, MachineIs DEF Machines
<1>4. Event("done", c, {}, ok) \in Seq(Events)
  BY EventIs
<1> HIDE DEF ms
<1>5. \A m : AtMachine(m) => AtMachine(m)'
  BY <1>2, <1>3 DEF AtMachine
<1>6. ms \subseteq machine.box[c]
  BY DEF ms
<1>7. \A m \in Msgs \ said.strayed, d \in Convs :
         <<m, d>> \in said'.got \/ m \in machine'.box[d] => said.at[m] = d
  BY <1>2, <1>3, <1>6, MachineIs
<1> QED
  BY <1>1, <1>2, <1>3, <1>4, <1>5, <1>7, MachineStep DEF MachineFinishes

\* A turn begins with the texts of a request.
LEMMA BeginIs ==
    ASSUME SendIInv, NEW c \in Convs, NEW ms \in SUBSET Msgs, Begin(c, ms),
           \A m \in ms \ said.strayed : said.at[m] = c
    PROVE  /\ machine' \in Machines
           /\ said' \in Histories /\ said'.at = said.at /\ said'.gone = said.gone
           /\ said'.strayed = said.strayed
           /\ \A m : AtMachine(m) => AtMachine(m)'
           /\ \A m \in ms : AtMachine(m)'
           /\ \A m \in Msgs \ said.strayed, d \in Convs :
                 <<m, d>> \in said'.got \/ m \in machine'.box[d] => said.at[m] = d
<1>1. /\ said' \in Histories /\ said'.at = said.at /\ said'.gone = said.gone
      /\ said'.strayed = said.strayed /\ said'.got = said.got \cup (ms \X {c})
  BY HandOverIs DEF Begin
<1>2. machine' \in Machines /\ machine'.box = machine.box
  BY MachineIs DEF Begin, Machines
<1>3. (\A m : AtMachine(m) => AtMachine(m)') /\ \A m \in ms : AtMachine(m)'
  BY <1>1, <1>2 DEF AtMachine
<1>4. \A m \in Msgs \ said.strayed, d \in Convs :
         <<m, d>> \in said'.got \/ m \in machine'.box[d] => said.at[m] = d
  BY <1>1, <1>2, MachineIs
<1> QED
  BY <1>1, <1>2, <1>3, <1>4

\* A steer goes to the mailbox.
LEMMA TakeSteerIs ==
    ASSUME SendIInv, NEW c \in Convs, NEW ms \in SUBSET Msgs, TakeSteer(c, ms),
           \A m \in ms \ said.strayed : said.at[m] = c
    PROVE  /\ machine' \in Machines /\ said' = said
           /\ \A m : AtMachine(m) => AtMachine(m)'
           /\ \A m \in ms : AtMachine(m)'
           /\ \A m \in Msgs \ said.strayed, d \in Convs :
                 <<m, d>> \in said'.got \/ m \in machine'.box[d] => said.at[m] = d
<1>1. /\ said' = said /\ machine' \in Machines /\ machine'.box[c] = machine.box[c] \cup ms
      /\ \A d \in Convs : d # c => machine'.box[d] = machine.box[d]
  BY MachineIs DEF TakeSteer, Machines
<1>2. (\A m : AtMachine(m) => AtMachine(m)') /\ \A m \in ms : AtMachine(m)'
  BY <1>1 DEF AtMachine
<1>3. \A m \in Msgs \ said.strayed, d \in Convs :
         <<m, d>> \in said'.got \/ m \in machine'.box[d] => said.at[m] = d
  BY <1>1, MachineIs
<1> QED
  BY <1>1, <1>2, <1>3

\* The machine emits nothing.
LEMMA NothingIs ==
    ASSUME SendIInv
    PROVE  <<>> \in Seq(Events) /\ inbox \o <<>> = inbox
  BY ConcatEmptySeq, EmptySeq DEF SendIInv, Books

LEMMA LateArrivesInv == ASSUME SendIInv, NEW r \in late, LateArrives(r) PROVE SendIInv'
<1>1. /\ r.conv \in Convs /\ r.ms \in SUBSET Msgs
      /\ \A m \in r.ms \ said.strayed : said.at[m] = r.conv
  BY DEF SendIInv, SendTypes, LateCalls, HomeInv
<1>2. /\ view' = view /\ scr' = scr /\ tasks' = tasks /\ late' \subseteq late
  BY DEF LateArrives
<1>3. CASE machine' = machine /\ inbox' = inbox /\ said' = said
  <2>1. inbox' = inbox \o <<>> /\ <<>> \in Seq(Events)
    BY <1>3, NothingIs
  <2>2. \A m : AtMachine(m) => AtMachine(m)'
    BY <1>3 DEF AtMachine
  <2> QED
    BY <1>2, <1>3, <2>1, <2>2, MachineIs, MachineStep
<1>4. CASE TakeSteer(r.conv, r.ms) /\ inbox' = inbox
  <2>1. inbox' = inbox \o <<>> /\ <<>> \in Seq(Events)
    BY <1>4, NothingIs
  <2>2. /\ machine' \in Machines /\ said' = said /\ said \in Histories
        /\ \A m : AtMachine(m) => AtMachine(m)'
        /\ \A m \in Msgs \ said.strayed, d \in Convs :
              <<m, d>> \in said'.got \/ m \in machine'.box[d] => said.at[m] = d
    BY <1>1, <1>4, TakeSteerIs, MachineIs
  <2> QED
    BY <1>2, <2>1, <2>2, MachineStep
<1>5. CASE Begin(r.conv, r.ms) /\ Emit(Event("started", r.conv, {}, TRUE))
  <2> DEFINE e == Event("started", r.conv, {}, TRUE)
  <2>1. e \in Seq(Events)
    <3>1. [k |-> "started", c |-> r.conv, ms |-> {}, ok |-> TRUE] \in Events
      BY <1>1 DEF Events
    <3> QED
      BY <3>1 DEF Event
  <2>2. inbox' = inbox \o e
    BY <1>5 DEF Emit
  <2>3. /\ machine' \in Machines
        /\ said' \in Histories /\ said'.at = said.at /\ said'.gone = said.gone
        /\ said'.strayed = said.strayed
        /\ \A m : AtMachine(m) => AtMachine(m)'
        /\ \A m \in Msgs \ said.strayed, d \in Convs :
              <<m, d>> \in said'.got \/ m \in machine'.box[d] => said.at[m] = d
    BY <1>1, <1>5, BeginIs
  <2> HIDE DEF e
  <2> QED
    BY <1>2, <2>1, <2>2, <2>3, MachineStep
<1> QED
  BY <1>3, <1>4, <1>5 DEF LateArrives

\* The machine answers t: its answer d, behind what it tells of, is the last thing on its way.
LEMMA AnsweredStep ==
    ASSUME SendIInv, NEW t \in tasks, t.at = "out", t.op # "check",
           NEW d \in Calls, d.at \notin {"out", "lost"}, d.op = t.op, d.no = t.no,
           d.conv = t.conv, d.visit = t.visit, d.op # "drain" => d.ms = t.ms,
           d.op = "drain" => d.at = "ok",
           NEW r \in Seq(Events), inbox' = inbox \o r \o <<[k |-> "answer", t |-> d]>>,
           tasks' = (tasks \ {t}) \cup {d},
           view' = view, scr' = scr, late' = late, machine' \in Machines,
           said' \in Histories, said'.at = said.at, said'.gone = said.gone,
           said'.strayed = said.strayed,
           \A m \in Msgs : AtMachine(m) =>
              AtMachine(m)' \/ (d.op \in MailOps /\ d.at = "ok" /\ m \in d.ms),
           d.op \in SendOps /\ d.at = "ok" => \A m \in d.ms : AtMachine(m)',
           \A m \in d.ms \ said.strayed : said.at[m] = d.conv,
           \A m \in Msgs \ said.strayed, c \in Convs :
              <<m, c>> \in said'.got \/ m \in machine'.box[c] => said.at[m] = c
    PROVE  SendIInv'
<1> DEFINE q == inbox \o r
           n == Len(q) + 1
<1>1. Books(tasks, q) /\ ~Answered(t) /\ Answered(d)
  BY BooksEmitted DEF SendIInv, Answered, Calls, SendOps, MailOps
<1>2. \A i \in 1 .. Len(inbox) : i \in 1 .. Len(q) /\ q[i] = inbox[i]
  <2>1. r \in Seq(Events \cup Answers) /\ inbox \in Seq(Events \cup Answers)
    BY SeqMonotonic DEF SendIInv, Books
  <2> QED
    BY <2>1, OneMore
<1>3. inbox' = q \o <<[k |-> "answer", t |-> d]>>
  OBVIOUS
<1> HIDE DEF q
<1>4. /\ Books(tasks', inbox') /\ Len(q) \in Nat /\ n \in 1 .. Len(inbox') /\ IsAnswer(inbox', n, d)
      /\ \A i \in 1 .. Len(q) : i \in 1 .. Len(inbox') /\ inbox'[i] = q[i]
  <2> DEFINE ts == tasks
  <2>1. Books(ts, q) /\ t \in ts /\ tasks' = (ts \ {t}) \cup {d}
    BY <1>1
  <2> HIDE DEF ts
  <2>2. /\ Books((ts \ {t}) \cup {d}, q \o <<[k |-> "answer", t |-> d]>>)
        /\ LET w == q \o <<[k |-> "answer", t |-> d]>> IN
           /\ Len(q) \in Nat /\ Len(q) + 1 \in 1 .. Len(w) /\ IsAnswer(w, Len(q) + 1, d)
           /\ \A i \in 1 .. Len(q) : i \in 1 .. Len(w) /\ w[i] = q[i]
    <3>1. /\ Books(ts, q) /\ t \in ts /\ ~Answered(t) /\ d \in Calls /\ Answered(d)
          /\ d.op = t.op /\ d.no = t.no /\ (d.op = "drain" => d.at = "ok")
      BY <1>1, <2>1
    <3> QED
      BY ONLY <3>1, BooksAnswered
  <2> QED
    BY <1>3, <2>1, <2>2
<1>5. \A i \in 1 .. Len(inbox) : i \in 1 .. Len(inbox') /\ inbox'[i] = inbox[i] /\ i < n
  BY <1>2, <1>4
<1> HIDE DEF n
<1>6. SendTypes'
  BY DEF SendIInv, SendTypes
<1>7. SpinnerIsHonest'
  BY DEF SendIInv, SpinnerIsHonest, StillHere
<1>8. WithdrawIsAwaited'
  BY DEF SendIInv, WithdrawIsAwaited
<1>9. Carries(t) => Carries(d) \/ \A m \in t.ms : AtMachine(m)'
  BY DEF Carries, Calls, SendOps, MailOps
<1>10. KeptInv'
  <2>1. ASSUME NEW m \in Msgs, said'.at[m] # None PROVE Safe(m)'
    <3>1. Safe(m)
      BY <2>1 DEF SendIInv, KeptInv
    <3>2. CASE AtMachine(m)
      <4>1. AtMachine(m)' \/ (Carries(d) /\ m \in d.ms)
        BY <3>2 DEF Carries
      <4> QED
        BY <4>1 DEF Safe, Carried
    <3>3. CASE m \in Carried(tasks)
      <4>1. PICK u \in tasks : Carries(u) /\ m \in u.ms
        BY <3>3 DEF Carried
      <4>2. CASE u # t
        BY <4>1, <4>2 DEF Safe, Carried
      <4>3. CASE u = t
        <5>1. t.op # "drain"
          BY <4>1, <4>3 DEF SendIInv, Books, Carries
        <5> QED
          BY <1>9, <4>1, <4>3, <5>1 DEF Safe, Carried
      <4> QED
        BY <4>2, <4>3
    <3> QED
      BY <3>1, <3>2, <3>3 DEF Safe
  <2>2. ASSUME NEW u \in tasks \ {t}, u.op \in SendOps, u.at = "ok", NEW m \in u.ms
        PROVE  said'.gone[m] # None \/ AtMachine(m)' \/ Behind(inbox', u, m)
    <3>1. m \in Msgs
      BY DEF SendIInv, Books, Calls, Checks
    <3>2. said.gone[m] # None \/ AtMachine(m) \/ Behind(inbox, u, m)
      BY <2>2 DEF SendIInv, KeptInv, SafeSent
    <3>3. Behind(inbox, u, m) => Behind(inbox', u, m)
      BY <1>5, BehindMore
    <3>4. ASSUME d.op \in MailOps, d.at = "ok", m \in d.ms PROVE Behind(inbox', u, m)
      <4>1. PICK i \in 1 .. Len(inbox) : IsAnswer(inbox, i, u)
        BY <2>2 DEF SendIInv, Books, Answered, SendOps
      <4>2. i \in 1 .. Len(inbox') /\ IsAnswer(inbox', i, u) /\ i < n
        BY <1>5, <4>1 DEF IsAnswer
      <4> QED
        BY <1>4, <3>4, <4>2 DEF Behind, IsAnswer
    <3> QED
      BY <3>1, <3>2, <3>3, <3>4
  <2>3. SafeSent(d)'
    BY DEF SafeSent
  <2>4. \A u \in tasks' : SafeSent(u)'
    BY <2>2, <2>3 DEF SafeSent
  <2> QED
    BY <2>1, <2>4 DEF KeptInv
<1>11. HomeInv'
  <2>1. StaysHome'
    BY DEF SendIInv, HomeInv, StaysHome
  <2>2. \A u \in tasks' : u.visit = view'.visit =>
           u.conv = view'.conv \/ (u.op # "drain" /\ u.ms \subseteq said'.strayed)
    BY DEF SendIInv, HomeInv
  <2>3. \A u \in tasks' \cup late' : \A m \in u.ms \ said'.strayed : said'.at[m] = u.conv
    BY DEF SendIInv, HomeInv
  <2> QED
    BY <2>1, <2>2, <2>3 DEF HomeInv
<1> QED
  BY <1>4, <1>6, <1>7, <1>8, <1>10, <1>11 DEF SendIInv

\* A send that the machine executes.
LEMMA ExecutedInv ==
    ASSUME SendIInv, NEW t \in tasks, t.at = "out", t.op \in SendOps,
           NEW r \in Seq(Events), Reply(t, "ok", r),
           view' = view, scr' = scr, late' = late, machine' \in Machines,
           said' \in Histories, said'.at = said.at, said'.gone = said.gone,
           said'.strayed = said.strayed,
           \A m : AtMachine(m) => AtMachine(m)',
           \A m \in t.ms : AtMachine(m)',
           \A m \in Msgs \ said.strayed, c \in Convs :
              <<m, c>> \in said'.got \/ m \in machine'.box[c] => said.at[m] = c
    PROVE  SendIInv'
<1> DEFINE d == [t EXCEPT !.at = "ok"]
<1>1. t \in Calls /\ t.op # "check" /\ t.op # "drain" /\ t.op \notin MailOps
  BY DEF SendIInv, Books, Checks, SendOps, MailOps
<1>2. /\ d \in Calls /\ d.at = "ok" /\ d.op = t.op /\ d.no = t.no /\ d.conv = t.conv
      /\ d.visit = t.visit /\ d.ms = t.ms
  BY <1>1 DEF Calls
<1>3. /\ tasks' = (tasks \ {t}) \cup {d}
      /\ inbox' = inbox \o r \o <<[k |-> "answer", t |-> d]>>
  BY DEF Reply
<1> HIDE DEF d
<1>4. \A m \in d.ms \ said.strayed : said.at[m] = d.conv
  BY <1>2 DEF SendIInv, HomeInv
<1> QED
  BY <1>1, <1>2, <1>3, <1>4, AnsweredStep

\* An answer that leaves everything as it is, or takes texts from the mailbox.
LEMMA RepliedInv ==
    ASSUME SendIInv, NEW t \in tasks, t.at = "out", NEW at, Reply(t, at, <<>>),
           \/ t.op \in SendOps /\ at \in {"rejected", "unavailable"}
           \/ t.op \in {"cancel", "withdraw"} /\ at \in {"ok", "rejected", "kept"},
           view' = view, scr' = scr, late' = late, said' = said, machine' \in Machines,
           \A c \in Convs : machine'.box[c] \subseteq machine.box[c],
           \A c \in Convs : \A m \in machine.box[c] :
              m \in machine'.box[c] \/ (t.op \in MailOps /\ at = "ok" /\ m \in t.ms)
    PROVE  SendIInv'
<1> DEFINE d == [t EXCEPT !.at = at]
<1>1. t \in Calls /\ t.op # "check" /\ t.op # "drain"
  BY DEF SendIInv, Books, Checks, SendOps
<1>2. /\ d \in Calls /\ d.at = at /\ d.op = t.op /\ d.no = t.no /\ d.conv = t.conv
      /\ d.visit = t.visit /\ d.ms = t.ms /\ at \notin {"out", "lost"}
      /\ (d.op \in SendOps => d.at # "ok")
  BY <1>1 DEF Calls, SendOps
<1>3. /\ tasks' = (tasks \ {t}) \cup {d} /\ <<>> \in Seq(Events)
      /\ inbox' = inbox \o <<>> \o <<[k |-> "answer", t |-> d]>>
  BY NothingIs DEF Reply
<1> HIDE DEF d
<1>4. \A m \in d.ms \ said.strayed : said.at[m] = d.conv
  BY <1>2 DEF SendIInv, HomeInv
<1>5. \A m \in Msgs : AtMachine(m) =>
         AtMachine(m)' \/ (d.op \in MailOps /\ d.at = "ok" /\ m \in d.ms)
  BY <1>2 DEF AtMachine
<1>6. \A m \in Msgs \ said.strayed, c \in Convs :
         <<m, c>> \in said'.got \/ m \in machine'.box[c] => said.at[m] = c
  BY MachineIs
<1>7. said' \in Histories /\ said'.at = said.at /\ said'.gone = said.gone
      /\ said'.strayed = said.strayed
  BY MachineIs
<1>8. (d.op # "drain" => d.ms = t.ms) /\ (d.op = "drain" => d.at = "ok") /\ d.at \notin {"out", "lost"}
  BY <1>1, <1>2
<1>9. d.op \in SendOps /\ d.at = "ok" => \A m \in d.ms : AtMachine(m)'
  BY <1>2
<1> QED
  BY <1>1, <1>2, <1>3, <1>4, <1>5, <1>6, <1>7, <1>8, <1>9, AnsweredStep

LEMMA MachineAnswersInv == ASSUME SendIInv, NEW t \in tasks, MachineAnswers(t) PROVE SendIInv'
<1>1. /\ t.at = "out" /\ view' = view /\ scr' = scr /\ late' = late
  BY DEF MachineAnswers
<1>2. t.conv \in Convs /\ t.ms \in SUBSET Msgs
  BY DEF SendIInv, Books, Calls, Checks
<1>3. ASSUME t.op \in SendOps PROVE \A m \in t.ms \ said.strayed : said.at[m] = t.conv
  BY DEF SendIInv, HomeInv
<1>4. CASE t.op \in {"run", "compact"} /\ Begin(t.conv, t.ms)
           /\ Reply(t, "ok", Event("started", t.conv, {}, TRUE))
  <2> DEFINE e == Event("started", t.conv, {}, TRUE)
  <2>1. e \in Seq(Events)
    <3>1. [k |-> "started", c |-> t.conv, ms |-> {}, ok |-> TRUE] \in Events
      BY <1>2 DEF Events
    <3> QED
      BY <3>1 DEF Event
  <2>2. Reply(t, "ok", e) /\ t.op \in SendOps
    BY <1>4 DEF SendOps
  <2> HIDE DEF e
  <2>3. /\ machine' \in Machines
        /\ said' \in Histories /\ said'.at = said.at /\ said'.gone = said.gone
        /\ said'.strayed = said.strayed
        /\ \A m : AtMachine(m) => AtMachine(m)'
        /\ \A m \in t.ms : AtMachine(m)'
        /\ \A m \in Msgs \ said.strayed, d \in Convs :
              <<m, d>> \in said'.got \/ m \in machine'.box[d] => said.at[m] = d
    BY <1>2, <1>3, <1>4, <2>2, BeginIs
  <2> QED
    BY <1>1, <2>1, <2>2, <2>3, ExecutedInv
<1>5. CASE t.op = "steer" /\ TakeSteer(t.conv, t.ms) /\ Reply(t, "ok", <<>>)
  <2>1. t.op \in SendOps /\ <<>> \in Seq(Events)
    BY <1>5, NothingIs DEF SendOps
  <2>2. /\ machine' \in Machines /\ said' = said /\ said \in Histories
        /\ \A m : AtMachine(m) => AtMachine(m)'
        /\ \A m \in t.ms : AtMachine(m)'
        /\ \A m \in Msgs \ said.strayed, d \in Convs :
              <<m, d>> \in said'.got \/ m \in machine'.box[d] => said.at[m] = d
    BY <1>2, <1>3, <1>5, <2>1, TakeSteerIs, MachineIs
  <2> QED
    BY <1>1, <1>5, <2>1, <2>2, ExecutedInv
<1>6. CASE t.op \in SendOps /\ Reply(t, Refusal(t), <<>>) /\ UNCHANGED <<machine, said>>
  <2>1. Refusal(t) \in {"rejected", "unavailable"}
    BY DEF Refusal
  <2> QED
    BY <1>1, <1>6, <2>1, MachineIs, RepliedInv
<1>7. CASE /\ t.op \in {"cancel", "withdraw"} /\ Removes(t) /\ Reply(t, "ok", <<>>)
           /\ machine' = [machine EXCEPT !.box[t.conv] = @ \ t.ms] /\ said' = said
  <2>1. /\ machine' \in Machines
        /\ machine'.box = [machine.box EXCEPT ![t.conv] = machine.box[t.conv] \ t.ms]
    BY <1>2, <1>7, MachineIs DEF Machines
  <2>2. /\ \A c \in Convs : machine'.box[c] \subseteq machine.box[c]
        /\ \A c \in Convs : \A m \in machine.box[c] : m \in machine'.box[c] \/ m \in t.ms
    BY <1>2, <2>1, MachineIs
  <2>3. t.op \in MailOps
    BY <1>7 DEF MailOps
  <2> QED
    BY <1>1, <1>7, <2>1, <2>2, <2>3, RepliedInv
<1>8. ASSUME t.op \in {"cancel", "withdraw"}, NEW at \in {"kept", "rejected"},
             Reply(t, at, <<>>), UNCHANGED <<machine, said>>
      PROVE  SendIInv'
  BY <1>1, <1>8, MachineIs, RepliedInv
<1> QED
  BY <1>4, <1>5, <1>6, <1>7, <1>8 DEF MachineAnswers

LEMMA MachineDrainsInv == ASSUME SendIInv, NEW t \in tasks, MachineDrains(t) PROVE SendIInv'
<1> DEFINE d == [t EXCEPT !.at = "ok", !.ms = machine.box[t.conv]]
<1>1. /\ t.at = "out" /\ t.op = "drain" /\ view' = view /\ scr' = scr /\ late' = late /\ said' = said
      /\ machine' = [machine EXCEPT !.box[t.conv] = {}]
      /\ tasks' = (tasks \ {t}) \cup {d} /\ inbox' = Append(inbox, [k |-> "answer", t |-> d])
  BY DEF MachineDrains
<1>2. t \in Calls /\ t.conv \in Convs /\ machine.box[t.conv] \in SUBSET Msgs
  BY <1>1, MachineIs DEF SendIInv, Books, Calls, Checks
<1>3. /\ d \in Calls /\ d.at = "ok" /\ d.op = "drain" /\ d.no = t.no /\ d.conv = t.conv
      /\ d.visit = t.visit /\ d.ms = machine.box[t.conv]
  BY <1>1, <1>2 DEF Calls
<1> HIDE DEF d
<1>4. inbox' = inbox \o <<>> \o <<[k |-> "answer", t |-> d]>> /\ <<>> \in Seq(Events)
  <2> DEFINE e == [k |-> "answer", t |-> d]
  <2>1. inbox \in Seq(Events \cup Answers) /\ e \in Events \cup Answers
    BY <1>3 DEF SendIInv, Books, Answers
  <2> HIDE DEF e
  <2>2. Append(inbox, e) = inbox \o <<e>>
    BY <2>1, AppendIsConcat
  <2> QED
    BY <1>1, <2>2, NothingIs DEF e
<1>5. /\ machine' \in Machines
      /\ machine'.box = [machine.box EXCEPT ![t.conv] = {}]
  BY <1>1, <1>2, MachineIs DEF Machines
<1>6. \A m \in Msgs : AtMachine(m) => AtMachine(m)' \/ m \in d.ms
  <2>1. \A c \in Convs : \A m \in machine.box[c] : m \in machine'.box[c] \/ m \in d.ms
    BY <1>2, <1>3, <1>5, MachineIs
  <2>2. said'.got = said.got
    BY <1>1
  <2> QED
    BY <2>1, <2>2 DEF AtMachine
<1>7. \A m \in Msgs \ said.strayed, c \in Convs :
         <<m, c>> \in said'.got \/ m \in machine'.box[c] => said.at[m] = c
  BY <1>1, <1>5, MachineIs
<1>8. \A m \in d.ms \ said.strayed : said.at[m] = d.conv
  BY <1>2, <1>3, MachineIs
<1>9. "drain" \in MailOps /\ "drain" \notin SendOps
  BY DEF MailOps, SendOps
<1> QED
  BY <1>1, <1>2, <1>3, <1>4, <1>5, <1>6, <1>7, <1>8, <1>9, MachineIs, AnsweredStep

-----------------------------------------------------------------------------
(* The invariant, and what it says of the texts.                               *)

LEMMA SendStarts == SendInit => SendIInv
<1> SUFFICES ASSUME SendInit PROVE SendIInv
  OBVIOUS
<1>1. PICK b \in Budgets :
         /\ view = [conv |-> b.conv, visit |-> 0, link |-> "connected", left |-> b]
         /\ machine = [run |-> b.running, box |-> [c \in Convs |-> {}]]
  BY DEF SendInit
<1>2. /\ scr = EmptyScreen /\ tasks = {} /\ late = {} /\ inbox = <<>>
      /\ said = [at |-> [m \in Msgs |-> None], got |-> {},
                 gone |-> [m \in Msgs |-> None], strayed |-> {}]
  BY DEF SendInit
<1>3. b.conv \in Convs /\ b.running \in SUBSET Convs
  BY SendAssumption
<1>4. EmptyScreen \in Screens /\ Chips(EmptyScreen) = {} /\ OnScreen(EmptyScreen) = {}
  <2>1. EmptyScreen \in Screens
    BY DEF EmptyScreen, Screens
  <2>2. /\ EmptyScreen.queue = {} /\ EmptyScreen.failed = {} /\ EmptyScreen.pending = {}
        /\ EmptyScreen.dropped = {} /\ EmptyScreen.draft = {}
    BY DEF EmptyScreen
  <2> QED
    BY <2>1, <2>2 DEF Chips, ChipMsgs, OnScreen
<1>5. SendTypes
  <2>1. machine \in Machines
    BY <1>1, <1>3 DEF Machines
  <2>2. said \in Histories
    BY <1>2 DEF Histories
  <2>3. /\ view.conv \in Convs /\ view.visit \in Nat
        /\ view = [conv |-> view.conv, visit |-> view.visit, link |-> view.link, left |-> view.left]
        /\ view.link \in {"connected", "reconnecting", "lost"}
    BY <1>1, <1>3
  <2> QED
    BY <1>2, <1>4, <2>1, <2>2, <2>3 DEF SendTypes
<1>6. Books(tasks, inbox)
  <2>1. IsFiniteSet({}) /\ <<>> \in Seq(Events \cup Answers) /\ Len(<<>>) = 0
    BY FS_EmptySet, EmptySeq
  <2> QED
    BY <1>2, <2>1 DEF Books, Numbered
<1>7. SpinnerIsHonest /\ WithdrawIsAwaited
  BY <1>2 DEF SpinnerIsHonest, WithdrawIsAwaited, EmptyScreen
<1>8. KeptInv
  BY <1>2 DEF KeptInv
<1>9. HomeInv
  <2>1. \A c \in Convs : machine.box[c] = {}
    BY <1>1
  <2> QED
    BY <1>2, <1>4, <2>1 DEF HomeInv, StaysHome, Chips
<1> QED
  BY <1>5, <1>6, <1>7, <1>8, <1>9 DEF SendIInv

LEMMA SendIdles == SendIInv /\ UNCHANGED sendVars => SendIInv'
<1> SUFFICES ASSUME SendIInv, UNCHANGED sendVars PROVE SendIInv'
  OBVIOUS
<1>1. /\ view' = view /\ scr' = scr /\ tasks' = tasks /\ late' = late /\ machine' = machine
      /\ inbox' = inbox /\ said' = said
  BY DEF sendVars
<1>2. KeepsGone(said') /\ scr' \in Screens
  BY <1>1, SaidStays
<1> QED
  BY <1>1, <1>2, HereStep

LEMMA SendSteps == SendIInv /\ [SendNext]_sendVars => SendIInv'
<1> SUFFICES ASSUME SendIInv, SendNext PROVE SendIInv'
  BY SendIdles
<1>1. CASE \E new \in SUBSET Msgs : Submit(new)
  BY <1>1, SubmitInv
<1>2. CASE \E f \in scr.failed : RetryFailed(f) \/ DiscardFailed(f)
  BY <1>2, RetryFailedInv, DiscardFailedInv
<1>3. CASE PendingGoes \/ CancelPending \/ RestoreDropped \/ DiscardDropped
  BY <1>3, PendingGoesInv, CancelPendingInv, RestoreDroppedInv, DiscardDroppedInv
<1>4. CASE \E i \in scr.queue : Cancel(i) \/ Withdraw(i)
  BY <1>4, CancelInv, WithdrawInv
<1>5. CASE \E t \in tasks : CheckDone(t) \/ SendSucceeds(t) \/ SendFallsBack(t) \/ SendFails(t)
  BY <1>5, CheckDoneInv, SendSucceedsInv, SendFallsBackInv, SendFailsInv
<1>6. CASE \E t \in tasks : Withdrawn(t) \/ Drained(t) \/ MachineAnswers(t) \/ MachineDrains(t)
  BY <1>6, WithdrawnInv, DrainedInv, MachineAnswersInv, MachineDrainsInv
<1>7. CASE TurnStarted \/ TurnDone \/ SteersConsumed
  BY <1>7, TurnStartedInv, TurnDoneInv, SteersConsumedInv
<1>8. CASE \E c \in Convs : Open(c) \/ MachineConsumes(c)
                            \/ \E ok \in BOOLEAN : MachineFinishes(c, ok)
  BY <1>8, OpenInv, MachineConsumesInv, MachineFinishesInv
<1>9. CASE Listed \/ ReplayDone \/ AttachReady \/ LinkDrops \/ LinkReturns \/ LinkGivesUp
  BY <1>9, ListedInv, ReplayDoneInv, AttachReadyInv, LinkDropsInv, LinkChangesInv
<1>10. CASE \E r \in late : LateArrives(r)
  BY <1>10, LateArrivesInv
<1> QED
  BY <1>1, <1>2, <1>3, <1>4, <1>5, <1>6, <1>7, <1>8, <1>9, <1>10 DEF SendNext

\* What the books and the carriers say of every text that was said.
LEMMA SendHolds == SendIInv => SendInv
<1> SUFFICES ASSUME SendIInv PROVE SendInv
  OBVIOUS
<1>1. SendTypeOK
  <2>1. /\ scr.failed \subseteq FailedSends /\ scr.queue \subseteq ChipTypes
        /\ scr.pending \subseteq Msgs /\ scr.dropped \subseteq Msgs /\ scr.draft \subseteq Msgs
    BY DEF SendIInv, SendTypes, Screens
  <2>2. \A t \in tasks : t.ms \subseteq Msgs /\ t.conv \in Convs /\ t.visit <= view.visit
    BY DEF SendIInv, SendTypes, Books, Calls, Checks
  <2> QED
    BY <2>1, <2>2, MachineIs DEF SendIInv, SendTypes, SendTypeOK, FailedSends, ChipTypes
<1>2. Kept
  <2> SUFFICES ASSUME NEW m \in Msgs, said.at[m] # None, said.gone[m] = None PROVE Held(m)
    BY DEF Kept
  <2>1. CASE m \in OnScreen(scr) \/ AtMachine(m)
    BY <2>1 DEF Held, AtMachine
  <2>2. CASE m \in Carried(tasks)
    <3>1. PICK t \in tasks : Carries(t) /\ m \in t.ms
      BY <2>2 DEF Carried
    <3>2. t.op \in SendOps \cup {"check"} \/ t.op \in {"drain", "cancel", "withdraw"}
      BY <3>1 DEF Carries, MailOps
    <3> QED
      BY <3>1, <3>2 DEF Held, InFlight
  <2> QED
    BY <2>1, <2>2 DEF SendIInv, KeptInv, Safe
<1> QED
  BY <1>1, <1>2 DEF SendIInv, SendInv, HomeInv

(* A text that was submitted stands on the screen, waits at the machine, was handed over or
   is carried by a call, unless its user let it go or the code shed it in one of the four
   named places; it stays in its conversation; the spinner and the withdrawing chips tell
   the truth (useSessionSend, useSteerQueue, useSteerAutoContinue, SessionDetailView).    *)
THEOREM NothingSaidDisappears == SendSpec => []SendInv
<1>1. SendInit => SendIInv
  BY SendStarts
<1>2. SendIInv /\ [SendNext]_sendVars => SendIInv'
  BY SendSteps
<1>3. SendIInv => SendInv
  BY SendHolds
<1> QED
  BY <1>1, <1>2, <1>3, PTL DEF SendSpec
=============================================================================
