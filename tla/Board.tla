------------------------------- MODULE Board -------------------------------
(* The board of tasks (frontend pages/Issues, pages/issues, lib/boardWire, lib/issues):
   one page fetches the board for what is searched, writes are followed by a fetch, and
   only the newest fetch may change what is shown. A card is dragged to a place among the
   cards the page shows, which need not be all the column has; the server gives it a number
   between those of its neighbours, and columns are numbered each on its own. A form sends
   every field it holds. Machines a task can be pinned to are read once, on their own. *)
EXTENDS Integers, FiniteSets, Sequences, SequencesExt, TLC

CONSTANTS Tasks,      \* tasks
          Listed,     \* bound: those there when the page opens, by position
          Rank,       \* where the sync identity of a task comes among the others
          Step,       \* positionStep; bound: how often a gap between two cards can be halved
          Word,       \* those the searched word matches
          Texts,      \* bound: versions of a task's text
          Engines,    \* machines a task can be pinned to
          Deleted,    \* those deleted before the page opened
          BoardStarts \* bound: column and machine of the tasks, and how often each thing
                      \* happens, in a run

VARIABLES srv,        \* the board the server has
          query,      \* what is searched
          shown,      \* response: the board of the last answer; at (history): its version
          error,      \* whether the last answer was a failure
          loadedKey,  \* what the last answer was for
          refreshing, \* a reload is said to be under way
          asks,       \* fetches in flight
          writes,     \* writes in flight, until the fetch that follows them is over
          form,       \* the form open
          engines,    \* the machines, once read
          drag,       \* the card being dragged
          last,       \* history: the last drop and the version of the user's last write
          bmoves      \* what is left of the bounds

boardVars == <<srv, query, shown, error, loadedKey, refreshing, asks, writes, form, engines,
               drag, last, bmoves>>

Stages == {"todo", "done"}
Searches == {"all", "word"}
Nobody == "no machine"
Shut == [id |-> "none"]
Fresh == "new"
Effect == [op |-> "effect"]
Retry == [op |-> "retry"]
NoDrop == [op |-> "none"]
Spend(b) == bmoves[b] > 0 /\ bmoves' = [bmoves EXCEPT ![b] = @ - 1]

Matching(q) == IF q = "all" THEN Tasks ELSE Word
\* sortIssueCards: by number, of equal ones by identity (columns are told apart below).
Ahead(t, u) == srv.pos[t] < srv.pos[u] \/ (srv.pos[t] = srv.pos[u] /\ Rank[t] < Rank[u])
Sorted(S) == SetToSortSeq(S, Ahead)

EmptyBoard == [order |-> <<>>, stage |-> <<>>, text |-> <<>>, run |-> <<>>, at |-> 0]

\* toBoardQueryString and the server's answer: the matching tasks, by position.
Answer(q) ==
    LET row == Sorted(srv.alive \cap Matching(q))
        On(f) == [t \in ToSet(row) |-> f[t]]
    IN  [order |-> row, stage |-> On(srv.stage), text |-> On(srv.text), run |-> On(srv.run),
         at |-> srv.at]

\* toBoardColumns.
Column(b, s) == SelectSeq(b.order, LAMBDA t : b.stage[t] = s)

Fetch(q, why) == [key |-> q, why |-> why, newest |-> TRUE, got |-> FALSE, board |-> EmptyBoard]
SupersededKept == asks
Superseded == {[a EXCEPT !.newest = FALSE] : a \in asks}

\* The cards there are stand in their columns one step apart.
FirstNumbers(stage) ==
    [t \in Tasks |-> Step * Cardinality({i \in DOMAIN Listed :
        /\ stage[Listed[i]] = stage[t]
        /\ \A k \in DOMAIN Listed : Listed[k] = t => i <= k})]

BoardInit ==
    /\ \E s \in BoardStarts :
        /\ srv = [alive |-> ToSet(Listed), stage |-> s.stage, pos |-> FirstNumbers(s.stage),
                  text |-> [t \in Tasks |-> 0], at |-> 1,
                  run |-> [t \in Tasks |-> [agent |-> TRUE, exec |-> s.exec]], born |-> ToSet(Listed)]
        /\ bmoves = s.moves /\ engines = s.engines
    /\ query = "all" /\ shown = EmptyBoard /\ error = FALSE /\ loadedKey = "none"
    /\ refreshing = FALSE /\ asks = {Fetch("all", Effect)} /\ writes = {}
    /\ form = Shut /\ drag = "none"
    /\ last = [drop |-> NoDrop, own |-> 0]

-----------------------------------------------------------------------------
(* Reading.                                                                  *)

SetQuery(q) ==
    /\ q # query /\ Spend("query")
    /\ query' = q
    /\ asks' = Superseded \cup {Fetch(q, Effect)}
    /\ UNCHANGED <<srv, shown, error, loadedKey, refreshing, writes, form, engines, drag, last>>

Served(a) ==
    /\ ~a.got
    /\ asks' = (asks \ {a}) \cup {[a EXCEPT !.got = TRUE, !.board = Answer(a.key)]}
    /\ UNCHANGED <<srv, query, shown, error, loadedKey, refreshing, writes, form, engines, drag,
                   last, bmoves>>

\* What waited for the fetch goes on: a reload says it is over; the form that saved or deleted
\* its task closes, the menu of a card closes none.
Closes(w) == w.op = "save" \/ (w.op = "delete" /\ w.value.id # "card")

Over(a) ==
    /\ asks' = asks \ {a}
    /\ refreshing' = IF a.why = Effect THEN refreshing ELSE FALSE
    /\ writes' = {w \in writes : w # a.why}
    /\ form' = IF a.why \in writes /\ Closes(a.why) THEN Shut ELSE form
    /\ UNCHANGED <<srv, query, engines, drag, last>>

BoardLandsLate(a) ==
    /\ a.got
    /\ shown' = a.board /\ error' = FALSE /\ loadedKey' = a.key
    /\ UNCHANGED bmoves /\ Over(a)

BoardLands(a) ==
    /\ a.got
    /\ IF a.newest THEN shown' = a.board /\ error' = FALSE /\ loadedKey' = a.key
                   ELSE UNCHANGED <<shown, error, loadedKey>>
    /\ UNCHANGED bmoves /\ Over(a)

BoardFailsSpinning(a) ==
    /\ ~a.got /\ Spend("fault")
    /\ IF a.newest THEN error' = TRUE /\ UNCHANGED <<shown, loadedKey>>
                   ELSE UNCHANGED <<shown, error, loadedKey>>
    /\ Over(a)

BoardFails(a) ==
    /\ ~a.got /\ Spend("fault")
    /\ IF a.newest THEN error' = TRUE /\ loadedKey' = a.key /\ UNCHANGED shown
                   ELSE UNCHANGED <<shown, error, loadedKey>>
    /\ Over(a)

Reload(why) == refreshing' = TRUE /\ asks' = Superseded \cup {Fetch(query, why)}
Searching == refreshing \/ loadedKey # query

\* BoardFailure: the button waits while a fetch is said to be under way.
RetryBoard ==
    /\ error /\ ~Searching /\ Spend("query")
    /\ Reload(Retry)
    /\ UNCHANGED <<srv, query, shown, error, loadedKey, writes, form, engines, drag, last>>

-----------------------------------------------------------------------------
(* The server takes a write.                                                 *)

\* stageCards: a column, without the card that is moved.
StageCards(s, skip) == Sorted({t \in srv.alive \ {skip} : srv.stage[t] = s})

\* positionAfter: the midpoint of the card named and the next one, a step before the head
\* without one, a step behind the end otherwise.
PositionAfter(s, t, after) ==
    LET seq == StageCards(s, t)
        Number(i) == srv.pos[seq[i]]
    IN  IF seq = <<>> THEN Step
        ELSE IF after = "none" THEN Number(1) - Step
        ELSE IF \E i \in 1..(Len(seq) - 1) : seq[i] = after
        THEN LET i == CHOOSE i \in DOMAIN seq : seq[i] = after IN (Number(i) + Number(i + 1)) \div 2
        ELSE Number(Len(seq)) + Step

TailPosition(s) ==
    LET seq == StageCards(s, "none") IN IF seq = <<>> THEN Step ELSE srv.pos[Last(seq)] + Step

Placed(t, s, after) == [srv EXCEPT !.pos[t] = PositionAfter(s, t, after), !.stage[t] = s]

Without(t) == [srv EXCEPT !.alive = @ \ {t}]

\* The form's fields, all of them: the number is kept, whatever column it goes to.
WithFields(w) ==
    [srv EXCEPT !.stage[w.task] = w.value.stage, !.text[w.task] = w.value.text,
                !.run[w.task] = [agent |-> w.value.agent, exec |-> w.value.exec],
                !.born = @ \cup {w.task}, !.alive = @ \cup {w.task},
                !.pos[w.task] = IF w.value.id = Fresh THEN w.pos ELSE @]

Taken(w) == CASE w.op = "move" -> Placed(w.task, w.stage, w.after)
              [] w.op = "save" -> WithFields(w)
              [] w.op = "delete" -> Without(w.task)
              [] OTHER -> srv

\* A task deleted meanwhile takes no write, and no task a machine that is gone.
Possible(w) == /\ w.op = "label" \/ w.task \in srv.alive \/ w.value.id = Fresh
               /\ w.value.exec \notin Deleted

\* CreateIssue looks for the end of the column before its transaction.
TaskNumbered(w) ==
    /\ ~w.done /\ w.value.id = Fresh /\ ~w.read /\ Possible(w)
    /\ writes' = (writes \ {w}) \cup {[w EXCEPT !.read = TRUE, !.pos = TailPosition(w.value.stage)]}
    /\ UNCHANGED <<srv, query, shown, error, loadedKey, refreshing, asks, form, engines, drag, last,
                   bmoves>>

\* The number found for a card is one another card of the column has.
Tied(w) == \E x \in ToSet(StageCards(w.stage, w.task)) :
               srv.pos[x] = PositionAfter(w.stage, w.task, w.after)

\* The browser hears of its write and fetches; a write that failed is followed by nothing.
WriteTakenUnread(w) ==
    /\ ~w.done
    /\ srv' = [Taken(w) EXCEPT !.at = @ + 1]
    /\ writes' = writes \ {w}
    /\ last' = [last EXCEPT !.own = srv.at + 1]
    /\ form' = IF Closes(w) THEN Shut ELSE form
    /\ UNCHANGED <<query, shown, error, loadedKey, refreshing, asks, engines, drag, bmoves>>

WriteTaken(w) ==
    /\ ~w.done /\ Possible(w) /\ (w.value.id = Fresh => w.read)
    /\ srv' = [Taken(w) EXCEPT !.at = @ + 1]
    /\ LET done == [w EXCEPT !.done = TRUE]
       IN  writes' = (writes \ {w}) \cup {done} /\ Reload(done)
    /\ last' = [drop |-> IF w.op = "move" /\ w.at = srv.at
                         THEN [op |-> "move", task |-> w.task, stage |-> w.stage, after |-> w.after,
                               at |-> srv.at + 1, tied |-> Tied(w)]
                         ELSE NoDrop,
                own |-> srv.at + 1]
    /\ UNCHANGED <<query, shown, error, loadedKey, form, engines, drag, bmoves>>

WriteFails(w) ==
    /\ ~w.done /\ IF Possible(w) THEN Spend("fault") ELSE UNCHANGED bmoves
    /\ writes' = writes \ {w}
    /\ UNCHANGED <<srv, query, shown, error, loadedKey, refreshing, asks, form, engines, drag, last>>

\* Another client writes: it moves a card to the head of a column or changes its fields.
Elsewhere(t) ==
    /\ t \in srv.alive /\ Spend("elsewhere")
    /\ \/ \E s \in Stages : srv' = [Placed(t, s, "none") EXCEPT !.at = @ + 1]
       \/ \E s \in Stages : srv' = [srv EXCEPT !.stage[t] = s, !.at = @ + 1]
       \/ srv' = [Without(t) EXCEPT !.at = @ + 1]
       \/ \E x \in Texts : srv' = [srv EXCEPT !.text[t] = x, !.at = @ + 1]
    /\ last' = [last EXCEPT !.drop = NoDrop]
    /\ UNCHANGED <<query, shown, error, loadedKey, refreshing, asks, writes, form, engines, drag>>

-----------------------------------------------------------------------------
(* Dragging a card, and the menu of a card.                                  *)

NoValues == [id |-> "none", stage |-> "todo", text |-> 0, agent |-> FALSE, exec |-> Nobody]
Write(op, t) == [op |-> op, task |-> t, stage |-> "todo", after |-> "none", value |-> NoValues,
                 at |-> shown.at, read |-> FALSE, pos |-> 0, done |-> FALSE]
Sends(w) == w \notin writes /\ Spend(w.op) /\ writes' = writes \cup {w}

DragStart(t) ==
    /\ drag = "none" /\ form = Shut /\ t \in ToSet(shown.order) /\ bmoves["move"] > 0
    /\ drag' = t
    /\ UNCHANGED <<srv, query, shown, error, loadedKey, refreshing, asks, writes, form, engines,
                   last, bmoves>>

DragEnd ==
    /\ drag # "none" /\ drag' = "none"
    /\ UNCHANGED <<srv, query, shown, error, loadedKey, refreshing, asks, writes, form, engines,
                   last, bmoves>>

\* afterIdAt: of the cards above the pointer the last, the dragged one apart.
PlacesOnItself(s) == {"none"} \cup ToSet(Column(shown, s))
Places(s) == {"none"} \cup (ToSet(Column(shown, s)) \ {drag})

Drop(s) ==
    /\ drag # "none"
    /\ \E after \in Places(s) : Sends([Write("move", drag) EXCEPT !.stage = s, !.after = after])
    /\ drag' = "none"
    /\ UNCHANGED <<srv, query, shown, error, loadedKey, refreshing, asks, form, engines, last>>

DeleteCard(t) ==
    /\ form = Shut /\ drag = "none" /\ t \in ToSet(shown.order)
    /\ Sends([Write("delete", t) EXCEPT !.value.id = "card"])
    /\ UNCHANGED <<srv, query, shown, error, loadedKey, refreshing, asks, form, engines, drag, last>>

\* The form's own deletion.
DeleteForm ==
    /\ form # Shut /\ form.id # Fresh
    /\ Sends([Write("delete", form.id) EXCEPT !.value.id = form.id])
    /\ UNCHANGED <<srv, query, shown, error, loadedKey, refreshing, asks, form, engines, drag, last>>

MutateLabel ==
    /\ Sends(Write("label", "none"))
    /\ UNCHANGED <<srv, query, shown, error, loadedKey, refreshing, asks, form, engines, drag, last>>

-----------------------------------------------------------------------------
(* The form: what a task has, of the board shown. picked is a history variable: the
   machine the user has in it.                                                *)

ToForm(t) == [id |-> t, stage |-> shown.stage[t], text |-> shown.text[t], agent |-> shown.run[t].agent,
              exec |-> shown.run[t].exec, picked |-> shown.run[t].exec]

OpenTask(t) ==
    /\ form = Shut /\ drag = "none" /\ t \in ToSet(shown.order) /\ Spend("form")
    /\ form' = ToForm(t)
    /\ UNCHANGED <<srv, query, shown, error, loadedKey, refreshing, asks, writes, engines, drag, last>>

NewTask(s) ==
    /\ form = Shut /\ drag = "none" /\ Spend("form")
    /\ form' = [NoValues EXCEPT !.id = Fresh, !.stage = s] @@ [picked |-> Nobody]
    /\ UNCHANGED <<srv, query, shown, error, loadedKey, refreshing, asks, writes, engines, drag, last>>

CloseForm ==
    /\ form # Shut /\ form' = Shut
    /\ UNCHANGED <<srv, query, shown, error, loadedKey, refreshing, asks, writes, engines, drag,
                   last, bmoves>>

\* The last agent of a task is taken away, or one is given, or its machine is chosen.
EditForm ==
    /\ form # Shut /\ Spend("edit")
    /\ \/ form' = [form EXCEPT !.agent = ~@]
       \/ \E x \in Texts : form' = [form EXCEPT !.text = x]
       \/ \E s \in Stages : form' = [form EXCEPT !.stage = s]
       \/ \E e \in Engines \cup {Nobody} :
            form.agent /\ engines = "read" /\ e \notin Deleted
            /\ form' = [form EXCEPT !.exec = e, !.picked = e]
    /\ UNCHANGED <<srv, query, shown, error, loadedKey, refreshing, asks, writes, engines, drag, last>>

EnginesRead ==
    /\ engines = "unread" /\ engines' = "read"
    /\ UNCHANGED <<srv, query, shown, error, loadedKey, refreshing, asks, writes, form, drag,
                   last, bmoves>>

\* BoardExecTargetPill: a machine that is gone is not kept.
DropGoneAlways ==
    /\ form # Shut /\ form.agent /\ form.exec # Nobody
    /\ engines = "unread" \/ form.exec \in Deleted
    /\ form' = [form EXCEPT !.exec = Nobody]
    /\ UNCHANGED <<srv, query, shown, error, loadedKey, refreshing, asks, writes, engines, drag,
                   last, bmoves>>

GoneChosen == form # Shut /\ form.agent /\ engines = "read" /\ form.exec \in Deleted

DropGone ==
    /\ GoneChosen
    /\ form' = [form EXCEPT !.exec = Nobody]
    /\ UNCHANGED <<srv, query, shown, error, loadedKey, refreshing, asks, writes, engines, drag,
                   last, bmoves>>

ValuesWhole == [id |-> form.id, stage |-> form.stage, text |-> form.text, agent |-> form.agent,
           exec |-> form.exec]
Values == [id |-> form.id, stage |-> form.stage, text |-> form.text, agent |-> form.agent,
           exec |-> IF form.agent THEN form.exec ELSE Nobody]

SaveForm ==
    /\ form # Shut /\ ~GoneChosen
    /\ \E t \in IF form.id = Fresh THEN Tasks \ (srv.born \cup {w.task : w \in writes}) ELSE {form.id} :
        Sends([Write("save", t) EXCEPT !.value = Values])
    /\ UNCHANGED <<srv, query, shown, error, loadedKey, refreshing, asks, form, engines, drag, last>>

BoardNext ==
    \/ \E q \in Searches : SetQuery(q)
    \/ \E a \in asks : Served(a) \/ BoardLands(a) \/ BoardFails(a)
    \/ \E w \in writes : TaskNumbered(w) \/ WriteTaken(w) \/ WriteFails(w)
    \/ \E t \in Tasks : Elsewhere(t) \/ DragStart(t) \/ DeleteCard(t) \/ OpenTask(t)
    \/ \E s \in Stages : Drop(s) \/ NewTask(s)
    \/ RetryBoard \/ DragEnd \/ DeleteForm \/ MutateLabel \/ CloseForm \/ EditForm \/ EnginesRead
    \/ DropGone \/ SaveForm

(* A request is answered or fails. *)
(* Every request is answered, and each answer reaches the page. *)
BoardFair == WF_boardVars(\E a \in asks : Served(a) \/ BoardLands(a))

BoardSpec == BoardInit /\ [][BoardNext]_boardVars /\ BoardFair

-----------------------------------------------------------------------------
(* Properties.                                                               *)

BoardTypeOK ==
    /\ query \in Searches /\ loadedKey \in Searches \cup {"none"}
    /\ loadedKey = "word" /\ ~error => ToSet(shown.order) \subseteq Word
    /\ Cardinality({a \in asks : a.newest}) <= 1
    /\ \A a \in asks : a.newest => a.key = query
    /\ \A w \in writes : w.done => \E a \in asks : a.why = w
    /\ form # Shut => drag = "none"
    /\ form # Shut => form.exec \in Engines \cup {Nobody}

(* "先发的那次晚返回时不能把新结果盖回旧的": the board shown never goes back to what the
   server had before.                                                         *)
BoardNeverGoesBack == [][shown'.at >= shown.at]_boardVars

(* "写完就地重拉": when nothing is under way, the board is the one searched for and has every
   write the page made, unless it says that reading failed.                   *)
OwnWriteIsShown == asks = {} /\ ~error => loadedKey = query /\ shown.at >= last.own

\* A card dropped on a board that was up to date stands, when the fetch that follows shows
\* it, behind the card it was dropped behind, or at the head of its column; whatever the
\* search hides.
Stands(w) ==
    LET col == Column(shown, w.stage)
        i == CHOOSE i \in DOMAIN col : col[i] = w.task
    IN  IF w.after = "none" THEN i = 1
        ELSE w.after \in ToSet(col) => i > 1 /\ col[i - 1] = w.after
DropShown == last.drop # NoDrop /\ shown.at = last.drop.at /\ last.drop.task \in ToSet(shown.order)

(* A card stands where it was dropped, unless the cards it was dropped between have one number:
   then it gets that number too and the identities decide.                    *)
DroppedWhereShown == DropShown /\ ~last.drop.tied => Stands(last.drop)

(* "没人负责，但它跑在那台机器上": no task is saved that has a machine and no agent. *)
MachineHasAgent == \A t \in srv.born : srv.run[t].exec # Nobody => srv.run[t].agent

(* "此刻清掉等于把用户选的机器悄悄换掉": a form has the machine its user has in it, or the
   machine is gone.                                                           *)
ChosenMachineKept == form # Shut => form.exec = form.picked \/ form.picked \in Deleted

(* "失败也要放行那枚转圈": what is searched is answered, or said to have failed. *)
SearchEnds == loadedKey # query ~> loadedKey = query

(* The board: it shows the own write, puts a card where it was dropped, and
   keeps a machine with its agent. *)
BoardInv ==
    /\ BoardTypeOK
    /\ OwnWriteIsShown
    /\ DroppedWhereShown
    /\ MachineHasAgent
    /\ ChosenMachineKept

-----------------------------------------------------------------------------
(* What the repository says, or a user would expect, and the code does not       *)
(* keep: TLC finds each of these violated (README, section 8).                   *)

(* "在途期间 `searching` 为真": while the newest fetch is a reload, it is said to be under
   way.                                                                       *)
ReloadIsSaid == (\E a \in asks : a.newest /\ a.why # Effect) => Searching

(* "positionAfter 把卡片放到 afterSyncID 之后": a card stands where it was dropped. A change of
   column by the form keeps the number of the other column, where a card may have it.  *)
DroppedStands == DropShown => Stands(last.drop)

(* "留 0 会让每一张新卡都和别人撞在同一个位置上": no two cards of a column have one number. A new
   card is numbered before its transaction, and a change of column keeps the number.  *)
NumbersDiffer ==
    \A t, u \in srv.alive : t # u /\ srv.stage[t] = srv.stage[u] => srv.pos[t] # srv.pos[u]

(* A form is closed by its user, or by the answer to what it saved.           *)
OwnAnswerCloses == [][form # Shut /\ form' = Shut =>
    \/ asks' = asks
    \/ \E a \in asks \ asks' : a.why \in writes /\ form.id \in {a.why.task, a.why.value.id}]_boardVars
=============================================================================
