---------------------------- MODULE SessionIndex ----------------------------
(* The list of conversations in the left column (frontend pages/chat/useSessionIndex.ts
   and chatRows.ts). The server orders the saved conversations by their last activity
   and hands the list out in pages; the browser keeps a first page, the pages scrolled
   to below it, and marks of its own over both (saved, removed, read) that live until
   the next pull lands. Three requests make a pull, and each of them is answered from
   the server of its own moment. A row is [id, at, seen]: what its conversation was when
   the answer was made. Axes, filters and searches are ranges: "machine" is pulled to
   its end, "unread" is narrowed, "time" is the account's whole list.           *)
EXTENDS Integers, FiniteSets, Bags

CONSTANTS Rows,       \* conversations
          MaxAt,      \* bound: instants of activity
          PageSize,   \* rows of a page
          IndexStarts \* bound: where a run starts, and which moves of the user, of the
                      \* machines and of the network it makes (see IndexInit)

\* The rows are finitely many, and a run starts from instants of theirs.
ASSUME IndexStartsAssumption ==
    /\ IsFiniteSet(Rows) /\ "none" \notin Rows /\ MaxAt \in Nat
    /\ \A s \in IndexStarts :
          /\ s.at \in [Rows -> 0 .. MaxAt] /\ s.seen \in [Rows -> 0 .. MaxAt]
          /\ s.saved \in SUBSET Rows /\ s.range \in {"time", "unread", "machine"}

VARIABLES srv,      \* at and seen (instants of each conversation), saved; signal: mirror_changed
                    \* is on its way; dropped (history): deleted here since they were saved
          range,    \* the range the controls stand at
          view,     \* what the last pull and the pages scrolled to have left
          marks,    \* optimisticSaved, optimisticRemoved, optimisticRead
          totals,   \* accountTotal (-1: not asked yet), unreadTotal
          pull,     \* the pull under way; on is FALSE when it has ended
          more,     \* loadingMore, and the requests for a further page that are in flight
          writes,   \* bag of saves, deletions and reads in flight
          dialogs,  \* saveFailure and its kind, pendingSave, pendingDelete (a set of one row)
          moves     \* what is left of the bounds

indexVars == <<srv, range, view, marks, totals, pull, more, writes, dialogs, moves>>

Ranges == {"time", "unread", "machine"}
None == "none"
Unasked == -1

Largest(S) == IF S = {} THEN 0 ELSE CHOOSE m \in S : \A n \in S : n <= m
Clock == Largest({srv.at[x] : x \in Rows})
Version(x) == [id |-> x, at |-> srv.at[x], seen |-> srv.seen[x]]
Unread(v) == v.at > v.seen
Ids(vs) == {v.id : v \in vs}

-----------------------------------------------------------------------------
(* The server's side of the index.                                          *)

ListOf(r) == {Version(x) : x \in {y \in srv.saved : r = "unread" => Unread(Version(y))}}

\* A page of a range below an instant; cursor 0: nothing is left.
PageOf(r, below) ==
    LET rest == {v \in ListOf(r) : v.at < below}
        page == {v \in rest : Cardinality({w \in rest : w.at > v.at}) < PageSize}
        last == CHOOSE v \in page : \A w \in page : v.at <= w.at
    IN  [rows |-> page, cursor |-> IF page = rest THEN 0 ELSE last.at]

Top == MaxAt + 1
UnreadCount == Cardinality(ListOf("unread"))
SavedCount == Cardinality(srv.saved)

-----------------------------------------------------------------------------
(* Rows as they are shown.                                                   *)

\* mergeMirrorRows: one row per conversation, the later source over the earlier.
Merged ==
    LET over(vs, ws) == {v \in vs : v.id \notin Ids(ws)} \cup ws
        listed == over(over(view.page, {e.row : e \in view.extra}), marks.saved)
    IN  {[v EXCEPT !.seen = Largest({v.seen, marks.read[v.id]})] :
            v \in {w \in listed : w.id \notin marks.removed}}

Pending == view.applied # range

NoPull == [on |-> FALSE, range |-> None, rows |-> {}, below |-> 0, cursor |-> 0,
           unread |-> Unasked, account |-> Unasked]

\* The effect that pulls: below is where its next page starts, 0 when it has them all;
\* cursor is where the list goes on for a range that is not pulled to its end.
NewPull(r) == [NoPull EXCEPT !.on = TRUE, !.range = r, !.below = Top]

NoMarks == [saved |-> {}, removed |-> {}, read |-> [x \in Rows |-> 0]]

NoView == [applied |-> None, page |-> {}, extra |-> {}, cursor |-> 0, paged |-> FALSE,
           failed |-> None, moreFailed |-> FALSE]

IndexInit ==
    \E s \in IndexStarts :
        /\ srv = [at |-> s.at, seen |-> s.seen, saved |-> s.saved, signal |-> FALSE,
                  dropped |-> {}]
        /\ range = s.range /\ pull = NewPull(s.range)
        /\ view = NoView /\ marks = NoMarks
        /\ totals = [account |-> Unasked, unread |-> 0]
        /\ more = [busy |-> FALSE, flights |-> {}]
        /\ writes = EmptyBag
        /\ dialogs = [failure |-> None, kind |-> None, save |-> None, delete |-> {}]
        /\ moves = s.moves

Spend(m) == moves[m] > 0 /\ moves' = [moves EXCEPT ![m] = @ - 1]

-----------------------------------------------------------------------------
(* The pull.                                                                *)

\* The range changes, or a signal or a retry asks for the same one again: the pull under
\* way is abandoned.
Repull(r) == pull' = NewPull(r)

\* guardRange: a request for a further page belongs to the visit of its range. 
Visit(r) == {[f EXCEPT !.here = f.here /\ r = range] : f \in more.flights}

ChangeRangeKeepsPull(r) ==
    /\ r # range /\ Spend("range")
    /\ range' = r /\ (IF pull.on THEN UNCHANGED pull ELSE Repull(r))
    /\ more' = [more EXCEPT !.flights = Visit(r)]
    /\ UNCHANGED <<srv, view, marks, totals, writes, dialogs>>

ChangeRange(r) ==
    /\ r # range /\ Spend("range")
    /\ range' = r /\ Repull(r)
    /\ more' = [more EXCEPT !.flights = Visit(r)]
    /\ UNCHANGED <<srv, view, marks, totals, writes, dialogs>>

\* The button of the error.
Retry ==
    /\ view.failed = range
    /\ view' = [view EXCEPT !.failed = None]
    /\ Repull(range)
    /\ UNCHANGED <<srv, range, marks, totals, more, writes, dialogs, moves>>

\* A page of the index is answered; "machine" asks on until nothing is left.
AnswerPage ==
    /\ pull.on /\ pull.below > 0
    /\ LET p == PageOf(pull.range, pull.below)
       IN  pull' = [pull EXCEPT !.rows = {v \in pull.rows : v.id \notin Ids(p.rows)} \cup p.rows,
                      !.below = IF pull.range = "machine" THEN p.cursor ELSE 0,
                      !.cursor = IF pull.range = "machine" THEN 0 ELSE p.cursor,
                      !.account = IF pull.range # "unread" /\ pull.below = Top THEN SavedCount
                                  ELSE pull.account]
    /\ UNCHANGED <<srv, range, view, marks, totals, more, writes, dialogs, moves>>

AnswerUnread ==
    /\ pull.on /\ pull.unread = Unasked
    /\ pull' = [pull EXCEPT !.unread = UnreadCount]
    /\ UNCHANGED <<srv, range, view, marks, totals, more, writes, dialogs, moves>>

\* The account's total is asked for when the page does not say it.
AnswerAccount ==
    /\ pull.on /\ pull.range = "unread" /\ pull.account = Unasked
    /\ pull' = [pull EXCEPT !.account = SavedCount]
    /\ UNCHANGED <<srv, range, view, marks, totals, more, writes, dialogs, moves>>

\* A new range starts at its top; the same range keeps its place, and gives the rows
\* this pull has to it.
Landed(v, p) ==
    LET moved == v.applied # p.range
    IN  [v EXCEPT !.applied = p.range, !.page = p.rows, !.moreFailed = FALSE, !.failed = None,
                  !.extra = IF moved THEN {} ELSE {e \in v.extra : e.row.id \notin Ids(p.rows)},
                  !.paged = ~moved /\ v.paged,
                  !.cursor = IF moved \/ ~v.paged THEN p.cursor ELSE v.cursor]

PullLands ==
    /\ pull.on /\ pull.below = 0 /\ pull.unread # Unasked /\ pull.account # Unasked
    /\ view' = Landed(view, pull)
    /\ marks' = NoMarks
    /\ totals' = [account |-> pull.account, unread |-> pull.unread]
    /\ pull' = NoPull
    /\ UNCHANGED <<srv, range, more, writes, dialogs, moves>>

PullFailsQuietly ==
    /\ pull.on /\ Spend("fault")
    /\ view' = IF view.applied = pull.range THEN [view EXCEPT !.failed = pull.range]
               ELSE [NoView EXCEPT !.applied = view.applied]
    /\ marks' = IF view.applied = pull.range THEN marks ELSE NoMarks
    /\ pull' = NoPull
    /\ UNCHANGED <<srv, range, totals, more, writes, dialogs>>

\* One of the three requests fails: rows of this range stay, rows of another go.
PullFails ==
    /\ pull.on /\ Spend("fault")
    /\ IF view.applied = pull.range
       THEN view' = [view EXCEPT !.failed = pull.range] /\ marks' = marks
       ELSE /\ view' = [NoView EXCEPT !.applied = view.applied, !.failed = pull.range]
            /\ marks' = NoMarks
    /\ pull' = NoPull
    /\ UNCHANGED <<srv, range, totals, more, writes, dialogs>>

-----------------------------------------------------------------------------
(* Further pages.                                                            *)

\* The list gives way to a skeleton while another range is pulled; not so on the machine
\* axis, where the old button stays and the server refuses what it asks for.
OnScreen == ~Pending \/ view.failed = range \/ range = "machine"

LoadMore ==
    /\ view.cursor > 0 /\ ~more.busy /\ OnScreen
    /\ more' = [busy |-> TRUE, flights |-> more.flights \cup
                  {[range |-> range, below |-> view.cursor, here |-> TRUE, answer |-> {}, cursor |-> -1]}]
    /\ view' = [view EXCEPT !.moreFailed = FALSE]
    /\ Spend("more")
    /\ UNCHANGED <<srv, range, marks, totals, pull, writes, dialogs>>

AnswerMore(f) ==
    /\ f.cursor = -1 /\ f.range # "machine"
    /\ LET p == PageOf(f.range, f.below)
       IN  more' = [more EXCEPT !.flights = (more.flights \ {f}) \cup
                      {[f EXCEPT !.answer = p.rows, !.cursor = p.cursor]}]
    /\ UNCHANGED <<srv, range, view, marks, totals, pull, writes, dialogs, moves>>

\* Its finally is not guarded: whatever range it belonged to, the button is released.
ReleasedGuarded(f) == [busy |-> more.busy /\ ~f.here, flights |-> more.flights \ {f}]
Released(f) == [busy |-> FALSE, flights |-> more.flights \ {f}]

Extends(v, f) ==
    [v EXCEPT !.extra = v.extra \cup {[row |-> r, of |-> f.range] : r \in f.answer},
              !.cursor = f.cursor, !.paged = TRUE]

MoreLandsAnywhere(f) ==
    /\ f.cursor >= 0
    /\ view' = Extends(view, f)
    /\ more' = Released(f)
    /\ UNCHANGED <<srv, range, marks, totals, pull, writes, dialogs, moves>>

MoreLands(f) ==
    /\ f.cursor >= 0
    /\ view' = IF f.here THEN Extends(view, f) ELSE view
    /\ more' = Released(f)
    /\ UNCHANGED <<srv, range, marks, totals, pull, writes, dialogs, moves>>

MoreFails(f) ==
    /\ IF f.range = "machine" THEN UNCHANGED moves ELSE Spend("fault")
    /\ view' = [view EXCEPT !.moreFailed = view.moreFailed \/ f.here]
    /\ more' = Released(f)
    /\ UNCHANGED <<srv, range, marks, totals, pull, writes, dialogs>>

-----------------------------------------------------------------------------
(* Saving, deleting, reading.                                                *)

Write(what, v) == [what |-> what, row |-> v, written |-> FALSE]
InFlight == BagToSet(writes)
Send(w) == writes' = writes (+) SetToBag({w})
Leaves(w) == writes' = writes (-) SetToBag({w})
Reaches(w) == writes' = (writes (-) SetToBag({w})) (+) SetToBag({[w EXCEPT !.written = TRUE]})

\* shiftTotals: the totals move with a row that comes or goes.
Shift(row, delta) ==
    LET bump(n) == Largest({0, n + delta})
    IN  totals' = [account |-> IF totals.account = Unasked THEN Unasked ELSE bump(totals.account),
                   unread |-> IF Unread(row) THEN bump(totals.unread) ELSE totals.unread]

\* A row nobody saved stands on the machine axis only, and nothing of it was read here.
UnsavedRow(x) == [id |-> x, at |-> srv.at[x], seen |-> 0]

DoSave(row) ==
    /\ marks' = [marks EXCEPT !.saved = marks.saved \cup {row}]
    /\ Shift(row, 1)
    /\ Send(Write("save", row))

\* The first save of an account explains itself before it happens.
OnSave(x) ==
    /\ range = "machine" /\ ~Pending /\ x \notin Ids(Merged)
    /\ Spend("save")
    /\ IF totals.account = 0
       THEN dialogs' = [dialogs EXCEPT !.save = x] /\ UNCHANGED <<marks, totals, writes>>
       ELSE DoSave(UnsavedRow(x)) /\ UNCHANGED dialogs
    /\ UNCHANGED <<srv, range, view, pull, more>>

ConfirmSave ==
    /\ dialogs.save # None
    /\ DoSave(UnsavedRow(dialogs.save))
    /\ dialogs' = [dialogs EXCEPT !.save = None]
    /\ UNCHANGED <<srv, range, view, pull, more, moves>>

CancelSave ==
    /\ dialogs.save # None
    /\ dialogs' = [dialogs EXCEPT !.save = None]
    /\ UNCHANGED <<srv, range, view, marks, totals, pull, more, writes, moves>>

SaveAnswered(w) ==
    /\ w.what = "save" /\ w.written
    /\ Leaves(w)
    /\ dialogs' = IF dialogs.failure = w.row.id
                  THEN [dialogs EXCEPT !.failure = None, !.kind = None] ELSE dialogs
    /\ UNCHANGED <<srv, range, view, marks, totals, pull, more, moves>>

\* The row goes back; the server may have heard of it all the same.
SaveFailsKeepsRow(w) ==
    /\ w.what = "save" /\ Spend("fault")
    /\ Leaves(w) /\ marks' = marks
    /\ Shift(w.row, -1)
    /\ dialogs' = [dialogs EXCEPT !.failure = w.row.id, !.kind = "manual"]
    /\ UNCHANGED <<srv, range, view, pull, more>>

SaveFails(w) ==
    /\ w.what = "save" /\ Spend("fault")
    /\ Leaves(w)
    /\ marks' = [marks EXCEPT !.saved = {v \in marks.saved : v.id # w.row.id}]
    /\ Shift(w.row, -1)
    /\ dialogs' = [dialogs EXCEPT !.failure = w.row.id, !.kind = "manual"]
    /\ UNCHANGED <<srv, range, view, pull, more>>

\* reportUnsavedOnStart: a conversation started from here did not get into the account.
StartUnsaved(x) ==
    /\ x \notin srv.saved /\ Spend("save")
    /\ dialogs' = [dialogs EXCEPT !.failure = x, !.kind = "onStart"]
    /\ UNCHANGED <<srv, range, view, marks, totals, pull, more, writes>>

RetrySave ==
    /\ dialogs.failure # None /\ Spend("again")
    /\ IF dialogs.kind = "manual" THEN DoSave(UnsavedRow(dialogs.failure))
       ELSE Send(Write("start", UnsavedRow(dialogs.failure))) /\ UNCHANGED <<marks, totals>>
    /\ UNCHANGED <<srv, range, view, pull, more, dialogs>>

StartAnswered(w) ==
    /\ w.what = "start" /\ w.written
    /\ Leaves(w)
    /\ dialogs' = [dialogs EXCEPT !.failure = None, !.kind = None]
    /\ Repull(range)
    /\ UNCHANGED <<srv, range, view, marks, totals, more, moves>>

AskDelete(x) ==
    /\ dialogs.delete = {} /\ Spend("delete")
    /\ \E v \in Merged : v.id = x /\ dialogs' = [dialogs EXCEPT !.delete = {v}]
    /\ UNCHANGED <<srv, range, view, marks, totals, pull, more, writes>>

\* The dialog is busy while its request is under way: it can be neither sent nor closed.
Deleting == \E w \in InFlight : w.what = "delete"

CancelDelete ==
    /\ dialogs.delete # {} /\ ~Deleting
    /\ dialogs' = [dialogs EXCEPT !.delete = {}]
    /\ UNCHANGED <<srv, range, view, marks, totals, pull, more, writes, moves>>

ConfirmDelete ==
    /\ dialogs.delete # {} /\ ~Deleting
    /\ \E v \in dialogs.delete : Send(Write("delete", v))
    /\ UNCHANGED <<srv, range, view, marks, totals, pull, more, dialogs, moves>>

DeleteAnswered(w) ==
    /\ w.what = "delete" /\ w.written
    /\ Leaves(w)
    /\ marks' = [marks EXCEPT !.removed = marks.removed \cup {w.row.id}]
    /\ Shift(w.row, -1)
    /\ dialogs' = [dialogs EXCEPT !.delete = {}]
    /\ UNCHANGED <<srv, range, view, pull, more, moves>>

\* The detail view opens a conversation, or a turn of it ends in sight.
Read(x) ==
    /\ x \in srv.saved /\ Spend("read")
    /\ Send(Write("read", [Version(x) EXCEPT !.seen = Clock]))
    /\ UNCHANGED <<srv, range, view, marks, totals, pull, more, dialogs>>

\* markRead: the badge goes down with a row that was unread as it is shown.
WasUnread(x) == \E v \in Merged : v.id = x /\ Unread(v)

MarkRead(w) ==
    /\ w.what = "read" /\ w.written
    /\ Leaves(w)
    /\ marks' = [marks EXCEPT !.read[w.row.id] = Largest({marks.read[w.row.id], w.row.seen})]
    /\ totals' = IF WasUnread(w.row.id) THEN [totals EXCEPT !.unread = Largest({0, totals.unread - 1})]
                 ELSE totals
    /\ UNCHANGED <<srv, range, view, pull, more, dialogs, moves>>

WriteFails(w) ==
    /\ w.what # "save" /\ Spend("fault")
    /\ Leaves(w)
    /\ UNCHANGED <<srv, range, view, marks, totals, pull, more, dialogs>>

\* The server does what it was asked.
Written(w) ==
    /\ ~w.written /\ Reaches(w)
    /\ LET x == w.row.id
       IN  srv' = CASE w.what \in {"save", "start"} -> [srv EXCEPT !.saved = srv.saved \cup {x},
                                                                       !.dropped = srv.dropped \ {x}]
                    [] w.what = "delete" -> [srv EXCEPT !.saved = srv.saved \ {x},
                                                           !.dropped = srv.dropped \cup {x}]
                    [] OTHER -> [srv EXCEPT !.seen[x] = Largest({srv.seen[x], w.row.seen}),
                                            !.signal = TRUE]
    /\ UNCHANGED <<range, view, marks, totals, pull, more, dialogs, moves>>

\* Something is said in a conversation.
Touch(x) ==
    /\ Clock < MaxAt /\ Spend("touch")
    /\ srv' = [srv EXCEPT !.at[x] = Clock + 1, !.signal = srv.signal \/ x \in srv.saved]
    /\ UNCHANGED <<range, view, marks, totals, pull, more, writes, dialogs>>

SignalArrivesIdle ==
    /\ srv.signal /\ srv' = [srv EXCEPT !.signal = FALSE]
    /\ IF pull.on THEN UNCHANGED pull ELSE Repull(range)
    /\ UNCHANGED <<range, view, marks, totals, more, writes, dialogs, moves>>

MirrorChanged ==
    /\ srv.signal /\ srv' = [srv EXCEPT !.signal = FALSE]
    /\ Repull(range)
    /\ UNCHANGED <<range, view, marks, totals, more, writes, dialogs, moves>>

Pulls == AnswerPage \/ AnswerUnread \/ AnswerAccount \/ PullLands
Answers(w) == SaveAnswered(w) \/ StartAnswered(w) \/ DeleteAnswered(w) \/ MarkRead(w)

IndexNext ==
    \/ \E r \in Ranges : ChangeRange(r)
    \/ Retry \/ Pulls \/ PullFails \/ LoadMore
    \/ \E f \in more.flights : AnswerMore(f) \/ MoreLands(f) \/ MoreFails(f)
    \/ \E x \in Rows : OnSave(x) \/ StartUnsaved(x) \/ AskDelete(x) \/ Read(x) \/ Touch(x)
    \/ ConfirmSave \/ CancelSave \/ RetrySave \/ CancelDelete \/ ConfirmDelete
    \/ \E w \in InFlight : Written(w) \/ SaveFails(w) \/ WriteFails(w) \/ Answers(w)
    \/ MirrorChanged

(* A request is answered or fails; a change the server told of is heard. *)
IndexFair == WF_indexVars(Pulls) /\ WF_indexVars(MirrorChanged)

IndexSpec == IndexInit /\ [][IndexNext]_indexVars /\ IndexFair

-----------------------------------------------------------------------------
(* Properties.                                                               *)

Versions == [id : Rows, at : 0 .. MaxAt, seen : 0 .. MaxAt]

Counts == {Unasked} \cup Nat
OnceEach(vs) == \A v, w \in vs : v.id = w.id => v = w

IndexTypeOK ==
    /\ srv \in [at : [Rows -> 0 .. MaxAt], seen : [Rows -> 0 .. MaxAt], saved : SUBSET Rows,
                signal : BOOLEAN, dropped : SUBSET Rows]
    /\ range \in Ranges
    /\ view.page \subseteq Versions /\ OnceEach(view.page)
    /\ view.extra \subseteq [row : Versions, of : Ranges]
    /\ view.applied \in Ranges \cup {None} /\ view.failed \in Ranges \cup {None}
    /\ totals \in [account : Counts, unread : Nat]
    /\ pull.on => pull.range = range
    /\ \A f \in more.flights : f.here => f.range = range
    /\ marks.saved \subseteq Versions /\ marks.removed \subseteq Rows

(* "这一页是当前这个范围的下一页": what is appended to a list is of its own range, also
   when the range has changed, or changed and changed back, before the answer.  *)
RangesDontMix == \A e \in view.extra : e.of = view.applied

(* The button that loads more is taken exactly while its one page is on its way:
   changing the range under it leaves neither a button that can never be pressed again
   nor two pages asked for from one place.                                    *)
OnePageAtATime == Cardinality(more.flights) = IF more.busy THEN 1 ELSE 0

(* "行尾那个动作不能说谎": a row shown as saved that nobody deletes is in the account or on
   its way into it, through retries and pulls: a save that fails takes its row back. *)
SavedIsNoLie == \A v \in marks.saved :
    v.id \in srv.saved \cup srv.dropped \/ \E w \in InFlight : w.row.id = v.id

(* Changing the controls ends in the new range's rows, or in an error that says so. *)
RangeSettles == Pending ~> (~Pending \/ view.failed = range)

(* The first page does not stay behind: what is said or read in a conversation it shows
   comes through, however the signals fall between the requests of a pull.     *)
Behind == \E v \in view.page : v.id \in srv.saved /\ v # Version(v.id)
PageCatchesUp == Behind ~> (~Behind \/ view.failed = range)

(* The session list: rows of one range, one page at a time, and no row shown
   as saved that is not. *)
IndexInv == IndexTypeOK /\ RangesDontMix /\ OnePageAtATime /\ SavedIsNoLie

-----------------------------------------------------------------------------
(* What the repository says, or a user would expect, and the code does not       *)
(* keep: TLC finds each of these violated (README, section 8).                   *)

(* A list that was scrolled down has every conversation above the place it goes on from. *)
AtRest == ~pull.on /\ ~srv.signal /\ more.flights = {} /\ writes = EmptyBag
NothingVanishes == AtRest /\ view.paged /\ ~Pending /\ view.failed = None =>
    \A v \in ListOf(range) : v.at > view.cursor => v.id \in Ids(Merged)

(* "不留「已删除但还在」的中间态": a conversation that is neither in the account nor in
   the list does not come back into it unless somebody saves it.               *)
Saving(x) == \E w \in InFlight : w.row.id = x /\ w.what = "save"
GoneStaysGone == [][\A x \in Rows :
    x \notin srv.saved /\ x \notin Ids(Merged) /\ ~Saving(x) => x \notin Ids(Merged') \/ Saving(x)']_indexVars
=============================================================================
