---------------------------- MODULE Forwarding -----------------------------
(* The forwarded ports of a machine (frontend components/devices/DevicePortForward,
   lib/portForward). The declarations live on the machine, which is asked over the relay;
   an address to open one is allocated by the server and kept. Nothing orders the answers.
                                                                             *)
EXTENDS Integers, Sequences, SequencesExt, FiniteSets

CONSTANTS Ports,         \* declarations
          ForwardStarts  \* bound: what is declared, whether the machine is there, what may happen

VARIABLES declared,    \* what the machine has: declaration -> off, on or none
          offline,     \* what the device list says of the machine
          reach,       \* whether the relay reaches it
          panel,       \* phase, unreachable, actionFailure
          mappings,    \* the rows: a declaration, and whether it is on
          addresses,   \* addresses kept
          asked,       \* requests in flight, to the machine and to the server
          tabs,        \* the tabs opened blank and not navigated
          told,        \* history: what was last heard; the list was crossed by another request;
                       \* the declarations were changed elsewhere and no answer said so
          fmoves

forwardVars == <<declared, offline, reach, panel, mappings, addresses, asked, tabs, told, fmoves>>

Charge(b) == fmoves[b] > 0 /\ fmoves' = [fmoves EXCEPT ![b] = @ - 1]
Rows == {mappings[i].id : i \in 1..Len(mappings)}

\* byPort: by port, which here is the declaration itself.
ByPort(f) == SetToSortSeq({[id |-> p, on |-> f[p]] : p \in {p \in Ports : f[p] # "none"}},
                          LAMBDA a, b : a.id < b.id)
Shown == [p \in Ports |-> IF p \in Rows THEN (CHOOSE r \in ToSet(mappings) : r.id = p).on ELSE "none"]

Request(op, p) == [op |-> op, port |-> p, heard |-> "no", value |-> <<>>]

ForwardInit ==
    \E s \in ForwardStarts :
        /\ declared = s.declared /\ offline = s.offline /\ reach = s.reach
        /\ panel = [phase |-> "loading", unreachable |-> FALSE, failed |-> FALSE]
        /\ mappings = <<>> /\ addresses = {} /\ tabs = {}
        /\ asked = IF s.offline THEN {} ELSE {Request("list", 0)}
        /\ told = [last |-> "none", crossed |-> FALSE, stale |-> FALSE]
        /\ fmoves = s.moves

ToMachine == {q \in asked : q.op # "link"}
Asking(q) ==
    /\ asked' = asked \cup {q}
    /\ told' = [told EXCEPT !.crossed = ToMachine # {} \/ (@ /\ q.op # "list")]

\* load: nothing is sent to a machine that is listed offline.
Load == IF offline \/ Request("list", 0) \in asked THEN UNCHANGED <<asked, told>>
        ELSE Asking(Request("list", 0))

-----------------------------------------------------------------------------
(* The machine, the relay to it, and others that use it.                     *)

Done(q) == CASE q.op = "enable" -> [declared EXCEPT ![q.port] = "on"]
             [] q.op = "disable" -> [declared EXCEPT ![q.port] = "off"]
             [] q.op = "remove" -> [declared EXCEPT ![q.port] = "none"]
             [] q.op = "create" -> [declared EXCEPT ![q.port] = "on"]
             [] OTHER -> declared

\* A declaration that is gone is not switched or removed; a target is declared once.
Answered(q) == IF q.op = "create" THEN IF declared[q.port] = "none" THEN "ok" ELSE "taken"
               ELSE IF q.op # "list" /\ declared[q.port] = "none" THEN "gone" ELSE "ok"

Heard(q) ==
    /\ q.heard = "no" /\ (reach \/ q.op = "link")
    /\ LET yes == Answered(q)
       IN  /\ declared' = IF yes = "ok" THEN Done(q) ELSE declared
           /\ asked' = (asked \ {q}) \cup {[q EXCEPT !.heard = yes, !.value = IF q.op = "list" THEN declared ELSE <<>>]}
    /\ UNCHANGED <<offline, reach, panel, mappings, addresses, tabs, told, fmoves>>

\* The relay does not reach it, or an answer of another kind comes.
Unheard(q) ==
    /\ q.heard = "no"
    /\ \/ /\ ~reach /\ q.op # "link" /\ UNCHANGED fmoves
          /\ asked' = (asked \ {q}) \cup {[q EXCEPT !.heard = "disconnected"]}
       \/ Charge("fault") /\ asked' = (asked \ {q}) \cup {[q EXCEPT !.heard = "error"]}
    /\ UNCHANGED <<declared, offline, reach, panel, mappings, addresses, tabs, told>>

ChangedElsewhere(p) ==
    /\ Charge("elsewhere")
    /\ \E v \in {"on", "none"} \ {declared[p]} : declared' = [declared EXCEPT ![p] = v]
    /\ told' = [told EXCEPT !.stale = TRUE]
    /\ UNCHANGED <<offline, reach, panel, mappings, addresses, asked, tabs>>

RelayTurns ==
    /\ Charge("relay") /\ reach' = ~reach
    /\ UNCHANGED <<declared, offline, panel, mappings, addresses, asked, tabs, told>>

\* The device list says the machine left, or came back: then it is asked again.
PresenceTurns ==
    /\ Charge("presence")
    /\ offline' = ~offline
    /\ IF offline /\ Request("list", 0) \notin asked THEN Asking(Request("list", 0))
                                                      ELSE UNCHANGED <<asked, told>>
    /\ UNCHANGED <<declared, reach, panel, mappings, addresses, tabs>>

-----------------------------------------------------------------------------
(* The list.                                                                 *)

Left(q) == asked \ {q}

ListArrives(q) ==
    /\ q.op = "list" /\ q.heard = "ok"
    /\ mappings' = ByPort(q.value)
    /\ panel' = [panel EXCEPT !.phase = "ready", !.unreachable = FALSE]
    /\ asked' = Left(q)
    /\ told' = [last |-> "ok", crossed |-> told.crossed, stale |-> told.stale /\ q.value # declared]
    /\ UNCHANGED <<declared, offline, reach, addresses, tabs, fmoves>>

\* Out of reach is not a failure of reading; anything else is.
ListRefused(q) ==
    /\ q.op = "list" /\ q.heard \in {"disconnected", "error"}
    /\ panel' = IF q.heard = "disconnected" THEN [panel EXCEPT !.phase = "ready", !.unreachable = TRUE]
                                            ELSE [panel EXCEPT !.phase = "error"]
    /\ asked' = Left(q) /\ told' = [told EXCEPT !.last = q.heard]
    /\ UNCHANGED <<declared, offline, reach, mappings, addresses, tabs, fmoves>>

RetryList ==
    /\ panel.phase = "error" /\ ~offline /\ Charge("click")
    /\ Load
    /\ UNCHANGED <<declared, offline, reach, panel, mappings, addresses, tabs>>

-----------------------------------------------------------------------------
(* A row's actions, and a new declaration.                                   *)

Ready == panel.phase = "ready" \/ offline
Switches(p) == IF Shown[p] = "on" THEN "disable" ELSE "enable"

Act(op, p) ==
    /\ Ready /\ p \in Rows /\ Charge("click")
    /\ op \in {"remove", Switches(p)} /\ Request(op, p) \notin asked
    /\ panel' = [panel EXCEPT !.failed = FALSE]
    /\ Asking(Request(op, p))
    /\ UNCHANGED <<declared, offline, reach, mappings, addresses, tabs>>

\* Not offered while the machine is out of reach.
Create(p) ==
    /\ Ready /\ ~offline /\ ~panel.unreachable /\ p \notin Rows /\ Charge("click")
    /\ Request("create", p) \notin asked
    /\ Asking(Request("create", p))
    /\ UNCHANGED <<declared, offline, reach, panel, mappings, addresses, tabs>>

RowReplaced(q, on) == [i \in 1..Len(mappings) |-> IF mappings[i].id = q.port THEN [id |-> q.port, on |-> on]
                                                                         ELSE mappings[i]]
RowsAfterUnsorted(q) ==
    CASE q.op = "enable" -> RowReplaced(q, "on")
      [] q.op = "disable" -> RowReplaced(q, "off")
      [] q.op = "remove" -> SelectSeq(mappings, LAMBDA r : r.id # q.port)
      [] OTHER -> Append(mappings, [id |-> q.port, on |-> "on"])
RowsAfter(q) ==
    CASE q.op = "enable" -> RowReplaced(q, "on")
      [] q.op = "disable" -> RowReplaced(q, "off")
      [] q.op = "remove" -> SelectSeq(mappings, LAMBDA r : r.id # q.port)
      [] OTHER -> SortSeq(Append(mappings, [id |-> q.port, on |-> "on"]), LAMBDA a, b : a.id < b.id)

ActedUnmarked(q) ==
    /\ q.op \notin {"list", "link"} /\ q.heard = "ok"
    /\ mappings' = RowsAfter(q)
    /\ addresses' = IF q.op = "remove" THEN addresses \ {q.port} ELSE addresses
    /\ asked' = Left(q) /\ told' = [told EXCEPT !.last = "ok"]
    /\ UNCHANGED <<declared, offline, reach, panel, tabs, fmoves>>

\* markReached: an answer of the machine makes it reachable again.
Acted(q) ==
    /\ q.op \notin {"list", "link"} /\ q.heard = "ok"
    /\ mappings' = RowsAfter(q)
    /\ addresses' = IF q.op = "remove" THEN addresses \ {q.port} ELSE addresses
    /\ panel' = [panel EXCEPT !.unreachable = FALSE]
    /\ asked' = Left(q) /\ told' = [told EXCEPT !.last = "ok"]
    /\ UNCHANGED <<declared, offline, reach, tabs, fmoves>>

GoneShrugged(q) ==
    /\ q.op \notin {"list", "link"} /\ q.heard = "gone"
    /\ asked' = Left(q) /\ told' = [told EXCEPT !.last = "gone", !.stale = FALSE]
    /\ UNCHANGED <<declared, offline, reach, panel, mappings, addresses, tabs, fmoves>>

\* handleFailure: the declaration was changed by another, so the list is read again.
ActionGone(q) ==
    /\ q.op \notin {"list", "link"} /\ q.heard = "gone"
    /\ LET again == ~offline
       IN  /\ asked' = Left(q) \cup (IF again THEN {Request("list", 0)} ELSE {})
           /\ told' = [last |-> "gone", stale |-> told.stale /\ ~again,
                       crossed |-> IF again THEN Left(q) \cap ToMachine # {} ELSE told.crossed]
    /\ UNCHANGED <<declared, offline, reach, panel, mappings, addresses, tabs, fmoves>>

ActionFailed(q) ==
    /\ q.op \notin {"list", "link"} /\ q.heard \in {"disconnected", "error", "taken"}
    /\ panel' = IF q.heard = "disconnected" THEN [panel EXCEPT !.unreachable = TRUE]
                ELSE [panel EXCEPT !.failed = @ \/ q.op # "create"]
    /\ asked' = Left(q) /\ told' = [told EXCEPT !.last = q.heard]
    /\ UNCHANGED <<declared, offline, reach, mappings, addresses, tabs, fmoves>>

-----------------------------------------------------------------------------
(* Opening a declaration: a blank tab first, its address when the server has given one. *)

Open(p) ==
    /\ Ready /\ p \in Rows /\ Charge("open") /\ p \notin tabs
    /\ panel' = [panel EXCEPT !.failed = FALSE]
    /\ IF p \in addresses THEN UNCHANGED <<asked, tabs>>
       ELSE asked' = asked \cup {Request("link", p)} /\ tabs' = tabs \cup {p}
    /\ UNCHANGED <<declared, offline, reach, mappings, addresses, told>>

LinkArrives(q) ==
    /\ q.op = "link" /\ q.heard = "ok"
    /\ addresses' = addresses \cup {q.port} /\ tabs' = tabs \ {q.port} /\ asked' = Left(q)
    /\ UNCHANGED <<declared, offline, reach, panel, mappings, told, fmoves>>

LinkRefusedBlank(q) ==
    /\ q.op = "link" /\ q.heard \in {"gone", "error"}
    /\ panel' = [panel EXCEPT !.failed = TRUE] /\ asked' = Left(q)
    /\ UNCHANGED <<declared, offline, reach, mappings, addresses, tabs, told, fmoves>>

\* handleLinkFailure: a declaration nobody has any more is not said, but read again.
LinkRefused(q) ==
    /\ q.op = "link" /\ q.heard \in {"gone", "error"}
    /\ tabs' = tabs \ {q.port}
    /\ IF q.heard = "gone" /\ ~offline
       THEN /\ asked' = Left(q) \cup {Request("list", 0)} /\ UNCHANGED panel
            /\ told' = [told EXCEPT !.stale = FALSE, !.crossed = Left(q) \cap ToMachine # {}]
       ELSE /\ asked' = Left(q) /\ UNCHANGED told
            /\ panel' = [panel EXCEPT !.failed = @ \/ q.heard = "error"]
    /\ UNCHANGED <<declared, offline, reach, mappings, addresses, fmoves>>

ForwardNext ==
    \/ \E q \in asked : \/ Heard(q) \/ Unheard(q) \/ ListArrives(q) \/ ListRefused(q) \/ Acted(q)
                        \/ ActionGone(q) \/ ActionFailed(q) \/ LinkArrives(q) \/ LinkRefused(q)
    \/ \E p \in Ports : \/ ChangedElsewhere(p) \/ Create(p) \/ Open(p)
                        \/ \E op \in {"enable", "disable", "remove"} : Act(op, p)
    \/ RelayTurns \/ PresenceTurns \/ RetryList

\* The server answers, and a request to a machine ends.
ForwardFair == WF_forwardVars(\E q \in asked : Heard(q) \/ Unheard(q))
                 /\ WF_forwardVars(\E q \in asked : LinkArrives(q) \/ LinkRefused(q))

ForwardSpec == ForwardInit /\ [][ForwardNext]_forwardVars /\ ForwardFair

-----------------------------------------------------------------------------
(* Properties.                                                               *)

Resting == asked = {} /\ panel.phase = "ready" /\ ~offline /\ ~panel.unreachable

ForwardTypeOK ==
    /\ tabs \subseteq {q.port : q \in {q \in asked : q.op = "link"}}
    /\ \A i \in 1..Len(mappings) : mappings[i].on \in {"on", "off"}
    /\ \A i, j \in 1..Len(mappings) : i < j => mappings[i].id <= mappings[j].id
    /\ panel.phase = "loading" => mappings = <<>>

(* "那条声明在设备上已经变了……手上这份列表是旧的，重取": when nothing is under way and no
   request overlapped a reading of the list, the rows are what the machine has, but for
   what others changed there and no answer told; being told one is gone is enough. *)
RowsAreDeclared == Resting /\ ~told.crossed /\ ~told.stale => mappings = ByPort(declared)

(* "此前记下的「够不着」就此作废": out of reach is what the machine's last answer said. *)
ReachIsOfLastAnswer == panel.unreachable => told.last # "ok"

(* A tab opened blank gets its address or is closed.                          *)
BlankTabEnds == \A p \in Ports : p \in tabs ~> p \notin tabs

(* Port forwards: the rows are the declared ones, and reach is that of the
   last answer. *)
ForwardInv == ForwardTypeOK /\ RowsAreDeclared /\ ReachIsOfLastAnswer

-----------------------------------------------------------------------------
(* What the repository says, or a user would expect, and the code does not       *)
(* keep: TLC finds each of these violated (README, section 8).                   *)

(* A declaration has one row.                                                 *)
NoRowTwice == \A i, j \in 1..Len(mappings) : mappings[i].id = mappings[j].id => i = j

(* A machine the relay reaches again is not said to be out of reach for good.  *)
ReachReturns == (reach /\ panel.unreachable) ~> (~panel.unreachable \/ ~reach \/ offline)
=============================================================================
