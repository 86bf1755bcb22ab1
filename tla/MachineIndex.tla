---------------------------- MODULE MachineIndex ----------------------------
(* One machine on the machine axis of the index (frontend pages/chat/
   useMachineReachability.tsx). A resolver leases the machine's relay channel, asks the
   machine itself for its conversations in the range the controls stand at, and says
   where it stands; the parent keeps what was resolved and what was said. The popup
   "view all" turns further pages over the same channel. Every effect runs in the commit
   of the state change it depends on: an action is the change with its effects. *)
EXTENDS Integers, FiniteSets

CONSTANTS Keys,         \* keyword and filter of the controls
          Narrowed,     \* those with a filter: pages are asked for to the end
          LastPage,     \* bound: pages of the machine's list
          MachineStarts \* bound: the moves of a run (see MachineInit)

ASSUME KeysAssumption == Narrowed \subseteq Keys /\ Keys # {} /\ LastPage \in Nat \ {0}

VARIABLES key,      \* the range the controls stand at
          shown,    \* the machine is online and the axis shows it: its resolver is mounted
          relay,    \* state and number of the channel the resolver holds
          resolver, \* resolvedFor and the requests of its visits; the current one is live
          reach,    \* the parent's machineState and resolved of this machine
          popup,    \* the overflow popup: its range, the place it goes on from, its answer
          steps     \* what is left of the bounds

machineVars == <<key, shown, relay, resolver, reach, popup, steps>>

Unset == "unset"

ASSUME MachineStartsAssumption ==
    /\ Unset \notin Keys
    /\ \A s \in MachineStarts : s.key \in Keys /\ s.shown \in BOOLEAN

Nothing == [of |-> Unset, chan |-> 0, more |-> 0]
Closed == [of |-> Unset, next |-> 0, rows |-> {}, asked |-> {}]

Step(m) == steps[m] > 0 /\ steps' = [steps EXCEPT ![m] = @ - 1]

\* A resolver that has just mounted.
Mounted == [for |-> Unset, asks |-> {}]
Left(r) == [for |-> Unset, asks |-> {[a EXCEPT !.live = FALSE] : a \in r.asks}]

\* The popup unmounts with its range or its group; what it asked for arrives nowhere.
Aside(p) == {[q EXCEPT !.here = FALSE] : q \in p.asked}
ClosePopup == popup' = [Closed EXCEPT !.asked = Aside(popup)]

\* onState: "connecting" takes away the list of the range before.
OnState(p, s) == [state |-> s, resolved |-> IF s = "connecting" THEN Nothing ELSE p.resolved]

\* The effect of the channel's state.
StateOf(st) == IF st = "reconnecting" THEN "unreachable" ELSE "connecting"

AskBeside(r, k) ==
    [for |-> k, asks |-> r.asks \cup {[key |-> k, chan |-> relay.n, page |-> 1, live |-> TRUE]}]

\* The request effect on a channel that is connected.
Ask(r, k) ==
    [for |-> k,
     asks |-> Left(r).asks \cup {[key |-> k, chan |-> relay.n, page |-> 1, live |-> TRUE]}]

MachineInit ==
    \E s \in MachineStarts :
        /\ key = s.key /\ shown = s.shown
        /\ relay = [st |-> "connecting", n |-> 1]
        /\ resolver = Mounted
        /\ reach = [state |-> IF s.shown THEN "connecting" ELSE Unset, resolved |-> Nothing]
        /\ popup = Closed
        /\ steps = s.steps

-----------------------------------------------------------------------------
(* The channel under the resolver.                                          *)

ChannelConnects ==
    /\ shown /\ relay.st \in {"connecting", "reconnecting"}
    /\ relay' = [relay EXCEPT !.st = "connected"]
    /\ reach' = OnState(reach, "connecting")
    /\ resolver' = Ask(resolver, key)
    /\ UNCHANGED <<key, shown, popup, steps>>

ChannelDropsUnsaid ==
    /\ shown /\ relay.st = "connected" /\ Step("drop")
    /\ relay' = [st |-> "reconnecting", n |-> relay.n + 1]
    /\ reach' = reach
    /\ resolver' = Left(resolver)
    /\ UNCHANGED <<key, shown, popup>>

ChannelDrops ==
    /\ shown /\ relay.st = "connected" /\ Step("drop")
    /\ relay' = [st |-> "reconnecting", n |-> relay.n + 1]
    /\ reach' = OnState(reach, StateOf("reconnecting"))
    /\ resolver' = Left(resolver)
    /\ UNCHANGED <<key, shown, popup>>

\* The ticket is refused, or the machine speaks another version: nothing is tried again.
ChannelRefused ==
    /\ shown /\ relay.st \in {"connecting", "reconnecting"} /\ Step("refuse")
    /\ relay' = [relay EXCEPT !.st = "disconnected"]
    /\ reach' = OnState(reach, StateOf("disconnected"))
    /\ UNCHANGED <<key, shown, resolver, popup>>

-----------------------------------------------------------------------------
(* The list.                                                                 *)

HasMore(page) == page < LastPage

\* An answer: the next page is asked for, or the list is handed over.
Answered(a) ==
    IF a.key \in Narrowed /\ HasMore(a.page)
    THEN /\ resolver' = [resolver EXCEPT !.asks = (@ \ {a}) \cup {[a EXCEPT !.page = a.page + 1]}]
         /\ UNCHANGED reach
    ELSE /\ resolver' = [resolver EXCEPT !.asks = @ \ {a}]
         /\ reach' = [state |-> "connected",
                      resolved |-> [of |-> a.key, chan |-> a.chan,
                                    more |-> IF HasMore(a.page) THEN a.page + 1 ELSE 0]]

AnswerAlways(a) == Answered(a) /\ UNCHANGED <<key, shown, relay, popup, steps>>

Answer(a) ==
    /\ IF a.live THEN Answered(a)
       ELSE resolver' = [resolver EXCEPT !.asks = @ \ {a}] /\ UNCHANGED reach
    /\ UNCHANGED <<key, shown, relay, popup, steps>>

AnswerFailsQuietly(a) ==
    /\ Step("fault")
    /\ resolver' = [resolver EXCEPT !.asks = @ \ {a}] /\ UNCHANGED reach
    /\ UNCHANGED <<key, shown, relay, popup>>

AnswerFails(a) ==
    /\ Step("fault")
    /\ IF a.live
       THEN /\ resolver' = [for |-> Unset, asks |-> resolver.asks \ {a}]
            /\ reach' = OnState(reach, "unreachable")
       ELSE resolver' = [resolver EXCEPT !.asks = @ \ {a}] /\ UNCHANGED reach
    /\ UNCHANGED <<key, shown, relay, popup>>

\* The controls move: the popup is one of another range and goes with its own.
ChangeKey(k) ==
    /\ k # key /\ Step("key")
    /\ key' = k
    /\ IF shown /\ relay.st = "connected"
       THEN resolver' = Ask(resolver, k) /\ reach' = OnState(reach, "connecting")
       ELSE UNCHANGED <<resolver, reach>>
    /\ ClosePopup
    /\ UNCHANGED <<shown, relay>>

\* setAxis and the machine's presence: a resolver leaves, and comes back on a new lease.
Unmount(forget) ==
    /\ shown /\ Step("leave")
    /\ shown' = FALSE /\ resolver' = Left(resolver)
    /\ relay' = [st |-> "connecting", n |-> relay.n + 1]
    /\ reach' = IF forget THEN [state |-> Unset, resolved |-> Nothing] ELSE reach
    /\ ClosePopup
    /\ UNCHANGED key

Mount ==
    /\ ~shown /\ shown' = TRUE
    /\ resolver' = [Mounted EXCEPT !.asks = resolver.asks]
    /\ reach' = OnState(reach, StateOf(relay.st))
    /\ UNCHANGED <<key, relay, popup, steps>>

\* machineStates, as the group's header says it.
Said == IF reach.state \in {"unreachable", "connecting"} THEN reach.state
        ELSE IF reach.resolved # Nothing THEN "connected" ELSE "connecting"

\* retryMachine: the resolver is mounted anew. Its button stands at "unreachable" only.
RetryMachine ==
    /\ shown /\ Said = "unreachable" /\ Step("retry")
    /\ relay' = [st |-> "connecting", n |-> relay.n + 1]
    /\ reach' = OnState(reach, "connecting")
    /\ resolver' = Left(resolver)
    /\ UNCHANGED <<key, shown, popup>>

-----------------------------------------------------------------------------
(* "View all": the first page is the one resolved, the others are asked for.  *)

OpenPopup ==
    /\ shown /\ reach.resolved # Nothing /\ popup.of = Unset /\ Step("popup")
    /\ popup' = [popup EXCEPT !.of = key, !.next = reach.resolved.more]
    /\ UNCHANGED <<key, shown, relay, resolver, reach>>

\* loadMachinePage: without a channel it fails where it stands.
LoadPage ==
    /\ popup.of # Unset /\ popup.next > 0 /\ relay.st = "connected"
    /\ \A q \in popup.asked : ~q.here
    /\ popup' = [popup EXCEPT !.asked = Aside(popup) \cup
                    {[key |-> key, page |-> popup.next, here |-> TRUE]}]
    /\ UNCHANGED <<key, shown, relay, resolver, reach, steps>>

PageArrivesAnywhere(q) ==
    /\ q \in popup.asked
    /\ popup' = [popup EXCEPT !.rows = @ \cup {q.key}, !.asked = @ \ {q}]
    /\ UNCHANGED <<key, shown, relay, resolver, reach, steps>>

PageArrives(q) ==
    /\ q \in popup.asked
    /\ popup' = IF q.here
                THEN [popup EXCEPT !.rows = @ \cup {q.key}, !.asked = @ \ {q},
                                   !.next = IF HasMore(q.page) THEN q.page + 1 ELSE 0]
                ELSE [popup EXCEPT !.asked = @ \ {q}]
    /\ UNCHANGED <<key, shown, relay, resolver, reach, steps>>

MachineNext ==
    \/ ChannelConnects \/ ChannelDrops \/ ChannelRefused
    \/ \E a \in resolver.asks : Answer(a) \/ AnswerFails(a)
    \/ \E k \in Keys : ChangeKey(k)
    \/ \E f \in BOOLEAN : Unmount(f)
    \/ Mount \/ RetryMachine \/ OpenPopup \/ LoadPage
    \/ \E q \in popup.asked : PageArrives(q)

(* The channel comes up or is given up, and what was asked is answered. *)
MachineFair ==
    /\ WF_machineVars(ChannelConnects)
    /\ WF_machineVars(\E a \in resolver.asks : Answer(a))

MachineSpec == MachineInit /\ [][MachineNext]_machineVars /\ MachineFair

-----------------------------------------------------------------------------
(* Properties.                                                               *)

MachineTypeOK ==
    /\ key \in Keys /\ shown \in BOOLEAN
    /\ relay.st \in {"connecting", "connected", "reconnecting", "disconnected"}
    /\ resolver.for \in Keys \cup {Unset}
    /\ \A a \in resolver.asks : a.key \in Keys /\ a.page \in 1 .. LastPage /\ a.chan <= relay.n
    /\ Cardinality({a \in resolver.asks : a.live}) <= 1
    /\ reach.state \in {Unset, "connecting", "connected", "unreachable"}
    /\ reach.resolved.of \in Keys \cup {Unset}

(* A machine shown as connected has handed over its list, on this very channel and for
   the range the controls stand at: neither an answer of a range left, nor one of a
   channel that dropped or of a visit before, is taken for it.                *)
ConnectedHasAnswered ==
    shown /\ Said = "connected" =>
        /\ reach.resolved.of = key /\ reach.resolved.chan = relay.n
        /\ relay.st = "connected"

(* While the channel lasts, a machine that is asked says its list or fails visibly: its
   header does not spin for good, whatever is changed meanwhile.              *)
AskedIsAnswered == shown /\ relay.st = "connected" /\ Said = "connecting" ~>
                       Said # "connecting" \/ ~shown \/ relay.st # "connected"

(* The pages a popup turns to are of the range it was opened for, whatever was asked for
   from the one before it.                                                    *)
PopupIsOfOneRange == \A r \in popup.rows : r = popup.of /\ popup.of = key

(* The list of a machine: shown as connected when it has answered, pages of
   one range. *)
MachineInv == MachineTypeOK /\ ConnectedHasAnswered /\ PopupIsOfOneRange

-----------------------------------------------------------------------------
(* What the repository says, or a user would expect, and the code does not       *)
(* keep: TLC finds each of these violated (README, section 8).                   *)

(* "连不上与「还没连上」是两回事，不能共用一个转圈": a machine whose header spins is being
   connected to or asked.                                                    *)
ConnectingIsUnderway == shown /\ Said = "connecting" => relay.st # "disconnected"

(* "清单只属于交出它时的搜索/筛选范围": the rows shown are of the range of the controls.  *)
RowsOfThisRange == shown /\ reach.resolved # Nothing => reach.resolved.of = key
=============================================================================
