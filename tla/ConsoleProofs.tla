---------------------------- MODULE ConsoleProofs ----------------------------
(* What is proved of the console's lists and forms: the list of one machine (MachineIndex),
   what a conversation waits for the user to decide (Decisions), a new conversation
   (Draft), and the list of the saved conversations (SessionIndex).          *)
EXTENDS MachineIndex, Decisions, Draft, SessionIndex, SequenceTheorems, FiniteSetTheorems, TLAPS

RelayStates == {"connecting", "connected", "reconnecting", "disconnected"}
ReachStates == {Unset, "connecting", "connected", "unreachable"}
ListAsks == [key : Keys, chan : Nat, page : 1 .. LastPage, live : BOOLEAN]
PageAsks == [key : Keys, page : Nat, here : BOOLEAN]
Resolvers == [for : Keys \cup {Unset}, asks : SUBSET ListAsks]
Lists == [of : Keys \cup {Unset}, chan : Nat, more : Nat]
Popups == [of : Keys \cup {Unset}, next : Nat, rows : SUBSET Keys, asked : SUBSET PageAsks]

Shapes ==
    /\ key \in Keys /\ shown \in BOOLEAN
    /\ relay \in [st : RelayStates, n : Nat]
    /\ resolver \in Resolvers
    /\ reach \in [state : ReachStates, resolved : Lists]
    /\ popup \in Popups

(* A request belongs to a channel that has been; the live one to the channel that is,
   and to the range of the controls.                                          *)
AskIsCurrent(a) ==
    /\ a.chan <= relay.n
    /\ a.live => shown /\ relay.st = "connected" /\ a.chan = relay.n /\ a.key = key

AsksInv ==
    /\ \A a \in resolver.asks : AskIsCurrent(a)
    /\ \A a, b \in resolver.asks : a.live /\ b.live => a = b

(* What the parent keeps while the resolver is there to correct it.           *)
ReachInv ==
    shown => /\ reach.state # Unset
             /\ reach.state = "connected" =>
                    /\ reach.resolved.of = key /\ reach.resolved.chan = relay.n
                    /\ relay.st = "connected"

(* A popup is of the range of the controls, and so is what it still waits for. *)
PopupInv ==
    /\ popup.of \in {Unset, key}
    /\ \A r \in popup.rows : r = key /\ popup.of = key
    /\ \A q \in popup.asked : q.here => q.key = key /\ popup.of = key

MachineIInv == Shapes /\ AsksInv /\ ReachInv /\ PopupInv

-----------------------------------------------------------------------------
(* The helpers.                                                              *)

(* A resolver left has the requests it had, and none of them is live.        *)
LEMMA LeftIsQuiet ==
    ASSUME NEW r \in Resolvers
    PROVE  /\ Left(r) \in Resolvers
           /\ \A a \in Left(r).asks : ~a.live /\ \E b \in r.asks : b.chan = a.chan
  <1>1. \A b \in r.asks : [b EXCEPT !.live = FALSE] \in ListAsks
    BY DEF Resolvers, ListAsks
  <1>2. {[b EXCEPT !.live = FALSE] : b \in r.asks} \in SUBSET ListAsks
    BY <1>1
  <1>3. Left(r) \in Resolvers
    BY <1>2 DEF Left, Resolvers
  <1>4. ASSUME NEW a \in Left(r).asks
        PROVE  ~a.live /\ \E b \in r.asks : b.chan = a.chan
    <2>1. PICK b \in r.asks : a = [b EXCEPT !.live = FALSE]
      BY DEF Left
    <2>2. b \in ListAsks
      BY DEF Resolvers
    <2> QED
      BY <2>1, <2>2 DEF ListAsks
  <1> QED
    BY <1>3, <1>4

(* The request effect on a connected channel leaves one live request, its own. *)
LEMMA AskIsAlone ==
    ASSUME NEW r \in Resolvers, NEW k \in Keys, LastPage \in Nat \ {0},
           relay \in [st : RelayStates, n : Nat]
    PROVE  /\ Ask(r, k) \in Resolvers
           /\ \A a \in Ask(r, k).asks :
                 \/ ~a.live /\ \E b \in r.asks : b.chan = a.chan
                 \/ a = [key |-> k, chan |-> relay.n, page |-> 1, live |-> TRUE]
  <1>1. [key |-> k, chan |-> relay.n, page |-> 1, live |-> TRUE] \in ListAsks
    BY DEF ListAsks
  <1>2. Left(r).asks \in SUBSET ListAsks
    BY LeftIsQuiet DEF Resolvers
  <1>3. Ask(r, k) \in Resolvers
    BY <1>1, <1>2 DEF Ask, Resolvers
  <1>4. \A a \in Ask(r, k).asks :
            a \in Left(r).asks \/ a = [key |-> k, chan |-> relay.n, page |-> 1, live |-> TRUE]
    BY DEF Ask
  <1> QED
    BY <1>3, <1>4, LeftIsQuiet

(* A popup closed waits for nothing, whatever is still on its way.           *)
LEMMA AsideIsQuiet ==
    ASSUME NEW p \in Popups
    PROVE  Aside(p) \in SUBSET PageAsks /\ \A q \in Aside(p) : ~q.here
  <1>1. \A q \in p.asked : q \in PageAsks
    BY DEF Popups
  <1>2. \A q \in p.asked :
            [q EXCEPT !.here = FALSE] \in PageAsks /\ ~[q EXCEPT !.here = FALSE].here
    BY <1>1 DEF PageAsks
  <1> QED
    BY <1>2 DEF Aside

LEMMA ClosedPopup ==
    ASSUME popup \in Popups, ClosePopup
    PROVE  /\ popup' \in Popups
           /\ popup'.of = Unset /\ popup'.rows = {} /\ \A q \in popup'.asked : ~q.here
  <1>1. popup' = [of |-> Unset, next |-> 0, rows |-> {}, asked |-> Aside(popup)]
    BY DEF ClosePopup, Closed
  <1> QED
    BY <1>1, AsideIsQuiet DEF Popups

(* onState keeps the list, or takes it away.                                 *)
LEMMA OnStateShape ==
    ASSUME NEW p \in [state : ReachStates, resolved : Lists], NEW s \in ReachStates
    PROVE  OnState(p, s) \in [state : ReachStates, resolved : Lists] /\ OnState(p, s).state = s
  BY DEF OnState, Nothing, Lists

-----------------------------------------------------------------------------
(* The steps.                                                                *)

LEMMA MachineInitInv == MachineInit => MachineIInv
  <1> SUFFICES ASSUME MachineInit PROVE MachineIInv
    OBVIOUS
  <1> USE MachineStartsAssumption
  <1>1. PICK s \in MachineStarts :
            /\ key = s.key /\ shown = s.shown
            /\ relay = [st |-> "connecting", n |-> 1]
            /\ resolver = Mounted
            /\ reach = [state |-> IF s.shown THEN "connecting" ELSE Unset, resolved |-> Nothing]
            /\ popup = Closed
    BY DEF MachineInit
  <1>2. key \in Keys /\ shown \in BOOLEAN
    BY <1>1
  <1>3. relay \in [st : RelayStates, n : Nat] /\ resolver \in Resolvers
    BY <1>1 DEF RelayStates, Resolvers, Mounted
  <1>4. reach \in [state : ReachStates, resolved : Lists]
    BY <1>1 DEF ReachStates, Lists, Nothing
  <1>5. popup \in Popups
    BY <1>1 DEF Popups, Closed
  <1>6. AsksInv /\ PopupInv
    BY <1>1 DEF AsksInv, PopupInv, Mounted, Closed
  <1>7. ReachInv
    BY <1>1 DEF ReachInv, Unset
  <1> QED
    BY <1>2, <1>3, <1>4, <1>5, <1>6, <1>7 DEF MachineIInv, Shapes

(* The channel connects: what was asked before is left, and the list is asked for. *)
LEMMA ConnectsKeeps == MachineIInv /\ ChannelConnects => MachineIInv'
  <1> SUFFICES ASSUME MachineIInv, ChannelConnects PROVE MachineIInv'
    OBVIOUS
  <1> USE KeysAssumption DEF MachineIInv, ChannelConnects
  <1>1. relay' \in [st : RelayStates, n : Nat] /\ relay'.n = relay.n /\ relay'.st = "connected"
    BY DEF Shapes, RelayStates
  <1>2. resolver' \in Resolvers
    BY AskIsAlone DEF Shapes
  <1>3. reach' \in [state : ReachStates, resolved : Lists] /\ reach'.state = "connecting"
    BY OnStateShape DEF Shapes, ReachStates
  <1>4. Shapes'
    BY <1>1, <1>2, <1>3 DEF Shapes
  <1>5. \A a \in resolver'.asks :
            \/ ~a.live /\ \E b \in resolver.asks : b.chan = a.chan
            \/ a = [key |-> key, chan |-> relay.n, page |-> 1, live |-> TRUE]
    BY AskIsAlone DEF Shapes
  <1>6. relay.n <= relay.n
    BY DEF Shapes
  <1>7. AsksInv'
    <2>1. \A a \in resolver'.asks : a.chan <= relay.n
      BY <1>5, <1>6 DEF AsksInv, AskIsCurrent
    <2>2. \A a \in resolver'.asks : AskIsCurrent(a)'
      BY <1>1, <1>5, <2>1 DEF AskIsCurrent
    <2> QED
      BY <1>5, <2>2 DEF AsksInv
  <1>8. ReachInv'
    BY <1>3 DEF ReachInv, Unset
  <1>9. PopupInv'
    BY DEF PopupInv
  <1> QED
    BY <1>4, <1>7, <1>8, <1>9

(* A step that leaves the requests of the resolver behind, on a channel not older, and
   says something else than "connected".                                     *)
LEMMA LeavingKeeps ==
    ASSUME MachineIInv, resolver' = Left(resolver), key' = key, shown' \in BOOLEAN,
           relay' \in [st : RelayStates, n : Nat], relay.n <= relay'.n,
           reach' \in [state : ReachStates, resolved : Lists],
           shown' => reach'.state \in {"connecting", "unreachable"},
           popup' \in Popups, PopupInv'
    PROVE  MachineIInv'
  <1> USE DEF MachineIInv
  <1>1. Shapes'
    BY LeftIsQuiet DEF Shapes
  <1>2. \A a \in resolver'.asks : ~a.live /\ \E b \in resolver.asks : b.chan = a.chan
    BY LeftIsQuiet DEF Shapes
  <1>3. \A a \in resolver'.asks : a.chan <= relay'.n
    <2>1. \A b \in resolver.asks : b.chan \in Nat /\ b.chan <= relay.n
      BY DEF Shapes, Resolvers, ListAsks, AsksInv, AskIsCurrent
    <2>2. relay.n \in Nat /\ relay'.n \in Nat
      BY DEF Shapes
    <2>3. \A b \in resolver.asks : b.chan <= relay'.n
      BY <2>1, <2>2
    <2> QED
      BY <1>2, <2>3
  <1>4. AsksInv'
    BY <1>2, <1>3 DEF AsksInv, AskIsCurrent
  <1>5. ReachInv'
    BY DEF ReachInv, Unset
  <1> QED
    BY <1>1, <1>4, <1>5

LEMMA DropsKeeps == MachineIInv /\ ChannelDrops => MachineIInv'
  <1> SUFFICES ASSUME MachineIInv, ChannelDrops PROVE MachineIInv'
    OBVIOUS
  <1> USE DEF ChannelDrops
  <1>1. relay' \in [st : RelayStates, n : Nat] /\ relay.n <= relay'.n
    BY DEF MachineIInv, Shapes, RelayStates
  <1>2. reach' \in [state : ReachStates, resolved : Lists] /\ reach'.state = "unreachable"
    BY OnStateShape DEF MachineIInv, Shapes, ReachStates, StateOf
  <1>3. PopupInv' /\ popup' \in Popups /\ shown' \in BOOLEAN
    BY DEF MachineIInv, PopupInv, Shapes
  <1> QED
    BY <1>1, <1>2, <1>3, LeavingKeeps

LEMMA RetryKeeps == MachineIInv /\ RetryMachine => MachineIInv'
  <1> SUFFICES ASSUME MachineIInv, RetryMachine PROVE MachineIInv'
    OBVIOUS
  <1> USE DEF RetryMachine
  <1>1. relay' \in [st : RelayStates, n : Nat] /\ relay.n <= relay'.n
    BY DEF MachineIInv, Shapes, RelayStates
  <1>2. reach' \in [state : ReachStates, resolved : Lists] /\ reach'.state = "connecting"
    BY OnStateShape DEF MachineIInv, Shapes, ReachStates
  <1>3. PopupInv' /\ popup' \in Popups /\ shown' \in BOOLEAN
    BY DEF MachineIInv, PopupInv, Shapes
  <1> QED
    BY <1>1, <1>2, <1>3, LeavingKeeps

LEMMA UnmountKeeps == ASSUME NEW f \in BOOLEAN PROVE MachineIInv /\ Unmount(f) => MachineIInv'
  <1> SUFFICES ASSUME MachineIInv, Unmount(f) PROVE MachineIInv'
    OBVIOUS
  <1> USE DEF Unmount
  <1>1. relay' \in [st : RelayStates, n : Nat] /\ relay.n <= relay'.n
    BY DEF MachineIInv, Shapes, RelayStates
  <1>2. [state |-> Unset, resolved |-> Nothing] \in [state : ReachStates, resolved : Lists]
    BY DEF ReachStates, Lists, Nothing
  <1>3. reach' \in [state : ReachStates, resolved : Lists]
    BY <1>2 DEF MachineIInv, Shapes
  <1>4. popup' \in Popups /\ PopupInv'
    BY ClosedPopup DEF MachineIInv, Shapes, PopupInv
  <1> QED
    BY <1>1, <1>3, <1>4, LeavingKeeps

(* A channel refused had not connected: nothing live was asked over it.      *)
LEMMA RefusedKeeps == MachineIInv /\ ChannelRefused => MachineIInv'
  <1> SUFFICES ASSUME MachineIInv, ChannelRefused PROVE MachineIInv'
    OBVIOUS
  <1> USE DEF MachineIInv, ChannelRefused
  <1>1. relay' \in [st : RelayStates, n : Nat] /\ relay'.n = relay.n
    BY DEF Shapes, RelayStates
  <1>2. reach' \in [state : ReachStates, resolved : Lists] /\ reach'.state = "connecting"
    BY OnStateShape DEF Shapes, ReachStates, StateOf
  <1>3. Shapes'
    BY <1>1, <1>2 DEF Shapes
  <1>4. AsksInv'
    BY <1>1 DEF AsksInv, AskIsCurrent
  <1>5. ReachInv' /\ PopupInv'
    BY <1>2 DEF ReachInv, PopupInv, Unset
  <1> QED
    BY <1>3, <1>4, <1>5

(* A request is gone, and what the parent keeps is untouched.                *)
LEMMA ForgottenAsk ==
    ASSUME MachineIInv, NEW a \in resolver.asks,
           resolver' = [resolver EXCEPT !.asks = @ \ {a}],
           UNCHANGED <<key, shown, relay, reach, popup>>
    PROVE  MachineIInv'
  <1> USE DEF MachineIInv
  <1>1. resolver' \in Resolvers /\ resolver'.asks \subseteq resolver.asks
    BY DEF Shapes, Resolvers
  <1>2. Shapes'
    BY <1>1 DEF Shapes
  <1>3. AsksInv'
    BY <1>1 DEF AsksInv, AskIsCurrent
  <1>4. ReachInv' /\ PopupInv'
    BY DEF ReachInv, PopupInv
  <1> QED
    BY <1>2, <1>3, <1>4

(* An answer: one of a request left is dropped; the live one goes on to the next page, or
   its list is of the range and the channel that are current.                *)
LEMMA AnswerKeeps ==
    ASSUME NEW a \in resolver.asks PROVE MachineIInv /\ Answer(a) => MachineIInv'
  <1> SUFFICES ASSUME MachineIInv, Answer(a) PROVE MachineIInv'
    OBVIOUS
  <1> USE DEF MachineIInv, Answer
  <1>1. CASE ~a.live
    BY <1>1, ForgottenAsk
  <1>2. CASE a.live
    <2> USE <1>2
    <2> DEFINE b == [a EXCEPT !.page = a.page + 1]
    <2>1. a \in ListAsks /\ LastPage \in Nat
      BY KeysAssumption DEF Shapes, Resolvers
    <2>2. AskIsCurrent(a)
      BY DEF AsksInv
    <2>3. CASE a.key \in Narrowed /\ HasMore(a.page)
      <3>1. a.page + 1 \in 1 .. LastPage
        BY <2>1, <2>3 DEF HasMore, ListAsks
      <3>2. b \in ListAsks /\ b.live /\ b.key = a.key /\ b.chan = a.chan
        BY <2>1, <3>1 DEF ListAsks
      <3>3. resolver' = [resolver EXCEPT !.asks = (@ \ {a}) \cup {b}] /\ reach' = reach
        BY <2>3 DEF Answered
      <3> HIDE DEF b
      <3>4. resolver' \in Resolvers /\ resolver'.asks = (resolver.asks \ {a}) \cup {b}
        BY <3>2, <3>3 DEF Shapes, Resolvers
      <3>5. Shapes'
        BY <3>3, <3>4 DEF Shapes
      <3>6. \A c \in resolver.asks \ {a} : ~c.live
        BY DEF AsksInv
      <3>7. AskIsCurrent(b)'
        BY <2>2, <3>2 DEF AskIsCurrent
      <3>8. AsksInv'
        BY <3>4, <3>6, <3>7 DEF AsksInv, AskIsCurrent
      <3>9. ReachInv' /\ PopupInv'
        BY <3>3 DEF ReachInv, PopupInv
      <3> QED
        BY <3>5, <3>8, <3>9
    <2>4. CASE ~(a.key \in Narrowed /\ HasMore(a.page))
      <3> DEFINE rest == IF HasMore(a.page) THEN a.page + 1 ELSE 0
      <3>1. /\ resolver' = [resolver EXCEPT !.asks = @ \ {a}]
            /\ reach' = [state |-> "connected",
                         resolved |-> [of |-> a.key, chan |-> a.chan, more |-> rest]]
        BY <2>4 DEF Answered
      <3>2. rest \in Nat
        BY <2>1 DEF ListAsks
      <3> HIDE DEF rest
      <3>3. reach' \in [state : ReachStates, resolved : Lists]
        BY <2>1, <3>1, <3>2 DEF ListAsks, Lists, ReachStates
      <3>4. resolver' \in Resolvers /\ resolver'.asks \subseteq resolver.asks
        BY <3>1 DEF Shapes, Resolvers
      <3>5. Shapes'
        BY <3>3, <3>4 DEF Shapes
      <3>6. AsksInv'
        BY <3>4 DEF AsksInv, AskIsCurrent
      <3>7. ReachInv' /\ PopupInv'
        BY <2>2, <3>1 DEF ReachInv, PopupInv, AskIsCurrent, Unset
      <3> QED
        BY <3>5, <3>6, <3>7
    <2> QED
      BY <2>3, <2>4
  <1> QED
    BY <1>1, <1>2

LEMMA AnswerFailsKeeps ==
    ASSUME NEW a \in resolver.asks PROVE MachineIInv /\ AnswerFails(a) => MachineIInv'
  <1> SUFFICES ASSUME MachineIInv, AnswerFails(a) PROVE MachineIInv'
    OBVIOUS
  <1> USE DEF MachineIInv, AnswerFails
  <1>1. CASE ~a.live
    BY <1>1, ForgottenAsk
  <1>2. CASE a.live
    <2>1. resolver' \in Resolvers /\ resolver'.asks \subseteq resolver.asks
      BY <1>2 DEF Shapes, Resolvers
    <2>2. reach' \in [state : ReachStates, resolved : Lists] /\ reach'.state = "unreachable"
      BY <1>2, OnStateShape DEF Shapes, ReachStates
    <2>3. Shapes'
      BY <2>1, <2>2 DEF Shapes
    <2>4. AsksInv'
      BY <2>1 DEF AsksInv, AskIsCurrent
    <2>5. ReachInv' /\ PopupInv'
      BY <2>2 DEF ReachInv, PopupInv, Unset
    <2> QED
      BY <2>3, <2>4, <2>5
  <1> QED
    BY <1>1, <1>2

(* The controls move: a machine that is there and connected is asked anew, and any other
   has nothing live to answer with.                                          *)
LEMMA ChangeKeyKeeps == ASSUME NEW k \in Keys PROVE MachineIInv /\ ChangeKey(k) => MachineIInv'
  <1> SUFFICES ASSUME MachineIInv, ChangeKey(k) PROVE MachineIInv'
    OBVIOUS
  <1> USE KeysAssumption DEF MachineIInv, ChangeKey
  <1>1. popup' \in Popups /\ PopupInv'
    BY ClosedPopup DEF Shapes, PopupInv
  <1>2. CASE shown /\ relay.st = "connected"
    <2>1. resolver' = Ask(resolver, k) /\ reach' = OnState(reach, "connecting")
      BY <1>2
    <2>2. reach' \in [state : ReachStates, resolved : Lists] /\ reach'.state = "connecting"
      BY <2>1, OnStateShape DEF Shapes, ReachStates
    <2>3. resolver' \in Resolvers
      BY <2>1, AskIsAlone DEF Shapes
    <2>4. Shapes'
      BY <1>1, <2>2, <2>3 DEF Shapes
    <2>5. \A a \in resolver'.asks :
              \/ ~a.live /\ \E b \in resolver.asks : b.chan = a.chan
              \/ a = [key |-> k, chan |-> relay.n, page |-> 1, live |-> TRUE]
      BY <2>1, AskIsAlone DEF Shapes
    <2>6. relay.n <= relay.n
      BY DEF Shapes
    <2>7. AsksInv'
      <3>1. \A a \in resolver'.asks : a.chan <= relay.n
        BY <2>5, <2>6 DEF AsksInv, AskIsCurrent
      <3>2. \A a \in resolver'.asks : AskIsCurrent(a)'
        BY <1>2, <2>5, <3>1 DEF AskIsCurrent
      <3> QED
        BY <2>5, <3>2 DEF AsksInv
    <2>8. ReachInv'
      BY <2>2 DEF ReachInv, Unset
    <2> QED
      BY <1>1, <2>4, <2>7, <2>8
  <1>3. CASE ~(shown /\ relay.st = "connected")
    <2>1. resolver' = resolver /\ reach' = reach
      BY <1>3
    <2>2. Shapes'
      BY <1>1, <2>1 DEF Shapes
    <2>3. AsksInv'
      BY <1>3, <2>1 DEF AsksInv, AskIsCurrent
    <2>4. ReachInv'
      BY <1>3, <2>1 DEF ReachInv
    <2> QED
      BY <1>1, <2>2, <2>3, <2>4
  <1> QED
    BY <1>2, <1>3

(* A resolver comes back on a lease of its own: what its visits before asked is dead. *)
LEMMA MountKeeps == MachineIInv /\ Mount => MachineIInv'
  <1> SUFFICES ASSUME MachineIInv, Mount PROVE MachineIInv'
    OBVIOUS
  <1> USE DEF MachineIInv, Mount
  <1>1. resolver' \in Resolvers /\ resolver'.asks = resolver.asks
    BY DEF Shapes, Resolvers, Mounted
  <1>2. StateOf(relay.st) \in {"connecting", "unreachable"}
    BY DEF StateOf
  <1>3. /\ reach' \in [state : ReachStates, resolved : Lists]
        /\ reach'.state \in {"connecting", "unreachable"}
    BY <1>2, OnStateShape DEF Shapes, ReachStates
  <1>4. Shapes'
    BY <1>1, <1>3 DEF Shapes
  <1>5. AsksInv'
    BY <1>1 DEF AsksInv, AskIsCurrent
  <1>6. ReachInv' /\ PopupInv'
    BY <1>3 DEF ReachInv, PopupInv, Unset
  <1> QED
    BY <1>4, <1>5, <1>6

(* The popup's own steps disturb what is said of the popup alone.            *)
LEMMA PopupAlone ==
    ASSUME MachineIInv, UNCHANGED <<key, shown, relay, resolver, reach>>,
           popup' \in Popups, PopupInv'
    PROVE  MachineIInv'
  BY DEF MachineIInv, Shapes, AsksInv, AskIsCurrent, ReachInv

LEMMA OpenPopupKeeps == MachineIInv /\ OpenPopup => MachineIInv'
  <1> SUFFICES ASSUME MachineIInv, OpenPopup PROVE MachineIInv'
    OBVIOUS
  <1> USE DEF OpenPopup
  <1>1. popup \in Popups /\ key \in Keys /\ reach.resolved.more \in Nat
    BY DEF MachineIInv, Shapes, Lists
  <1>2. /\ popup' \in Popups /\ popup'.of = key
        /\ popup'.rows = popup.rows /\ popup'.asked = popup.asked
    BY <1>1 DEF Popups
  <1>3. PopupInv'
    BY <1>2 DEF MachineIInv, PopupInv
  <1> QED
    BY <1>2, <1>3, PopupAlone

LEMMA LoadPageKeeps == MachineIInv /\ LoadPage => MachineIInv'
  <1> SUFFICES ASSUME MachineIInv, LoadPage PROVE MachineIInv'
    OBVIOUS
  <1> USE DEF LoadPage
  <1> DEFINE q == [key |-> key, page |-> popup.next, here |-> TRUE]
  <1>1. popup \in Popups /\ key \in Keys
    BY DEF MachineIInv, Shapes
  <1>2. q \in PageAsks /\ q.key = key
    BY <1>1 DEF Popups, PageAsks
  <1>3. popup' = [popup EXCEPT !.asked = Aside(popup) \cup {q}]
    OBVIOUS
  <1> HIDE DEF q
  <1>4. /\ popup' \in Popups /\ popup'.of = popup.of
        /\ popup'.rows = popup.rows /\ popup'.asked = Aside(popup) \cup {q}
    BY <1>1, <1>2, <1>3, AsideIsQuiet DEF Popups
  <1>5. popup.of = key
    BY DEF MachineIInv, PopupInv
  <1>6. PopupInv'
    BY <1>1, <1>2, <1>4, <1>5, AsideIsQuiet DEF MachineIInv, PopupInv
  <1> QED
    BY <1>4, <1>6, PopupAlone

LEMMA PageArrivesKeeps ==
    ASSUME NEW q \in popup.asked PROVE MachineIInv /\ PageArrives(q) => MachineIInv'
  <1> SUFFICES ASSUME MachineIInv, PageArrives(q) PROVE MachineIInv'
    OBVIOUS
  <1> USE DEF PageArrives
  <1>1. popup \in Popups /\ q \in PageAsks
    BY DEF MachineIInv, Shapes, Popups
  <1>2. CASE ~q.here
    <2>1. /\ popup' \in Popups /\ popup'.of = popup.of
          /\ popup'.rows = popup.rows /\ popup'.asked = popup.asked \ {q}
      BY <1>1, <1>2 DEF Popups
    <2>2. PopupInv'
      BY <2>1 DEF MachineIInv, PopupInv
    <2> QED
      BY <2>1, <2>2, PopupAlone
  <1>3. CASE q.here
    <2> DEFINE on == IF HasMore(q.page) THEN q.page + 1 ELSE 0
    <2>1. on \in Nat
      BY <1>1 DEF PageAsks
    <2>2. popup' = [popup EXCEPT !.rows = @ \cup {q.key}, !.asked = @ \ {q}, !.next = on]
      BY <1>3
    <2> HIDE DEF on
    <2> DEFINE rest == popup.asked \ {q}
    <2> DEFINE all == popup.rows \cup {q.key}
    <2>a. popup' = [popup EXCEPT !.rows = all, !.asked = rest, !.next = on]
      BY <2>2
    <2>b. all \in SUBSET Keys /\ rest \in SUBSET PageAsks
      BY <1>1 DEF Popups, PageAsks
    <2>c. rest = popup.asked \ {q} /\ all = popup.rows \cup {q.key}
      OBVIOUS
    <2> HIDE DEF rest, all
    <2>3. /\ popup' \in Popups /\ popup'.of = popup.of
          /\ popup'.rows = popup.rows \cup {q.key} /\ popup'.asked = popup.asked \ {q}
      BY <1>1, <2>1, <2>a, <2>b, <2>c DEF Popups
    <2>4. PopupInv'
      BY <1>3, <2>3 DEF MachineIInv, PopupInv
    <2> QED
      BY <2>3, <2>4, PopupAlone
  <1> QED
    BY <1>2, <1>3

LEMMA MachineStep == MachineIInv /\ [MachineNext]_machineVars => MachineIInv'
  <1> SUFFICES ASSUME MachineIInv, [MachineNext]_machineVars PROVE MachineIInv'
    OBVIOUS
  <1>1. CASE UNCHANGED machineVars
    BY <1>1 DEF machineVars, MachineIInv, Shapes, AsksInv, AskIsCurrent, ReachInv, PopupInv
  <1>2. CASE MachineNext
    BY <1>2, ConnectsKeeps, DropsKeeps, RefusedKeeps, AnswerKeeps, AnswerFailsKeeps,
       ChangeKeyKeeps, UnmountKeeps, MountKeeps, RetryKeeps, OpenPopupKeeps, LoadPageKeeps,
       PageArrivesKeeps DEF MachineNext
  <1> QED
    BY <1>1, <1>2

(* At most one request is live, so the set of them has at most one member.   *)
LEMMA OneLiveAsk == MachineIInv => Cardinality({a \in resolver.asks : a.live}) <= 1
  <1> SUFFICES ASSUME MachineIInv PROVE Cardinality({a \in resolver.asks : a.live}) <= 1
    OBVIOUS
  <1> DEFINE L == {a \in resolver.asks : a.live}
  <1>1. \A a, b \in L : a = b
    BY DEF MachineIInv, AsksInv
  <1> HIDE DEF L
  <1>2. L = {} \/ \E a : L = {a}
    <2>1. SUFFICES ASSUME NEW a \in L PROVE L = {a}
      OBVIOUS
    <2> QED
      BY <1>1
  <1>3. Cardinality(L) = 0 \/ Cardinality(L) = 1
    BY <1>2, FS_EmptySet, FS_Singleton, Zenon
  <1>4. Cardinality(L) <= 1
    BY <1>3
  <1> QED
    BY <1>4 DEF L

LEMMA MachineIInvHelps == MachineIInv => MachineInv
  <1> SUFFICES ASSUME MachineIInv PROVE MachineInv
    OBVIOUS
  <1>1. \A a \in resolver.asks : a.key \in Keys /\ a.page \in 1 .. LastPage /\ a.chan <= relay.n
    BY DEF MachineIInv, Shapes, Resolvers, ListAsks, AsksInv, AskIsCurrent
  <1>2. /\ key \in Keys /\ shown \in BOOLEAN /\ relay.st \in RelayStates
        /\ resolver.for \in Keys \cup {Unset}
        /\ reach.state \in ReachStates /\ reach.resolved.of \in Keys \cup {Unset}
    BY DEF MachineIInv, Shapes, Resolvers, Lists
  <1>3. MachineTypeOK
    BY <1>1, <1>2, OneLiveAsk DEF MachineTypeOK, RelayStates, ReachStates
  <1>4. ConnectedHasAnswered
    BY <1>2 DEF MachineIInv, ReachInv, ConnectedHasAnswered, Said, ReachStates
  <1>5. PopupIsOfOneRange
    BY DEF MachineIInv, PopupInv, PopupIsOfOneRange
  <1> QED
    BY <1>3, <1>4, <1>5 DEF MachineInv

-----------------------------------------------------------------------------
(* A machine shown as connected has handed over its list on the channel that stands and
   for the range the controls stand at, and the popup's pages are of one range, for every
   set of ranges and every number of pages: no answer of a channel that dropped, of a visit
   left or of a range changed meanwhile is taken for the current one.         *)
THEOREM ConnectedIsNoGuess == MachineSpec => []MachineInv
  <1>1. MachineInit => MachineIInv
    BY MachineInitInv
  <1>2. MachineIInv /\ [MachineNext]_machineVars => MachineIInv'
    BY MachineStep
  <1>3. MachineIInv => MachineInv
    BY MachineIInvHelps
  <1> QED
    BY <1>1, <1>2, <1>3, PTL DEF MachineSpec

-----------------------------------------------------------------------------
(* Decisions.                                                                *)

DecisionStages == {"idle", "checking", "sending", "ending"}
Busy == {"checking", "ending"}
DecisionAsks == [of : Talks, by : Requests \cup {NoRequest}, served : BOOLEAN,
                 answer : SUBSET Requests]
DecisionJobs == [stage : DecisionStages, of : Talks \cup {NoRequest}]
Toasts == [what : Requests, of : Talks]

DecisionShapes ==
    /\ waiting \in SUBSET Requests /\ settled \in SUBSET Requests
    /\ waiting \cap settled = {}
    /\ here \in Talks /\ linked \in BOOLEAN
    /\ cards \in SUBSET Requests /\ waiters \in SUBSET Requests
    /\ cardJobs \in SUBSET Requests
    /\ handled \in Requests \cup {NoRequest}
    /\ toasts \in SUBSET Toasts
    /\ mixedLists \in BOOLEAN

(* A request the page has to do with was brought up by the machine, and belongs to the
   conversation it is taken to belong to, unless lists were mixed (m). W are the requests
   brought up so far, S those settled.                                        *)
Known(r, c, W, m) == r \in W /\ (m \/ TalkOf[r] = c)

(* A list in flight: what it says was so, and what waits for it and is not on it has been
   settled meanwhile.                                                         *)
AskIsTrue(a, W, S, m) ==
    /\ a.answer \subseteq Ours(a.of) \cap W
    /\ a.by # NoRequest => Known(a.by, a.of, W, m)
    /\ a.by # NoRequest /\ a.served /\ a.by \notin a.answer => a.by \in S \/ m

(* Exactly one list is in flight for each decision that waits for one.        *)
OneEach(L, J) ==
    /\ \A r \in Requests : J[r].stage \in Busy <=> \E k \in DOMAIN L : L[k].by = r
    /\ \A i, j \in DOMAIN L : L[i].by = L[j].by /\ L[i].by # NoRequest => i = j

AsksKnown(L, W, S, m) == \A k \in DOMAIN L : AskIsTrue(L[k], W, S, m)
JobsKnown(J, W, m) ==
    \A r \in Requests : J[r].stage # "idle" => J[r].of \in Talks /\ Known(r, J[r].of, W, m)
ToastsKnown(T, W, m) == \A x \in T : Known(x.what, x.of, W, m)
WaitersKnown(A, c, W, m) == \A r \in A : Known(r, c, W, m)

(* The lists and decisions under way.                                         *)
ListsInFlight(L, J, W, S, m) ==
    /\ L \in Seq(DecisionAsks) /\ J \in [Requests -> DecisionJobs]
    /\ OneEach(L, J) /\ AsksKnown(L, W, S, m) /\ JobsKnown(J, W, m)

DecisionIInv ==
    /\ DecisionShapes
    /\ ListsInFlight(listAsks, jobs, waiting \cup settled, settled, mixedLists)
    /\ ToastsKnown(toasts, waiting \cup settled, mixedLists)
    /\ WaitersKnown(waiters, here, waiting \cup settled, mixedLists)
    /\ HandledIsSo

-----------------------------------------------------------------------------
(* Lists in flight and who waits for them.                                   *)

(* A list that has come is taken out; the ones behind it move up.            *)
LEMMA RemovedAt ==
    ASSUME NEW S, NEW L \in Seq(S), NEW k \in DOMAIN L
    PROVE  /\ RemoveAt(L, k) \in Seq(S) /\ Len(RemoveAt(L, k)) = Len(L) - 1
           /\ \A i \in DOMAIN RemoveAt(L, k) :
                 /\ RemoveAt(L, k)[i] = L[IF i < k THEN i ELSE i + 1]
                 /\ (IF i < k THEN i ELSE i + 1) \in DOMAIN L
           /\ \A i \in DOMAIN L :
                 i # k => \E j \in DOMAIN RemoveAt(L, k) : RemoveAt(L, k)[j] = L[i]
  <1> DEFINE a == SubSeq(L, 1, k - 1)
  <1> DEFINE b == SubSeq(L, k + 1, Len(L))
  <1>1. k \in 1 .. Len(L) /\ Len(L) \in Nat /\ \A i \in 1 .. Len(L) : L[i] \in S
    OBVIOUS
  <1>2. a \in Seq(S) /\ Len(a) = k - 1 /\ \A i \in 1 .. k - 1 : a[i] = L[i]
    <2>1. \A i \in 1 .. k - 1 : L[i] \in S
      BY <1>1
    <2>2. 1 \in Int /\ k - 1 \in Int
      BY <1>1
    <2>3. /\ a \in Seq(S) /\ Len(a) = IF 1 <= k - 1 THEN k - 1 - 1 + 1 ELSE 0
          /\ \A i \in 1 .. k - 1 - 1 + 1 : a[i] = L[1 + i - 1]
      BY <2>1, <2>2, SubSeqProperties
    <2> HIDE DEF a
    <2> QED
      BY <1>1, <2>3
  <1>3. b \in Seq(S) /\ Len(b) = Len(L) - k /\ \A i \in 1 .. Len(L) - k : b[i] = L[k + i]
    <2>1. \A i \in k + 1 .. Len(L) : L[i] \in S
      BY <1>1
    <2>2. k + 1 \in Int /\ Len(L) \in Int
      BY <1>1
    <2>3. /\ b \in Seq(S) /\ Len(b) = IF k + 1 <= Len(L) THEN Len(L) - (k + 1) + 1 ELSE 0
          /\ \A i \in 1 .. Len(L) - (k + 1) + 1 : b[i] = L[k + 1 + i - 1]
      BY <2>1, <2>2, SubSeqProperties
    <2> HIDE DEF b
    <2> QED
      BY <1>1, <2>3
  <1> DEFINE s == a \o b
  <1>4. RemoveAt(L, k) = s
    BY DEF RemoveAt
  <1> HIDE DEF a, b
  <1>5. /\ s \in Seq(S) /\ Len(s) = Len(a) + Len(b)
        /\ \A i \in 1 .. Len(a) + Len(b) : s[i] = IF i <= Len(a) THEN a[i] ELSE b[i - Len(a)]
    BY <1>2, <1>3, ConcatProperties
  <1> HIDE DEF s
  <1>6. Len(s) = Len(L) - 1 /\ DOMAIN s = 1 .. Len(L) - 1
    BY <1>1, <1>2, <1>3, <1>5
  <1>7. ASSUME NEW i \in 1 .. Len(L) - 1
        PROVE  s[i] = L[IF i < k THEN i ELSE i + 1]
    <2>1. CASE i < k
      BY <1>1, <1>2, <1>3, <1>5, <2>1, SMTT(30)
    <2>2. CASE ~(i < k)
      <3>1. s[i] = b[i - (k - 1)] /\ i - (k - 1) \in 1 .. Len(L) - k
        <4>1. i \in 1 .. Len(a) + Len(b) /\ ~(i <= Len(a)) /\ Len(a) = k - 1
          BY <1>1, <1>2, <1>3, <2>2
        <4>2. s[i] = b[i - Len(a)]
          BY <1>5, <4>1
        <4>3. i - (k - 1) \in 1 .. Len(L) - k
          BY <1>1, <2>2
        <4> QED
          BY <4>1, <4>2, <4>3
      <3>2. b[i - (k - 1)] = L[k + (i - (k - 1))]
        BY <1>3, <3>1
      <3>3. k + (i - (k - 1)) = i + 1
        BY <1>1
      <3> QED
        BY <2>2, <3>1, <3>2, <3>3
    <2> QED
      BY <2>1, <2>2
  <1>8. ASSUME NEW i \in DOMAIN L, i # k
        PROVE  \E j \in DOMAIN s : s[j] = L[i]
    <2>1. CASE i < k
      <3>1. i \in DOMAIN s /\ s[i] = L[i]
        BY <1>1, <1>6, <1>7, <2>1
      <3> QED
        BY <3>1
    <2>2. CASE ~(i < k)
      <3>1. i - 1 \in 1 .. Len(L) - 1 /\ ~(i - 1 < k) /\ i - 1 + 1 = i
        BY <1>1, <1>8, <2>2
      <3>2. i - 1 \in DOMAIN s /\ s[i - 1] = L[i]
        BY <1>6, <1>7, <3>1
      <3> QED
        BY <3>2
    <2> QED
      BY <2>1, <2>2
  <1>9. \A i \in 1 .. Len(L) - 1 : (IF i < k THEN i ELSE i + 1) \in DOMAIN L
    BY <1>1
  <1> QED
    BY <1>4, <1>5, <1>6, <1>7, <1>8, <1>9

(* Two places of what is left were two places before.                        *)
LEMMA RemovedApart ==
    ASSUME NEW k \in Nat, NEW i \in Nat, NEW j \in Nat,
           (IF i < k THEN i ELSE i + 1) = (IF j < k THEN j ELSE j + 1)
    PROVE  i = j
  OBVIOUS

LEMMA AppendedAsk ==
    ASSUME NEW L \in Seq(DecisionAsks), NEW a \in DecisionAsks
    PROVE  /\ Append(L, a) \in Seq(DecisionAsks)
           /\ \A i \in DOMAIN Append(L, a) :
                 \/ i \in DOMAIN L /\ Append(L, a)[i] = L[i]
                 \/ i = Len(L) + 1 /\ i \notin DOMAIN L /\ Append(L, a)[i] = a
           /\ \A i \in DOMAIN L : i \in DOMAIN Append(L, a) /\ Append(L, a)[i] = L[i]
           /\ Len(L) + 1 \in DOMAIN Append(L, a) /\ Append(L, a)[Len(L) + 1] = a
  <1>1. /\ Append(L, a) \in Seq(DecisionAsks) /\ Len(Append(L, a)) = Len(L) + 1
        /\ \A i \in 1 .. Len(L) : Append(L, a)[i] = L[i]
        /\ Append(L, a)[Len(L) + 1] = a
    BY AppendProperties
  <1>2. DOMAIN L = 1 .. Len(L) /\ Len(L) \in Nat
    OBVIOUS
  <1>3. DOMAIN Append(L, a) = 1 .. Len(L) + 1
    BY <1>1
  <1> QED
    BY <1>1, <1>2, <1>3

(* A refresh nobody waits for.                                               *)
LEMMA OneEachRefresh ==
    ASSUME NEW L \in Seq(DecisionAsks), NEW J, OneEach(L, J),
           NEW a \in DecisionAsks, a.by = NoRequest
    PROVE  OneEach(Append(L, a), J)
  BY AppendedAsk, DecisionStartsAssumption DEF OneEach

(* A decision that asks, and waits for the answer.                           *)
LEMMA OneEachAsks ==
    ASSUME NEW L \in Seq(DecisionAsks), NEW J \in [Requests -> DecisionJobs], OneEach(L, J),
           NEW r \in Requests, J[r].stage \notin Busy,
           NEW j \in DecisionJobs, j.stage \in Busy,
           NEW a \in DecisionAsks, a.by = r
    PROVE  OneEach(Append(L, a), [J EXCEPT ![r] = j])
  <1> DEFINE M == Append(L, a)
  <1> DEFINE K == [J EXCEPT ![r] = j]
  <1>1. K[r] = j /\ \A q \in Requests \ {r} : K[q] = J[q]
    OBVIOUS
  <1>2. /\ \A i \in DOMAIN M : \/ i \in DOMAIN L /\ M[i] = L[i]
                               \/ i = Len(L) + 1 /\ i \notin DOMAIN L /\ M[i] = a
        /\ \A i \in DOMAIN L : i \in DOMAIN M /\ M[i] = L[i]
        /\ Len(L) + 1 \in DOMAIN M /\ M[Len(L) + 1] = a
    BY AppendedAsk
  <1>3. \A i \in DOMAIN L : L[i].by # r
    BY DEF OneEach
  <1> HIDE DEF M, K
  <1>4. \A q \in Requests : K[q].stage \in Busy <=> \E k \in DOMAIN M : M[k].by = q
    <2>1. \A q \in Requests \ {r} : K[q].stage \in Busy <=> \E k \in DOMAIN M : M[k].by = q
      BY <1>1, <1>2 DEF OneEach
    <2>2. K[r].stage \in Busy /\ \E k \in DOMAIN M : M[k].by = r
      BY <1>1, <1>2
    <2> QED
      BY <2>1, <2>2
  <1>5. \A i, k \in DOMAIN M : M[i].by = M[k].by /\ M[i].by # NoRequest => i = k
    BY <1>2, <1>3 DEF OneEach
  <1> QED
    BY <1>4, <1>5 DEF OneEach, M, K

(* The machine answers a list: nobody else waits for it.                     *)
LEMMA OneEachServed ==
    ASSUME NEW L, NEW J, OneEach(L, J), NEW M, DOMAIN M = DOMAIN L,
           \A i \in DOMAIN L : M[i].by = L[i].by
    PROVE  OneEach(M, J)
  BY DEF OneEach

(* A list comes that nobody waits for.                                       *)
LEMMA OneEachDropped ==
    ASSUME NEW L \in Seq(DecisionAsks), NEW J, OneEach(L, J),
           NEW k \in DOMAIN L, L[k].by = NoRequest
    PROVE  OneEach(RemoveAt(L, k), J)
  <1> DEFINE M == RemoveAt(L, k)
  <1>1. /\ M \in Seq(DecisionAsks)
        /\ \A i \in DOMAIN M : /\ M[i] = L[IF i < k THEN i ELSE i + 1]
                               /\ (IF i < k THEN i ELSE i + 1) \in DOMAIN L
        /\ \A i \in DOMAIN L : i # k => \E j \in DOMAIN M : M[j] = L[i]
    BY RemovedAt
  <1> HIDE DEF M
  <1>2. \A r \in Requests : (\E i \in DOMAIN L : L[i].by = r) <=> \E i \in DOMAIN M : M[i].by = r
    BY <1>1, DecisionStartsAssumption
  <1>3. k \in Nat /\ \A i \in DOMAIN M : i \in Nat
    BY <1>1
  <1>4. \A i, j \in DOMAIN M : M[i].by = M[j].by /\ M[i].by # NoRequest => i = j
    <2> TAKE i, j \in DOMAIN M
    <2> HAVE M[i].by = M[j].by /\ M[i].by # NoRequest
    <2>1. (IF i < k THEN i ELSE i + 1) = (IF j < k THEN j ELSE j + 1)
      BY <1>1 DEF OneEach
    <2> QED
      BY <1>3, <2>1, RemovedApart
  <1> QED
    BY <1>2, <1>4 DEF OneEach, M

(* A list comes, and the decision that waited for it goes on.                *)
LEMMA OneEachGoesOn ==
    ASSUME NEW L \in Seq(DecisionAsks), NEW J \in [Requests -> DecisionJobs], OneEach(L, J),
           NEW k \in DOMAIN L, NEW r \in Requests, L[k].by = r,
           NEW j \in DecisionJobs, j.stage \notin Busy
    PROVE  OneEach(RemoveAt(L, k), [J EXCEPT ![r] = j])
  <1> DEFINE M == RemoveAt(L, k)
  <1> DEFINE K == [J EXCEPT ![r] = j]
  <1>1. /\ M \in Seq(DecisionAsks)
        /\ \A i \in DOMAIN M : /\ M[i] = L[IF i < k THEN i ELSE i + 1]
                               /\ (IF i < k THEN i ELSE i + 1) \in DOMAIN L
        /\ \A i \in DOMAIN L : i # k => \E n \in DOMAIN M : M[n] = L[i]
    BY RemovedAt
  <1>2. K[r] = j /\ \A q \in Requests \ {r} : K[q] = J[q]
    OBVIOUS
  <1> HIDE DEF M, K
  <1>3. k \in Nat /\ \A i \in DOMAIN M : i \in Nat
    BY <1>1
  <1>4. \A i \in DOMAIN M : (IF i < k THEN i ELSE i + 1) # k
    BY <1>3
  <1>5. \A i \in DOMAIN M : M[i].by # r
    BY <1>1, <1>4, DecisionStartsAssumption DEF OneEach
  <1>6. \A q \in Requests \ {r} :
            (\E i \in DOMAIN L : L[i].by = q) <=> \E i \in DOMAIN M : M[i].by = q
    BY <1>1
  <1>7. \A q \in Requests : K[q].stage \in Busy <=> \E i \in DOMAIN M : M[i].by = q
    BY <1>2, <1>5, <1>6 DEF OneEach
  <1>8. \A i, n \in DOMAIN M : M[i].by = M[n].by /\ M[i].by # NoRequest => i = n
    <2> TAKE i, n \in DOMAIN M
    <2> HAVE M[i].by = M[n].by /\ M[i].by # NoRequest
    <2>1. (IF i < k THEN i ELSE i + 1) = (IF n < k THEN n ELSE n + 1)
      BY <1>1 DEF OneEach
    <2> QED
      BY <1>3, <2>1, RemovedApart
  <1> QED
    BY <1>7, <1>8 DEF OneEach, M, K

(* A decision changes that nothing is asked for.                             *)
LEMMA OneEachIdle ==
    ASSUME NEW L, NEW J \in [Requests -> DecisionJobs], OneEach(L, J),
           NEW r \in Requests, J[r].stage \notin Busy,
           NEW j \in DecisionJobs, j.stage \notin Busy
    PROVE  OneEach(L, [J EXCEPT ![r] = j])
  <1> DEFINE K == [J EXCEPT ![r] = j]
  <1>1. K[r] = j /\ \A q \in Requests \ {r} : K[q] = J[q]
    OBVIOUS
  <1> HIDE DEF K
  <1>2. OneEach(L, K)
    BY <1>1 DEF OneEach
  <1> QED
    BY <1>2 DEF K

-----------------------------------------------------------------------------
(* What is under way stays known.                                            *)

LEMMA FlightStays ==
    ASSUME NEW L, NEW J, NEW W, NEW S, NEW V, NEW T, NEW m \in BOOLEAN, NEW n \in BOOLEAN,
           ListsInFlight(L, J, W, S, m), W \subseteq V, S \subseteq T, m => n
    PROVE  ListsInFlight(L, J, V, T, n)
  <1>1. AsksKnown(L, V, T, n)
    BY DEF ListsInFlight, AsksKnown, AskIsTrue, Known
  <1>2. JobsKnown(J, V, n)
    BY DEF ListsInFlight, JobsKnown, Known
  <1> QED
    BY <1>1, <1>2 DEF ListsInFlight

LEMMA FlightRefreshed ==
    ASSUME NEW L, NEW J, NEW W, NEW S, NEW m \in BOOLEAN, ListsInFlight(L, J, W, S, m),
           NEW c \in Talks, NEW M,
           M = L \/ M = Append(L, [of |-> c, by |-> NoRequest, served |-> FALSE, answer |-> {}])
    PROVE  ListsInFlight(M, J, W, S, m)
  <1> DEFINE a == [of |-> c, by |-> NoRequest, served |-> FALSE, answer |-> {}]
  <1>1. a \in DecisionAsks /\ a.by = NoRequest /\ a.answer = {}
    BY DEF DecisionAsks
  <1>2. CASE M = L
    BY <1>2
  <1>3. CASE M = Append(L, a)
    <2> HIDE DEF a
    <2>1. L \in Seq(DecisionAsks) /\ OneEach(L, J)
      BY DEF ListsInFlight
    <2>2. M \in Seq(DecisionAsks) /\ OneEach(M, J)
      BY <1>1, <1>3, <2>1, AppendedAsk, OneEachRefresh
    <2>3. AskIsTrue(a, W, S, m)
      BY <1>1 DEF AskIsTrue
    <2>4. AsksKnown(M, W, S, m)
      BY <1>1, <1>3, <2>1, <2>3, AppendedAsk DEF ListsInFlight, AsksKnown
    <2> QED
      BY <2>2, <2>4 DEF ListsInFlight
  <1> QED
    BY <1>2, <1>3

LEMMA FlightAsks ==
    ASSUME NEW L, NEW J, NEW W, NEW S, NEW m \in BOOLEAN, ListsInFlight(L, J, W, S, m),
           NEW r \in Requests, NEW c \in Talks, Known(r, c, W, m),
           J[r].stage \notin Busy, NEW st \in Busy
    PROVE  ListsInFlight(Append(L, [of |-> c, by |-> r, served |-> FALSE, answer |-> {}]),
                    [J EXCEPT ![r] = [stage |-> st, of |-> c]], W, S, m)
  <1> DEFINE a == [of |-> c, by |-> r, served |-> FALSE, answer |-> {}]
  <1> DEFINE j == [stage |-> st, of |-> c]
  <1>1. /\ a \in DecisionAsks /\ a.by = r /\ a.answer = {} /\ a.of = c /\ ~a.served
        /\ j \in DecisionJobs /\ j.stage \in Busy /\ j.of = c
    BY DEF DecisionAsks, DecisionJobs, DecisionStages, Busy
  <1>2. L \in Seq(DecisionAsks) /\ OneEach(L, J) /\ J \in [Requests -> DecisionJobs]
    BY DEF ListsInFlight
  <1> HIDE DEF a, j
  <1>3. OneEach(Append(L, a), [J EXCEPT ![r] = j])
    BY <1>1, <1>2, OneEachAsks
  <1>4. Append(L, a) \in Seq(DecisionAsks) /\ [J EXCEPT ![r] = j] \in [Requests -> DecisionJobs]
    BY <1>1, <1>2, AppendedAsk
  <1>5. AskIsTrue(a, W, S, m)
    BY <1>1 DEF AskIsTrue
  <1>6. AsksKnown(Append(L, a), W, S, m)
    BY <1>1, <1>2, <1>5, AppendedAsk DEF ListsInFlight, AsksKnown
  <1>7. JobsKnown([J EXCEPT ![r] = j], W, m)
    BY <1>1, <1>2 DEF ListsInFlight, JobsKnown
  <1>8. ListsInFlight(Append(L, a), [J EXCEPT ![r] = j], W, S, m)
    BY <1>3, <1>4, <1>6, <1>7 DEF ListsInFlight
  <1> QED
    BY <1>8 DEF a, j

(* A list is gone that nobody waited for.                                    *)
LEMMA FlightLanded ==
    ASSUME NEW L, NEW J, NEW W, NEW S, NEW m \in BOOLEAN, ListsInFlight(L, J, W, S, m),
           NEW k \in DOMAIN L
    PROVE  /\ RemoveAt(L, k) \in Seq(DecisionAsks) /\ AsksKnown(RemoveAt(L, k), W, S, m)
           /\ L[k].by = NoRequest => ListsInFlight(RemoveAt(L, k), J, W, S, m)
  <1>1. L \in Seq(DecisionAsks) /\ J \in [Requests -> DecisionJobs] /\ OneEach(L, J)
    BY DEF ListsInFlight
  <1>2. RemoveAt(L, k) \in Seq(DecisionAsks) /\ AsksKnown(RemoveAt(L, k), W, S, m)
    <2>1. /\ RemoveAt(L, k) \in Seq(DecisionAsks)
          /\ \A i \in DOMAIN RemoveAt(L, k) : \E n \in DOMAIN L : RemoveAt(L, k)[i] = L[n]
      BY <1>1, RemovedAt
    <2> QED
      BY <2>1 DEF ListsInFlight, AsksKnown
  <1> QED
    BY <1>1, <1>2, OneEachDropped DEF ListsInFlight

(* A list is gone, and the decision that waited for it sends, or is over.    *)
LEMMA FlightContinues ==
    ASSUME NEW L, NEW J, NEW W, NEW S, NEW m \in BOOLEAN, ListsInFlight(L, J, W, S, m),
           NEW k \in DOMAIN L, L[k].by \in Requests
    PROVE  /\ ListsInFlight(RemoveAt(L, k), [J EXCEPT ![L[k].by] = NoDecision], W, S, m)
           /\ ListsInFlight(RemoveAt(L, k),
                       [J EXCEPT ![L[k].by] = [stage |-> "sending", of |-> J[L[k].by].of]],
                       W, S, m)
  <1>0. PICK r \in Requests : r = L[k].by
    OBVIOUS
  <1>1. L \in Seq(DecisionAsks) /\ J \in [Requests -> DecisionJobs] /\ OneEach(L, J)
    BY DEF ListsInFlight
  <1>2. J[r] \in DecisionJobs /\ J[r].stage \in Busy
    BY <1>0, <1>1 DEF OneEach
  <1>3. J[r].of \in Talks /\ Known(r, J[r].of, W, m)
    BY <1>2 DEF ListsInFlight, JobsKnown, Busy
  <1>4. ASSUME NEW j, j = NoDecision \/ j = [stage |-> "sending", of |-> J[r].of]
        PROVE  ListsInFlight(RemoveAt(L, k), [J EXCEPT ![r] = j], W, S, m)
    <2>1. j \in DecisionJobs /\ j.stage \notin Busy
      BY <1>2, <1>4 DEF DecisionJobs, DecisionStages, Busy, NoDecision
    <2>2. OneEach(RemoveAt(L, k), [J EXCEPT ![r] = j])
      BY <1>0, <1>1, <2>1, OneEachGoesOn
    <2>3. j.stage = "idle" \/ (j.of \in Talks /\ Known(r, j.of, W, m))
      BY <1>3, <1>4 DEF NoDecision
    <2>4. /\ [J EXCEPT ![r] = j] \in [Requests -> DecisionJobs]
          /\ JobsKnown([J EXCEPT ![r] = j], W, m)
      BY <1>1, <2>1, <2>3 DEF ListsInFlight, JobsKnown
    <2> QED
      BY <2>2, <2>4, FlightLanded DEF ListsInFlight
  <1>5. ListsInFlight(RemoveAt(L, k), [J EXCEPT ![r] = NoDecision], W, S, m)
    BY <1>4
  <1>6. ListsInFlight(RemoveAt(L, k), [J EXCEPT ![r] = [stage |-> "sending", of |-> J[r].of]], W, S, m)
    BY <1>4
  <1> QED
    BY <1>0, <1>5, <1>6

(* A decision is over, or its answer is sent without a list being asked for. *)
LEMMA FlightSettles ==
    ASSUME NEW L, NEW J, NEW W, NEW S, NEW m \in BOOLEAN, ListsInFlight(L, J, W, S, m),
           NEW r \in Requests, J[r].stage \notin Busy
    PROVE  ListsInFlight(L, [J EXCEPT ![r] = NoDecision], W, S, m)
  <1>1. NoDecision \in DecisionJobs /\ NoDecision.stage = "idle" /\ "idle" \notin Busy
    BY DEF DecisionJobs, DecisionStages, Busy, NoDecision
  <1>2. J \in [Requests -> DecisionJobs] /\ OneEach(L, J)
    BY DEF ListsInFlight
  <1> DEFINE j == NoDecision
  <1> HIDE DEF j
  <1>3. j \in DecisionJobs /\ j.stage = "idle"
    BY <1>1 DEF j
  <1>4. OneEach(L, [J EXCEPT ![r] = j]) /\ [J EXCEPT ![r] = j] \in [Requests -> DecisionJobs]
    BY <1>1, <1>2, <1>3, OneEachIdle
  <1>5. JobsKnown([J EXCEPT ![r] = j], W, m)
    BY <1>2, <1>3 DEF ListsInFlight, JobsKnown
  <1>6. ListsInFlight(L, [J EXCEPT ![r] = j], W, S, m)
    BY <1>4, <1>5 DEF ListsInFlight
  <1> QED
    BY <1>6 DEF j

LEMMA FlightSends ==
    ASSUME NEW L, NEW J, NEW W, NEW S, NEW m \in BOOLEAN, ListsInFlight(L, J, W, S, m),
           NEW r \in Requests, J[r].stage \notin Busy,
           NEW c \in Talks, Known(r, c, W, m)
    PROVE  ListsInFlight(L, [J EXCEPT ![r] = [stage |-> "sending", of |-> c]], W, S, m)
  <1>1. PICK j : j = [stage |-> "sending", of |-> c]
    OBVIOUS
  <1>2. j \in DecisionJobs /\ j.stage \notin Busy /\ j.of = c
    BY <1>1 DEF DecisionJobs, DecisionStages, Busy
  <1>3. J \in [Requests -> DecisionJobs] /\ OneEach(L, J)
    BY DEF ListsInFlight
  <1>4. OneEach(L, [J EXCEPT ![r] = j]) /\ [J EXCEPT ![r] = j] \in [Requests -> DecisionJobs]
    BY <1>2, <1>3, OneEachIdle
  <1>5. JobsKnown([J EXCEPT ![r] = j], W, m)
    BY <1>2, <1>3 DEF ListsInFlight, JobsKnown
  <1>6. ListsInFlight(L, [J EXCEPT ![r] = j], W, S, m)
    BY <1>4, <1>5 DEF ListsInFlight
  <1> QED
    BY <1>1, <1>6

-----------------------------------------------------------------------------
(* The steps.                                                                *)

(* What a step leaves alone stays true while requests are only brought up and settled. *)
LEMMA DecisionFrame ==
    ASSUME DecisionIInv, waiting \cup settled \subseteq waiting' \cup settled',
           settled \subseteq settled', mixedLists' \in BOOLEAN, mixedLists => mixedLists'
    PROVE  /\ ListsInFlight(listAsks, jobs, waiting' \cup settled', settled', mixedLists')
           /\ ToastsKnown(toasts, waiting' \cup settled', mixedLists')
           /\ WaitersKnown(waiters, here, waiting' \cup settled', mixedLists')
           /\ handled # NoRequest => handled \in settled' \/ mixedLists'
  <1>1. ListsInFlight(listAsks, jobs, waiting' \cup settled', settled', mixedLists')
    BY FlightStays DEF DecisionIInv, DecisionShapes
  <1>2. ToastsKnown(toasts, waiting' \cup settled', mixedLists')
    BY DEF DecisionIInv, ToastsKnown, Known
  <1>3. WaitersKnown(waiters, here, waiting' \cup settled', mixedLists')
    BY DEF DecisionIInv, WaitersKnown, Known
  <1> QED
    BY <1>1, <1>2, <1>3 DEF DecisionIInv, HandledIsSo

LEMMA AskTyped ==
    ASSUME NEW k \in DOMAIN listAsks, DecisionIInv PROVE listAsks[k] \in DecisionAsks
  BY DEF DecisionIInv, ListsInFlight

LEMMA DecisionInitInv == DecisionInit => DecisionIInv
  <1> SUFFICES ASSUME DecisionInit PROVE DecisionIInv
    OBVIOUS
  <1> USE DecisionStartsAssumption
  <1>1. PICK s \in DecisionStarts :
            /\ waiting = s.waiting /\ settled = {} /\ here = s.here /\ linked = FALSE
            /\ cards = s.cards /\ waiters = {} /\ handled = NoRequest /\ listAsks = <<>>
            /\ jobs = [r \in Requests |-> NoDecision] /\ cardJobs = {} /\ toasts = {}
            /\ missed = FALSE /\ mixedLists = FALSE
    BY DEF DecisionInit
  <1>2. DecisionShapes
    BY <1>1 DEF DecisionShapes
  <1>3. NoDecision \in DecisionJobs /\ NoDecision.stage = "idle"
    BY DEF NoDecision, DecisionJobs, DecisionStages
  <1>4. jobs \in [Requests -> DecisionJobs] /\ \A r \in Requests : jobs[r].stage = "idle"
    BY <1>1, <1>3
  <1>5. listAsks \in Seq(DecisionAsks) /\ DOMAIN listAsks = {}
    BY <1>1
  <1>6. ListsInFlight(listAsks, jobs, waiting \cup settled, settled, mixedLists)
    BY <1>4, <1>5 DEF ListsInFlight, OneEach, AsksKnown, JobsKnown, Busy
  <1> QED
    BY <1>1, <1>2, <1>6 DEF DecisionIInv, ToastsKnown, WaitersKnown, HandledIsSo

LEMMA AnsweredAsk ==
    ASSUME NEW a \in DecisionAsks, NEW on \in SUBSET Requests
    PROVE  \E b \in DecisionAsks :
               /\ b = [a EXCEPT !.served = TRUE, !.answer = on]
               /\ b.of = a.of /\ b.by = a.by /\ b.answer = on
  <1>1. PICK c : c = [a EXCEPT !.served = TRUE]
    OBVIOUS
  <1>2. c \in DecisionAsks
    BY <1>1, Zenon DEF DecisionAsks
  <1>3. c.of = a.of /\ c.by = a.by
    BY <1>1 DEF DecisionAsks
  <1>4. PICK b : b = [c EXCEPT !.answer = on]
    OBVIOUS
  <1>5. b \in DecisionAsks
    BY <1>2, <1>4, Zenon DEF DecisionAsks
  <1>6. b.of = c.of /\ b.by = c.by /\ b.answer = on
    BY <1>2, <1>4 DEF DecisionAsks
  <1>7. b = [a EXCEPT !.served = TRUE, !.answer = on]
    BY <1>1, <1>4
  <1> QED
    BY <1>3, <1>5, <1>6, <1>7

LEMMA AskServedKeeps ==
    ASSUME NEW k \in DOMAIN listAsks PROVE DecisionIInv /\ AskServed(k) => DecisionIInv'
  <1> SUFFICES ASSUME DecisionIInv, AskServed(k) PROVE DecisionIInv'
    OBVIOUS
  <1> USE DEF AskServed
  <1> DEFINE W == waiting \cup settled
  <1>1. PICK a : a = listAsks[k]
    OBVIOUS
  <1>2. /\ listAsks \in Seq(DecisionAsks) /\ a \in DecisionAsks
        /\ OneEach(listAsks, jobs) /\ AsksKnown(listAsks, W, settled, mixedLists)
    BY <1>1, AskTyped DEF DecisionIInv, ListsInFlight
  <1>3. PICK on \in SUBSET Requests : on = waiting \cap Ours(a.of)
    BY DEF DecisionIInv, DecisionShapes
  <1>4. PICK b \in DecisionAsks :
            /\ b = [a EXCEPT !.served = TRUE, !.answer = on]
            /\ b.of = a.of /\ b.by = a.by /\ b.answer = on
    BY <1>2, AnsweredAsk
  <1>5. b \in DecisionAsks /\ b.by = a.by
    BY <1>4
  <1>6. AskIsTrue(a, W, settled, mixedLists)
    BY <1>1, <1>2 DEF AsksKnown
  <1>7. AskIsTrue(b, W, settled, mixedLists)
    <2>1. on \subseteq Ours(a.of) \cap W
      BY <1>3
    <2>2. a.by # NoRequest => Known(a.by, a.of, W, mixedLists)
      BY <1>6 DEF AskIsTrue
    <2>3. a.by # NoRequest /\ a.by \notin on => a.by \in settled \/ mixedLists
      BY <1>2, <1>3, <2>2 DEF Known, Ours, DecisionAsks
    <2> QED
      BY <1>4, <2>1, <2>2, <2>3 DEF AskIsTrue
  <1>8. listAsks' = [listAsks EXCEPT ![k] = b]
    <2>1. listAsks' = [listAsks EXCEPT ![k] = [a EXCEPT !.served = TRUE, !.answer = on]]
      BY <1>1, <1>3
    <2> QED
      BY <1>4, <2>1
  <1>9. /\ listAsks' \in Seq(DecisionAsks) /\ DOMAIN listAsks' = DOMAIN listAsks
        /\ \A i \in DOMAIN listAsks : listAsks'[i] = IF i = k THEN b ELSE listAsks[i]
    <2>1. [listAsks EXCEPT ![k] = b] \in Seq(DecisionAsks)
      BY <1>2, <1>5, ExceptSeq
    <2>2. DOMAIN listAsks' = DOMAIN listAsks
      BY <1>2, <1>8
    <2>3. \A i \in DOMAIN listAsks : listAsks'[i] = IF i = k THEN b ELSE listAsks[i]
      BY <1>2, <1>8
    <2> QED
      BY <1>8, <2>1, <2>2, <2>3
  <1>10. OneEach(listAsks', jobs)
    BY <1>1, <1>2, <1>5, <1>9, OneEachServed
  <1>11. AsksKnown(listAsks', W, settled, mixedLists)
    BY <1>2, <1>7, <1>9 DEF AsksKnown
  <1>12. ListsInFlight(listAsks', jobs, W, settled, mixedLists)
    BY <1>9, <1>10, <1>11 DEF DecisionIInv, ListsInFlight
  <1>13. DecisionShapes'
    BY DEF DecisionIInv, DecisionShapes
  <1> QED
    BY <1>12, <1>13 DEF DecisionIInv, HandledIsSo

(* What is read from a list, and what a decision does with it.               *)
LEMMA ContinuedJobs ==
    ASSUME DecisionIInv, NEW k \in DOMAIN listAsks, NEW before,
           Continues(listAsks[k].by, before)
    PROVE  ListsInFlight(RemoveAt(listAsks, k), jobs', waiting \cup settled, settled, mixedLists)
  <1>1. PICK r : r = listAsks[k].by
    OBVIOUS
  <1>2. jobs \in [Requests -> DecisionJobs] /\ r \in Requests \cup {NoRequest}
    BY <1>1, AskTyped DEF DecisionIInv, ListsInFlight, DecisionAsks
  <1>3. CASE r = NoRequest
    <2>1. jobs' = jobs
      BY <1>1, <1>3 DEF Continues
    <2> QED
      BY <1>1, <1>3, <2>1, FlightLanded DEF DecisionIInv, DecisionShapes
  <1>4. CASE r \in Requests
    <2>1. jobs[r] \in DecisionJobs
      BY <1>2, <1>4
    <2>2. [jobs EXCEPT ![r].stage = "sending"]
              = [jobs EXCEPT ![r] = [stage |-> "sending", of |-> jobs[r].of]]
      <3>1. [jobs[r] EXCEPT !.stage = "sending"] = [stage |-> "sending", of |-> jobs[r].of]
        BY <2>1 DEF DecisionJobs
      <3> QED
        BY <3>1
    <2>3. \/ jobs' = [jobs EXCEPT ![r] = NoDecision]
          \/ jobs' = [jobs EXCEPT ![r] = [stage |-> "sending", of |-> jobs[r].of]]
      BY <1>1, <1>4, <2>2, DecisionStartsAssumption DEF Continues
    <2>4. /\ ListsInFlight(listAsks, jobs, waiting \cup settled, settled, mixedLists)
          /\ mixedLists \in BOOLEAN
      BY DEF DecisionIInv, DecisionShapes
    <2>5. k \in DOMAIN listAsks /\ listAsks[k].by \in Requests
      BY <1>1, <1>4
    <2>6. /\ ListsInFlight(RemoveAt(listAsks, k), [jobs EXCEPT ![listAsks[k].by] = NoDecision],
                      waiting \cup settled, settled, mixedLists)
          /\ ListsInFlight(RemoveAt(listAsks, k),
                      [jobs EXCEPT ![listAsks[k].by] =
                          [stage |-> "sending", of |-> jobs[listAsks[k].by].of]],
                      waiting \cup settled, settled, mixedLists)
      BY <2>4, <2>5, FlightContinues
    <2> QED
      BY <1>1, <2>3, <2>6
  <1> QED
    BY <1>2, <1>3, <1>4

LEMMA AskArrivesKeeps ==
    ASSUME NEW k \in DOMAIN listAsks PROVE DecisionIInv /\ AskArrives(k) => DecisionIInv'
  <1> SUFFICES ASSUME DecisionIInv, AskArrives(k) PROVE DecisionIInv'
    OBVIOUS
  <1> USE DEF AskArrives
  <1> DEFINE W == waiting \cup settled
  <1>1. PICK a : a = listAsks[k]
    OBVIOUS
  <1>2. a \in DecisionAsks /\ AskIsTrue(a, W, settled, mixedLists)
    BY <1>1, AskTyped DEF DecisionIInv, ListsInFlight, AsksKnown
  <1>3. mixedLists' = (mixedLists \/ a.of # here) /\ mixedLists' \in BOOLEAN
    BY <1>1
  <1>4. ListsInFlight(listAsks', jobs', W, settled, mixedLists)
    BY ContinuedJobs
  <1>5. ListsInFlight(listAsks', jobs', W, settled, mixedLists')
    BY <1>3, <1>4, FlightStays DEF DecisionIInv, DecisionShapes
  <1>6. ToastsKnown(toasts, W, mixedLists')
    BY <1>3, DecisionFrame
  <1>7. WaitersKnown(waiters', here, W, mixedLists')
    BY <1>1, <1>2, <1>3 DEF WaitersKnown, Known, AskIsTrue, Ours
  <1>8. handled' \in Requests \cup {NoRequest}
    BY <1>1, <1>2 DEF DecisionIInv, DecisionShapes, Notes, DecisionAsks
  <1>9. handled' # NoRequest => handled' \in settled \/ mixedLists'
    <2>1. CASE a.by # NoRequest /\ jobs[a.by].stage = "checking" /\ AnsweredBy(a.answer, a.by)
      <3>1. handled' = a.by
        BY <1>1, <2>1 DEF Notes
      <3> QED
        BY <1>1, <1>2, <1>3, <2>1, <3>1 DEF AnsweredBy, AskIsTrue
    <2>2. CASE ~(a.by # NoRequest /\ jobs[a.by].stage = "checking" /\ AnsweredBy(a.answer, a.by))
      <3>1. handled' = NoRequest \/ handled' = handled
        BY <1>1, <2>2 DEF Notes
      <3> QED
        BY <1>3, <3>1 DEF DecisionIInv, HandledIsSo
    <2> QED
      BY <2>1, <2>2
  <1>10. DecisionShapes'
    BY <1>1, <1>2, <1>3, <1>8 DEF DecisionIInv, DecisionShapes, DecisionAsks
  <1> QED
    BY <1>5, <1>6, <1>7, <1>9, <1>10 DEF DecisionIInv, HandledIsSo

(* A list that failed tells nothing.                                         *)
LEMMA AskFailsKeeps ==
    ASSUME NEW k \in DOMAIN listAsks PROVE DecisionIInv /\ AskFails(k) => DecisionIInv'
  <1> SUFFICES ASSUME DecisionIInv, AskFails(k) PROVE DecisionIInv'
    OBVIOUS
  <1> USE DEF AskFails
  <1>1. ListsInFlight(listAsks', jobs', waiting \cup settled, settled, mixedLists)
    BY ContinuedJobs
  <1>2. handled' = handled
    <2>1. ~AnsweredBy({NoRequest}, listAsks[k].by)
      BY DEF AnsweredBy
    <2>2. {NoRequest} \ {NoRequest} = {}
      OBVIOUS
    <2> QED
      BY <2>1, <2>2 DEF Notes
  <1>3. DecisionShapes'
    BY <1>2 DEF DecisionIInv, DecisionShapes
  <1> QED
    BY <1>1, <1>2, <1>3 DEF DecisionIInv, HandledIsSo

(* A step that refreshes the list, or does not, while requests are brought up or settled. *)
LEMMA RefreshingKeeps ==
    ASSUME DecisionIInv, NEW c \in Talks,
           listAsks' = listAsks \/ listAsks' = Asked(c, NoRequest),
           waiting' \in SUBSET Requests, settled' \in SUBSET Requests,
           waiting' \cap settled' = {},
           waiting \cup settled \subseteq waiting' \cup settled', settled \subseteq settled',
           here' = here, linked' \in BOOLEAN, cards' \in SUBSET Requests,
           cardJobs' \in SUBSET Requests,
           UNCHANGED <<waiters, handled, jobs, toasts, mixedLists>>
    PROVE  DecisionIInv'
  <1>1. mixedLists \in BOOLEAN
    BY DEF DecisionIInv, DecisionShapes
  <1>2. /\ ListsInFlight(listAsks, jobs, waiting' \cup settled', settled', mixedLists)
        /\ ToastsKnown(toasts, waiting' \cup settled', mixedLists)
        /\ WaitersKnown(waiters, here, waiting' \cup settled', mixedLists)
        /\ handled # NoRequest => handled \in settled' \/ mixedLists
    BY <1>1, DecisionFrame
  <1>3. ListsInFlight(listAsks', jobs, waiting' \cup settled', settled', mixedLists)
    BY <1>1, <1>2, FlightRefreshed DEF Asked
  <1>4. DecisionShapes'
    BY DEF DecisionIInv, DecisionShapes
  <1> QED
    BY <1>2, <1>3, <1>4 DEF DecisionIInv, HandledIsSo

LEMMA BlocksKeeps == ASSUME NEW r \in Requests PROVE DecisionIInv /\ Blocks(r) => DecisionIInv'
  <1> SUFFICES ASSUME DecisionIInv, Blocks(r) PROVE DecisionIInv'
    OBVIOUS
  <1>1. here \in Talks /\ (listAsks' = listAsks \/ listAsks' = Asked(here, NoRequest))
    BY DEF Blocks, Refreshes, DecisionIInv, DecisionShapes
  <1>2. /\ waiting' \in SUBSET Requests /\ settled' \in SUBSET Requests
        /\ waiting' \cap settled' = {} /\ cards' \in SUBSET Requests
    BY DEF Blocks, DecisionIInv, DecisionShapes
  <1>3. /\ waiting \cup settled \subseteq waiting' \cup settled' /\ settled \subseteq settled'
        /\ here' = here /\ linked' \in BOOLEAN /\ cardJobs' \in SUBSET Requests
        /\ UNCHANGED <<waiters, handled, jobs, toasts, mixedLists>>
    BY DEF Blocks, DecisionIInv, DecisionShapes
  <1> QED
    BY <1>1, <1>2, <1>3, RefreshingKeeps

LEMMA ElsewhereKeeps ==
    ASSUME NEW r \in Requests PROVE DecisionIInv /\ AnsweredElsewhere(r) => DecisionIInv'
  <1> SUFFICES ASSUME DecisionIInv, AnsweredElsewhere(r) PROVE DecisionIInv'
    OBVIOUS
  <1>1. here \in Talks /\ listAsks' = listAsks
    BY DEF AnsweredElsewhere, DecisionIInv, DecisionShapes
  <1>2. /\ waiting' \in SUBSET Requests /\ settled' \in SUBSET Requests
        /\ waiting' \cap settled' = {} /\ cards' \in SUBSET Requests
    BY DEF AnsweredElsewhere, DecisionIInv, DecisionShapes
  <1>3. /\ waiting \cup settled \subseteq waiting' \cup settled' /\ settled \subseteq settled'
        /\ here' = here /\ linked' \in BOOLEAN /\ cardJobs' \in SUBSET Requests
        /\ UNCHANGED <<waiters, handled, jobs, toasts, mixedLists>>
    BY DEF AnsweredElsewhere, DecisionIInv, DecisionShapes
  <1> QED
    BY <1>1, <1>2, <1>3, RefreshingKeeps

LEMMA TurnEndsKeeps == DecisionIInv /\ TurnEnds => DecisionIInv'
  <1> SUFFICES ASSUME DecisionIInv, TurnEnds PROVE DecisionIInv'
    OBVIOUS
  <1>1. here \in Talks /\ (listAsks' = listAsks \/ listAsks' = Asked(here, NoRequest))
    BY DEF TurnEnds, Refreshes, DecisionIInv, DecisionShapes
  <1>2. /\ waiting' \in SUBSET Requests /\ settled' \in SUBSET Requests
        /\ waiting' \cap settled' = {} /\ cards' \in SUBSET Requests
    BY DEF TurnEnds, DecisionIInv, DecisionShapes
  <1>3. /\ waiting \cup settled \subseteq waiting' \cup settled' /\ settled \subseteq settled'
        /\ here' = here /\ linked' \in BOOLEAN /\ cardJobs' \in SUBSET Requests
        /\ UNCHANGED <<waiters, handled, jobs, toasts, mixedLists>>
    BY DEF TurnEnds, DecisionIInv, DecisionShapes
  <1> QED
    BY <1>1, <1>2, <1>3, RefreshingKeeps

LEMMA LinksKeeps == DecisionIInv /\ Links => DecisionIInv'
  <1> SUFFICES ASSUME DecisionIInv, Links PROVE DecisionIInv'
    OBVIOUS
  <1>1. here \in Talks /\ listAsks' = Asked(here, NoRequest)
    BY DEF Links, DecisionIInv, DecisionShapes
  <1>2. /\ waiting' \in SUBSET Requests /\ settled' \in SUBSET Requests
        /\ waiting' \cap settled' = {} /\ cards' \in SUBSET Requests
    BY DEF Links, DecisionIInv, DecisionShapes
  <1>3. /\ waiting \cup settled \subseteq waiting' \cup settled' /\ settled \subseteq settled'
        /\ here' = here /\ linked' \in BOOLEAN /\ cardJobs' \in SUBSET Requests
        /\ UNCHANGED <<waiters, handled, jobs, toasts, mixedLists>>
    BY DEF Links, DecisionIInv, DecisionShapes
  <1> QED
    BY <1>1, <1>2, <1>3, RefreshingKeeps

LEMMA CardAnswerKeeps ==
    ASSUME NEW r \in Requests PROVE DecisionIInv /\ CardAnswer(r) => DecisionIInv'
  <1> SUFFICES ASSUME DecisionIInv, CardAnswer(r) PROVE DecisionIInv'
    OBVIOUS
  <1>1. here \in Talks /\ listAsks' = listAsks
    BY DEF CardAnswer, DecisionIInv, DecisionShapes
  <1>2. /\ waiting' \in SUBSET Requests /\ settled' \in SUBSET Requests
        /\ waiting' \cap settled' = {} /\ cards' \in SUBSET Requests
    BY DEF CardAnswer, DecisionIInv, DecisionShapes
  <1>3. /\ waiting \cup settled \subseteq waiting' \cup settled' /\ settled \subseteq settled'
        /\ here' = here /\ linked' \in BOOLEAN /\ cardJobs' \in SUBSET Requests
        /\ UNCHANGED <<waiters, handled, jobs, toasts, mixedLists>>
    BY DEF CardAnswer, DecisionIInv, DecisionShapes
  <1> QED
    BY <1>1, <1>2, <1>3, RefreshingKeeps

LEMMA CardServedKeeps ==
    ASSUME NEW r \in Requests PROVE DecisionIInv /\ CardServed(r) => DecisionIInv'
  <1> SUFFICES ASSUME DecisionIInv, CardServed(r) PROVE DecisionIInv'
    OBVIOUS
  <1>1. /\ TalkOf[r] \in Talks
        /\ listAsks' = listAsks \/ listAsks' = Asked(TalkOf[r], NoRequest)
    BY TalkOfAssumption DEF CardServed
  <1>2. /\ waiting' \in SUBSET Requests /\ settled' \in SUBSET Requests
        /\ waiting' \cap settled' = {} /\ cards' \in SUBSET Requests
    BY DEF CardServed, Settles, DecisionIInv, DecisionShapes
  <1>3. /\ waiting \cup settled \subseteq waiting' \cup settled' /\ settled \subseteq settled'
        /\ here' = here /\ linked' \in BOOLEAN /\ cardJobs' \in SUBSET Requests
        /\ UNCHANGED <<waiters, handled, jobs, toasts, mixedLists>>
    BY DEF CardServed, Settles, DecisionIInv, DecisionShapes
  <1> QED
    BY <1>1, <1>2, <1>3, RefreshingKeeps

(* The lists in flight and the answers given outlive the conversation left. *)
LEMMA SwitchKeeps == ASSUME NEW c \in Talks PROVE DecisionIInv /\ Switch(c) => DecisionIInv'
  <1> SUFFICES ASSUME DecisionIInv, Switch(c) PROVE DecisionIInv'
    OBVIOUS
  <1> USE DEF Switch
  <1>1. DecisionShapes'
    BY DEF DecisionIInv, DecisionShapes
  <1>2. WaitersKnown(waiters', here', waiting \cup settled, mixedLists)
    BY DEF WaitersKnown
  <1> QED
    BY <1>1, <1>2 DEF DecisionIInv, HandledIsSo

(* A request is answered from the panel, or again: it is asked for first, or sent. *)
LEMMA ChecksKeeps ==
    ASSUME DecisionIInv, NEW r \in Requests, NEW c \in Talks, Checks(r, c),
           jobs[r].stage = "idle", Known(r, c, waiting \cup settled, mixedLists),
           toasts' \subseteq toasts,
           UNCHANGED <<waiting, settled, here, linked, cards, waiters, cardJobs, mixedLists>>
    PROVE  DecisionIInv'
  <1> DEFINE W == waiting \cup settled
  <1>1. ListsInFlight(listAsks, jobs, W, settled, mixedLists) /\ mixedLists \in BOOLEAN
    BY DEF DecisionIInv, DecisionShapes
  <1>2. "idle" \notin Busy /\ "checking" \in Busy /\ "sending" \notin Busy
    BY DEF Busy
  <1>3. ListsInFlight(listAsks', jobs', W, settled, mixedLists)
    <2>1. CASE linked
      <3>1. /\ jobs' = [jobs EXCEPT ![r] = [stage |-> "checking", of |-> c]]
            /\ listAsks' = Append(listAsks,
                               [of |-> c, by |-> r, served |-> FALSE, answer |-> {}])
        BY <2>1 DEF Checks, Asked
      <3> QED
        BY <1>1, <1>2, <3>1, FlightAsks
    <2>2. CASE ~linked
      <3>1. /\ jobs' = [jobs EXCEPT ![r] = [stage |-> "sending", of |-> c]]
            /\ listAsks' = listAsks
        BY <2>2 DEF Checks
      <3>2. jobs[r].stage \notin Busy /\ Known(r, c, W, mixedLists)
        BY <1>2
      <3>3. ListsInFlight(listAsks, [jobs EXCEPT ![r] = [stage |-> "sending", of |-> c]], W, settled,
                          mixedLists)
        BY <1>1, <3>2, FlightSends
      <3> QED
        BY <3>1, <3>3
    <2> QED
      BY <2>1, <2>2
  <1>4. handled' = NoRequest
    BY DEF Checks
  <1>5. DecisionShapes'
    BY <1>4 DEF DecisionIInv, DecisionShapes
  <1>6. ToastsKnown(toasts', W, mixedLists)
    BY DEF DecisionIInv, ToastsKnown
  <1> QED
    BY <1>3, <1>4, <1>5, <1>6 DEF DecisionIInv, HandledIsSo

LEMMA PanelAnswerKeeps ==
    ASSUME NEW r \in Requests PROVE DecisionIInv /\ PanelAnswer(r) => DecisionIInv'
  <1> SUFFICES ASSUME DecisionIInv, PanelAnswer(r) PROVE DecisionIInv'
    OBVIOUS
  <1>1. Known(r, here, waiting \cup settled, mixedLists) /\ here \in Talks
    BY DEF PanelAnswer, Panel, DecisionIInv, DecisionShapes, WaitersKnown
  <1>2. /\ Checks(r, here) /\ jobs[r].stage = "idle" /\ toasts' \subseteq toasts
        /\ UNCHANGED <<waiting, settled, here, linked, cards, waiters, cardJobs, mixedLists>>
    BY DEF PanelAnswer
  <1> QED
    BY <1>1, <1>2, ChecksKeeps

LEMMA RetryAnswerKeeps ==
    ASSUME NEW x \in toasts PROVE DecisionIInv /\ RetryAnswer(x) => DecisionIInv'
  <1> SUFFICES ASSUME DecisionIInv, RetryAnswer(x) PROVE DecisionIInv'
    OBVIOUS
  <1>1. PICK r \in Requests, c \in Talks : r = x.what /\ c = x.of
    BY DEF DecisionIInv, DecisionShapes, Toasts
  <1>2. Known(r, c, waiting \cup settled, mixedLists)
    BY <1>1 DEF DecisionIInv, ToastsKnown
  <1>3. /\ Checks(r, c) /\ jobs[r].stage = "idle" /\ toasts' \subseteq toasts
        /\ UNCHANGED <<waiting, settled, here, linked, cards, waiters, cardJobs, mixedLists>>
    BY <1>1 DEF RetryAnswer
  <1> QED
    BY <1>1, <1>2, <1>3, ChecksKeeps

(* An answer has been sent: it is of a request the machine brought up, and its end asks for
   the list of the conversation it was of.                                    *)
LEMMA EndsKeeps ==
    ASSUME DecisionIInv, NEW r \in Requests, jobs[r].stage = "sending", EndsWith(r),
           UNCHANGED <<waiting, settled>> \/ (r \in waiting /\ Settles(r)),
           toasts' \subseteq toasts \cup {[what |-> r, of |-> jobs[r].of]},
           UNCHANGED <<here, linked, cards, waiters, handled, cardJobs, mixedLists>>
    PROVE  DecisionIInv'
  <1>1. mixedLists \in BOOLEAN /\ here \in Talks /\ settled \in SUBSET Requests
    BY DEF DecisionIInv, DecisionShapes
  <1>2. /\ waiting' \in SUBSET Requests /\ settled' \in SUBSET Requests
        /\ waiting' \cap settled' = {}
        /\ waiting \cup settled \subseteq waiting' \cup settled' /\ settled \subseteq settled'
    BY DEF Settles, DecisionIInv, DecisionShapes
  <1>3. /\ ListsInFlight(listAsks, jobs, waiting' \cup settled', settled', mixedLists)
        /\ ToastsKnown(toasts, waiting' \cup settled', mixedLists)
        /\ WaitersKnown(waiters, here, waiting' \cup settled', mixedLists)
        /\ handled # NoRequest => handled \in settled' \/ mixedLists
    BY <1>1, <1>2, DecisionFrame
  <1>4. PICK c \in Talks : c = jobs[r].of /\ Known(r, c, waiting' \cup settled', mixedLists)
    BY <1>3 DEF ListsInFlight, JobsKnown
  <1>5. "sending" \notin Busy /\ "ending" \in Busy /\ "idle" \notin Busy
    BY DEF Busy
  <1>6. ListsInFlight(listAsks', jobs', waiting' \cup settled', settled', mixedLists)
    <2>1. CASE linked
      <3>1. jobs \in [Requests -> DecisionJobs] /\ jobs[r] \in DecisionJobs
        BY <1>3 DEF ListsInFlight
      <3>2. [jobs[r] EXCEPT !.stage = "ending"] = [stage |-> "ending", of |-> c]
        BY <1>4, <3>1 DEF DecisionJobs
      <3>3. [jobs EXCEPT ![r].stage = "ending"] = [jobs EXCEPT ![r] = [stage |-> "ending", of |-> c]]
        BY <3>2
      <3>4. /\ jobs' = [jobs EXCEPT ![r] = [stage |-> "ending", of |-> c]]
            /\ listAsks' = Append(listAsks,
                               [of |-> c, by |-> r, served |-> FALSE, answer |-> {}])
        BY <1>4, <2>1, <3>3 DEF EndsWith, Asked
      <3> QED
        BY <1>1, <1>3, <1>4, <1>5, <3>4, FlightAsks
    <2>2. CASE ~linked
      <3>1. jobs' = [jobs EXCEPT ![r] = NoDecision] /\ listAsks' = listAsks
        BY <2>2 DEF EndsWith
      <3> QED
        BY <1>1, <1>3, <1>5, <3>1, FlightSettles
    <2> QED
      BY <2>1, <2>2
  <1>7. ToastsKnown(toasts', waiting' \cup settled', mixedLists)
    BY <1>3, <1>4 DEF ToastsKnown
  <1>8. toasts' \in SUBSET Toasts
    BY <1>4 DEF DecisionIInv, DecisionShapes, Toasts
  <1>9. DecisionShapes'
    BY <1>2, <1>8 DEF DecisionIInv, DecisionShapes
  <1> QED
    BY <1>3, <1>6, <1>7, <1>9 DEF DecisionIInv, HandledIsSo

LEMMA SendServedKeeps ==
    ASSUME NEW r \in Requests PROVE DecisionIInv /\ SendServed(r) => DecisionIInv'
  <1> SUFFICES ASSUME DecisionIInv, SendServed(r) PROVE DecisionIInv'
    OBVIOUS
  <1>1. /\ jobs[r].stage = "sending" /\ EndsWith(r) /\ r \in waiting /\ Settles(r)
        /\ toasts' \subseteq toasts \cup {[what |-> r, of |-> jobs[r].of]}
        /\ UNCHANGED <<here, linked, cards, waiters, handled, cardJobs, mixedLists>>
    BY DEF SendServed, Accepted
  <1> QED
    BY <1>1, EndsKeeps

LEMMA SendFailsKeeps ==
    ASSUME NEW r \in Requests PROVE DecisionIInv /\ SendFails(r) => DecisionIInv'
  <1> SUFFICES ASSUME DecisionIInv, SendFails(r) PROVE DecisionIInv'
    OBVIOUS
  <1>1. UNCHANGED <<waiting, settled>> \/ (r \in waiting /\ Settles(r))
    BY DEF SendFails, Accepted
  <1>2. /\ jobs[r].stage = "sending" /\ EndsWith(r)
        /\ toasts' \subseteq toasts \cup {[what |-> r, of |-> jobs[r].of]}
        /\ UNCHANGED <<here, linked, cards, waiters, handled, cardJobs, mixedLists>>
    BY DEF SendFails
  <1> QED
    BY <1>1, <1>2, EndsKeeps

LEMMA DecisionStep == DecisionIInv /\ [DecisionNext]_decisionVars => DecisionIInv'
  <1> SUFFICES ASSUME DecisionIInv, [DecisionNext]_decisionVars PROVE DecisionIInv'
    OBVIOUS
  <1>1. CASE UNCHANGED decisionVars
    BY <1>1 DEF decisionVars, DecisionIInv, DecisionShapes, HandledIsSo
  <1>2. CASE DecisionNext
    BY <1>2, AskServedKeeps, AskArrivesKeeps, AskFailsKeeps, BlocksKeeps, ElsewhereKeeps,
       PanelAnswerKeeps, SendServedKeeps, SendFailsKeeps, CardAnswerKeeps, CardServedKeeps,
       RetryAnswerKeeps, SwitchKeeps, TurnEndsKeeps, LinksKeeps DEF DecisionNext
  <1> QED
    BY <1>1, <1>2

(* As many lists are in flight for a decision as it waits for: one or none.  *)
LEMMA OneListEach ==
    ASSUME NEW L, NEW J, OneEach(L, J), NEW r \in Requests
    PROVE  Cardinality({k \in DOMAIN L : L[k].by = r}) = IF J[r].stage \in Busy THEN 1 ELSE 0
  <1> DEFINE K == {k \in DOMAIN L : L[k].by = r}
  <1>1. J[r].stage \in Busy <=> K # {}
    BY DEF OneEach
  <1>2. \A i, j \in K : i = j
    BY DecisionStartsAssumption DEF OneEach
  <1> HIDE DEF K
  <1>3. K # {} => \E k : K = {k}
    BY <1>2
  <1>4. K # {} => Cardinality(K) = 1
    BY <1>3, FS_Singleton, Zenon
  <1>5. K = {} => Cardinality(K) = 0
    BY FS_EmptySet, Zenon
  <1>6. Cardinality(K) = IF J[r].stage \in Busy THEN 1 ELSE 0
    BY <1>1, <1>4, <1>5
  <1> QED
    BY <1>6 DEF K

LEMMA DecisionIInvHelps == DecisionIInv => DecisionInv
  <1> SUFFICES ASSUME DecisionIInv PROVE DecisionInv
    OBVIOUS
  <1>1. OneEach(listAsks, jobs) /\ jobs \in [Requests -> DecisionJobs]
    BY DEF DecisionIInv, ListsInFlight
  <1>2. ASSUME NEW r \in Requests
        PROVE  /\ jobs[r].stage \in DecisionStages
               /\ Cardinality({k \in DOMAIN listAsks : listAsks[k].by = r})
                      = IF jobs[r].stage \in Busy THEN 1 ELSE 0
    <2>1. jobs[r].stage \in DecisionStages
      BY <1>1 DEF DecisionJobs
    <2> QED
      BY <1>1, <2>1, OneListEach
  <1>3. /\ waiting \cup settled \cup waiters \cup cards \cup cardJobs \subseteq Requests
        /\ waiting \cap settled = {} /\ here \in Talks /\ linked \in BOOLEAN
        /\ handled \in Requests \cup {NoRequest}
    BY DEF DecisionIInv, DecisionShapes
  <1>4. DecisionTypeOK
    BY <1>2, <1>3 DEF DecisionTypeOK, DecisionStages, Busy
  <1> QED
    BY <1>4 DEF DecisionIInv, DecisionInv

(* A request that is shown as handled was settled, and every decision that waits for a list
   has exactly one on its way, for any conversations and requests: what a list says was so
   when the machine answered, nothing settled waits again, and an answer that failed or is
   given again still belongs to its conversation, unless lists were mixed.    *)
THEOREM HandledWasSettled == DecisionSpec => []DecisionInv
  <1>1. DecisionInit => DecisionIInv
    BY DecisionInitInv
  <1>2. DecisionIInv /\ [DecisionNext]_decisionVars => DecisionIInv'
    BY DecisionStep
  <1>3. DecisionIInv => DecisionInv
    BY DecisionIInvHelps
  <1> QED
    BY <1>1, <1>2, <1>3, PTL DEF DecisionSpec

-----------------------------------------------------------------------------
(* The new conversation (Draft).                                             *)

MaybeCarrier == Carriers \cup {NoOne}
DraftKeys == [target : MaybeCarrier, attempt : Int]
DraftPlans == [key : DraftKeys, got : {"none", "plan", "error"}, chosen : MaybeCarrier,
               tiers : SUBSET Carriers]
JobStages == Steps \cup {"idle", "ticket", "lease", "save", "done"}
JobCalls == {"none", "sent", "served", "refused"}
DraftJobs == [at : JobStages, call : JobCalls, to : MaybeCarrier, conv : 0 .. MaxConv,
              own : BOOLEAN, odd : BOOLEAN,
              set : [effort : BOOLEAN, model : BOOLEAN, caps : MaybeCarrier],
              out : [kept : BOOLEAN, effort : BOOLEAN, model : BOOLEAN]]
ConvStates == {"none", "registered", "prepared", "running", "aborted"}
Convs == [on : MaybeCarrier, state : ConvStates, effort : BOOLEAN, model : BOOLEAN]

(* The plan on screen: it names the machine it was asked for, or none.       *)
PlanHonest ==
    /\ online \subseteq Carriers
    /\ wish \in [key : DraftKeys, there : BOOLEAN]
    /\ plan \in DraftPlans /\ asking \in [on : BOOLEAN, key : DraftKeys]
    /\ plan.key.target # NoOne => Chosen \in {plan.key.target, NoOne}

(* The channel and the probe are those of the machine the plan names.        *)
ProbeOfChosen ==
    /\ lamp \in {"off", "wait", "on"} /\ (lamp = "off" <=> Chosen = NoOne)
    /\ caps \in MaybeCarrier /\ capsAsk \in [on : BOOLEAN, of : MaybeCarrier]
    /\ capsAsk.on => capsAsk.of = Chosen
    /\ picks \in [effort : BOOLEAN, model : {"none", "provider", "cli"}]

(* A start under way: what it holds, and that the draft waits for it.        *)
JobInHand ==
    /\ job \in DraftJobs /\ starting \in BOOLEAN /\ leases \in 0 .. 1
    /\ job.at # "idle" => starting /\ job.conv > 0
    /\ job.call # "none" => job.at \in Steps
    /\ job.odd => job.at \in {"register", "prepare", "begin"}
    /\ leases = 1 => job.at \notin {"idle", "ticket", "lease"} /\ ~job.own
    /\ job.at = "lease" => ~job.own

(* The draft cannot be given another target while a start waits.             *)
GoesWherePicked ==
    job.at # "idle" /\ wish.key.target # NoOne => job.to = wish.key.target

(* What the steps behind a start have left on its machine.                   *)
StepsTaken ==
    /\ convs \in [1 .. MaxConv -> Convs] /\ kept \subseteq 1 .. MaxConv
    /\ \/ job.at \in {"save", "pinEffort", "pinModel", "done"}
       \/ job.at \in {"run", "begin"} /\ job.call = "served" /\ ~job.odd
       => convs[job.conv].state = "running"
    /\ job.call = "served" /\ job.at = "pinEffort" => convs[job.conv].effort
    /\ job.call = "served" /\ job.at = "pinModel" => convs[job.conv].model
    /\ job.at # "idle" =>
          /\ job.out.kept => job.conv \in kept
          /\ job.out.effort => convs[job.conv].effort
          /\ job.out.model => convs[job.conv].model

(* What was said is of a start that is over.                                 *)
SaidIsOver ==
    \A s \in said :
        /\ s.conv \in 1 .. job.conv /\ (s.conv = job.conv => job.at = "idle")
        /\ convs[s.conv].state = "running" /\ (s.kept => s.conv \in kept)
        /\ s.asked.effort /\ s.effort => convs[s.conv].effort
        /\ s.asked.model /\ s.model => convs[s.conv].model

DraftIInv ==
    PlanHonest /\ ProbeOfChosen /\ JobInHand /\ GoesWherePicked /\ StepsTaken /\ SaidIsOver

-----------------------------------------------------------------------------
LEMMA DraftInitInv == DraftInit => DraftIInv
  <1> SUFFICES ASSUME DraftInit PROVE DraftIInv
    OBVIOUS
  <1>1. PICK s \in DraftStarts : online = s.online
    BY DEF DraftInit
  <1>2. online \subseteq Carriers /\ MaxConv \in Nat
    BY <1>1, DraftStartsAssumption
  <1>3. /\ wish = [key |-> [target |-> NoOne, attempt |-> 0], there |-> TRUE]
        /\ plan = [key |-> [target |-> NoOne, attempt |-> -1], got |-> "none", chosen |-> NoOne,
                   tiers |-> {}]
        /\ asking = [on |-> TRUE, key |-> [target |-> NoOne, attempt |-> 0]]
    BY DEF DraftInit
  <1>4. PlanHonest
    BY <1>2, <1>3 DEF PlanHonest, DraftKeys, DraftPlans, MaybeCarrier
  <1>5. ProbeOfChosen
    BY <1>3 DEF DraftInit, ProbeOfChosen, Chosen, NoCaps, MaybeCarrier
  <1>6. /\ job = NoJob /\ starting = FALSE /\ leases = 0 /\ kept = {} /\ said = {}
        /\ convs = [c \in 1..MaxConv |-> [on |-> NoOne, state |-> "none", effort |-> FALSE,
                                          model |-> FALSE]]
    BY DEF DraftInit
  <1>7. NoJob \in DraftJobs
    BY <1>2 DEF NoJob, DraftJobs, JobStages, JobCalls, MaybeCarrier
  <1>8. job.at = "idle" /\ job.call = "none" /\ ~job.odd
    BY <1>6 DEF NoJob
  <1>9. starting \in BOOLEAN /\ leases \in 0 .. 1 /\ leases # 1
    <2>1. starting = FALSE /\ leases = 0
      BY DEF DraftInit
    <2>2. starting \in BOOLEAN
      BY <2>1, Zenon
    <2>3. leases \in 0 .. 1 /\ leases # 1
      BY <2>1
    <2> QED
      BY <2>2, <2>3, Zenon
  <1>10. job \in DraftJobs
    BY <1>6, <1>7, Zenon
  <1>11. JobInHand
    BY <1>8, <1>9, <1>10 DEF JobInHand
  <1>12. GoesWherePicked
    BY <1>8 DEF GoesWherePicked
  <1>13. convs \in [1 .. MaxConv -> Convs]
    BY <1>6 DEF Convs, ConvStates, MaybeCarrier
  <1>14. StepsTaken
    BY <1>6, <1>8, <1>13 DEF StepsTaken
  <1>15. SaidIsOver
    BY <1>6 DEF SaidIsOver
  <1> QED
    BY <1>4, <1>5, <1>12, <1>14, <1>15, <1>11 DEF DraftIInv

(* What the draft does while no start moves.                                 *)
LEMMA StartStays ==
    ASSUME DraftIInv, UNCHANGED <<starting, job, outside>>
    PROVE  JobInHand' /\ StepsTaken' /\ SaidIsOver'
  <1>1. UNCHANGED <<starting, job, leases, convs, kept, said>>
    BY DEF outside
  <1> QED
    BY <1>1 DEF DraftIInv, JobInHand, StepsTaken, SaidIsOver, DraftJobs

(* What a start does leaves the plan and the channel alone.                  *)
LEMMA DraftStays ==
    ASSUME DraftIInv, UNCHANGED <<online, planVars, probeVars, picks>>
    PROVE  PlanHonest' /\ ProbeOfChosen'
  <1>1. UNCHANGED <<online, wish, plan, asking, lamp, caps, capsAsk, picks>>
    BY DEF planVars, probeVars
  <1> QED
    BY <1>1 DEF DraftIInv, PlanHonest, ProbeOfChosen, Chosen

LEMMA PresenceKeeps == ASSUME NEW m \in Carriers PROVE DraftIInv /\ Presence(m) => DraftIInv'
  <1> SUFFICES ASSUME DraftIInv, Presence(m) PROVE DraftIInv'
    OBVIOUS
  <1>1. /\ online' \subseteq Carriers
        /\ UNCHANGED <<wish, plan, asking, lamp, caps, capsAsk, picks, starting, job, outside>>
    BY DEF Presence, planVars, probeVars, DraftIInv, PlanHonest
  <1>2. PlanHonest' /\ ProbeOfChosen' /\ GoesWherePicked'
    BY <1>1 DEF DraftIInv, PlanHonest, ProbeOfChosen, GoesWherePicked, Chosen
  <1> QED
    BY <1>1, <1>2, StartStays DEF DraftIInv

LEMMA WishKeeps == ASSUME NEW k \in DraftKeys PROVE DraftIInv /\ Wish(k) => DraftIInv'
  <1> SUFFICES ASSUME DraftIInv, Wish(k) PROVE DraftIInv'
    OBVIOUS
  <1>1. /\ ~starting /\ wish' = [wish EXCEPT !.key = k] /\ asking' = [on |-> TRUE, key |-> k]
        /\ UNCHANGED <<online, plan, lamp, caps, capsAsk, picks, starting, job, outside>>
    BY DEF Wish, probeVars
  <1>2. job.at = "idle" /\ job'.at = "idle"
    BY <1>1 DEF DraftIInv, JobInHand
  <1>3. PlanHonest' /\ ProbeOfChosen' /\ GoesWherePicked'
    BY <1>1, <1>2 DEF DraftIInv, PlanHonest, ProbeOfChosen, GoesWherePicked, Chosen
  <1> QED
    BY <1>1, <1>3, StartStays DEF DraftIInv

LEMMA PicksKeep ==
    DraftIInv /\ (PickAuto \/ PickProject \/ RetryPlan \/ \E m \in Carriers : PickTarget(m))
        => DraftIInv'
  <1> SUFFICES ASSUME DraftIInv,
                      PickAuto \/ PickProject \/ RetryPlan \/ \E m \in Carriers : PickTarget(m)
               PROVE  DraftIInv'
    OBVIOUS
  <1>1. wish.key \in DraftKeys
    BY DEF DraftIInv, PlanHonest
  <1>2. [wish.key EXCEPT !.attempt = @ + 1] \in DraftKeys
    BY <1>1 DEF DraftKeys
  <1>3. \A m \in MaybeCarrier : [wish.key EXCEPT !.target = m] \in DraftKeys
    BY <1>1 DEF DraftKeys
  <1> QED
    BY <1>2, <1>3, WishKeeps DEF PickAuto, PickProject, RetryPlan, PickTarget, MaybeCarrier

(* The channel follows the machine of the plan.                              *)
LEMMA ChannelFollows ==
    ASSUME DraftIInv, NEW m, ChannelOf(Chosen, m), Chosen' = m
    PROVE  ProbeOfChosen'
  <1>1. CASE Chosen = m
    <2>1. UNCHANGED <<lamp, caps, capsAsk, picks>>
      BY <1>1 DEF ChannelOf, probeVars
    <2> QED
      BY <1>1, <2>1 DEF DraftIInv, ProbeOfChosen
  <1>2. CASE Chosen # m
    <2>1. /\ lamp' = IF m = NoOne THEN "off" ELSE "wait"
          /\ capsAsk' = NoCaps /\ caps' = caps
          /\ picks' = [picks EXCEPT !.model = IF @ = "cli" THEN "none" ELSE @]
      BY <1>2 DEF ChannelOf
    <2>2. picks' \in [effort : BOOLEAN, model : {"none", "provider", "cli"}]
      BY <2>1 DEF DraftIInv, ProbeOfChosen
    <2>3. capsAsk' \in [on : BOOLEAN, of : MaybeCarrier] /\ capsAsk'.on = FALSE
      BY <2>1 DEF NoCaps, MaybeCarrier
    <2>4. lamp' \in {"off", "wait", "on"} /\ (lamp' = "off" <=> Chosen' = NoOne)
      BY <2>1
    <2>5. caps' \in MaybeCarrier
      BY <2>1 DEF DraftIInv, ProbeOfChosen
    <2>6. ~capsAsk'.on
      BY <2>3
    <2> QED
      BY <2>2, <2>3, <2>4, <2>5, <2>6 DEF ProbeOfChosen
  <1> QED
    BY <1>1, <1>2

LEMMA PlanLandsKeeps == DraftIInv /\ PlanLands => DraftIInv'
  <1> SUFFICES ASSUME DraftIInv, PlanLands PROVE DraftIInv'
    OBVIOUS
  <1>1. /\ asking' = [asking EXCEPT !.on = FALSE]
        /\ UNCHANGED <<online, wish, starting, job, outside>>
    BY DEF PlanLands
  <1>2. PICK m \in online \cup {NoOne} :
            /\ asking.key.target # NoOne
                   => m = IF asking.key.target \in online THEN asking.key.target ELSE NoOne
            /\ plan' = [key |-> asking.key, got |-> "plan", chosen |-> m, tiers |-> online]
            /\ ChannelOf(Chosen, m)
    BY DEF PlanLands
  <1>3. Chosen' = m
    BY <1>2 DEF Chosen
  <1>4. m \in MaybeCarrier /\ asking.key \in DraftKeys /\ online \subseteq Carriers
    BY DEF DraftIInv, PlanHonest, MaybeCarrier
  <1>5. plan' \in DraftPlans
    BY <1>2, <1>4 DEF DraftPlans
  <1>6. PlanHonest'
    BY <1>1, <1>2, <1>3, <1>5 DEF DraftIInv, PlanHonest
  <1>7. ProbeOfChosen'
    BY <1>2, <1>3, ChannelFollows
  <1>8. GoesWherePicked'
    BY <1>1 DEF DraftIInv, GoesWherePicked
  <1> QED
    BY <1>1, <1>6, <1>7, <1>8, StartStays DEF DraftIInv

LEMMA PlanFailsKeeps == DraftIInv /\ PlanFails => DraftIInv'
  <1> SUFFICES ASSUME DraftIInv, PlanFails PROVE DraftIInv'
    OBVIOUS
  <1>1. /\ asking' = [asking EXCEPT !.on = FALSE]
        /\ plan' = [key |-> asking.key, got |-> "error", chosen |-> NoOne, tiers |-> {}]
        /\ ChannelOf(Chosen, NoOne)
        /\ UNCHANGED <<online, wish, starting, job, outside>>
    BY DEF PlanFails
  <1>2. Chosen' = NoOne
    BY <1>1 DEF Chosen
  <1>3. PlanHonest'
    BY <1>1, <1>2 DEF DraftIInv, PlanHonest, DraftPlans, MaybeCarrier
  <1>4. ProbeOfChosen'
    BY <1>1, <1>2, ChannelFollows
  <1>5. GoesWherePicked'
    BY <1>1 DEF DraftIInv, GoesWherePicked
  <1> QED
    BY <1>1, <1>3, <1>4, <1>5, StartStays DEF DraftIInv

LEMMA ProbeKeeps == DraftIInv /\ (LampTurns \/ ProbeEnds \/ PickSettings) => DraftIInv'
  <1> SUFFICES ASSUME DraftIInv, LampTurns \/ ProbeEnds \/ PickSettings PROVE DraftIInv'
    OBVIOUS
  <1>1. UNCHANGED <<online, wish, plan, asking, starting, job, outside>>
    BY DEF LampTurns, ProbeEnds, PickSettings, planVars
  <1>2. Chosen' = Chosen /\ Chosen \in MaybeCarrier
    BY <1>1 DEF Chosen, DraftIInv, PlanHonest, DraftPlans, MaybeCarrier
  <1>3. PlanHonest' /\ GoesWherePicked'
    BY <1>1, <1>2 DEF DraftIInv, PlanHonest, GoesWherePicked
  <1>4. ProbeOfChosen'
    <2>1. CASE LampTurns
      <3>1. lamp' \in {"wait", "on"} /\ lamp # "off" /\ UNCHANGED <<caps, picks>>
        BY <2>1 DEF LampTurns
      <3>2. capsAsk' \in {[on |-> TRUE, of |-> Chosen], NoCaps}
        BY <2>1 DEF LampTurns
      <3>3. /\ capsAsk' \in [on : BOOLEAN, of : MaybeCarrier]
            /\ capsAsk'.on => capsAsk'.of = Chosen
        <4>1. CASE capsAsk' = [on |-> TRUE, of |-> Chosen]
          BY <1>2, <4>1
        <4>2. CASE capsAsk' = NoCaps
          BY <4>2 DEF NoCaps, MaybeCarrier
        <4> QED
          BY <3>2, <4>1, <4>2
      <3> QED
        BY <1>2, <3>1, <3>3 DEF DraftIInv, ProbeOfChosen
    <2>2. CASE ProbeEnds
      BY <1>2, <2>2 DEF ProbeEnds, DraftIInv, ProbeOfChosen, NoCaps, MaybeCarrier
    <2>3. CASE PickSettings
      <3>1. picks' \in [effort : BOOLEAN, model : {"none", "provider", "cli"}]
        BY <2>3 DEF PickSettings, DraftIInv, ProbeOfChosen
      <3>2. UNCHANGED <<lamp, caps, capsAsk>>
        BY <2>3 DEF PickSettings, probeVars
      <3> QED
        BY <1>2, <3>1, <3>2 DEF DraftIInv, ProbeOfChosen
    <2> QED
      BY <2>1, <2>2, <2>3
  <1> QED
    BY <1>1, <1>3, <1>4, StartStays DEF DraftIInv

LEMMA ScreenKeeps == DraftIInv /\ (TypeDraft \/ LeaveDraft) => DraftIInv'
  <1> SUFFICES ASSUME DraftIInv, TypeDraft \/ LeaveDraft PROVE DraftIInv'
    OBVIOUS
  <1>1. /\ wish' \in {wish, [wish EXCEPT !.there = FALSE]}
        /\ UNCHANGED <<online, plan, asking, lamp, caps, capsAsk, picks, starting, job, outside>>
    BY DEF TypeDraft, LeaveDraft, planVars, probeVars
  <1>2. wish' \in [key : DraftKeys, there : BOOLEAN] /\ wish'.key = wish.key
    BY <1>1 DEF DraftIInv, PlanHonest
  <1>3. PlanHonest' /\ ProbeOfChosen' /\ GoesWherePicked'
    BY <1>1, <1>2 DEF DraftIInv, PlanHonest, ProbeOfChosen, GoesWherePicked, Chosen
  <1> QED
    BY <1>1, <1>3, StartStays DEF DraftIInv

LEMMA SubmitKeeps == DraftIInv /\ Submit => DraftIInv'
  <1> SUFFICES ASSUME DraftIInv, Submit PROVE DraftIInv'
    OBVIOUS
  <1> DEFINE set == [effort |-> picks.effort /\ Takes, caps |-> caps,
                     model |-> picks.model # "none"]
  <1> DEFINE own == lamp = "on"
  <1>1. /\ PlanReady /\ job.at = "idle" /\ job.conv < MaxConv /\ starting' = TRUE
        /\ job' = [NoJob EXCEPT !.at = "ticket", !.to = Chosen, !.conv = job.conv + 1,
                                !.own = own, !.set = set]
        /\ UNCHANGED <<online, planVars, probeVars, picks, outside>>
    BY DEF Submit, Submitted
  <1>2. UNCHANGED <<wish, leases, convs, kept, said>>
    BY <1>1 DEF planVars, outside
  <1>3. /\ job \in DraftJobs /\ Chosen \in MaybeCarrier /\ caps \in MaybeCarrier
        /\ MaxConv \in Nat /\ leases = 0
    BY <1>1, DraftStartsAssumption
       DEF DraftIInv, JobInHand, PlanHonest, ProbeOfChosen, Chosen, DraftPlans, MaybeCarrier
  <1>4. job.conv \in 0 .. MaxConv /\ job.conv + 1 \in 1 .. MaxConv
    BY <1>1, <1>3 DEF DraftJobs
  <1>5. set \in [effort : BOOLEAN, model : BOOLEAN, caps : MaybeCarrier]
    BY <1>3
  <1>6. own \in BOOLEAN
    OBVIOUS
  <1> HIDE DEF set, own
  <1>7. /\ job'.at = "ticket" /\ job'.call = "none" /\ job'.to = Chosen
        /\ job'.conv = job.conv + 1 /\ ~job'.odd
        /\ ~job'.out.kept /\ ~job'.out.effort /\ ~job'.out.model
    BY <1>1 DEF NoJob
  <1>8. job' \in DraftJobs
    <2>1. job' = [at |-> "ticket", call |-> "none", to |-> Chosen, conv |-> job.conv + 1,
                  own |-> own, odd |-> FALSE, set |-> set,
                  out |-> [kept |-> FALSE, effort |-> FALSE, model |-> FALSE]]
      BY <1>1 DEF NoJob
    <2>2. job.conv + 1 \in 0 .. MaxConv
      BY <1>3, <1>4
    <2> QED
      BY <1>3, <1>5, <1>6, <2>1, <2>2 DEF DraftJobs, JobStages, JobCalls
  <1>9. JobInHand'
    <2>1. starting' \in BOOLEAN /\ starting'
      BY <1>1, Zenon
    <2>2. leases' = 0 /\ job'.conv > 0
      BY <1>2, <1>3, <1>4, <1>7
    <2> QED
      BY <1>7, <1>8, <2>1, <2>2 DEF JobInHand
  <1>10. GoesWherePicked'
    <2>1. plan.key = wish.key /\ Chosen # NoOne
      BY <1>1 DEF PlanReady, Settled
    <2>2. wish.key.target # NoOne => Chosen = wish.key.target
      BY <2>1 DEF DraftIInv, PlanHonest
    <2> QED
      BY <1>2, <1>7, <2>2 DEF GoesWherePicked
  <1>11. StepsTaken'
    BY <1>2, <1>7 DEF DraftIInv, StepsTaken
  <1>12. SaidIsOver'
    BY <1>2, <1>4, <1>7 DEF DraftIInv, SaidIsOver
  <1> QED
    BY <1>1, <1>9, <1>10, <1>11, <1>12, DraftStays DEF DraftIInv

(* A start that fails gives back what it holds.                              *)
LEMMA StartFailsKeeps ==
    ASSUME DraftIInv, StartFails, UNCHANGED <<online, planVars, probeVars, picks, convs, kept, said>>
    PROVE  DraftIInv'
  <1>1. job' = [NoJob EXCEPT !.conv = job.conv] /\ starting' = FALSE /\ leases' = 0
    BY DEF StartFails
  <1>2. job \in DraftJobs /\ job.conv \in 0 .. MaxConv
    BY DEF DraftIInv, JobInHand, DraftJobs
  <1>3. job'.at = "idle" /\ job'.call = "none" /\ ~job'.odd /\ job'.conv = job.conv
    BY <1>1 DEF NoJob
  <1>4. job' \in DraftJobs
    BY <1>1, <1>2 DEF NoJob, DraftJobs, JobStages, JobCalls, MaybeCarrier
  <1>5. starting' \in BOOLEAN
    BY <1>1, Zenon
  <1>6. JobInHand'
    BY <1>1, <1>3, <1>4, <1>5 DEF JobInHand
  <1>7. GoesWherePicked'
    BY <1>3 DEF GoesWherePicked
  <1>8. StepsTaken'
    BY <1>3 DEF DraftIInv, StepsTaken
  <1>9. SaidIsOver'
    BY <1>3 DEF DraftIInv, SaidIsOver
  <1> QED
    BY <1>6, <1>7, <1>8, <1>9, DraftStays DEF DraftIInv

(* A start that goes on is the same start: it changes its own conversation only, and what
   was said is of others.                                                    *)
LEMMA GoesOn ==
    ASSUME DraftIInv, job.at # "idle", job' \in DraftJobs, StepsTaken',
           job'.conv = job.conv, job'.to = job.to, job'.own = job.own,
           job'.at # "idle", job'.call # "none" => job'.at \in Steps,
           job'.odd => job'.at \in {"register", "prepare", "begin"},
           leases' \in 0 .. 1,
           leases' = 1 => job'.at \notin {"idle", "ticket", "lease"} /\ ~job.own,
           job'.at = "lease" => ~job.own,
           \A c \in 1 .. MaxConv : c # job.conv => convs'[c] = convs[c],
           kept \subseteq kept',
           UNCHANGED <<online, planVars, probeVars, picks, starting, said>>
    PROVE  DraftIInv'
  <1>1. starting \in BOOLEAN /\ starting /\ job.conv > 0 /\ job.conv \in 0 .. MaxConv
    BY DEF DraftIInv, JobInHand, DraftJobs
  <1>2. JobInHand'
    BY <1>1 DEF JobInHand
  <1>3. wish' = wish
    BY DEF planVars
  <1>4. GoesWherePicked'
    BY <1>3 DEF DraftIInv, GoesWherePicked
  <1>5. SaidIsOver'
    <2> SUFFICES ASSUME NEW s \in said
                 PROVE  /\ s.conv \in 1 .. job.conv /\ s.conv # job.conv
                        /\ convs'[s.conv].state = "running" /\ (s.kept => s.conv \in kept')
                        /\ s.asked.effort /\ s.effort => convs'[s.conv].effort
                        /\ s.asked.model /\ s.model => convs'[s.conv].model
      BY DEF SaidIsOver
    <2>1. s.conv \in 1 .. job.conv /\ s.conv # job.conv
      BY DEF DraftIInv, SaidIsOver
    <2>2. s.conv \in 1 .. MaxConv
      BY <1>1, <2>1, DraftStartsAssumption
    <2>3. convs'[s.conv] = convs[s.conv]
      BY <2>1, <2>2
    <2> QED
      BY <2>1, <2>3 DEF DraftIInv, SaidIsOver
  <1> QED
    BY <1>2, <1>4, <1>5, DraftStays DEF DraftIInv

LEMMA TicketKeeps == DraftIInv /\ TicketEnds => DraftIInv'
  <1> SUFFICES ASSUME DraftIInv, TicketEnds PROVE DraftIInv'
    OBVIOUS
  <1>1. job.at = "ticket" /\ UNCHANGED <<online, planVars, probeVars, picks, convs, kept, said>>
    BY DEF TicketEnds, Working
  <1>2. CASE StartFails
    BY <1>1, <1>2, StartFailsKeeps
  <1>3. CASE job' = [job EXCEPT !.at = IF job.own THEN "run" ELSE "lease"]
             /\ UNCHANGED <<starting, leases>>
    <2>1. job \in DraftJobs /\ leases = 0 /\ job.call = "none" /\ ~job.odd
      BY <1>1 DEF DraftIInv, JobInHand, Steps
    <2>2. job' \in DraftJobs /\ job'.at \in {"run", "lease"} /\ (job'.at = "lease" => ~job.own)
      BY <1>3, <2>1 DEF DraftJobs, JobStages, Steps
    <2>3. /\ job'.conv = job.conv /\ job'.to = job.to /\ job'.own = job.own
          /\ job'.call = "none" /\ ~job'.odd /\ job'.out = job.out
      BY <1>3, <2>1 DEF DraftJobs
    <2>4. StepsTaken'
      BY <1>1, <2>2, <2>3 DEF DraftIInv, StepsTaken
    <2> QED
      BY <1>1, <1>3, <2>1, <2>2, <2>3, <2>4, GoesOn
  <1> QED
    BY <1>2, <1>3 DEF TicketEnds

LEMMA LeaseKeeps == DraftIInv /\ LeaseEnds => DraftIInv'
  <1> SUFFICES ASSUME DraftIInv, LeaseEnds PROVE DraftIInv'
    OBVIOUS
  <1>1. job.at = "lease" /\ UNCHANGED <<online, planVars, probeVars, picks, convs, kept, said>>
    BY DEF LeaseEnds, Working
  <1>2. CASE StartFails
    BY <1>1, <1>2, StartFailsKeeps
  <1>3. CASE job' = [job EXCEPT !.at = "run"] /\ leases' = leases + 1 /\ starting' = starting
    <2>1. job \in DraftJobs /\ leases = 0 /\ job.call = "none" /\ ~job.odd /\ ~job.own
      BY <1>1 DEF DraftIInv, JobInHand, Steps
    <2>2. job' \in DraftJobs /\ job'.at = "run"
      BY <1>3, <2>1 DEF DraftJobs, JobStages, Steps
    <2>3. /\ job'.conv = job.conv /\ job'.to = job.to /\ job'.own = job.own
          /\ job'.call = "none" /\ ~job'.odd /\ job'.out = job.out
      BY <1>3, <2>1 DEF DraftJobs
    <2>4. StepsTaken'
      BY <1>1, <2>2, <2>3 DEF DraftIInv, StepsTaken
    <2> QED
      BY <1>1, <1>3, <2>1, <2>2, <2>3, <2>4, GoesOn
  <1> QED
    BY <1>2, <1>3 DEF LeaseEnds

LEMMA AskMachineKeeps == DraftIInv /\ AskMachine => DraftIInv'
  <1> SUFFICES ASSUME DraftIInv, AskMachine PROVE DraftIInv'
    OBVIOUS
  <1>1. /\ job.at \in Steps /\ job.call = "none"
        /\ job' = [job EXCEPT !.call = "sent",
                       !.at = IF @ = "run" /\ job.to \in PiCarriers THEN "register" ELSE @]
        /\ UNCHANGED <<online, planVars, probeVars, picks, starting, leases, convs, kept, said>>
    BY DEF AskMachine, outside
  <1>2. job \in DraftJobs /\ leases \in 0 .. 1 /\ (leases = 1 => ~job.own)
    BY DEF DraftIInv, JobInHand
  <1>3. job' \in DraftJobs /\ job'.at \in Steps /\ job'.call = "sent"
    BY <1>1, <1>2 DEF DraftJobs, JobStages, JobCalls, Steps
  <1>4. /\ job'.conv = job.conv /\ job'.to = job.to /\ job'.own = job.own
        /\ job'.odd = job.odd /\ job'.out = job.out
        /\ job'.at = job.at \/ (job.at = "run" /\ job'.at = "register")
    BY <1>1, <1>2 DEF DraftJobs
  <1>5. job'.odd => job'.at \in {"register", "prepare", "begin"}
    BY <1>4 DEF DraftIInv, JobInHand
  <1>6. StepsTaken'
    BY <1>1, <1>3, <1>4 DEF DraftIInv, StepsTaken, Steps
  <1> QED
    BY <1>1, <1>2, <1>3, <1>4, <1>5, <1>6, GoesOn DEF Steps

(* What the machine does for a call is done to the conversation of the start. *)
LEMMA MachineServesKeeps == DraftIInv /\ MachineServes => DraftIInv'
  <1> SUFFICES ASSUME DraftIInv, MachineServes PROVE DraftIInv'
    OBVIOUS
  <1>1. /\ job.call = "sent"
        /\ UNCHANGED <<online, planVars, probeVars, picks, starting, leases, kept, said>>
    BY DEF MachineServes
  <1>2. /\ job \in DraftJobs /\ job.at \in Steps /\ job.conv \in 1 .. MaxConv
        /\ leases \in 0 .. 1 /\ (leases = 1 => ~job.own)
        /\ job.odd => job.at \in {"register", "prepare", "begin"}
    BY <1>1, DraftStartsAssumption DEF DraftIInv, JobInHand, DraftJobs, Steps
  <1>3. convs \in [1 .. MaxConv -> Convs] /\ convs[job.conv] \in Convs /\ kept \subseteq 1 .. MaxConv
    BY <1>2 DEF DraftIInv, StepsTaken
  <1>4. ASSUME job' \in DraftJobs, job'.at = job.at, job'.conv = job.conv, job'.to = job.to,
               job'.own = job.own, job'.odd => job.at \in {"register", "prepare", "begin"},
               \A c \in 1 .. MaxConv : c # job.conv => convs'[c] = convs[c],
               StepsTaken'
        PROVE  DraftIInv'
    BY <1>1, <1>2, <1>4, GoesOn DEF Steps
  <1>5. CASE /\ job' = [job EXCEPT !.call = "served"]
             /\ convs' = [convs EXCEPT ![job.conv] =
                CASE job.at = "register"  -> [@ EXCEPT !.on = job.to, !.state = "registered"]
                  [] job.at = "prepare"   -> [@ EXCEPT !.state = "prepared"]
                  [] job.at \in {"run", "begin"} -> [@ EXCEPT !.on = job.to, !.state = "running"]
                  [] job.at = "abort"     -> [@ EXCEPT !.state = IF @ = "none" THEN @ ELSE "aborted"]
                  [] job.at = "pinEffort" -> [@ EXCEPT !.effort = TRUE]
                  [] OTHER                -> [@ EXCEPT !.model = TRUE]]
    <2>1. /\ job' \in DraftJobs /\ job'.at = job.at /\ job'.conv = job.conv /\ job'.to = job.to
          /\ job'.own = job.own /\ job'.odd = job.odd /\ job'.out = job.out
          /\ job'.call = "served"
      BY <1>2, <1>5 DEF DraftJobs, JobCalls
    <2> DEFINE o == convs[job.conv]
               v == CASE job.at = "register"  -> [o EXCEPT !.on = job.to, !.state = "registered"]
                      [] job.at = "prepare"   -> [o EXCEPT !.state = "prepared"]
                      [] job.at \in {"run", "begin"} -> [o EXCEPT !.on = job.to, !.state = "running"]
                      [] job.at = "abort"     -> [o EXCEPT !.state = IF @ = "none" THEN @ ELSE "aborted"]
                      [] job.at = "pinEffort" -> [o EXCEPT !.effort = TRUE]
                      [] OTHER                -> [o EXCEPT !.model = TRUE]
    <2>2. convs' = [convs EXCEPT ![job.conv] = v]
      BY <1>2, <1>3, <1>5
    <2>3. o \in Convs /\ job.to \in MaybeCarrier
      BY <1>2, <1>3 DEF DraftJobs
    <2> HIDE DEF o
    <2>4. /\ v \in Convs
          /\ job.at \in {"run", "begin"} => v.state = "running"
          /\ job.at \in {"pinEffort", "pinModel"} => v.state = o.state
          /\ job.at = "pinEffort" => v.effort
          /\ job.at = "pinModel" => v.model
          /\ o.effort => v.effort
          /\ o.model => v.model
      <3>1. CASE job.at = "register"
        BY <2>3, <3>1 DEF Convs, ConvStates
      <3>2. CASE job.at = "prepare"
        BY <2>3, <3>2 DEF Convs, ConvStates
      <3>3. CASE job.at \in {"run", "begin"}
        BY <2>3, <3>3 DEF Convs, ConvStates
      <3>4. CASE job.at = "abort"
        BY <2>3, <3>4 DEF Convs, ConvStates
      <3>5. CASE job.at = "pinEffort"
        BY <2>3, <3>5 DEF Convs, ConvStates
      <3>6. CASE job.at = "pinModel"
        BY <2>3, <3>6 DEF Convs, ConvStates
      <3> QED
        BY <1>2, <3>1, <3>2, <3>3, <3>4, <3>5, <3>6 DEF Steps
    <2> USE DEF o
    <2> HIDE DEF v
    <2>5. /\ convs' \in [1 .. MaxConv -> Convs] /\ convs'[job.conv] = v
          /\ \A c \in 1 .. MaxConv : c # job.conv => convs'[c] = convs[c]
      BY <1>2, <1>3, <2>4, <2>2
    <2>6. StepsTaken'
      BY <1>1, <1>2, <1>3, <2>1, <2>4, <2>5 DEF DraftIInv, StepsTaken, Steps
    <2> QED
      BY <1>2, <1>4, <2>1, <2>5, <2>6
  <1>6. CASE job' = [job EXCEPT !.call = "refused"] /\ convs' = convs
    <2>1. /\ job' \in DraftJobs /\ job'.at = job.at /\ job'.conv = job.conv /\ job'.to = job.to
          /\ job'.own = job.own /\ job'.odd = job.odd /\ job'.out = job.out
          /\ job'.call = "refused"
      BY <1>2, <1>6 DEF DraftJobs, JobCalls
    <2>2. StepsTaken'
      BY <1>1, <1>6, <2>1 DEF DraftIInv, StepsTaken
    <2> QED
      BY <1>2, <1>4, <1>6, <2>1, <2>2
  <1>7. CASE /\ job.at \in {"register", "prepare", "begin"} /\ convs' = convs
             /\ job' = [job EXCEPT !.call = "served", !.odd = TRUE]
    <2>1. /\ job' \in DraftJobs /\ job'.at = job.at /\ job'.conv = job.conv /\ job'.to = job.to
          /\ job'.own = job.own /\ job'.odd /\ job'.out = job.out
      BY <1>2, <1>7 DEF DraftJobs, JobCalls
    <2>2. StepsTaken'
      BY <1>1, <1>7, <2>1 DEF DraftIInv, StepsTaken
    <2> QED
      BY <1>4, <1>7, <2>1, <2>2
  <1> QED
    BY <1>5, <1>6, <1>7 DEF MachineServes

LEMMA RunEndsKeeps == DraftIInv /\ RunEnds => DraftIInv'
  <1> SUFFICES ASSUME DraftIInv, RunEnds PROVE DraftIInv'
    OBVIOUS
  <1>1. /\ job.at \in {"run", "register", "prepare", "begin"}
        /\ UNCHANGED <<online, planVars, probeVars, picks, convs, kept, said>>
    BY DEF RunEnds
  <1>2. /\ job \in DraftJobs /\ leases \in 0 .. 1 /\ (leases = 1 => ~job.own)
    BY DEF DraftIInv, JobInHand
  <1>3. CASE StartFails
    BY <1>1, <1>3, StartFailsKeeps
  <1>4. ASSUME NEW a \in {"prepare", "begin", "save", "abort"},
               job' = [job EXCEPT !.call = "none", !.at = a, !.odd = FALSE],
               a = "save" => job.at \in {"run", "begin"} /\ job.call = "served" /\ ~job.odd,
               UNCHANGED <<starting, leases>>
        PROVE  DraftIInv'
    <2>1. job' \in DraftJobs /\ job'.at = a /\ job'.call = "none"
      BY <1>2, <1>4 DEF DraftJobs, JobStages, JobCalls, Steps
    <2>2. /\ job'.conv = job.conv /\ job'.to = job.to /\ job'.own = job.own /\ ~job'.odd
          /\ job'.out = job.out
      BY <1>2, <1>4 DEF DraftJobs
    <2>3. StepsTaken'
      BY <1>1, <1>4, <2>1, <2>2 DEF DraftIInv, StepsTaken
    <2> QED
      BY <1>1, <1>2, <1>4, <2>1, <2>2, <2>3, GoesOn
  <1>5. CASE /\ Gained /\ UNCHANGED <<starting, leases>>
             /\ job' = [job EXCEPT !.call = "none",
                          !.at = CASE @ = "register" -> "prepare" [] @ = "prepare" -> "begin"
                                   [] OTHER -> "save"]
    <2>1. job.call = "served" /\ ~job.odd /\ job.odd = FALSE
      BY <1>2, <1>5 DEF Gained, DraftJobs
    <2>2. \A a : [job EXCEPT !.call = "none", !.at = a, !.odd = FALSE]
                     = [job EXCEPT !.call = "none", !.at = a]
      BY <1>2, <2>1 DEF DraftJobs
    <2>3. CASE job.at = "register"
      BY <1>4, <1>5, <2>2, <2>3
    <2>4. CASE job.at = "prepare"
      BY <1>4, <1>5, <2>2, <2>4
    <2>5. CASE job.at \in {"run", "begin"}
      BY <1>4, <1>5, <2>1, <2>2, <2>5
    <2> QED
      BY <1>1, <2>3, <2>4, <2>5
  <1>6. CASE /\ job' = [job EXCEPT !.at = "abort", !.call = "none", !.odd = FALSE]
             /\ UNCHANGED <<starting, leases>>
    BY <1>2, <1>4, <1>6
  <1> QED
    BY <1>3, <1>5, <1>6 DEF RunEnds

LEMMA AbortEndsKeeps == DraftIInv /\ AbortEnds => DraftIInv'
  BY StartFailsKeeps DEF AbortEnds

LEMMA SaveEndsKeeps == DraftIInv /\ SaveEnds => DraftIInv'
  <1> SUFFICES ASSUME DraftIInv, SaveEnds PROVE DraftIInv'
    OBVIOUS
  <1>1. /\ job.at = "save"
        /\ UNCHANGED <<online, planVars, probeVars, picks, starting, leases, convs, said>>
    BY DEF SaveEnds, Working
  <1>2. /\ job \in DraftJobs /\ leases \in 0 .. 1 /\ (leases = 1 => ~job.own)
        /\ job.conv \in 1 .. MaxConv /\ ~job.odd /\ job.call = "none"
    BY <1>1, DraftStartsAssumption DEF DraftIInv, JobInHand, DraftJobs, Steps
  <1>3. AfterSave \in {"pinEffort", "pinModel", "done"}
    BY DEF AfterSave
  <1>4. /\ kept' \in {kept, kept \cup {job.conv}}
        /\ \/ job' = [job EXCEPT !.at = AfterSave]
           \/ job' = [job EXCEPT !.at = AfterSave, !.out.kept = TRUE] /\ job.conv \in kept'
    BY DEF SaveEnds
  <1>5. /\ job' \in DraftJobs /\ job'.at = AfterSave /\ job'.call = "none"
        /\ job'.conv = job.conv /\ job'.to = job.to /\ job'.own = job.own /\ ~job'.odd
        /\ job'.out.effort = job.out.effort /\ job'.out.model = job.out.model
        /\ job'.out.kept = job.out.kept \/ job.conv \in kept'
    <2>1. job.out \in [kept : BOOLEAN, effort : BOOLEAN, model : BOOLEAN]
      BY <1>2 DEF DraftJobs
    <2>2. CASE job' = [job EXCEPT !.at = AfterSave]
      BY <1>2, <1>3, <2>2 DEF DraftJobs, JobStages, Steps
    <2>3. CASE job' = [job EXCEPT !.at = AfterSave, !.out.kept = TRUE] /\ job.conv \in kept'
      <3>1. [job.out EXCEPT !.kept = TRUE] \in [kept : BOOLEAN, effort : BOOLEAN, model : BOOLEAN]
        BY <2>1
      <3>2. job' = [job EXCEPT !.at = AfterSave, !.out = [job.out EXCEPT !.kept = TRUE]]
        BY <2>3
      <3> QED
        BY <1>2, <1>3, <2>1, <2>3, <3>1, <3>2 DEF DraftJobs, JobStages, Steps
    <2> QED
      BY <1>4, <2>2, <2>3
  <1>6. kept \subseteq kept' /\ kept' \subseteq 1 .. MaxConv
    BY <1>2, <1>4 DEF DraftIInv, StepsTaken
  <1>7. StepsTaken'
    BY <1>1, <1>3, <1>5, <1>6 DEF DraftIInv, StepsTaken
  <1> QED
    BY <1>1, <1>2, <1>3, <1>5, <1>6, <1>7, GoesOn DEF Steps

LEMMA PinEndsKeeps == DraftIInv /\ PinEnds => DraftIInv'
  <1> SUFFICES ASSUME DraftIInv, PinEnds PROVE DraftIInv'
    OBVIOUS
  <1> DEFINE pinned == job.call = "served" /\ dleft' = dleft
  <1>1. /\ job.at \in {"pinEffort", "pinModel"}
        /\ job' = IF job.at = "pinEffort"
                  THEN [job EXCEPT !.call = "none", !.out.effort = pinned,
                                   !.at = IF job.set.model THEN "pinModel" ELSE "done"]
                  ELSE [job EXCEPT !.call = "none", !.out.model = pinned, !.at = "done"]
        /\ UNCHANGED <<online, planVars, probeVars, picks, starting, leases, convs, kept, said>>
    BY DEF PinEnds, outside
  <1>2. /\ job \in DraftJobs /\ leases \in 0 .. 1 /\ (leases = 1 => ~job.own) /\ ~job.odd
    BY <1>1 DEF DraftIInv, JobInHand
  <1>3. job.out \in [kept : BOOLEAN, effort : BOOLEAN, model : BOOLEAN]
    BY <1>2 DEF DraftJobs
  <1>4. pinned \in BOOLEAN /\ (pinned => job.call = "served")
    OBVIOUS
  <1> HIDE DEF pinned
  <1>5. /\ [job.out EXCEPT !.effort = pinned] \in [kept : BOOLEAN, effort : BOOLEAN, model : BOOLEAN]
        /\ [job.out EXCEPT !.model = pinned] \in [kept : BOOLEAN, effort : BOOLEAN, model : BOOLEAN]
    BY <1>3, <1>4
  <1>6. /\ job' \in DraftJobs /\ job'.at \in {"pinModel", "done"} /\ job'.call = "none"
        /\ job'.conv = job.conv /\ job'.to = job.to /\ job'.own = job.own /\ ~job'.odd
        /\ job'.out.kept = job.out.kept
        /\ job'.out.effort => job.out.effort \/ (job.at = "pinEffort" /\ pinned)
        /\ job'.out.model => job.out.model \/ (job.at = "pinModel" /\ pinned)
    <2>1. CASE job.at = "pinEffort"
      <3>1. job' = [job EXCEPT !.call = "none", !.out = [job.out EXCEPT !.effort = pinned],
                               !.at = IF job.set.model THEN "pinModel" ELSE "done"]
        BY <1>1, <2>1
      <3> QED
        BY <1>2, <1>3, <1>5, <2>1, <3>1 DEF DraftJobs, JobStages, JobCalls, Steps
    <2>2. CASE job.at = "pinModel"
      <3>1. job' = [job EXCEPT !.call = "none", !.out = [job.out EXCEPT !.model = pinned],
                               !.at = "done"]
        BY <1>1, <2>2
      <3> QED
        BY <1>2, <1>3, <1>5, <2>2, <3>1 DEF DraftJobs, JobStages, JobCalls, Steps
    <2> QED
      BY <1>1, <2>1, <2>2
  <1>7. StepsTaken'
    BY <1>1, <1>4, <1>6 DEF DraftIInv, StepsTaken
  <1> QED
    BY <1>1, <1>2, <1>6, <1>7, GoesOn DEF Steps

LEMMA StartedKeeps == DraftIInv /\ Started => DraftIInv'
  <1> SUFFICES ASSUME DraftIInv, Started PROVE DraftIInv'
    OBVIOUS
  <1> DEFINE news == [conv |-> job.conv, kept |-> job.out.kept,
                      effort |-> job.set.effort => job.out.effort,
                      model |-> job.set.model => job.out.model, asked |-> job.set]
  <1>1. /\ job.at = "done" /\ said' = said \cup {news}
        /\ wish' = [wish EXCEPT !.there = FALSE]
        /\ job' = [NoJob EXCEPT !.conv = job.conv] /\ leases' = 0 /\ starting' = FALSE
        /\ UNCHANGED <<online, plan, asking, lamp, caps, capsAsk, picks, convs, kept>>
    BY DEF Started, Working, probeVars
  <1>2. job \in DraftJobs /\ job.conv \in 1 .. MaxConv
    BY <1>1, DraftStartsAssumption DEF DraftIInv, JobInHand, DraftJobs
  <1>3. job'.at = "idle" /\ job'.call = "none" /\ ~job'.odd /\ job'.conv = job.conv
    BY <1>1 DEF NoJob
  <1>4. job' \in DraftJobs
    BY <1>1, <1>2 DEF NoJob, DraftJobs, JobStages, JobCalls, MaybeCarrier
  <1>5. starting' \in BOOLEAN
    BY <1>1, Zenon
  <1>6. JobInHand'
    BY <1>1, <1>3, <1>4, <1>5 DEF JobInHand
  <1>7. PlanHonest' /\ ProbeOfChosen'
    BY <1>1 DEF DraftIInv, PlanHonest, ProbeOfChosen, Chosen
  <1>8. GoesWherePicked' /\ StepsTaken'
    BY <1>1, <1>3 DEF DraftIInv, GoesWherePicked, StepsTaken
  <1>9. /\ news.conv = job.conv /\ convs[news.conv].state = "running"
        /\ news.kept => news.conv \in kept
        /\ news.asked.effort /\ news.effort => convs[news.conv].effort
        /\ news.asked.model /\ news.model => convs[news.conv].model
    BY <1>1 DEF DraftIInv, StepsTaken
  <1> HIDE DEF news
  <1>10. SaidIsOver'
    BY <1>1, <1>2, <1>3, <1>9 DEF DraftIInv, SaidIsOver
  <1> QED
    BY <1>6, <1>7, <1>8, <1>10 DEF DraftIInv

LEMMA DraftStep == DraftIInv /\ [DraftNext]_draftVars => DraftIInv'
  <1> SUFFICES ASSUME DraftIInv, [DraftNext]_draftVars PROVE DraftIInv'
    OBVIOUS
  <1>1. CASE UNCHANGED draftVars
    <2>1. /\ UNCHANGED <<online, planVars, probeVars, picks, starting, job, outside>>
          /\ wish' = wish
      BY <1>1 DEF draftVars, planVars, probeVars, outside
    <2>2. GoesWherePicked'
      BY <2>1 DEF DraftIInv, GoesWherePicked
    <2> QED
      BY <2>1, <2>2, StartStays, DraftStays DEF DraftIInv
  <1>2. CASE \E m \in Carriers : Presence(m) \/ PickTarget(m)
    BY <1>2, PresenceKeeps, PicksKeep
  <1>3. CASE PickAuto \/ PickProject \/ RetryPlan \/ PlanLands \/ PlanFails \/ LampTurns \/ ProbeEnds
    BY <1>3, PicksKeep, PlanLandsKeeps, PlanFailsKeeps, ProbeKeeps
  <1>4. CASE PickSettings \/ TypeDraft \/ Submit \/ LeaveDraft
    BY <1>4, ProbeKeeps, ScreenKeeps, SubmitKeeps
  <1>5. CASE TicketEnds \/ LeaseEnds \/ AskMachine \/ MachineServes
    BY <1>5, TicketKeeps, LeaseKeeps, AskMachineKeeps, MachineServesKeeps
  <1>6. CASE RunEnds \/ AbortEnds \/ SaveEnds \/ PinEnds \/ Started
    BY <1>6, RunEndsKeeps, AbortEndsKeeps, SaveEndsKeeps, PinEndsKeeps, StartedKeeps
  <1> QED
    BY <1>1, <1>2, <1>3, <1>4, <1>5, <1>6 DEF DraftNext

LEMMA DraftIInvHelps == DraftIInv => DraftInv
  <1> SUFFICES ASSUME DraftIInv PROVE DraftInv
    OBVIOUS
  <1>1. DraftTypeOK
    BY DEF DraftIInv, PlanHonest, ProbeOfChosen, JobInHand, StepsTaken, DraftTypeOK, DraftPlans,
           DraftJobs, MaybeCarrier, Chosen
  <1>2. RunsWherePicked
    BY DEF DraftIInv, GoesWherePicked, RunsWherePicked
  <1>3. ToldIsSo
    BY DEF DraftIInv, SaidIsOver, ToldIsSo
  <1> QED
    BY <1>1, <1>2, <1>3 DEF DraftInv

(* A new conversation runs on the machine that was picked for it, and what the page is told
   of it is so (the conversation runs, is saved if it says so, and holds every choice not
   reported as lost), for any machines, attempts and failures; the channels borrowed for a
   start go back with it.                                                    *)
THEOREM DraftsGoWherePicked == DraftSpec => []DraftInv
  <1>1. DraftInit => DraftIInv
    BY DraftInitInv
  <1>2. DraftIInv /\ [DraftNext]_draftVars => DraftIInv'
    BY DraftStep
  <1>3. DraftIInv => DraftInv
    BY DraftIInvHelps
  <1> QED
    BY <1>1, <1>2, <1>3, PTL DEF DraftSpec

-----------------------------------------------------------------------------
(* The list of conversations.                                                *)

IndexServer ==
    /\ srv \in [at : [Rows -> 0 .. MaxAt], seen : [Rows -> 0 .. MaxAt], saved : SUBSET Rows,
                signal : BOOLEAN, dropped : SUBSET Rows]
    /\ range \in Ranges
    /\ totals \in [account : Counts, unread : Nat]

\* What a write under way may be, and that one the server has done has had its effect.
Filed == srv.saved \cup srv.dropped
IndexWrite == [what : {"save", "start", "delete", "read"}, row : Versions, written : BOOLEAN]
IndexWrites ==
    \A w \in InFlight :
        /\ w \in IndexWrite /\ writes[w] \in Nat \ {0}
        /\ w.written /\ w.what # "read" => w.row.id \in Filed

\* A row marked as saved is saved, was, or a save of it is under way.
IndexSaved == \A v \in marks.saved :
    v.id \in Filed \/ \E w \in InFlight : w.what = "save" /\ w.row.id = v.id

IndexMarks ==
    marks \in [saved : SUBSET Versions, removed : SUBSET Rows, read : [Rows -> 0 .. MaxAt]]

\* Only a list of its own range goes on.
IndexView ==
    /\ view \in [applied : Ranges \cup {None}, page : SUBSET Versions,
                 extra : SUBSET [row : Versions, of : Ranges], cursor : {view.cursor},
                 paged : BOOLEAN, failed : Ranges \cup {None}, moreFailed : BOOLEAN]
    /\ OnceEach(view.page) /\ RangesDontMix
    /\ view.failed \in {None, view.applied} \/ view.cursor = 0

IndexPull ==
    /\ pull \in [on : BOOLEAN, range : Ranges \cup {None}, rows : SUBSET Versions,
                 below : {pull.below}, cursor : {pull.cursor}, unread : Counts, account : Counts]
    /\ OnceEach(pull.rows)
    /\ pull.on => pull.range = range

IndexDialogs ==
    dialogs \in [failure : Rows \cup {None}, kind : {dialogs.kind}, save : Rows \cup {None},
                 delete : SUBSET Versions]

\* A further page that is still of this visit extends the list that is applied.
IndexFlight(f) ==
    /\ f \in [range : Ranges, below : {f.below}, here : BOOLEAN, answer : SUBSET Versions,
              cursor : {f.cursor}]
    /\ f.here => f.range = range
    /\ f.here /\ f.range # "machine" => f.range = view.applied /\ view.failed \in {None, view.applied}
    /\ f.range = "machine" => f.cursor = -1
IndexMore ==
    /\ more \in [busy : BOOLEAN, flights : {more.flights}]
    /\ IF more.busy THEN \E f \in more.flights : more.flights = {f} ELSE more.flights = {}
    /\ \A f \in more.flights : IndexFlight(f)

IndexIInv == /\ IndexServer /\ IndexWrites /\ IndexSaved /\ IndexMarks /\ IndexView /\ IndexPull
             /\ IndexDialogs /\ IndexMore

LEMMA IndexFrames ==
    ASSUME IndexIInv
    PROVE  /\ UNCHANGED <<srv, range, totals>> => IndexServer'
           /\ UNCHANGED <<srv, writes>> => IndexWrites'
           /\ UNCHANGED <<srv, writes, marks>> => IndexSaved'
           /\ UNCHANGED marks => IndexMarks'
           /\ UNCHANGED view => IndexView'
           /\ UNCHANGED <<pull, range>> => IndexPull'
           /\ UNCHANGED dialogs => IndexDialogs'
           /\ UNCHANGED <<more, range, view>> => IndexMore'
<1>1. UNCHANGED <<srv, range, totals>> => IndexServer'
  BY DEF IndexIInv, IndexServer
<1>2. UNCHANGED <<srv, writes>> => IndexWrites'
  BY DEF IndexIInv, IndexWrites, InFlight, Filed
<1>3. UNCHANGED <<srv, writes, marks>> => IndexSaved'
  BY DEF IndexIInv, IndexSaved, InFlight, Filed
<1>4. UNCHANGED marks => IndexMarks'
  BY DEF IndexIInv, IndexMarks
<1>5. UNCHANGED view => IndexView'
  BY DEF IndexIInv, IndexView, RangesDontMix
<1>6. UNCHANGED <<pull, range>> => IndexPull'
  BY DEF IndexIInv, IndexPull
<1>7. UNCHANGED dialogs => IndexDialogs'
  BY DEF IndexIInv, IndexDialogs
<1>8. UNCHANGED <<more, range, view>> => IndexMore'
  BY DEF IndexIInv, IndexMore, IndexFlight
<1> QED BY <1>1, <1>2, <1>3, <1>4, <1>5, <1>6, <1>7, <1>8

\* Largest of a set of instants, and of two numbers.
LEMMA LargestInstant ==
    ASSUME NEW n \in Nat, NEW S \in SUBSET (0 .. n)
    PROVE  Largest(S) \in 0 .. n
<1>1. CASE S = {}
  BY <1>1 DEF Largest
<1>2. CASE S # {}
  <2> DEFINE U == {n - k : k \in S}
             R == {x \in Nat \X Nat : x[1] < x[2]}
  <2>1. IsWellFoundedOn(R, Nat)
    <3>1. OpToRel(<, Nat) = R
      BY Zenon DEF OpToRel
    <3> QED BY <3>1, NatLessThanWellFounded
  <2>2. \A x, y \in Nat : x < y => <<x, y>> \in R
    OBVIOUS
  <2> HIDE DEF R
  <2>3. \A k \in S : k \in Nat /\ k <= n
    OBVIOUS
  <2>4. U \subseteq Nat /\ U # {}
    <3>1. U \subseteq Nat
      BY <2>3
    <3>2. U # {}
      BY <1>2
    <3> QED BY <3>1, <3>2
  <2> HIDE DEF U
  <2>5. PICK x \in U : \A y \in U : ~ (<<y, x>> \in R)
    BY <2>1, <2>4, WFMin
  <2>6. \A y \in U : x <= y
    <3>1. \A y \in U : ~ (y < x)
      BY <2>2, <2>4, <2>5, Zenon
    <3> QED BY <2>4, <3>1
  <2>7. \E m \in S : \A k \in S : k <= m
    <3>1. PICK m \in S : x = n - m
      BY DEF U
    <3>2. \A k \in S : n - k \in U
      BY DEF U
    <3>3. \A k \in S : n - m <= n - k
      BY <2>6, <3>1, <3>2
    <3> QED BY <2>3, <3>1, <3>3
  <2> QED BY <1>2, <2>7 DEF Largest
<1> QED BY <1>1, <1>2

LEMMA LargestPair ==
    ASSUME NEW a \in Int, NEW b \in Int
    PROVE  Largest({a, b}) \in {a, b} /\ Largest({a, b}) >= a /\ Largest({a, b}) >= b
<1>1. \E m \in {a, b} : \A k \in {a, b} : k <= m
  <2>1. CASE a <= b BY <2>1
  <2>2. CASE ~(a <= b) BY <2>2
  <2> QED BY <2>1, <2>2
<1> QED BY <1>1 DEF Largest

LEMMA LaterInstant ==
    ASSUME NEW a \in 0 .. MaxAt, NEW b \in 0 .. MaxAt
    PROVE  Largest({a, b}) \in 0 .. MaxAt
<1>1. {a, b} \in SUBSET (0 .. MaxAt) /\ MaxAt \in Nat
  BY IndexStartsAssumption
<1> QED BY <1>1, LargestInstant

\* The rows the server says.
LEMMA IndexRowsTyped ==
    ASSUME IndexServer
    PROVE  /\ \A x \in Rows : /\ Version(x) \in Versions /\ Version(x).id = x
                              /\ UnsavedRow(x) \in Versions /\ UnsavedRow(x).id = x
           /\ Clock \in 0 .. MaxAt /\ MaxAt \in Nat
<1>1. MaxAt \in Nat
  BY IndexStartsAssumption
<1>2. \A x \in Rows : srv.at[x] \in 0 .. MaxAt /\ srv.seen[x] \in 0 .. MaxAt
  BY DEF IndexServer
<1>3. Clock \in 0 .. MaxAt
  BY <1>1, <1>2, LargestInstant DEF Clock
<1> QED BY <1>1, <1>2, <1>3 DEF Version, UnsavedRow, Versions

LEMMA IndexListTyped ==
    ASSUME IndexServer, NEW r \in Ranges
    PROVE  ListOf(r) \subseteq Versions /\ OnceEach(ListOf(r)) /\ Cardinality(ListOf(r)) \in Nat
<1> DEFINE S == {y \in srv.saved : r = "unread" => Unread(Version(y))}
           f == [x \in S |-> Version(x)]
<1>1. S \subseteq Rows /\ IsFiniteSet(S)
  <2>1. S \in SUBSET Rows
    BY DEF IndexServer
  <2> QED BY <2>1, FS_Subset, IndexStartsAssumption
<1>2. ListOf(r) = {Version(x) : x \in S}
  BY DEF ListOf
<1> HIDE DEF S
<1>3. ListOf(r) \subseteq Versions /\ OnceEach(ListOf(r))
  BY <1>1, <1>2, IndexRowsTyped DEF OnceEach
<1>4. f \in Surjection(S, ListOf(r))
  BY <1>2 DEF Surjection
<1>5. IsFiniteSet(ListOf(r))
  BY <1>1, <1>4, FS_Surjection
<1> QED BY <1>3, <1>5, FS_CardinalityType

LEMMA IndexCounts ==
    ASSUME IndexServer
    PROVE  UnreadCount \in Nat /\ SavedCount \in Nat
<1>1. UnreadCount \in Nat
  BY IndexListTyped DEF UnreadCount, Ranges
<1>2. IsFiniteSet(srv.saved)
  BY FS_Subset, IndexStartsAssumption DEF IndexServer
<1> QED BY <1>1, <1>2, FS_CardinalityType DEF SavedCount

LEMMA IndexPageTyped ==
    ASSUME IndexServer, NEW r \in Ranges, NEW b
    PROVE  PageOf(r, b).rows \subseteq Versions /\ OnceEach(PageOf(r, b).rows)
<1>1. PageOf(r, b).rows \subseteq ListOf(r)
  BY DEF PageOf
<1> QED BY <1>1, IndexListTyped DEF OnceEach

LEMMA IndexMergedTyped ==
    ASSUME IndexIInv
    PROVE  Merged \subseteq Versions
<1> DEFINE over(vs, ws) == {v \in vs : v.id \notin Ids(ws)} \cup ws
           listed == over(over(view.page, {e.row : e \in view.extra}), marks.saved)
<1>1. listed \subseteq Versions
  BY DEF IndexIInv, IndexView, IndexMarks
<1>2. Merged = {[v EXCEPT !.seen = Largest({v.seen, marks.read[v.id]})] :
                    v \in {w \in listed : w.id \notin marks.removed}}
  BY DEF Merged
<1> HIDE DEF listed
<1>3. ASSUME NEW v \in Versions
      PROVE  [v EXCEPT !.seen = Largest({v.seen, marks.read[v.id]})] \in Versions
  <2>1. v.seen \in 0 .. MaxAt /\ marks.read[v.id] \in 0 .. MaxAt
    BY DEF IndexIInv, IndexMarks, Versions
  <2>2. Largest({v.seen, marks.read[v.id]}) \in 0 .. MaxAt
    BY <2>1, LaterInstant
  <2> QED BY <2>2 DEF Versions
<1> QED BY <1>1, <1>2, <1>3

\* A write that goes out, that comes back, and that the server does.
LEMMA WriteGoesOut ==
    ASSUME NEW w, Send(w)
    PROVE  /\ InFlight' = InFlight \cup {w}
           /\ (\A e \in InFlight : writes[e] \in Nat \ {0}) => \A e \in InFlight' : writes'[e] \in Nat \ {0}
  BY DEF Send, InFlight, BagToSet, (+), SetToBag

LEMMA WriteComesBack ==
    ASSUME NEW w, Leaves(w), \A e \in InFlight : writes[e] \in Nat \ {0}
    PROVE  /\ InFlight' \subseteq InFlight
           /\ \A e \in InFlight \ {w} : e \in InFlight'
           /\ \A e \in InFlight' : writes'[e] \in Nat \ {0}
  BY DEF Leaves, InFlight, BagToSet, (-), SetToBag

LEMMA WriteReaches ==
    ASSUME NEW w, Reaches(w), \A e \in InFlight : writes[e] \in Nat \ {0}
    PROVE  /\ InFlight' \subseteq InFlight \cup {[w EXCEPT !.written = TRUE]}
           /\ [w EXCEPT !.written = TRUE] \in InFlight'
           /\ \A e \in InFlight \ {w} : e \in InFlight'
           /\ \A e \in InFlight' : writes'[e] \in Nat \ {0}
<1> DEFINE B == writes (-) SetToBag({w})
           v == [w EXCEPT !.written = TRUE]
<1>1. /\ DOMAIN B \subseteq DOMAIN writes
      /\ \A e \in DOMAIN writes \ {w} : e \in DOMAIN B
      /\ \A e \in DOMAIN B : B[e] \in Nat \ {0}
  BY DEF InFlight, BagToSet, (-), SetToBag
<1>2. writes' = B (+) SetToBag({v})
  BY DEF Reaches
<1> HIDE DEF B, v
<1>3. /\ DOMAIN writes' = DOMAIN B \cup {v}
      /\ \A e \in DOMAIN writes' : writes'[e] \in Nat \ {0}
  BY <1>1, <1>2 DEF (+), SetToBag
<1> QED BY <1>1, <1>3 DEF InFlight, BagToSet, v

\* What an answer brings to the rows of a pull, and to the counts.
LEMMA IndexPullAnswers ==
    ASSUME IndexIInv, AnswerPage \/ AnswerUnread \/ AnswerAccount
    PROVE  IndexIInv'
<1>0. /\ pull \in [on : BOOLEAN, range : Ranges \cup {None}, rows : SUBSET Versions,
                   below : {pull.below}, cursor : {pull.cursor}, unread : Counts, account : Counts]
      /\ OnceEach(pull.rows) /\ (pull.on => pull.range = range) /\ range \in Ranges
      /\ IndexServer /\ UnreadCount \in Counts /\ SavedCount \in Counts
  BY IndexCounts DEF IndexIInv, IndexServer, IndexPull, Counts
<1>1. IndexPull'
  <2>1. CASE AnswerPage
    <3> DEFINE p == PageOf(pull.range, pull.below)
               vs == {v \in pull.rows : v.id \notin Ids(p.rows)} \cup p.rows
               b == IF pull.range = "machine" THEN p.cursor ELSE 0
               c == IF pull.range = "machine" THEN 0 ELSE p.cursor
               n == IF pull.range # "unread" /\ pull.below = Top THEN SavedCount ELSE pull.account
    <3>1. p.rows \subseteq Versions /\ OnceEach(p.rows)
      BY <1>0, <2>1, IndexPageTyped DEF AnswerPage
    <3>2. vs \in SUBSET Versions /\ OnceEach(vs)
      BY <1>0, <3>1 DEF OnceEach, Ids
    <3>3. n \in Counts
      BY <1>0
    <3>4. /\ pull' = [pull EXCEPT !.rows = vs, !.below = b, !.cursor = c, !.account = n]
          /\ range' = range
      BY <2>1 DEF AnswerPage
    <3> HIDE DEF vs, b, c, n
    <3> QED BY <1>0, <3>2, <3>3, <3>4 DEF IndexPull
  <2>2. CASE AnswerUnread
    BY <1>0, <2>2 DEF AnswerUnread, IndexPull
  <2>3. CASE AnswerAccount
    BY <1>0, <2>3 DEF AnswerAccount, IndexPull
  <2> QED BY <2>1, <2>2, <2>3
<1>2. UNCHANGED <<srv, range, view, marks, totals, more, writes, dialogs, moves>>
  BY DEF AnswerPage, AnswerUnread, AnswerAccount
<1> QED BY <1>1, <1>2, IndexFrames DEF IndexIInv

LEMMA NewPullTyped ==
    ASSUME NEW r \in Ranges
    PROVE  /\ NewPull(r) \in [on : BOOLEAN, range : Ranges \cup {None}, rows : SUBSET Versions,
                              below : {NewPull(r).below}, cursor : {NewPull(r).cursor},
                              unread : Counts, account : Counts]
           /\ OnceEach(NewPull(r).rows) /\ NewPull(r).range = r
  BY DEF NewPull, NoPull, Counts, OnceEach

LEMMA NoPullTyped ==
    /\ NoPull \in [on : BOOLEAN, range : Ranges \cup {None}, rows : SUBSET Versions,
                   below : {NoPull.below}, cursor : {NoPull.cursor}, unread : Counts, account : Counts]
    /\ OnceEach(NoPull.rows) /\ ~NoPull.on
  BY DEF NoPull, Counts, OnceEach

LEMMA NoMarksTyped ==
    NoMarks \in [saved : SUBSET Versions, removed : SUBSET Rows, read : [Rows -> 0 .. MaxAt]]
    /\ NoMarks.saved = {}
  BY IndexStartsAssumption DEF NoMarks

\* The pull is landed: the list is of its range, and the marks are forgotten.
LEMMA PullLandsStep ==
    ASSUME IndexIInv, PullLands
    PROVE  IndexIInv'
<1>1. /\ pull.rows \in SUBSET Versions /\ OnceEach(pull.rows) /\ pull.range = range
      /\ range \in Ranges /\ pull.account \in Counts /\ pull.unread \in Nat
      /\ view' = Landed(view, pull) /\ marks' = NoMarks /\ pull' = NoPull
      /\ totals' = [account |-> pull.account, unread |-> pull.unread]
      /\ UNCHANGED <<srv, range, more, writes, dialogs, moves>>
  BY DEF PullLands, IndexIInv, IndexPull, IndexServer, Counts
<1>2. IndexView' /\ view'.applied = range /\ view'.failed = None
  <2> DEFINE moved == view.applied # pull.range
             ex == IF moved THEN {} ELSE {e \in view.extra : e.row.id \notin Ids(pull.rows)}
             cu == IF moved \/ ~view.paged THEN pull.cursor ELSE view.cursor
             pg == ~moved /\ view.paged
  <2>1. /\ ex \in SUBSET [row : Versions, of : Ranges] /\ pg \in BOOLEAN
        /\ \A e \in ex : e.of = pull.range
    BY DEF IndexIInv, IndexView, RangesDontMix
  <2>2. view' = [view EXCEPT !.applied = pull.range, !.page = pull.rows, !.moreFailed = FALSE,
                    !.failed = None, !.extra = ex, !.paged = pg, !.cursor = cu]
    BY <1>1 DEF Landed
  <2> HIDE DEF ex, cu, pg
  <2> QED BY <1>1, <2>1, <2>2 DEF IndexIInv, IndexView, RangesDontMix
<1>3. IndexMore'
  BY <1>1, <1>2 DEF IndexIInv, IndexMore, IndexFlight
<1>4. IndexServer' /\ IndexMarks' /\ IndexSaved' /\ IndexPull'
  BY <1>1, NoMarksTyped, NoPullTyped DEF IndexIInv, IndexServer, IndexMarks, IndexSaved, IndexPull
<1> QED BY <1>1, <1>2, <1>3, <1>4, IndexFrames DEF IndexIInv

LEMMA PullFailsStep ==
    ASSUME IndexIInv, PullFails
    PROVE  IndexIInv'
<1>1. pull.range = range /\ range \in Ranges
  BY DEF PullFails, IndexIInv, IndexPull, IndexServer
<1>2. pull' = NoPull /\ UNCHANGED <<srv, range, totals, more, writes, dialogs>>
  BY DEF PullFails
<1>3. IndexView' /\ IndexMore'
  <2>1. CASE view.applied = range
    <3>1. view' = [view EXCEPT !.failed = range]
      BY <1>1, <2>1 DEF PullFails
    <3>2. IndexView'
      BY <1>1, <2>1, <3>1 DEF IndexIInv, IndexView, RangesDontMix
    <3>3. IndexMore'
      BY <1>1, <1>2, <2>1, <3>1 DEF IndexIInv, IndexView, IndexMore, IndexFlight
    <3> QED BY <3>2, <3>3
  <2>2. CASE view.applied # range
    <3>1. view' = [NoView EXCEPT !.applied = view.applied, !.failed = range]
      BY <1>1, <2>2 DEF PullFails
    <3>2. IndexView'
      BY <1>1, <3>1 DEF IndexIInv, IndexView, RangesDontMix, NoView, OnceEach
    <3>3. IndexMore'
      BY <1>2, <2>2 DEF IndexIInv, IndexMore, IndexFlight
    <3> QED BY <3>2, <3>3
  <2> QED BY <2>1, <2>2
<1>4. IndexMarks' /\ IndexSaved'
  <2>1. CASE marks' = marks
    BY <1>2, <2>1, IndexFrames
  <2>2. CASE marks' = NoMarks
    BY <2>2, NoMarksTyped DEF IndexMarks, IndexSaved
  <2> QED BY <2>1, <2>2 DEF PullFails
<1>5. IndexPull'
  BY <1>2, NoPullTyped DEF IndexPull
<1> QED BY <1>2, <1>3, <1>4, <1>5, IndexFrames DEF IndexIInv

LEMMA ChangeRangeStep ==
    ASSUME IndexIInv, NEW r \in Ranges, ChangeRange(r)
    PROVE  IndexIInv'
<1>1. /\ range' = r /\ r # range /\ pull' = NewPull(r)
      /\ more' = [more EXCEPT !.flights = Visit(r)]
      /\ UNCHANGED <<srv, view, marks, totals, writes, dialogs>>
  BY DEF ChangeRange, Repull
<1>2. IndexPull' /\ IndexServer'
  BY <1>1, NewPullTyped DEF IndexIInv, IndexServer, IndexPull
<1>3. IndexMore'
  <2>1. \A f \in more.flights : ~[f EXCEPT !.here = f.here /\ r = range].here
                                 /\ [f EXCEPT !.here = f.here /\ r = range]
                                      \in [range : Ranges, below : {f.below}, here : BOOLEAN,
                                           answer : SUBSET Versions, cursor : {f.cursor}]
    BY <1>1 DEF IndexIInv, IndexMore, IndexFlight
  <2>2. \A g \in Visit(r) : \E f \in more.flights : g = [f EXCEPT !.here = f.here /\ r = range]
    BY DEF Visit
  <2>3. \A g \in Visit(r) :
            /\ g \in [range : Ranges, below : {g.below}, here : BOOLEAN, answer : SUBSET Versions,
                      cursor : {g.cursor}]
            /\ ~g.here /\ (g.range = "machine" => g.cursor = -1)
    BY <2>1, <2>2 DEF IndexIInv, IndexMore, IndexFlight
  <2>4. /\ more.flights = {} => Visit(r) = {}
        /\ \A f \in more.flights : more.flights = {f} => \E g \in Visit(r) : Visit(r) = {g}
    <3>1. more.flights = {} => Visit(r) = {}
      BY DEF Visit
    <3>2. ASSUME NEW f \in more.flights, more.flights = {f}
          PROVE  \E g \in Visit(r) : Visit(r) = {g}
      <4> DEFINE g == [f EXCEPT !.here = f.here /\ r = range]
      <4>1. Visit(r) = {g}
        BY <3>2 DEF Visit
      <4> HIDE DEF g
      <4> QED BY <4>1
    <3> QED BY <3>1, <3>2
  <2>5. more' \in [busy : BOOLEAN, flights : {more'.flights}] /\ more'.busy = more.busy
        /\ more'.flights = Visit(r)
    BY <1>1 DEF IndexIInv, IndexMore
  <2>6. IF more'.busy THEN \E f \in more'.flights : more'.flights = {f} ELSE more'.flights = {}
    BY <2>4, <2>5 DEF IndexIInv, IndexMore
  <2> QED BY <2>3, <2>5, <2>6 DEF IndexMore, IndexFlight
<1> QED BY <1>1, <1>2, <1>3, IndexFrames DEF IndexIInv

LEMMA RetryStep ==
    ASSUME IndexIInv, Retry
    PROVE  IndexIInv'
<1>1. /\ view' = [view EXCEPT !.failed = None] /\ pull' = NewPull(range) /\ range \in Ranges
      /\ UNCHANGED <<srv, range, marks, totals, more, writes, dialogs, moves>>
  BY DEF Retry, Repull, IndexIInv, IndexServer
<1>2. IndexView'
  BY <1>1 DEF IndexIInv, IndexView, RangesDontMix
<1>3. IndexMore'
  BY <1>1 DEF IndexIInv, IndexView, IndexMore, IndexFlight
<1>4. IndexPull'
  BY <1>1, NewPullTyped DEF IndexPull
<1> QED BY <1>1, <1>2, <1>3, <1>4, IndexFrames DEF IndexIInv

LEMMA MirrorChangedStep ==
    ASSUME IndexIInv, MirrorChanged
    PROVE  IndexIInv'
<1>1. /\ srv' = [srv EXCEPT !.signal = FALSE] /\ pull' = NewPull(range) /\ range \in Ranges
      /\ UNCHANGED <<range, view, marks, totals, more, writes, dialogs, moves>>
  BY DEF MirrorChanged, Repull, IndexIInv, IndexServer
<1>2. IndexServer' /\ srv'.saved = srv.saved /\ srv'.dropped = srv.dropped
  BY <1>1 DEF IndexIInv, IndexServer
<1>3. IndexWrites' /\ IndexSaved'
  BY <1>1, <1>2 DEF IndexIInv, IndexWrites, IndexSaved, InFlight, Filed
<1>4. IndexPull'
  BY <1>1, NewPullTyped DEF IndexPull
<1> QED BY <1>1, <1>2, <1>3, <1>4, IndexFrames DEF IndexIInv

-----------------------------------------------------------------------------
(* Further pages.                                                            *)

LEMMA LoadMoreStep ==
    ASSUME IndexIInv, LoadMore
    PROVE  IndexIInv'
<1> DEFINE f == [range |-> range, below |-> view.cursor, here |-> TRUE, answer |-> {}, cursor |-> -1]
<1>1. /\ more.flights = {} /\ more' = [busy |-> TRUE, flights |-> more.flights \cup {f}]
      /\ view' = [view EXCEPT !.moreFailed = FALSE] /\ range \in Ranges
      /\ UNCHANGED <<srv, range, marks, totals, pull, writes, dialogs>>
  BY DEF LoadMore, IndexIInv, IndexMore, IndexServer
<1>2. IndexView' /\ view'.applied = view.applied /\ view'.failed = view.failed
  BY <1>1 DEF IndexIInv, IndexView, RangesDontMix
<1>3. range # "machine" => range = view.applied /\ view.failed \in {None, view.applied}
  BY <1>1 DEF LoadMore, OnScreen, Pending, IndexIInv, IndexView, Ranges, None
<1>4. f \in [range : Ranges, below : {f.below}, here : BOOLEAN, answer : SUBSET Versions, cursor : {f.cursor}]
      /\ f.range = range /\ f.cursor = -1
  BY <1>1
<1> HIDE DEF f
<1>5. IndexMore'
  BY <1>1, <1>2, <1>3, <1>4 DEF IndexMore, IndexFlight
<1> QED BY <1>1, <1>2, <1>5, IndexFrames DEF IndexIInv

LEMMA AnswerMoreStep ==
    ASSUME IndexIInv, NEW f \in more.flights, AnswerMore(f)
    PROVE  IndexIInv'
<1> DEFINE p == PageOf(f.range, f.below)
           g == [f EXCEPT !.answer = p.rows, !.cursor = p.cursor]
<1>1. /\ more' = [more EXCEPT !.flights = (more.flights \ {f}) \cup {g}] /\ f.range # "machine"
      /\ UNCHANGED <<srv, range, view, marks, totals, pull, writes, dialogs, moves>>
  BY DEF AnswerMore
<1>2. IndexFlight(f) /\ more.flights = {f} /\ more.busy
  BY DEF IndexIInv, IndexMore
<1>3. p.rows \in SUBSET Versions
  BY <1>2, IndexPageTyped DEF IndexIInv, IndexFlight
<1> HIDE DEF p
<1>4. /\ g \in [range : Ranges, below : {g.below}, here : BOOLEAN, answer : SUBSET Versions,
                cursor : {g.cursor}]
      /\ g.range = f.range /\ g.here = f.here
  BY <1>2, <1>3 DEF IndexFlight
<1> HIDE DEF g
<1>5. IndexMore'
  BY <1>1, <1>2, <1>4 DEF IndexIInv, IndexMore, IndexFlight
<1> QED BY <1>1, <1>5, IndexFrames DEF IndexIInv

LEMMA MoreEndsStep ==
    ASSUME IndexIInv, NEW f \in more.flights, MoreLands(f) \/ MoreFails(f)
    PROVE  IndexIInv'
<1>1. /\ more' = [busy |-> FALSE, flights |-> more.flights \ {f}]
      /\ UNCHANGED <<srv, range, marks, totals, pull, writes, dialogs>>
  BY DEF MoreLands, MoreFails, Released
<1>2. IndexFlight(f) /\ more.flights = {f}
  BY DEF IndexIInv, IndexMore
<1>3. IndexMore'
  BY <1>1, <1>2 DEF IndexMore
<1>4. IndexView'
  <2>1. CASE MoreFails(f)
    <3>1. view' = [view EXCEPT !.moreFailed = view.moreFailed \/ f.here]
      BY <2>1 DEF MoreFails
    <3>2. (view.moreFailed \/ f.here) \in BOOLEAN
      OBVIOUS
    <3> QED BY <3>1, <3>2 DEF IndexIInv, IndexView, RangesDontMix
  <2>2. CASE MoreLands(f) /\ ~f.here
    BY <2>2, IndexFrames DEF MoreLands
  <2>3. CASE MoreLands(f) /\ f.here
    <3> DEFINE ex == view.extra \cup {[row |-> r, of |-> f.range] : r \in f.answer}
    <3>1. view' = [view EXCEPT !.extra = ex, !.cursor = f.cursor, !.paged = TRUE]
      BY <2>3 DEF MoreLands, Extends
    <3>2. f.range = view.applied /\ view.failed \in {None, view.applied}
      <4>1. f.range # "machine"
        BY <1>2, <2>3 DEF MoreLands, IndexFlight
      <4> QED BY <1>2, <2>3, <4>1 DEF IndexFlight
    <3>3. ex \in SUBSET [row : Versions, of : Ranges] /\ \A e \in ex : e.of = view.applied
      BY <1>2, <3>2 DEF IndexFlight, IndexIInv, IndexView, RangesDontMix
    <3> HIDE DEF ex
    <3> QED BY <3>1, <3>2, <3>3 DEF IndexIInv, IndexView, RangesDontMix
  <2> QED BY <2>1, <2>2, <2>3
<1> QED BY <1>1, <1>3, <1>4, IndexFrames DEF IndexIInv

-----------------------------------------------------------------------------
(* Saving, deleting, reading.                                                *)

LEMMA IndexSends ==
    ASSUME IndexIInv, NEW w \in IndexWrite, Send(w), ~w.written, UNCHANGED srv,
           marks'.saved \subseteq marks.saved \cup {v \in {w.row} : w.what = "save"}
    PROVE  IndexWrites' /\ IndexSaved'
<1>1. InFlight' = InFlight \cup {w} /\ \A e \in InFlight' : writes'[e] \in Nat \ {0}
  BY WriteGoesOut DEF IndexIInv, IndexWrites
<1>2. IndexWrites'
  BY <1>1 DEF IndexIInv, IndexWrites, Filed
<1>3. IndexSaved'
  BY <1>1 DEF IndexIInv, IndexSaved, Filed
<1> QED BY <1>2, <1>3

\* A row of a save that leaves unwritten is taken back.
LEMMA IndexHears ==
    ASSUME IndexIInv, NEW w \in InFlight, Leaves(w), UNCHANGED srv,
           marks'.saved \subseteq marks.saved,
           w.what = "save" /\ ~w.written => \A v \in marks'.saved : v.id # w.row.id
    PROVE  IndexWrites' /\ IndexSaved'
<1>1. /\ InFlight' \subseteq InFlight /\ \A e \in InFlight \ {w} : e \in InFlight'
      /\ \A e \in InFlight' : writes'[e] \in Nat \ {0}
  BY WriteComesBack DEF IndexIInv, IndexWrites
<1>2. IndexWrites'
  BY <1>1 DEF IndexIInv, IndexWrites, Filed
<1>3. IndexSaved'
  <2> SUFFICES ASSUME NEW v \in marks'.saved
               PROVE  v.id \in Filed' \/ \E e \in InFlight' : e.what = "save" /\ e.row.id = v.id
    BY DEF IndexSaved
  <2>1. Filed' = Filed
    BY DEF Filed
  <2>2. CASE v.id \in Filed
    BY <2>1, <2>2
  <2>3. CASE v.id \notin Filed
    <3>1. PICK e \in InFlight : e.what = "save" /\ e.row.id = v.id
      BY <2>3 DEF IndexIInv, IndexSaved
    <3>2. e # w
      BY <2>3, <3>1 DEF IndexIInv, IndexWrites
    <3> QED BY <1>1, <3>1, <3>2
  <2> QED BY <2>2, <2>3
<1> QED BY <1>2, <1>3

LEMMA ShiftTyped ==
    ASSUME IndexServer, NEW row, NEW d \in {1, -1}, Shift(row, d)
    PROVE  totals' \in [account : Counts, unread : Nat]
<1> DEFINE bump(n) == Largest({0, n + d})
<1>1. \A n \in Nat : bump(n) \in Nat
  BY LargestPair
<1>2. totals' = [account |-> IF totals.account = Unasked THEN Unasked ELSE bump(totals.account),
                 unread |-> IF Unread(row) THEN bump(totals.unread) ELSE totals.unread]
  BY DEF Shift
<1> HIDE DEF bump
<1>3. totals.account \in Counts /\ totals.unread \in Nat
  BY DEF IndexServer
<1> QED BY <1>1, <1>2, <1>3 DEF Counts

LEMMA IndexTotals ==
    ASSUME IndexIInv, UNCHANGED <<srv, range>>, totals' \in [account : Counts, unread : Nat]
    PROVE  IndexServer'
  BY DEF IndexIInv, IndexServer

\* A row is marked as saved, and its save goes out.
LEMMA SaveGoesOut ==
    ASSUME IndexIInv, NEW x \in Rows, DoSave(UnsavedRow(x)), UNCHANGED <<srv, range, view, pull, more>>,
           IndexDialogs'
    PROVE  IndexIInv'
<1> DEFINE w == Write("save", UnsavedRow(x))
<1>1. UnsavedRow(x) \in Versions /\ UnsavedRow(x).id = x
  BY IndexRowsTyped DEF IndexIInv
<1>2. w \in IndexWrite /\ ~w.written /\ w.what = "save" /\ w.row = UnsavedRow(x)
  BY <1>1 DEF Write, IndexWrite
<1>3. /\ Send(w) /\ Shift(UnsavedRow(x), 1)
      /\ marks' = [marks EXCEPT !.saved = marks.saved \cup {UnsavedRow(x)}]
  BY DEF DoSave
<1> HIDE DEF w
<1>4. IndexMarks' /\ marks'.saved = marks.saved \cup {UnsavedRow(x)}
  BY <1>1, <1>3 DEF IndexIInv, IndexMarks
<1>5. IndexWrites' /\ IndexSaved'
  BY <1>2, <1>3, <1>4, IndexSends
<1>6. IndexServer'
  BY <1>3, ShiftTyped, IndexTotals DEF IndexIInv
<1> QED BY <1>4, <1>5, <1>6, IndexFrames DEF IndexIInv

LEMMA SaveAskedStep ==
    ASSUME IndexIInv, (\E x \in Rows : OnSave(x)) \/ ConfirmSave \/ CancelSave \/ RetrySave
    PROVE  IndexIInv'
<1>0. "none" \notin Rows
  BY IndexStartsAssumption
<1>1. ASSUME NEW x \in Rows, OnSave(x) PROVE IndexIInv'
  <2>1. CASE totals.account = 0
    <3>1. /\ dialogs' = [dialogs EXCEPT !.save = x]
          /\ UNCHANGED <<srv, range, view, pull, more, marks, totals, writes>>
      BY <1>1, <2>1 DEF OnSave
    <3>2. IndexDialogs'
      BY <3>1 DEF IndexIInv, IndexDialogs
    <3> QED BY <3>1, <3>2, IndexFrames DEF IndexIInv
  <2>2. CASE totals.account # 0
    <3>1. DoSave(UnsavedRow(x)) /\ UNCHANGED <<srv, range, view, pull, more, dialogs>>
      BY <1>1, <2>2 DEF OnSave
    <3> QED BY <3>1, IndexFrames, SaveGoesOut
  <2> QED BY <2>1, <2>2
<1>2. CASE ConfirmSave
  <2>1. dialogs.save \in Rows /\ DoSave(UnsavedRow(dialogs.save))
    BY <1>2 DEF ConfirmSave, IndexIInv, IndexDialogs
  <2>2. dialogs' = [dialogs EXCEPT !.save = None] /\ UNCHANGED <<srv, range, view, pull, more>>
    BY <1>2 DEF ConfirmSave
  <2>3. IndexDialogs'
    BY <2>2 DEF IndexIInv, IndexDialogs
  <2> QED BY <2>1, <2>2, <2>3, SaveGoesOut
<1>3. CASE CancelSave
  <2>1. /\ dialogs' = [dialogs EXCEPT !.save = None]
        /\ UNCHANGED <<srv, range, view, marks, totals, pull, more, writes>>
    BY <1>3 DEF CancelSave
  <2>2. IndexDialogs'
    BY <2>1 DEF IndexIInv, IndexDialogs
  <2> QED BY <2>1, <2>2, IndexFrames DEF IndexIInv
<1>4. CASE RetrySave
  <2>1. dialogs.failure \in Rows /\ UNCHANGED <<srv, range, view, pull, more, dialogs>>
    BY <1>4 DEF RetrySave, IndexIInv, IndexDialogs
  <2>2. CASE dialogs.kind = "manual"
    <3>1. DoSave(UnsavedRow(dialogs.failure))
      BY <1>4, <2>2 DEF RetrySave
    <3> QED BY <2>1, <3>1, IndexFrames, SaveGoesOut
  <2>3. CASE dialogs.kind # "manual"
    <3> DEFINE w == Write("start", UnsavedRow(dialogs.failure))
    <3>1. Send(w) /\ UNCHANGED <<marks, totals>>
      BY <1>4, <2>3 DEF RetrySave
    <3>2. w \in IndexWrite /\ ~w.written
      BY <2>1, IndexRowsTyped DEF Write, IndexWrite, IndexIInv
    <3> HIDE DEF w
    <3>3. IndexWrites' /\ IndexSaved'
      BY <2>1, <3>1, <3>2, IndexSends
    <3> QED BY <2>1, <3>1, <3>3, IndexFrames DEF IndexIInv
  <2> QED BY <2>2, <2>3
<1> QED BY <1>1, <1>2, <1>3, <1>4

LEMMA SaveEndsStep ==
    ASSUME IndexIInv, NEW w \in InFlight, SaveAnswered(w) \/ SaveFails(w)
    PROVE  IndexIInv'
<1>1. w \in IndexWrite /\ w.row \in Versions /\ w.row.id \in Rows
  BY DEF IndexIInv, IndexWrites, IndexWrite, Versions
<1>2. Leaves(w) /\ UNCHANGED <<srv, range, view, pull, more>>
  BY DEF SaveAnswered, SaveFails
<1>3. CASE SaveAnswered(w)
  <2>1. w.written /\ UNCHANGED <<marks, totals>>
    BY <1>3 DEF SaveAnswered
  <2>2. IndexWrites' /\ IndexSaved'
    BY <1>2, <2>1, IndexHears
  <2>3. IndexDialogs'
    BY <1>3 DEF SaveAnswered, IndexIInv, IndexDialogs
  <2> QED BY <1>2, <2>1, <2>2, <2>3, IndexFrames DEF IndexIInv
<1>4. CASE SaveFails(w)
  <2>1. /\ marks' = [marks EXCEPT !.saved = {v \in marks.saved : v.id # w.row.id}]
        /\ Shift(w.row, -1)
        /\ dialogs' = [dialogs EXCEPT !.failure = w.row.id, !.kind = "manual"]
    BY <1>4 DEF SaveFails
  <2>2. IndexMarks' /\ marks'.saved = {v \in marks.saved : v.id # w.row.id}
    BY <2>1 DEF IndexIInv, IndexMarks
  <2>3. IndexWrites' /\ IndexSaved'
    BY <1>2, <2>2, IndexHears
  <2>4. IndexServer'
    BY <1>2, <2>1, ShiftTyped, IndexTotals DEF IndexIInv
  <2>5. IndexDialogs'
    BY <1>1, <2>1 DEF IndexIInv, IndexDialogs
  <2> QED BY <1>2, <2>2, <2>3, <2>4, <2>5, IndexFrames DEF IndexIInv
<1> QED BY <1>3, <1>4

LEMMA StartStep ==
    ASSUME IndexIInv, (\E x \in Rows : StartUnsaved(x)) \/ \E w \in InFlight : StartAnswered(w)
    PROVE  IndexIInv'
<1>1. ASSUME NEW x \in Rows, StartUnsaved(x) PROVE IndexIInv'
  <2>1. /\ dialogs' = [dialogs EXCEPT !.failure = x, !.kind = "onStart"]
        /\ UNCHANGED <<srv, range, view, marks, totals, pull, more, writes>>
    BY <1>1 DEF StartUnsaved
  <2>2. IndexDialogs'
    BY <2>1 DEF IndexIInv, IndexDialogs
  <2> QED BY <2>1, <2>2, IndexFrames DEF IndexIInv
<1>2. ASSUME NEW w \in InFlight, StartAnswered(w) PROVE IndexIInv'
  <2>1. /\ Leaves(w) /\ w.what = "start" /\ pull' = NewPull(range) /\ range \in Ranges
        /\ dialogs' = [dialogs EXCEPT !.failure = None, !.kind = None]
        /\ UNCHANGED <<srv, range, view, marks, totals, more, moves>>
    BY <1>2 DEF StartAnswered, Repull, IndexIInv, IndexServer
  <2>2. IndexWrites' /\ IndexSaved'
    BY <2>1, IndexHears
  <2>3. IndexDialogs'
    BY <2>1 DEF IndexIInv, IndexDialogs
  <2>4. IndexPull'
    BY <2>1, NewPullTyped DEF IndexPull
  <2> QED BY <2>1, <2>2, <2>3, <2>4, IndexFrames DEF IndexIInv
<1> QED BY <1>1, <1>2

LEMMA DeleteStep ==
    ASSUME IndexIInv, \/ \E x \in Rows : AskDelete(x)
                      \/ CancelDelete \/ ConfirmDelete
                      \/ \E w \in InFlight : DeleteAnswered(w)
    PROVE  IndexIInv'
<1>1. ASSUME NEW x \in Rows, AskDelete(x) PROVE IndexIInv'
  <2>1. /\ \E v \in Versions : dialogs' = [dialogs EXCEPT !.delete = {v}]
        /\ UNCHANGED <<srv, range, view, marks, totals, pull, more, writes>>
    BY <1>1, IndexMergedTyped DEF AskDelete
  <2>2. IndexDialogs'
    BY <2>1 DEF IndexIInv, IndexDialogs
  <2> QED BY <2>1, <2>2, IndexFrames DEF IndexIInv
<1>2. CASE CancelDelete
  <2>1. /\ dialogs' = [dialogs EXCEPT !.delete = {}]
        /\ UNCHANGED <<srv, range, view, marks, totals, pull, more, writes>>
    BY <1>2 DEF CancelDelete
  <2>2. IndexDialogs'
    BY <2>1 DEF IndexIInv, IndexDialogs
  <2> QED BY <2>1, <2>2, IndexFrames DEF IndexIInv
<1>3. CASE ConfirmDelete
  <2>1. PICK v \in dialogs.delete : Send(Write("delete", v))
    BY <1>3 DEF ConfirmDelete
  <2> DEFINE w == Write("delete", v)
  <2>2. w \in IndexWrite /\ ~w.written
    BY <2>1 DEF Write, IndexWrite, IndexIInv, IndexDialogs
  <2>3. Send(w)
    BY <2>1
  <2> HIDE DEF w
  <2>4. UNCHANGED <<srv, range, view, marks, totals, pull, more, dialogs>>
    BY <1>3 DEF ConfirmDelete
  <2>5. IndexWrites' /\ IndexSaved'
    BY <2>2, <2>3, <2>4, IndexSends
  <2> QED BY <2>4, <2>5, IndexFrames DEF IndexIInv
<1>4. ASSUME NEW w \in InFlight, DeleteAnswered(w) PROVE IndexIInv'
  <2>1. /\ Leaves(w) /\ w.what = "delete" /\ Shift(w.row, -1)
        /\ marks' = [marks EXCEPT !.removed = marks.removed \cup {w.row.id}]
        /\ dialogs' = [dialogs EXCEPT !.delete = {}]
        /\ UNCHANGED <<srv, range, view, pull, more>>
    BY <1>4 DEF DeleteAnswered
  <2>2. w.row.id \in Rows
    BY DEF IndexIInv, IndexWrites, IndexWrite, Versions
  <2>3. IndexMarks' /\ marks'.saved = marks.saved
    BY <2>1, <2>2 DEF IndexIInv, IndexMarks
  <2>4. IndexWrites' /\ IndexSaved'
    BY <2>1, <2>3, IndexHears
  <2>5. IndexServer'
    BY <2>1, ShiftTyped, IndexTotals DEF IndexIInv
  <2>6. IndexDialogs'
    BY <2>1 DEF IndexIInv, IndexDialogs
  <2> QED BY <2>1, <2>3, <2>4, <2>5, <2>6, IndexFrames DEF IndexIInv
<1> QED BY <1>1, <1>2, <1>3, <1>4

LEMMA ReadStep ==
    ASSUME IndexIInv, (\E x \in Rows : Read(x)) \/ \E w \in InFlight : MarkRead(w)
    PROVE  IndexIInv'
<1>1. ASSUME NEW x \in Rows, Read(x) PROVE IndexIInv'
  <2> DEFINE w == Write("read", [Version(x) EXCEPT !.seen = Clock])
  <2>1. w \in IndexWrite /\ ~w.written /\ w.what # "save"
    <3>1. Version(x) \in Versions /\ Clock \in 0 .. MaxAt
      BY IndexRowsTyped DEF IndexIInv
    <3>2. [Version(x) EXCEPT !.seen = Clock] \in Versions
      BY <3>1 DEF Versions
    <3> QED BY <3>2 DEF Write, IndexWrite
  <2>2. Send(w) /\ UNCHANGED <<srv, range, view, marks, totals, pull, more, dialogs>>
    BY <1>1 DEF Read
  <2> HIDE DEF w
  <2>3. IndexWrites' /\ IndexSaved'
    BY <2>1, <2>2, IndexSends
  <2> QED BY <2>2, <2>3, IndexFrames DEF IndexIInv
<1>2. ASSUME NEW w \in InFlight, MarkRead(w) PROVE IndexIInv'
  <2> DEFINE x == w.row.id
             at == Largest({marks.read[x], w.row.seen})
  <2>1. x \in Rows /\ w.row.seen \in 0 .. MaxAt /\ marks.read[x] \in 0 .. MaxAt
    BY DEF IndexIInv, IndexWrites, IndexWrite, Versions, IndexMarks
  <2>2. at \in 0 .. MaxAt
    BY <2>1, LaterInstant
  <2>3. /\ Leaves(w) /\ w.what = "read" /\ marks' = [marks EXCEPT !.read[x] = at]
        /\ totals' = IF WasUnread(x) THEN [totals EXCEPT !.unread = Largest({0, totals.unread - 1})]
                     ELSE totals
        /\ UNCHANGED <<srv, range, view, pull, more, dialogs>>
    BY <1>2 DEF MarkRead
  <2> HIDE DEF at, x
  <2>4. IndexMarks' /\ marks'.saved = marks.saved
    BY <2>1, <2>2, <2>3 DEF IndexIInv, IndexMarks
  <2>5. IndexWrites' /\ IndexSaved'
    BY <2>3, <2>4, IndexHears
  <2>6. IndexServer'
    <3>1. totals.unread \in Nat /\ totals \in [account : Counts, unread : Nat]
      BY DEF IndexIInv, IndexServer
    <3>2. Largest({0, totals.unread - 1}) \in Nat
      <4>1. 0 \in Int /\ totals.unread - 1 \in Int
        BY <3>1
      <4>2. /\ Largest({0, totals.unread - 1}) \in {0, totals.unread - 1}
            /\ Largest({0, totals.unread - 1}) >= 0
        BY <4>1, LargestPair
      <4> QED BY <4>1, <4>2
    <3>3. totals' \in [account : Counts, unread : Nat]
      BY <2>3, <3>1, <3>2
    <3> QED BY <2>3, <3>3, IndexTotals
  <2> QED BY <2>3, <2>4, <2>5, <2>6, IndexFrames DEF IndexIInv
<1> QED BY <1>1, <1>2

LEMMA WriteFailsStep ==
    ASSUME IndexIInv, NEW w \in InFlight, WriteFails(w)
    PROVE  IndexIInv'
<1>1. /\ w.what # "save" /\ Leaves(w)
      /\ UNCHANGED <<srv, range, view, marks, totals, pull, more, dialogs>>
  BY DEF WriteFails
<1>2. IndexWrites' /\ IndexSaved'
  BY <1>1, IndexHears
<1> QED BY <1>1, <1>2, IndexFrames DEF IndexIInv

\* The server does what it was asked: what was filed stays so.
LEMMA WrittenStep ==
    ASSUME IndexIInv, NEW w \in InFlight, Written(w)
    PROVE  IndexIInv'
<1> DEFINE x == w.row.id
           u == [w EXCEPT !.written = TRUE]
<1>1. w \in IndexWrite /\ x \in Rows /\ w.row.seen \in 0 .. MaxAt /\ w.row \in Versions
  BY DEF IndexIInv, IndexWrites, IndexWrite, Versions
<1>2. UNCHANGED <<range, view, marks, totals, pull, more, dialogs, moves>> /\ Reaches(w)
  BY DEF Written
<1>3. IndexServer' /\ Filed \subseteq Filed' /\ (w.what # "read" => x \in Filed')
  <2>1. CASE w.what \in {"save", "start"}
    <3>1. srv' = [srv EXCEPT !.saved = srv.saved \cup {x}, !.dropped = srv.dropped \ {x}]
      BY <2>1 DEF Written
    <3> HIDE DEF x
    <3> QED BY <1>1, <1>2, <3>1 DEF IndexIInv, IndexServer, Filed
  <2>2. CASE w.what = "delete"
    <3>1. srv' = [srv EXCEPT !.saved = srv.saved \ {x}, !.dropped = srv.dropped \cup {x}]
      BY <2>2 DEF Written
    <3> HIDE DEF x
    <3> QED BY <1>1, <1>2, <3>1 DEF IndexIInv, IndexServer, Filed
  <2>3. CASE w.what = "read"
    <3> DEFINE s == Largest({srv.seen[x], w.row.seen})
    <3>1. srv' = [srv EXCEPT !.seen[x] = s, !.signal = TRUE]
      BY <2>3 DEF Written
    <3>2. srv.seen[x] \in 0 .. MaxAt
      BY <1>1 DEF IndexIInv, IndexServer
    <3>3. s \in 0 .. MaxAt
      BY <1>1, <3>2, LaterInstant
    <3> HIDE DEF x, s
    <3> QED BY <1>1, <1>2, <2>3, <3>1, <3>3 DEF IndexIInv, IndexServer, Filed
  <2> QED BY <1>1, <2>1, <2>2, <2>3 DEF IndexWrite
<1>4. /\ InFlight' \subseteq InFlight \cup {u} /\ u \in InFlight'
      /\ \A e \in InFlight \ {w} : e \in InFlight'
      /\ \A e \in InFlight' : writes'[e] \in Nat \ {0}
  BY <1>2, WriteReaches DEF IndexIInv, IndexWrites
<1>5. u \in IndexWrite /\ u.what = w.what /\ u.row = w.row
  BY <1>1 DEF IndexWrite
<1> HIDE DEF u
<1>6. IndexWrites'
  BY <1>3, <1>4, <1>5 DEF IndexIInv, IndexWrites
<1>7. IndexSaved'
  BY <1>2, <1>3, <1>4, <1>5 DEF IndexIInv, IndexSaved
<1> QED BY <1>2, <1>3, <1>6, <1>7, IndexFrames DEF IndexIInv

LEMMA TouchStep ==
    ASSUME IndexIInv, NEW x \in Rows, Touch(x)
    PROVE  IndexIInv'
<1>1. Clock + 1 \in 0 .. MaxAt
  BY IndexRowsTyped DEF Touch, IndexIInv
<1> DEFINE n == Clock + 1
           b == srv.signal \/ x \in srv.saved
<1>2. /\ srv' = [srv EXCEPT !.at[x] = n, !.signal = b] /\ b \in BOOLEAN
      /\ UNCHANGED <<range, view, marks, totals, pull, more, writes, dialogs>>
  BY DEF Touch
<1> HIDE DEF n, b
<1>3. n \in 0 .. MaxAt
  BY <1>1 DEF n
<1>4. IndexServer' /\ srv'.saved = srv.saved /\ srv'.dropped = srv.dropped
  BY <1>2, <1>3 DEF IndexIInv, IndexServer
<1>5. IndexWrites' /\ IndexSaved'
  BY <1>2, <1>4 DEF IndexIInv, IndexWrites, IndexSaved, InFlight, Filed
<1> QED BY <1>2, <1>4, <1>5, IndexFrames DEF IndexIInv

-----------------------------------------------------------------------------
LEMMA IndexStart == IndexInit => IndexIInv
<1> SUFFICES ASSUME IndexInit PROVE IndexIInv
  OBVIOUS
<1>1. PICK s \in IndexStarts :
        /\ srv = [at |-> s.at, seen |-> s.seen, saved |-> s.saved, signal |-> FALSE, dropped |-> {}]
        /\ range = s.range /\ pull = NewPull(s.range)
  BY DEF IndexInit
<1>2. view = NoView /\ marks = NoMarks /\ totals = [account |-> Unasked, unread |-> 0]
      /\ more = [busy |-> FALSE, flights |-> {}] /\ writes = EmptyBag
      /\ dialogs = [failure |-> None, kind |-> None, save |-> None, delete |-> {}]
  BY DEF IndexInit
<1>3. IndexServer
  BY <1>1, <1>2, IndexStartsAssumption DEF IndexServer, Ranges, Counts
<1>4. InFlight = {}
  BY <1>2 DEF InFlight, BagToSet, EmptyBag, SetToBag
<1>5. IndexWrites /\ IndexMarks /\ IndexSaved
  BY <1>2, <1>4, NoMarksTyped DEF IndexWrites, IndexMarks, IndexSaved
<1>6. IndexView
  BY <1>2 DEF IndexView, NoView, OnceEach, RangesDontMix
<1>7. IndexPull
  BY <1>1, <1>3, NewPullTyped DEF IndexPull, IndexServer
<1>8. IndexDialogs /\ IndexMore
  BY <1>2 DEF IndexDialogs, IndexMore
<1> QED BY <1>3, <1>5, <1>6, <1>7, <1>8 DEF IndexIInv

LEMMA IndexStep == IndexIInv /\ [IndexNext]_indexVars => IndexIInv'
<1> SUFFICES ASSUME IndexIInv, [IndexNext]_indexVars PROVE IndexIInv'
  OBVIOUS
<1>1. CASE UNCHANGED indexVars
  BY <1>1, IndexFrames DEF indexVars, IndexIInv
<1>2. CASE \E r \in Ranges : ChangeRange(r)
  BY <1>2, ChangeRangeStep
<1>3. CASE Retry \/ Pulls \/ PullFails \/ LoadMore
  BY <1>3, RetryStep, IndexPullAnswers, PullLandsStep, PullFailsStep, LoadMoreStep DEF Pulls
<1>4. CASE \E f \in more.flights : AnswerMore(f) \/ MoreLands(f) \/ MoreFails(f)
  BY <1>4, AnswerMoreStep, MoreEndsStep
<1>5. CASE \E x \in Rows : OnSave(x) \/ StartUnsaved(x) \/ AskDelete(x) \/ Read(x) \/ Touch(x)
  BY <1>5, SaveAskedStep, StartStep, DeleteStep, ReadStep, TouchStep
<1>6. CASE ConfirmSave \/ CancelSave \/ RetrySave \/ CancelDelete \/ ConfirmDelete
  BY <1>6, SaveAskedStep, DeleteStep
<1>7. CASE \E w \in InFlight : Written(w) \/ SaveFails(w) \/ WriteFails(w) \/ Answers(w)
  BY <1>7, WrittenStep, SaveEndsStep, WriteFailsStep, StartStep, DeleteStep, ReadStep DEF Answers
<1>8. CASE MirrorChanged
  BY <1>8, MirrorChangedStep
<1> QED BY <1>1, <1>2, <1>3, <1>4, <1>5, <1>6, <1>7, <1>8 DEF IndexNext

LEMMA IndexSafe == IndexIInv => IndexInv
<1> SUFFICES ASSUME IndexIInv PROVE IndexInv
  OBVIOUS
<1>1. IndexTypeOK
  BY DEF IndexIInv, IndexServer, IndexView, IndexPull, IndexMore, IndexFlight, IndexMarks, IndexTypeOK
<1>2. OnePageAtATime
  <2>1. CASE more.busy
    BY <2>1, FS_Singleton DEF OnePageAtATime, IndexIInv, IndexMore
  <2>2. CASE ~more.busy
    BY <2>2, FS_EmptySet DEF OnePageAtATime, IndexIInv, IndexMore
  <2> QED BY <2>1, <2>2
<1>3. RangesDontMix /\ SavedIsNoLie
  BY DEF IndexIInv, IndexView, IndexSaved, SavedIsNoLie, Filed
<1> QED BY <1>1, <1>2, <1>3 DEF IndexInv

(* Whatever the accounts, pages and faults: the list shows rows of one range, is extended by
   one page at a time, and shows no row as saved that is neither filed nor being saved
   (useSessionIndex guardRange, loadingMore, optimisticSaved). *)
THEOREM IndexIsOneList == IndexSpec => []IndexInv
<1>1. IndexIInv /\ [IndexNext]_indexVars => IndexIInv'
  BY IndexStep
<1> QED BY <1>1, IndexStart, IndexSafe, PTL DEF IndexSpec
=============================================================================
