---------------------------- MODULE AccountChannel ----------------------------
(* The account's live signals in a browser tab (frontend lib/accountChannel.ts and
   hooks/use-account-channel.ts): one channel shared by every page and by the lamp
   of the side bar, the batching window of signals, the visibility gate, and the
   poll that stands in while signals are away. The connection below belongs to the
   pool (lib/relayClientPool.ts): here it only has a state. Signals carry a kind and
   no data, so they are a set; a page is stale from a change it shows until its next
   pull, and a pull reads what the server has at that time.                  *)
EXTENDS Naturals, FiniteSets

CONSTANTS Kinds,    \* kinds of signals
          Viewers,  \* pages that may subscribe
          KindsOf   \* the kinds each of them subscribes to

VARIABLES link,     \* the pool's connection, and whether its signal source is alive
          chan,     \* the handle of startAccountChannel; on is FALSE without one
          lamp,     \* mounted: whether a lamp is; shown: what it shows
          mounted,  \* the pages that subscribe
          visible,  \* the visibility of the document
          stale,    \* mounted pages that show something older than the server's
          signalWire      \* signals on their way

chanVars == <<link, chan, lamp, mounted, visible, stale, signalWire>>

NoChannel == [on |-> FALSE, live |-> FALSE, heard |-> FALSE, st |-> "connecting",
              window |-> FALSE, pending |-> {}]

ChannelInit ==
    /\ link = [st |-> "none", signals |-> FALSE]
    /\ chan = NoChannel
    /\ lamp = [mounted |-> FALSE, shown |-> "connecting"]
    /\ mounted = {} /\ stale = {} /\ signalWire = {}
    /\ visible \in BOOLEAN

-----------------------------------------------------------------------------
(* The handle.                                                               *)

SetState(c, st) == [c EXCEPT !.st = st]

\* What a change of the connection's state does to the handle; "connected" also pulls.
OnStateChange(c, st) ==
    [c EXCEPT !.heard = TRUE, !.live = st = "connected",
              !.st = IF st = "connected" THEN "connected" ELSE "connecting"]

OnSignalClosed(c) ==
    LET quiet == [c EXCEPT !.live = FALSE]
    IN  IF c.heard THEN quiet ELSE SetState(quiet, "disconnected")

OpenWindowAlways(c) == [c EXCEPT !.window = TRUE]

OpenWindow(c) == IF c.on THEN [c EXCEPT !.window = TRUE] ELSE c

CloseWindow(c) == [c EXCEPT !.window = FALSE, !.pending = {}]

\* A handle that has been stopped calls nobody back.
Tells(c) == lamp' = [lamp EXCEPT !.shown = IF c.on THEN c.st ELSE lamp.shown]

\* A subscriber that leaves stops the channel when nobody is left.
Unsubscribed(c, pages, lampMounted) ==
    IF pages = {} /\ ~lampMounted THEN NoChannel ELSE c

\* fanOut of one kind, or of all of them (null): the pull of a page may unmount pages,
\* at once and before the caller goes on to open a window. Nothing comes through to a
\* page nobody sees. c is the handle as the caller leaves it.
RefreshStrict(c, kinds, leaving, opens) ==
    LET called == {v \in mounted : visible /\ c.on /\ kinds \subseteq KindsOf[v]}
        after == IF leaving = {} THEN c ELSE Unsubscribed(c, mounted \ leaving, lamp.mounted)
    IN  /\ leaving \subseteq mounted /\ (called = {} => leaving = {})
        /\ mounted' = mounted \ leaving
        /\ stale' = stale \ (called \cup leaving)
        /\ chan' = IF opens THEN OpenWindow(after) ELSE after

Refresh(c, kinds, leaving, opens) ==
    LET called == {v \in mounted : visible /\ c.on /\ KindsOf[v] \cap kinds # {}}
        after == IF leaving = {} THEN c ELSE Unsubscribed(c, mounted \ leaving, lamp.mounted)
    IN  /\ leaving \subseteq mounted /\ (called = {} => leaving = {})
        /\ mounted' = mounted \ leaving
        /\ stale' = stale \ (called \cup leaving)
        /\ chan' = IF opens THEN OpenWindow(after) ELSE after

\* Who is left of the lamp's reading once the channel has been stopped.
LampAfter == lamp' =
    [lamp EXCEPT !.shown = IF chan.on /\ ~chan'.on THEN "connecting"
                           ELSE IF chan'.on THEN chan'.st ELSE lamp.shown]

\* ensureChannel and subscribeSignals: a handle that comes late to a connection that is
\* up is told so, one that finds no connection has it built.
StartUntold(l) == [NoChannel EXCEPT !.on = TRUE]

Start(l) ==
    LET new == [NoChannel EXCEPT !.on = TRUE]
    IN  IF l.st = "connected" THEN OnStateChange(new, "connected") ELSE new

Ensure(l) == IF l.st = "none" THEN [l EXCEPT !.st = "minting"] ELSE l

-----------------------------------------------------------------------------
(* The tab.                                                                  *)

\* A page's first load does not go through the channel. The first subscriber starts
\* it; over a connection that is up its start pulls at once.
MountPage(v) ==
    /\ v \notin mounted
    /\ mounted' = mounted \cup {v}
    /\ IF chan.on THEN UNCHANGED <<chan, link, lamp>>
       ELSE chan' = Start(link) /\ link' = Ensure(link) /\ Tells(chan')
    /\ UNCHANGED <<visible, stale, signalWire>>

UnmountPageForgets(v) ==
    /\ v \in mounted
    /\ mounted' = mounted \ {v}
    /\ chan' = Unsubscribed(chan, mounted', lamp.mounted)
    /\ LampAfter
    /\ UNCHANGED <<link, visible, signalWire, stale>>

UnmountPage(v) ==
    /\ v \in mounted
    /\ mounted' = mounted \ {v}
    /\ stale' = stale \ {v}
    /\ chan' = Unsubscribed(chan, mounted', lamp.mounted)
    /\ LampAfter
    /\ UNCHANGED <<link, visible, signalWire>>

MountLamp ==
    /\ ~lamp.mounted
    /\ chan' = IF chan.on THEN chan ELSE Start(link)
    /\ link' = IF chan.on THEN link ELSE Ensure(link)
    /\ lamp' = [mounted |-> TRUE, shown |-> chan'.st]
    /\ UNCHANGED <<mounted, visible, stale, signalWire>>

UnmountLamp ==
    /\ lamp.mounted
    /\ chan' = Unsubscribed(chan, mounted, FALSE)
    /\ lamp' = [mounted |-> FALSE, shown |-> IF chan'.on THEN lamp.shown ELSE "connecting"]
    /\ UNCHANGED <<link, mounted, visible, stale, signalWire>>

\* retryAccountChannel: the lamp offers it only while it shows "disconnected".
Retry ==
    /\ lamp.mounted /\ lamp.shown = "disconnected"
    /\ chan' = Start(link)
    /\ link' = Ensure(link)
    /\ lamp' = [lamp EXCEPT !.shown = chan'.st]
    /\ UNCHANGED <<mounted, visible, stale, signalWire>>

Hide ==
    /\ visible /\ visible' = FALSE
    /\ UNCHANGED <<link, chan, lamp, mounted, stale, signalWire>>

\* onVisibilityChange: the window is emptied, then everything is pulled.
Show ==
    /\ ~visible /\ visible' = TRUE
    /\ chan' = CloseWindow(chan)
    /\ stale' = IF chan.on THEN {} ELSE stale
    /\ UNCHANGED <<link, lamp, mounted, signalWire>>

-----------------------------------------------------------------------------
(* The timers and the signals.                                               *)

\* dispatchSignal: the first of a burst goes through, the others wait for the window.
SignalArrives(k, leaving) ==
    /\ k \in signalWire /\ signalWire' = signalWire \ {k}
    /\ \/ /\ ~chan.on \/ ~visible
          /\ leaving = {} /\ UNCHANGED <<chan, mounted, stale, lamp>>
       \/ /\ chan.on /\ visible /\ chan.window
          /\ chan' = [chan EXCEPT !.pending = chan.pending \cup {k}]
          /\ leaving = {} /\ UNCHANGED <<mounted, stale, lamp>>
       \/ /\ chan.on /\ visible /\ ~chan.window
          /\ Refresh(chan, {k}, leaving, TRUE) /\ LampAfter
    /\ UNCHANGED <<link, visible>>

\* The window ends: what it held back goes out kind by kind, and another one opens.
WindowFires(leaving) ==
    /\ chan.window
    /\ Refresh(CloseWindow(chan), chan.pending, leaving, chan.pending # {})
    /\ LampAfter
    /\ UNCHANGED <<link, visible, signalWire>>

\* The poll gives way while the signals are there.
PollFires(leaving) ==
    /\ chan.on /\ ~chan.live /\ visible
    /\ Refresh(chan, Kinds, leaving, FALSE) /\ LampAfter
    /\ UNCHANGED <<link, visible, signalWire>>

-----------------------------------------------------------------------------
(* The connection, and the server behind it.                                 *)

\* A relay client of some page has the connection built.
AcquireElsewhere ==
    /\ link.st = "none" /\ link' = Ensure(link)
    /\ UNCHANGED <<chan, lamp, mounted, visible, stale, signalWire>>

NoTicket ==
    /\ link.st = "minting"
    /\ link' = [link EXCEPT !.st = "none"]
    /\ chan' = IF chan.on THEN OnSignalClosed(chan) ELSE chan
    /\ Tells(chan')
    /\ UNCHANGED <<mounted, visible, stale, signalWire>>

\* The connection dials: the first time with its ticket, later by its redial timer.
Dials ==
    /\ link.st \in {"minting", "reconnecting"}
    /\ link' = [link EXCEPT !.st = "connecting"]
    /\ chan' = IF chan.on THEN OnStateChange(chan, "connecting") ELSE chan
    /\ Tells(chan')
    /\ UNCHANGED <<mounted, visible, stale, signalWire>>

SignalsOpen(leaving) ==
    /\ link.st = "connecting"
    /\ link' = [st |-> "connected", signals |-> TRUE]
    /\ IF chan.on THEN Refresh(OnStateChange(chan, "connected"), Kinds, leaving, FALSE) /\ LampAfter
       ELSE leaving = {} /\ UNCHANGED <<chan, mounted, stale, lamp>>
    /\ UNCHANGED <<visible, signalWire>>

\* handleClose: the signals are declared closed first, then the state changes.
SignalsClose ==
    /\ link.st \in {"connecting", "connected"}
    /\ link' = [st |-> "reconnecting", signals |-> FALSE]
    /\ chan' = IF chan.on THEN OnStateChange(OnSignalClosed(chan), "reconnecting") ELSE chan
    /\ Tells(chan')
    /\ signalWire' = {}
    /\ UNCHANGED <<mounted, visible, stale>>

\* handleClose once more, on a redial whose ticket was refused: no state changes.
RedialRefused ==
    /\ link.st = "reconnecting" /\ link' = link
    /\ chan' = IF chan.on THEN OnSignalClosed(chan) ELSE chan
    /\ Tells(chan')
    /\ UNCHANGED <<mounted, visible, stale, signalWire>>

\* The reserved channel is closed by the server; the socket goes on.
SourceBreaks ==
    /\ link.signals
    /\ link' = [link EXCEPT !.signals = FALSE]
    /\ chan' = IF chan.on THEN OnSignalClosed(chan) ELSE chan
    /\ signalWire' = {}
    /\ Tells(chan')
    /\ UNCHANGED <<mounted, visible, stale>>

\* Something of the account changes; while the source is alive the server says so.
Change(k) ==
    /\ stale' = stale \cup {v \in mounted : k \in KindsOf[v]}
    /\ signalWire' = IF link.signals THEN signalWire \cup {k} ELSE signalWire
    /\ UNCHANGED <<link, chan, lamp, mounted, visible>>

TabNext ==
    \/ \E v \in Viewers : MountPage(v) \/ UnmountPage(v)
    \/ MountLamp \/ UnmountLamp \/ Retry \/ Hide \/ Show

Signals(leaving) == \E k \in Kinds : SignalArrives(k, leaving)

ChannelNext ==
    \/ TabNext
    \/ \E leaving \in SUBSET Viewers :
          Signals(leaving) \/ WindowFires(leaving) \/ PollFires(leaving) \/ SignalsOpen(leaving)
    \/ AcquireElsewhere \/ NoTicket \/ Dials \/ SignalsClose \/ RedialRefused \/ SourceBreaks
    \/ \E k \in Kinds : Change(k)

\* Timers fire and frames on an open socket arrive. Nothing is assumed of the dialling.
ChannelFair ==
    /\ WF_chanVars(\E leaving \in SUBSET Viewers : WindowFires(leaving))
    /\ WF_chanVars(\E leaving \in SUBSET Viewers : PollFires(leaving))
    /\ \A k \in Kinds : WF_chanVars(\E leaving \in SUBSET Viewers : SignalArrives(k, leaving))

ChannelSpec == ChannelInit /\ [][ChannelNext]_chanVars /\ ChannelFair

-----------------------------------------------------------------------------
(* Properties.                                                               *)

LampStates == {"connected", "connecting", "disconnected"}

ChannelTypeOK ==
    /\ link \in [st : {"none", "minting", "connecting", "connected", "reconnecting"}, signals : BOOLEAN]
    /\ chan \in [on : BOOLEAN, live : BOOLEAN, heard : BOOLEAN, st : LampStates,
                 window : BOOLEAN, pending : SUBSET Kinds]
    /\ lamp \in [mounted : BOOLEAN, shown : LampStates]
    /\ mounted \subseteq Viewers /\ stale \subseteq mounted
    /\ visible \in BOOLEAN /\ signalWire \subseteq Kinds

(* A channel runs exactly as long as somebody wants it, and leaves no timer behind:
   a pull that unmounts the last subscriber stops it in the middle of its own
   dispatch, before that dispatch opens the next window.                      *)
NoTimerLeft ==
    /\ chan.on <=> (mounted # {} \/ lamp.mounted)
    /\ chan.window => chan.on
    /\ chan.pending # {} => chan.window

(* The lamp says "connected" exactly while the connection is, through late starts of
   the channel and restarts, and "connecting" only while somebody builds, dials or
   redials.                                                                   *)
LampIsTrue == lamp.mounted =>
    /\ lamp.shown = "connected" <=> link.st = "connected"
    /\ lamp.shown = "connecting" => link.st # "none"

(* A page somebody looks at does not stay behind: every change is pulled, by a
   signal, by the window's end or by the poll, unless the channel believes in a
   source that has died.                                                      *)
StaleIsPulled == \A v \in Viewers :
    v \in stale ~> (v \notin stale \/ ~visible \/ (chan.live /\ ~link.signals))

(* The account channel: no timer outlives what it serves, and the lamp shows
   the state of the stream. *)
ChannelInv == ChannelTypeOK /\ NoTimerLeft /\ LampIsTrue

-----------------------------------------------------------------------------
(* What the repository says, or a user would expect, and the code does not       *)
(* keep: TLC finds each of these violated (README, section 8).                   *)

(* "disconnected" is the reading that asks for the user: nobody dials any more.   *)
DisconnectedIsFinal ==
    lamp.mounted /\ lamp.shown = "disconnected" => link.st \in {"none", "minting"}

(* The poll stands in for signals that are away.                             *)
PollStandsIn == chan.live => link.signals
=============================================================================
