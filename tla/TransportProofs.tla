--------------------------- MODULE TransportProofs ---------------------------
(* What is proved of the browser's transport, for every number of pages, calls,
   targets, channels, sockets, kinds of signals and rows: AccountChannel keeps ChannelInv,
   ClientPool keeps PoolInv, RelayLink keeps LinkInv and SessionStream keeps StreamInv.  *)
EXTENDS AccountChannel, ClientPool, RelayLink, SessionStream,
        SequenceTheorems, FiniteSetTheorems, WellFoundedInduction, TLAPS

-----------------------------------------------------------------------------
(* The account channel. Its lamp repeats what the handle says, and the handle says
   what the connection is although it only hears of changes: a handle that starts
   late is told of a connection that is up, and one that has heard of no change
   yet is the only one a closed source turns to "disconnected".               *)

Follows ==
    /\ lamp.mounted => lamp.shown = chan.st
    /\ chan.on =>
        /\ chan.st = "connected" <=> link.st = "connected"
        /\ chan.st = "connected" => chan.heard
        /\ link.st \in {"none", "minting"} => ~chan.heard
        /\ link.st = "none" => chan.st # "connecting"

ChannelIInv == ChannelTypeOK /\ NoTimerLeft /\ Follows

LinkType == [st : {"none", "minting", "connecting", "connected", "reconnecting"}, signals : BOOLEAN]
ChanType == [on : BOOLEAN, live : BOOLEAN, heard : BOOLEAN, st : LampStates,
             window : BOOLEAN, pending : SUBSET Kinds]
LampType == [mounted : BOOLEAN, shown : LampStates]
RestTyped == /\ mounted \subseteq Viewers /\ stale \subseteq mounted
             /\ visible \in BOOLEAN /\ signalWire \subseteq Kinds

(* The type invariant variable by variable.                                  *)
LEMMA ChannelTypes ==
    ChannelTypeOK <=> link \in LinkType /\ chan \in ChanType /\ lamp \in LampType /\ RestTyped
BY DEF ChannelTypeOK, LinkType, ChanType, LampType, RestTyped

(* Whatever is done to a handle leaves a handle.                             *)
LEMMA HandleTyped ==
    /\ NoChannel \in ChanType
    /\ \A l : Start(l) \in ChanType
    /\ \A c \in ChanType :
        /\ \A st : OnStateChange(c, st) \in ChanType
        /\ OnSignalClosed(c) \in ChanType
        /\ OpenWindow(c) \in ChanType /\ CloseWindow(c) \in ChanType
        /\ \A pages, m : Unsubscribed(c, pages, m) \in ChanType
<1>1. NoChannel \in ChanType
  BY DEF NoChannel, ChanType, LampStates
<1>2. ASSUME NEW c \in ChanType, NEW st PROVE OnStateChange(c, st) \in ChanType
  BY DEF OnStateChange, ChanType, LampStates
<1>3. ASSUME NEW l PROVE Start(l) \in ChanType
  <2>1. [NoChannel EXCEPT !.on = TRUE] \in ChanType
    BY DEF NoChannel, ChanType, LampStates
  <2> QED BY <2>1, <1>2 DEF Start
<1>4. ASSUME NEW c \in ChanType PROVE OnSignalClosed(c) \in ChanType
  <2>1. [c EXCEPT !.live = FALSE] \in ChanType
    BY DEF ChanType
  <2>2. SetState([c EXCEPT !.live = FALSE], "disconnected") \in ChanType
    BY <2>1 DEF SetState, ChanType, LampStates
  <2> QED BY <2>1, <2>2 DEF OnSignalClosed
<1>5. ASSUME NEW c \in ChanType PROVE OpenWindow(c) \in ChanType /\ CloseWindow(c) \in ChanType
  BY DEF OpenWindow, CloseWindow, ChanType
<1>6. ASSUME NEW c \in ChanType, NEW pages, NEW m PROVE Unsubscribed(c, pages, m) \in ChanType
  BY <1>1 DEF Unsubscribed
<1> QED BY <1>1, <1>2, <1>3, <1>4, <1>5, <1>6

(* What a handle says when it starts: what it finds.                         *)
LEMMA StartSays ==
    ASSUME NEW l
    PROVE  /\ Start(l).on /\ ~Start(l).window /\ Start(l).pending = {}
           /\ l.st = "connected" => Start(l).st = "connected" /\ Start(l).heard
           /\ l.st # "connected" => Start(l).st = "connecting" /\ ~Start(l).heard
BY DEF Start, OnStateChange, NoChannel

(* A handle that is told the connection is up.                               *)
LEMMA ConnectedSays ==
    ASSUME NEW c \in ChanType
    PROVE  LET d == OnStateChange(c, "connected") IN
           /\ d.on = c.on /\ d.window = c.window /\ d.pending = c.pending
           /\ d.st = "connected" /\ d.heard
BY DEF OnStateChange, ChanType

LEMMA ChannelStep == ChannelIInv /\ [ChannelNext]_chanVars => ChannelIInv'
<1> SUFFICES ASSUME ChannelIInv, [ChannelNext]_chanVars PROVE ChannelIInv'
  OBVIOUS
<1> USE DEF ChannelIInv
<1>a. link \in LinkType /\ chan \in ChanType /\ lamp \in LampType /\ RestTyped
  BY ChannelTypes
<1>b. ASSUME link' \in LinkType, chan' \in ChanType, lamp' \in LampType, RestTyped'
      PROVE  ChannelTypeOK'
  BY <1>b DEF ChannelTypeOK, LinkType, ChanType, LampType, RestTyped
<1>1. ASSUME NEW v \in Viewers, MountPage(v) PROVE ChannelIInv'
  <2>1. link' \in LinkType
    BY <1>1, <1>a DEF LinkType, RestTyped, Ensure, MountPage
  <2>2. chan' \in ChanType
    BY <1>1, <1>a, HandleTyped DEF MountPage
  <2>3. lamp' \in LampType
    BY <1>1, <1>a, <2>2, StartSays DEF LinkType, ChanType, LampType, RestTyped,
       LampStates, NoChannel, Ensure, Tells, MountPage
  <2>4. RestTyped'
    BY <1>1, <1>a DEF LinkType, ChanType, LampType, RestTyped, LampStates, NoChannel,
       Ensure, Tells, MountPage
  <2>5. NoTimerLeft'
    BY <1>1, <1>a, <2>2, StartSays DEF LinkType, ChanType, LampType, RestTyped,
       LampStates, NoChannel, NoTimerLeft, Ensure, Tells, MountPage
  <2>6. Follows'
    BY <1>1, <1>a, <2>2, StartSays DEF LinkType, ChanType, LampType, RestTyped,
       LampStates, NoChannel, NoTimerLeft, Follows, Ensure, Tells, MountPage
  <2> QED BY <2>1, <2>2, <2>3, <2>4, <2>5, <2>6, <1>b
<1>2. ASSUME NEW v \in Viewers, UnmountPage(v) PROVE ChannelIInv'
  <2>1. link' \in LinkType
    BY <1>2, <1>a DEF LinkType, RestTyped, UnmountPage
  <2>2. chan' \in ChanType
    BY <1>2, <1>a, HandleTyped DEF UnmountPage
  <2>3. lamp' \in LampType
    BY <1>2, <1>a, <2>2 DEF LinkType, ChanType, LampType, RestTyped, LampStates,
       NoChannel, UnmountPage, Unsubscribed, LampAfter
  <2>4. RestTyped'
    BY <1>2, <1>a DEF LinkType, ChanType, LampType, RestTyped, LampStates, NoChannel,
       UnmountPage, Unsubscribed, LampAfter
  <2>5. NoTimerLeft'
    BY <1>2, <1>a, <2>2 DEF LinkType, ChanType, LampType, RestTyped, LampStates,
       NoChannel, NoTimerLeft, UnmountPage, Unsubscribed, LampAfter
  <2>6. Follows'
    BY <1>2, <1>a, <2>2 DEF LinkType, ChanType, LampType, RestTyped, LampStates,
       NoChannel, NoTimerLeft, Follows, UnmountPage, Unsubscribed, LampAfter
  <2> QED BY <2>1, <2>2, <2>3, <2>4, <2>5, <2>6, <1>b
<1>3. CASE MountLamp
  <2>1. link' \in LinkType
    BY <1>3, <1>a DEF LinkType, RestTyped, Ensure, MountLamp
  <2>2. chan' \in ChanType
    BY <1>3, <1>a, HandleTyped DEF MountLamp
  <2>3. lamp' \in LampType
    BY <1>3, <1>a, <2>2, StartSays DEF LinkType, ChanType, LampType, RestTyped,
       LampStates, NoChannel, MountLamp, Ensure
  <2>4. RestTyped'
    BY <1>3, <1>a DEF LinkType, ChanType, LampType, RestTyped, LampStates, NoChannel,
       MountLamp, Ensure
  <2>5. NoTimerLeft'
    BY <1>3, <1>a, <2>2, StartSays DEF LinkType, ChanType, LampType, RestTyped,
       LampStates, NoChannel, NoTimerLeft, MountLamp, Ensure
  <2>6. Follows'
    BY <1>3, <1>a, <2>2, StartSays DEF LinkType, ChanType, LampType, RestTyped,
       LampStates, NoChannel, NoTimerLeft, Follows, MountLamp, Ensure
  <2> QED BY <2>1, <2>2, <2>3, <2>4, <2>5, <2>6, <1>b
<1>4. CASE UnmountLamp
  <2>1. link' \in LinkType
    BY <1>4, <1>a DEF LinkType, RestTyped, UnmountLamp
  <2>2. chan' \in ChanType
    BY <1>4, <1>a, HandleTyped DEF UnmountLamp
  <2>3. lamp' \in LampType
    BY <1>4, <1>a, <2>2 DEF LinkType, ChanType, LampType, RestTyped, LampStates,
       NoChannel, UnmountLamp, Unsubscribed
  <2>4. RestTyped'
    BY <1>4, <1>a DEF LinkType, ChanType, LampType, RestTyped, LampStates, NoChannel,
       UnmountLamp, Unsubscribed
  <2>5. NoTimerLeft'
    BY <1>4, <1>a, <2>2 DEF LinkType, ChanType, LampType, RestTyped, LampStates,
       NoChannel, NoTimerLeft, UnmountLamp, Unsubscribed
  <2>6. Follows'
    BY <1>4, <1>a, <2>2 DEF LinkType, ChanType, LampType, RestTyped, LampStates,
       NoChannel, NoTimerLeft, Follows, UnmountLamp, Unsubscribed
  <2> QED BY <2>1, <2>2, <2>3, <2>4, <2>5, <2>6, <1>b
<1>5. CASE Retry
  <2>1. link' \in LinkType
    BY <1>5, <1>a DEF LinkType, RestTyped, Ensure, Retry
  <2>2. chan' \in ChanType
    BY <1>5, <1>a, HandleTyped DEF Retry
  <2>3. lamp' \in LampType
    BY <1>5, <1>a, <2>2, StartSays DEF LinkType, ChanType, LampType, RestTyped,
       LampStates, NoChannel, Retry, Ensure
  <2>4. RestTyped'
    BY <1>5, <1>a DEF LinkType, ChanType, LampType, RestTyped, LampStates, NoChannel,
       Retry, Ensure
  <2>5. NoTimerLeft'
    BY <1>5, <1>a, <2>2, StartSays DEF LinkType, ChanType, LampType, RestTyped,
       LampStates, NoChannel, NoTimerLeft, Retry, Ensure
  <2>6. Follows'
    BY <1>5, <1>a, <2>2, StartSays DEF LinkType, ChanType, LampType, RestTyped,
       LampStates, NoChannel, NoTimerLeft, Follows, Retry, Ensure
  <2> QED BY <2>1, <2>2, <2>3, <2>4, <2>5, <2>6, <1>b
<1>6. CASE Hide
  <2>1. link' \in LinkType
    BY <1>6, <1>a DEF LinkType, RestTyped, Hide
  <2>2. chan' \in ChanType
    BY <1>6, <1>a, HandleTyped DEF Hide
  <2>3. lamp' \in LampType
    BY <1>6, <1>a, <2>2 DEF LinkType, ChanType, LampType, RestTyped, LampStates,
       NoChannel, Hide
  <2>4. RestTyped'
    BY <1>6, <1>a DEF LinkType, ChanType, LampType, RestTyped, LampStates, NoChannel, Hide
  <2>5. NoTimerLeft'
    BY <1>6, <1>a, <2>2 DEF LinkType, ChanType, LampType, RestTyped, LampStates,
       NoChannel, NoTimerLeft, Hide
  <2>6. Follows'
    BY <1>6, <1>a, <2>2 DEF LinkType, ChanType, LampType, RestTyped, LampStates,
       NoChannel, NoTimerLeft, Follows, Hide
  <2> QED BY <2>1, <2>2, <2>3, <2>4, <2>5, <2>6, <1>b
<1>7. CASE Show
  <2>1. link' \in LinkType
    BY <1>7, <1>a DEF LinkType, RestTyped, Show
  <2>2. chan' \in ChanType
    BY <1>7, <1>a, HandleTyped DEF Show
  <2>3. lamp' \in LampType
    BY <1>7, <1>a, <2>2 DEF LinkType, ChanType, LampType, RestTyped, LampStates,
       NoChannel, Show, CloseWindow
  <2>4. RestTyped'
    BY <1>7, <1>a DEF LinkType, ChanType, LampType, RestTyped, LampStates, NoChannel,
       Show, CloseWindow
  <2>5. NoTimerLeft'
    BY <1>7, <1>a, <2>2 DEF LinkType, ChanType, LampType, RestTyped, LampStates,
       NoChannel, NoTimerLeft, Show, CloseWindow
  <2>6. Follows'
    BY <1>7, <1>a, <2>2 DEF LinkType, ChanType, LampType, RestTyped, LampStates,
       NoChannel, NoTimerLeft, Follows, Show, CloseWindow
  <2> QED BY <2>1, <2>2, <2>3, <2>4, <2>5, <2>6, <1>b
<1>8. ASSUME NEW k \in Kinds, NEW leaving \in SUBSET Viewers, SignalArrives(k, leaving) PROVE ChannelIInv'
  <2>1. link' \in LinkType
    BY <1>8, <1>a DEF LinkType, RestTyped, SignalArrives
  <2>a. [chan EXCEPT !.pending = chan.pending \cup {k}] \in ChanType
    BY <1>8, <1>a DEF ChanType
  <2>2. chan' \in ChanType
    BY <1>8, <1>a, <2>a, HandleTyped DEF SignalArrives, Refresh
  <2>3. lamp' \in LampType
    BY <1>8, <1>a, <2>2 DEF LinkType, ChanType, LampType, RestTyped, LampStates,
       NoChannel, SignalArrives, Refresh, OpenWindow, Unsubscribed, LampAfter
  <2>4. RestTyped'
    BY <1>8, <1>a DEF LinkType, ChanType, LampType, RestTyped, LampStates, NoChannel,
       SignalArrives, Refresh, OpenWindow, Unsubscribed, LampAfter
  <2>5. NoTimerLeft'
    BY <1>8, <1>a, <2>2 DEF LinkType, ChanType, LampType, RestTyped, LampStates,
       NoChannel, NoTimerLeft, SignalArrives, Refresh, OpenWindow, Unsubscribed, LampAfter
  <2>6. Follows'
    BY <1>8, <1>a, <2>2 DEF LinkType, ChanType, LampType, RestTyped, LampStates,
       NoChannel, NoTimerLeft, Follows, SignalArrives, Refresh, OpenWindow, Unsubscribed,
       LampAfter
  <2> QED BY <2>1, <2>2, <2>3, <2>4, <2>5, <2>6, <1>b
<1>9. ASSUME NEW leaving \in SUBSET Viewers, WindowFires(leaving) PROVE ChannelIInv'
  <2>1. link' \in LinkType
    BY <1>9, <1>a DEF LinkType, RestTyped, WindowFires
  <2>2. chan' \in ChanType
    BY <1>9, <1>a, HandleTyped DEF WindowFires, Refresh
  <2>3. lamp' \in LampType
    BY <1>9, <1>a, <2>2 DEF LinkType, ChanType, LampType, RestTyped, LampStates,
       NoChannel, WindowFires, Refresh, OpenWindow, CloseWindow, Unsubscribed, LampAfter
  <2>4. RestTyped'
    BY <1>9, <1>a DEF LinkType, ChanType, LampType, RestTyped, LampStates, NoChannel,
       WindowFires, Refresh, OpenWindow, CloseWindow, Unsubscribed, LampAfter
  <2>5. NoTimerLeft'
    BY <1>9, <1>a, <2>2 DEF LinkType, ChanType, LampType, RestTyped, LampStates,
       NoChannel, NoTimerLeft, WindowFires, Refresh, OpenWindow, CloseWindow,
       Unsubscribed, LampAfter
  <2>6. Follows'
    BY <1>9, <1>a, <2>2 DEF LinkType, ChanType, LampType, RestTyped, LampStates,
       NoChannel, NoTimerLeft, Follows, WindowFires, Refresh, OpenWindow, CloseWindow,
       Unsubscribed, LampAfter
  <2> QED BY <2>1, <2>2, <2>3, <2>4, <2>5, <2>6, <1>b
<1>10. ASSUME NEW leaving \in SUBSET Viewers, PollFires(leaving) PROVE ChannelIInv'
  <2>1. link' \in LinkType
    BY <1>10, <1>a DEF LinkType, RestTyped, PollFires
  <2>2. chan' \in ChanType
    BY <1>10, <1>a, HandleTyped DEF PollFires, Refresh
  <2>3. lamp' \in LampType
    BY <1>10, <1>a, <2>2 DEF LinkType, ChanType, LampType, RestTyped, LampStates,
       NoChannel, PollFires, Refresh, OpenWindow, Unsubscribed, LampAfter
  <2>4. RestTyped'
    BY <1>10, <1>a DEF LinkType, ChanType, LampType, RestTyped, LampStates, NoChannel,
       PollFires, Refresh, OpenWindow, Unsubscribed, LampAfter
  <2>5. NoTimerLeft'
    BY <1>10, <1>a, <2>2 DEF LinkType, ChanType, LampType, RestTyped, LampStates,
       NoChannel, NoTimerLeft, PollFires, Refresh, OpenWindow, Unsubscribed, LampAfter
  <2>6. Follows'
    BY <1>10, <1>a, <2>2 DEF LinkType, ChanType, LampType, RestTyped, LampStates,
       NoChannel, NoTimerLeft, Follows, PollFires, Refresh, OpenWindow, Unsubscribed,
       LampAfter
  <2> QED BY <2>1, <2>2, <2>3, <2>4, <2>5, <2>6, <1>b
<1>11. ASSUME NEW leaving \in SUBSET Viewers, SignalsOpen(leaving) PROVE ChannelIInv'
  <2>1. link' \in LinkType
    BY <1>11, <1>a DEF LinkType, RestTyped, SignalsOpen
  <2>a. OnStateChange(chan, "connected") \in ChanType
    BY <1>a, HandleTyped DEF ChanType
  <2>2. chan' \in ChanType
    BY <1>11, <1>a, <2>a, HandleTyped DEF SignalsOpen, Refresh
  <2>3. lamp' \in LampType
    BY <1>11, <1>a, <2>2, ConnectedSays, HandleTyped DEF LinkType, ChanType, LampType,
       RestTyped, LampStates, NoChannel, SignalsOpen, Refresh, OpenWindow, Unsubscribed,
       LampAfter
  <2>4. RestTyped'
    BY <1>11, <1>a DEF LinkType, ChanType, LampType, RestTyped, LampStates, NoChannel,
       SignalsOpen, Refresh, OpenWindow, Unsubscribed, LampAfter
  <2>5. NoTimerLeft'
    BY <1>11, <1>a, <2>2, ConnectedSays, HandleTyped DEF LinkType, ChanType, LampType,
       RestTyped, LampStates, NoChannel, NoTimerLeft, SignalsOpen, Refresh, OpenWindow,
       Unsubscribed, LampAfter
  <2>6. Follows'
    BY <1>11, <1>a, <2>2, ConnectedSays, HandleTyped DEF LinkType, ChanType, LampType,
       RestTyped, LampStates, NoChannel, NoTimerLeft, Follows, SignalsOpen, Refresh,
       OpenWindow, Unsubscribed, LampAfter
  <2> QED BY <2>1, <2>2, <2>3, <2>4, <2>5, <2>6, <1>b
<1>12. CASE AcquireElsewhere
  <2>1. link' \in LinkType
    BY <1>12, <1>a DEF LinkType, RestTyped, Ensure, AcquireElsewhere
  <2>2. chan' \in ChanType
    BY <1>12, <1>a, HandleTyped DEF AcquireElsewhere
  <2>3. lamp' \in LampType
    BY <1>12, <1>a, <2>2 DEF LinkType, ChanType, LampType, RestTyped, LampStates,
       NoChannel, AcquireElsewhere, Ensure
  <2>4. RestTyped'
    BY <1>12, <1>a DEF LinkType, ChanType, LampType, RestTyped, LampStates, NoChannel,
       AcquireElsewhere, Ensure
  <2>5. NoTimerLeft'
    BY <1>12, <1>a, <2>2 DEF LinkType, ChanType, LampType, RestTyped, LampStates,
       NoChannel, NoTimerLeft, AcquireElsewhere, Ensure
  <2>6. Follows'
    BY <1>12, <1>a, <2>2 DEF LinkType, ChanType, LampType, RestTyped, LampStates,
       NoChannel, NoTimerLeft, Follows, AcquireElsewhere, Ensure
  <2> QED BY <2>1, <2>2, <2>3, <2>4, <2>5, <2>6, <1>b
<1>13. CASE NoTicket
  <2>1. link' \in LinkType
    BY <1>13, <1>a DEF LinkType, RestTyped, NoTicket
  <2>2. chan' \in ChanType
    BY <1>13, <1>a, HandleTyped DEF NoTicket
  <2>3. lamp' \in LampType
    BY <1>13, <1>a, <2>2 DEF LinkType, ChanType, LampType, RestTyped, LampStates,
       NoChannel, NoTicket, OnSignalClosed, SetState, Tells
  <2>4. RestTyped'
    BY <1>13, <1>a DEF LinkType, ChanType, LampType, RestTyped, LampStates, NoChannel,
       NoTicket, OnSignalClosed, SetState, Tells
  <2>5. NoTimerLeft'
    BY <1>13, <1>a, <2>2 DEF LinkType, ChanType, LampType, RestTyped, LampStates,
       NoChannel, NoTimerLeft, NoTicket, OnSignalClosed, SetState, Tells
  <2>6. Follows'
    BY <1>13, <1>a, <2>2 DEF LinkType, ChanType, LampType, RestTyped, LampStates,
       NoChannel, NoTimerLeft, Follows, NoTicket, OnSignalClosed, SetState, Tells
  <2> QED BY <2>1, <2>2, <2>3, <2>4, <2>5, <2>6, <1>b
<1>14. CASE Dials
  <2>1. link' \in LinkType
    BY <1>14, <1>a DEF LinkType, RestTyped, Dials
  <2>2. chan' \in ChanType
    BY <1>14, <1>a, HandleTyped DEF Dials
  <2>3. lamp' \in LampType
    BY <1>14, <1>a, <2>2 DEF LinkType, ChanType, LampType, RestTyped, LampStates,
       NoChannel, Dials, OnStateChange, Tells
  <2>4. RestTyped'
    BY <1>14, <1>a DEF LinkType, ChanType, LampType, RestTyped, LampStates, NoChannel,
       Dials, OnStateChange, Tells
  <2>5. NoTimerLeft'
    BY <1>14, <1>a, <2>2 DEF LinkType, ChanType, LampType, RestTyped, LampStates,
       NoChannel, NoTimerLeft, Dials, OnStateChange, Tells
  <2>6. Follows'
    BY <1>14, <1>a, <2>2 DEF LinkType, ChanType, LampType, RestTyped, LampStates,
       NoChannel, NoTimerLeft, Follows, Dials, OnStateChange, Tells
  <2> QED BY <2>1, <2>2, <2>3, <2>4, <2>5, <2>6, <1>b
<1>15. CASE SignalsClose
  <2>1. link' \in LinkType
    BY <1>15, <1>a DEF LinkType, RestTyped, SignalsClose
  <2>2. chan' \in ChanType
    BY <1>15, <1>a, HandleTyped DEF SignalsClose
  <2>3. lamp' \in LampType
    BY <1>15, <1>a, <2>2 DEF LinkType, ChanType, LampType, RestTyped, LampStates,
       NoChannel, SignalsClose, OnSignalClosed, SetState, OnStateChange, Tells
  <2>4. RestTyped'
    BY <1>15, <1>a DEF LinkType, ChanType, LampType, RestTyped, LampStates, NoChannel,
       SignalsClose, OnSignalClosed, SetState, OnStateChange, Tells
  <2>5. NoTimerLeft'
    BY <1>15, <1>a, <2>2 DEF LinkType, ChanType, LampType, RestTyped, LampStates,
       NoChannel, NoTimerLeft, SignalsClose, OnSignalClosed, SetState, OnStateChange,
       Tells
  <2>6. Follows'
    BY <1>15, <1>a, <2>2 DEF LinkType, ChanType, LampType, RestTyped, LampStates,
       NoChannel, NoTimerLeft, Follows, SignalsClose, OnSignalClosed, SetState,
       OnStateChange, Tells
  <2> QED BY <2>1, <2>2, <2>3, <2>4, <2>5, <2>6, <1>b
<1>16. CASE RedialRefused
  <2>1. link' \in LinkType
    BY <1>16, <1>a DEF LinkType, RestTyped, RedialRefused
  <2>2. chan' \in ChanType
    BY <1>16, <1>a, HandleTyped DEF RedialRefused
  <2>3. lamp' \in LampType
    BY <1>16, <1>a, <2>2 DEF LinkType, ChanType, LampType, RestTyped, LampStates,
       NoChannel, RedialRefused, OnSignalClosed, SetState, Tells
  <2>4. RestTyped'
    BY <1>16, <1>a DEF LinkType, ChanType, LampType, RestTyped, LampStates, NoChannel,
       RedialRefused, OnSignalClosed, SetState, Tells
  <2>5. NoTimerLeft'
    BY <1>16, <1>a, <2>2 DEF LinkType, ChanType, LampType, RestTyped, LampStates,
       NoChannel, NoTimerLeft, RedialRefused, OnSignalClosed, SetState, Tells
  <2>6. Follows'
    BY <1>16, <1>a, <2>2 DEF LinkType, ChanType, LampType, RestTyped, LampStates,
       NoChannel, NoTimerLeft, Follows, RedialRefused, OnSignalClosed, SetState, Tells
  <2> QED BY <2>1, <2>2, <2>3, <2>4, <2>5, <2>6, <1>b
<1>17. CASE SourceBreaks
  <2>1. link' \in LinkType
    BY <1>17, <1>a DEF LinkType, RestTyped, SourceBreaks
  <2>2. chan' \in ChanType
    BY <1>17, <1>a, HandleTyped DEF SourceBreaks
  <2>3. lamp' \in LampType
    BY <1>17, <1>a, <2>2 DEF LinkType, ChanType, LampType, RestTyped, LampStates,
       NoChannel, SourceBreaks, OnSignalClosed, SetState, Tells
  <2>4. RestTyped'
    BY <1>17, <1>a DEF LinkType, ChanType, LampType, RestTyped, LampStates, NoChannel,
       SourceBreaks, OnSignalClosed, SetState, Tells
  <2>5. NoTimerLeft'
    BY <1>17, <1>a, <2>2 DEF LinkType, ChanType, LampType, RestTyped, LampStates,
       NoChannel, NoTimerLeft, SourceBreaks, OnSignalClosed, SetState, Tells
  <2>6. Follows'
    BY <1>17, <1>a, <2>2 DEF LinkType, ChanType, LampType, RestTyped, LampStates,
       NoChannel, NoTimerLeft, Follows, SourceBreaks, OnSignalClosed, SetState, Tells
  <2> QED BY <2>1, <2>2, <2>3, <2>4, <2>5, <2>6, <1>b
<1>18. ASSUME NEW k \in Kinds, Change(k) PROVE ChannelIInv'
  <2>1. link' \in LinkType
    BY <1>18, <1>a DEF LinkType, RestTyped, Change
  <2>2. chan' \in ChanType
    BY <1>18, <1>a, HandleTyped DEF Change
  <2>3. lamp' \in LampType
    BY <1>18, <1>a, <2>2 DEF LinkType, ChanType, LampType, RestTyped, LampStates,
       NoChannel, Change
  <2>4. RestTyped'
    BY <1>18, <1>a DEF LinkType, ChanType, LampType, RestTyped, LampStates, NoChannel,
       Change
  <2>5. NoTimerLeft'
    BY <1>18, <1>a, <2>2 DEF LinkType, ChanType, LampType, RestTyped, LampStates,
       NoChannel, NoTimerLeft, Change
  <2>6. Follows'
    BY <1>18, <1>a, <2>2 DEF LinkType, ChanType, LampType, RestTyped, LampStates,
       NoChannel, NoTimerLeft, Follows, Change
  <2> QED BY <2>1, <2>2, <2>3, <2>4, <2>5, <2>6, <1>b
<1>19. CASE UNCHANGED chanVars
  <2>1. link' \in LinkType
    BY <1>19, <1>a DEF LinkType, RestTyped, chanVars
  <2>2. chan' \in ChanType
    BY <1>19, <1>a, HandleTyped DEF chanVars
  <2>3. lamp' \in LampType
    BY <1>19, <1>a, <2>2 DEF LinkType, ChanType, LampType, RestTyped, LampStates,
       NoChannel, chanVars
  <2>4. RestTyped'
    BY <1>19, <1>a DEF LinkType, ChanType, LampType, RestTyped, LampStates, NoChannel,
       chanVars
  <2>5. NoTimerLeft'
    BY <1>19, <1>a, <2>2 DEF LinkType, ChanType, LampType, RestTyped, LampStates,
       NoChannel, NoTimerLeft, chanVars
  <2>6. Follows'
    BY <1>19, <1>a, <2>2 DEF LinkType, ChanType, LampType, RestTyped, LampStates,
       NoChannel, NoTimerLeft, Follows, chanVars
  <2> QED BY <2>1, <2>2, <2>3, <2>4, <2>5, <2>6, <1>b
<1> QED
  BY <1>1, <1>2, <1>3, <1>4, <1>5, <1>6, <1>7, <1>8, <1>9, <1>10, <1>11, <1>12, <1>13,
     <1>14, <1>15, <1>16, <1>17, <1>18, <1>19 DEF ChannelNext, TabNext, Signals

(* The account channel keeps its invariant (lib/accountChannel.ts): it runs exactly as
   long as somebody subscribes and leaves no window behind, and the lamp says
   "connected" exactly while the connection is.                              *)
THEOREM LampAndChannel == ChannelSpec => []ChannelInv
<1>1. ChannelInit => ChannelIInv
  BY DEF ChannelInit, ChannelIInv, ChannelTypeOK, NoTimerLeft, Follows, NoChannel, LampStates
<1>2. ChannelIInv => ChannelInv
  BY DEF ChannelIInv, ChannelInv, NoTimerLeft, Follows, LampIsTrue
<1> QED BY <1>1, <1>2, ChannelStep, PTL DEF ChannelSpec

-----------------------------------------------------------------------------
(* The pool of clients. An entry is right for the users when its references are the
   leases they hold, its generation is the one they were given, and its pages show
   its state; that is kept because an acquire that has to wait does so before any
   client exists (NoClientYet): the ticket then makes the entries of everybody who waits
   at once, so that no lease is ever of an entry that has been replaced.      *)

EntryType == [gen : 0 .. MaxGen, refs : Nat, idle : BOOLEAN,
              st : ClientStates, run : BOOLEAN, ready : {"run", "ok", "failed"}, live : BOOLEAN]
UserType == [at : {"idle", "opening", "ready", "held", "lost", "released"}, target : Targets,
             gen : 0 .. MaxGen, shown : ClientStates, asked : BOOLEAN]

\* Who holds a lease on t when the users are us.
HoldersIn(us, t) == {u \in Users : us[u].at \in {"held", "ready"} /\ us[u].target = t}

\* An entry e of target t that is right for the users us.
Counted(e, us, t) ==
    /\ \A u \in HoldersIn(us, t) : e.live /\ e.gen = us[u].gen
    /\ e.live => e.refs = Cardinality(HoldersIn(us, t))
    /\ ~e.live => e.refs = 0
    /\ \A u \in Pages : us[u].at = "held" /\ us[u].target = t =>
          us[u].shown = IF us[u].asked THEN "connecting" ELSE e.st
    /\ e.ready = "run" => e.run
    /\ \A u \in Calls : us[u].at = "ready" /\ us[u].target = t => e.run

Right(e, us, t) == Counted(e, us, t) /\ (e.live /\ e.refs = 0 => e.idle)

\* Acquires wait only for the ticket, and before it there is no client.
NoClientYet ==
    /\ mint # "ready" => \A t \in Targets : ~entry[t].live
    /\ mint # "minting" => orphans = {} /\ \A u \in Users : user[u].at # "opening"
    /\ \A t \in Targets : Pending(t) => entry[t].gen < MaxGen
    /\ \A u \in Users : user[u].at = "ready" => u \in Calls

AsksTyped == asks \subseteq [by : SUBSET Pages, target : Targets, gen : 0 .. MaxGen]

PoolTyped ==
    /\ mint \in {"none", "minting", "ready"}
    /\ entry \in [Targets -> EntryType]
    /\ user \in [Users -> UserType]
    /\ orphans \subseteq Pages \X Targets
    /\ AsksTyped

PoolIInv == PoolTyped /\ (\A t \in Targets : Right(entry[t], user, t)) /\ NoClientYet

LEMMA HoldersFinite ==
    ASSUME NEW us, NEW t
    PROVE  /\ IsFiniteSet(Users) /\ Cardinality(Users) \in Nat
           /\ IsFiniteSet(HoldersIn(us, t))
           /\ Cardinality(HoldersIn(us, t)) \in 0 .. Cardinality(Users)
           /\ Cardinality(HoldersIn(us, t)) = 0 <=> HoldersIn(us, t) = {}
<1>1. IsFiniteSet(Users)
  BY PoolAssumption, FS_Union DEF Users
<1>2. HoldersIn(us, t) \in SUBSET Users
  BY DEF HoldersIn
<1>3. IsFiniteSet(HoldersIn(us, t)) /\ Cardinality(HoldersIn(us, t)) <= Cardinality(Users)
  BY <1>1, <1>2, FS_Subset
<1>4. Cardinality(HoldersIn(us, t)) \in Nat /\ Cardinality(Users) \in Nat
  BY <1>1, <1>3, FS_CardinalityType
<1>5. Cardinality(HoldersIn(us, t)) = 0 <=> HoldersIn(us, t) = {}
  BY <1>3, FS_EmptySet
<1> QED BY <1>1, <1>3, <1>4, <1>5

LEMMA NobodyType ==
    /\ \A t \in Targets : Stranded(t) \in UserType /\ Stranded(t).at = "lost" /\ Stranded(t).target = t
    /\ Nobody \in UserType /\ Nobody.at = "idle"
<1>1. \A t \in Targets : Stranded(t) \in UserType /\ Stranded(t).at = "lost" /\ Stranded(t).target = t
  BY PoolAssumption DEF Stranded, UserType, ClientStates
<1>2. PICK t0 \in Targets : t0 = CHOOSE t \in Targets : TRUE
  BY PoolAssumption
<1>3. Nobody = [Stranded(t0) EXCEPT !.at = "idle"]
  BY <1>2 DEF Nobody
<1>4. PICK n \in UserType : n = Stranded(t0)
  BY <1>1
<1>5. [n EXCEPT !.at = "idle"] \in UserType /\ [n EXCEPT !.at = "idle"].at = "idle"
  BY DEF UserType
<1> QED BY <1>1, <1>3, <1>4, <1>5

LEMMA NobodyHolds ==
    ASSUME NEW us, NEW t, NEW e, Counted(e, us, t), ~e.live \/ e.refs = 0
    PROVE  HoldersIn(us, t) = {}
BY HoldersFinite DEF Counted

\* One user joins the holders: the entry gets one reference more.
LEMMA Leased ==
    ASSUME NEW us \in [Users -> UserType], NEW ws \in [Users -> UserType], NEW e \in EntryType,
           NEW t \in Targets, NEW u \in Users, Counted(e, us, t), e.live,
           u \notin HoldersIn(us, t), ws[u] = Given(u, t, e),
           \A v \in Users \ {u} : ws[v] = us[v]
    PROVE  Right(Lease(e), ws, t)
<1> DEFINE H == HoldersIn(us, t)
           f == Lease(e)
<1>1. HoldersIn(ws, t) = H \cup {u}
  BY DEF HoldersIn, Given
<1>2. Cardinality(HoldersIn(ws, t)) = Cardinality(H) + 1
  BY <1>1, HoldersFinite, FS_AddElement
<1>3. /\ f.live = e.live /\ f.gen = e.gen /\ f.refs = e.refs + 1 /\ f.st = e.st
      /\ f.run = e.run /\ f.ready = e.ready
  BY DEF Lease, EntryType
<1>4. f.refs = Cardinality(HoldersIn(ws, t)) /\ f.refs # 0
  BY <1>2, <1>3, HoldersFinite DEF Right, Counted
<1>5. \A v \in HoldersIn(ws, t) : f.live /\ f.gen = ws[v].gen
  BY <1>1, <1>3 DEF Right, Counted, HoldersIn, Given
<1>6. \A v \in Pages : ws[v].at = "held" /\ ws[v].target = t =>
          ws[v].shown = IF ws[v].asked THEN "connecting" ELSE f.st
  BY <1>3 DEF Counted, Given, Users
<1>7. \A v \in Calls : ws[v].at = "ready" /\ ws[v].target = t => f.run
  BY <1>3 DEF Counted, Given, Waits, Users
<1>8. f.ready = "run" => f.run
  BY <1>3 DEF Counted
<1> QED BY <1>3, <1>4, <1>5, <1>6, <1>7, <1>8 DEF Right, Counted

\* One of them leaves.
LEMMA Released ==
    ASSUME NEW us \in [Users -> UserType], NEW ws \in [Users -> UserType], NEW e \in EntryType,
           NEW t \in Targets, NEW u \in Users, Right(e, us, t),
           u \in HoldersIn(us, t), u \notin HoldersIn(ws, t),
           \A v \in Users \ {u} : ws[v] = us[v]
    PROVE  Right(Unlease(e), ws, t) /\ Unlease(e) \in EntryType
<1> DEFINE H == HoldersIn(us, t)
           f == Unlease(e)
<1>1. HoldersIn(ws, t) = H \ {u}
  BY DEF HoldersIn
<1>2. Cardinality(HoldersIn(ws, t)) = Cardinality(H) - 1
  BY <1>1, HoldersFinite, FS_RemoveElement
<1>3. e.live /\ e.refs = Cardinality(H) /\ e.refs # 0
  BY HoldersFinite DEF Right, Counted
<1>4. /\ f.live = e.live /\ f.gen = e.gen /\ f.refs = e.refs - 1 /\ f.st = e.st
      /\ f.idle = (e.idle \/ e.refs = 1) /\ f.run = e.run /\ f.ready = e.ready
  BY DEF Unlease, EntryType
<1>5. e.refs - 1 \in Nat /\ (e.refs - 1 = 0 => f.idle)
  BY <1>3, <1>4 DEF EntryType
<1>6. Unlease(e) \in EntryType
  BY <1>5 DEF Unlease, EntryType
<1>7. f.refs = Cardinality(HoldersIn(ws, t)) /\ (f.refs = 0 => f.idle)
  BY <1>2, <1>3, <1>4, <1>5
<1>8. \A v \in HoldersIn(ws, t) : f.live /\ f.gen = ws[v].gen
  BY <1>1, <1>4 DEF Right, Counted, HoldersIn
<1>9. \A v \in Pages : ws[v].at = "held" /\ ws[v].target = t =>
          ws[v].shown = IF ws[v].asked THEN "connecting" ELSE f.st
  <2>1. SUFFICES ASSUME NEW v \in Pages, ws[v].at = "held", ws[v].target = t
                 PROVE  ws[v].shown = IF ws[v].asked THEN "connecting" ELSE f.st
    OBVIOUS
  <2>2. v # u /\ v \in Users
    BY <2>1 DEF HoldersIn, Users
  <2> QED BY <2>1, <2>2, <1>4 DEF Right, Counted
<1>10. \A v \in Calls : ws[v].at = "ready" /\ ws[v].target = t => f.run
  <2>1. \A v \in Calls : ws[v].at = "ready" /\ ws[v].target = t => v # u /\ v \in Users
    BY DEF HoldersIn, Users
  <2> QED BY <2>1, <1>4 DEF Right, Counted
<1>11. f.ready = "run" => f.run
  BY <1>4 DEF Right, Counted
<1> QED BY <1>3, <1>4, <1>6, <1>7, <1>8, <1>9, <1>10, <1>11 DEF Right, Counted

\* What is done to somebody who holds no lease on t, before or after.
LEMMA Untouched ==
    ASSUME NEW us, NEW ws, NEW e, NEW t, NEW u \in Users, Right(e, us, t),
           u \notin HoldersIn(us, t), u \notin HoldersIn(ws, t),
           \A v \in Users \ {u} : ws[v] = us[v]
    PROVE  Right(e, ws, t)
<1>1. HoldersIn(ws, t) = HoldersIn(us, t)
  BY DEF HoldersIn
<1>2. \A v \in Users : ws[v].at \in {"held", "ready"} /\ ws[v].target = t => v # u
  BY DEF HoldersIn
<1>3. \A v \in HoldersIn(ws, t) : ws[v] = us[v]
  BY <1>1 DEF HoldersIn
<1>4. \A v \in Pages : ws[v].at = "held" /\ ws[v].target = t => ws[v] = us[v]
  BY <1>2 DEF Users
<1>5. \A v \in Calls : ws[v].at = "ready" /\ ws[v].target = t => ws[v] = us[v]
  BY <1>2 DEF Users
<1> QED BY <1>1, <1>3, <1>4, <1>5 DEF Right, Counted

\* A client is built where there was none.
LEMMA BuiltRight ==
    ASSUME NEW us \in [Users -> UserType], NEW e \in EntryType, NEW t \in Targets,
           Right(e, us, t), ~e.live, e.gen < MaxGen
    PROVE  /\ Built(e) \in EntryType /\ Built(e).live /\ Built(e).refs = 0
           /\ Built(e).gen = e.gen + 1
           /\ Counted(Built(e), us, t)
<1>1. e.gen + 1 \in 0 .. MaxGen
  BY PoolAssumption DEF EntryType
<1>2. Built(e) \in EntryType
  BY <1>1 DEF Built, EntryType, ClientStates
<1>3. HoldersIn(us, t) = {}
  BY NobodyHolds DEF Right
<1>4. \A v \in Pages : ~(us[v].at = "held" /\ us[v].target = t)
  BY <1>3 DEF HoldersIn, Users
<1>5. Built(e).live /\ Built(e).refs = 0 /\ Built(e).gen = e.gen + 1 /\ Built(e).run
  BY DEF Built
<1>6. Counted(Built(e), us, t)
  BY <1>3, <1>4, <1>5, FS_EmptySet DEF Counted
<1> QED BY <1>2, <1>5, <1>6

\* acquire, for a user that holds nothing among us.
LEMMA Acquired ==
    ASSUME PoolTyped, NoClientYet, NEW es \in [Targets -> EntryType], NEW us \in [Users -> UserType],
           NEW u \in Users, NEW t \in Targets, AcquireFrom(es, u, t),
           \A s \in Targets : Right(es[s], us, s) /\ u \notin HoldersIn(us, s),
           \A v \in Users \ {u} : us[v] = user[v],
           mint # "ready" => \A s \in Targets : ~es[s].live
    PROVE  /\ entry' \in [Targets -> EntryType] /\ user' \in [Users -> UserType]
           /\ mint' \in {"minting", "ready"}
           /\ \A s \in Targets : Right(entry'[s], user', s)
           /\ mint' # "ready" => \A s \in Targets : ~entry'[s].live
           /\ mint' = "minting" => entry' = es /\ user' = [user EXCEPT ![u] = Opening(u, t)]
                                   /\ es[t].gen < MaxGen
           /\ mint' # "minting" => mint = "ready" /\ \A v \in Users : user'[v].at # "opening"
           /\ \A v \in Users : user'[v].at = "ready" => v \in Calls
<1> USE DEF PoolTyped
<1>1. ASSUME NEW e \in EntryType, Counted(e, us, t), e.live, mint = "ready", mint' = mint,
             \A s \in Targets \ {t} : Right(es[s], us, s),
             entry' = [es EXCEPT ![t] = Lease(e)], user' = [user EXCEPT ![u] = Given(u, t, e)]
      PROVE  /\ entry' \in [Targets -> EntryType] /\ user' \in [Users -> UserType]
             /\ \A s \in Targets : Right(entry'[s], user', s)
             /\ \A v \in Users : user'[v].at # "opening" /\ (user'[v].at = "ready" => v \in Calls)
  <2>1. Given(u, t, e) \in UserType
    BY <1>1 DEF Given, UserType, EntryType, ClientStates
  <2>2. user' \in [Users -> UserType]
    BY <1>1, <2>1
  <2>3. e.refs + 1 \in Nat
    BY <1>1 DEF EntryType
  <2>4. Lease(e) \in EntryType
    BY <1>1, <2>3 DEF Lease, EntryType
  <2>5. entry' \in [Targets -> EntryType]
    BY <1>1, <2>4
  <2>6. user'[u] = Given(u, t, e) /\ \A v \in Users \ {u} : user'[v] = us[v]
    BY <1>1
  <2>7. Right(Lease(e), user', t)
    <3>1. PICK ws \in [Users -> UserType] : ws = user'
      BY <2>2
    <3>2. Right(Lease(e), ws, t)
      BY <1>1, <2>6, <3>1, Leased
    <3> QED BY <3>1, <3>2
  <2>8. ASSUME NEW s \in Targets, s # t PROVE Right(es[s], user', s)
    <3>1. PICK ws \in [Users -> UserType] : ws = user'
      BY <2>2
    <3>2. u \notin HoldersIn(ws, s)
      BY <2>6, <2>8, <3>1 DEF HoldersIn, Given
    <3>3. PICK e2 : e2 = es[s]
      OBVIOUS
    <3>4. Right(e2, ws, s)
      BY <1>1, <2>6, <2>8, <3>1, <3>2, <3>3, Untouched
    <3> QED BY <3>1, <3>3, <3>4
  <2>9. \A v \in Users : user'[v].at # "opening" /\ (user'[v].at = "ready" => v \in Calls)
    BY <1>1, <2>6 DEF NoClientYet, Given, Waits
  <2> QED BY <1>1, <2>2, <2>5, <2>7, <2>8, <2>9
<1>2. CASE /\ es[t].live
           /\ entry' = [es EXCEPT ![t] = Lease(es[t])]
           /\ user' = [user EXCEPT ![u] = Given(u, t, es[t])]
           /\ UNCHANGED mint
  <2>1. PICK e \in EntryType : e = es[t]
    OBVIOUS
  <2>2. mint = "ready" /\ Counted(e, us, t)
    BY <1>2, <2>1 DEF Right
  <2> QED BY <1>1, <1>2, <2>1, <2>2
<1>3. CASE /\ ~es[t].live /\ mint = "ready" /\ es[t].gen < MaxGen
           /\ entry' = [es EXCEPT ![t] = Lease(Built(es[t]))]
           /\ user' = [user EXCEPT ![u] = Given(u, t, Built(es[t]))]
           /\ UNCHANGED mint
  <2>1. PICK e \in EntryType : e = Built(es[t])
    BY <1>3, BuiltRight
  <2>2. e.live /\ Counted(e, us, t)
    BY <1>3, <2>1, BuiltRight
  <2> QED BY <1>1, <1>3, <2>1, <2>2
<1>4. CASE /\ ~es[t].live /\ mint # "ready" /\ es[t].gen < MaxGen
           /\ mint' = "minting" /\ entry' = es
           /\ user' = [user EXCEPT ![u] = Opening(u, t)]
  <2>1. Opening(u, t) \in UserType
    BY PoolAssumption DEF Opening, UserType, ClientStates
  <2>2. user' \in [Users -> UserType]
    BY <1>4, <2>1
  <2>3. user'[u] = Opening(u, t) /\ \A v \in Users \ {u} : user'[v] = us[v]
    BY <1>4
  <2>4. ASSUME NEW s \in Targets PROVE Right(es[s], user', s)
    <3>1. PICK ws \in [Users -> UserType] : ws = user'
      BY <2>2
    <3>2. u \notin HoldersIn(ws, s)
      BY <2>3, <3>1 DEF HoldersIn, Opening
    <3>3. PICK e2 : e2 = es[s]
      OBVIOUS
    <3>4. Right(e2, ws, s)
      BY <2>3, <3>1, <3>2, <3>3, Untouched
    <3> QED BY <3>1, <3>3, <3>4
  <2>5. \A v \in Users : user'[v].at = "ready" => v \in Calls
    BY <2>3 DEF NoClientYet, Opening
  <2> QED BY <1>4, <2>2, <2>4, <2>5
<1> QED BY <1>2, <1>3, <1>4 DEF AcquireFrom

\* What a user that leaves does to the entries.
LEMMA GivenBack ==
    ASSUME PoolIInv, NEW u \in Users, NEW us \in [Users -> UserType],
           \A v \in Users \ {u} : us[v] = user[v], \A s \in Targets : u \notin HoldersIn(us, s)
    PROVE  /\ ReleaseOf(u) \in [Targets -> EntryType]
           /\ \A s \in Targets : Right(ReleaseOf(u)[s], us, s)
           /\ \A s \in Targets : ReleaseOf(u)[s].live = entry[s].live /\ ReleaseOf(u)[s].gen = entry[s].gen
<1> USE DEF PoolIInv, PoolTyped
<1> DEFINE s0 == user[u].target
<1>1. PICK old \in [Users -> UserType] : old = user
  OBVIOUS
<1>2. s0 \in Targets
  BY DEF UserType
<1>3. ASSUME NEW s \in Targets, u \notin HoldersIn(old, s) PROVE Right(entry[s], us, s)
  <2>1. PICK e : e = entry[s]
    OBVIOUS
  <2> QED BY <1>1, <1>3, <2>1, Untouched
<1>4. CASE user[u].at \in {"held", "ready"}
  <2>1. u \in HoldersIn(old, s0) /\ \A s \in Targets \ {s0} : u \notin HoldersIn(old, s)
    BY <1>1, <1>4 DEF HoldersIn
  <2>2. PICK e \in EntryType : e = entry[s0]
    BY <1>2
  <2>3. Right(e, old, s0)
    BY <1>1, <1>2, <2>2
  <2>4. entry[s0].gen = user[u].gen
    BY <1>1, <2>1, <2>2, <2>3 DEF Right, Counted
  <2>5. ReleaseOf(u) = [entry EXCEPT ![s0] = Unlease(entry[s0])]
    BY <1>4, <2>4 DEF ReleaseOf
  <2>6. Right(Unlease(e), us, s0) /\ Unlease(e) \in EntryType
    BY <1>1, <1>2, <2>1, <2>3, Released
  <2>7. Unlease(e).live = e.live /\ Unlease(e).gen = e.gen
    BY DEF Unlease, EntryType
  <2> QED BY <1>2, <1>3, <2>1, <2>2, <2>5, <2>6, <2>7
<1>5. CASE user[u].at \notin {"held", "ready"}
  <2>1. ReleaseOf(u) = entry
    BY <1>5 DEF ReleaseOf
  <2>2. \A s \in Targets : u \notin HoldersIn(old, s)
    BY <1>1, <1>5 DEF HoldersIn
  <2> QED BY <1>3, <2>1, <2>2
<1> QED BY <1>4, <1>5

\* One user acquires, from the entries its cleanup leaves.
LEMMA AcquireStep ==
    ASSUME PoolIInv, NEW u \in Users, NEW t \in Targets, NEW es,
           es = ReleaseOf(u), AcquireFrom(es, u, t), AsksTyped',
           orphans' = orphans \/ (/\ user[u].at = "opening" /\ u \in Pages
                                  /\ orphans' = orphans \cup {<<u, user[u].target>>})
    PROVE  PoolIInv'
<1> USE DEF PoolIInv, PoolTyped
<1>1. Nobody \in UserType /\ Nobody.at = "idle"
  BY NobodyType
<1>2. PICK us \in [Users -> UserType] : us = [user EXCEPT ![u] = Nobody]
  BY <1>1
<1>3. \A v \in Users \ {u} : us[v] = user[v]
  BY <1>2
<1>4. \A s \in Targets : u \notin HoldersIn(us, s)
  BY <1>1, <1>2 DEF HoldersIn
<1>5. /\ es \in [Targets -> EntryType]
      /\ \A s \in Targets : Right(es[s], us, s) /\ es[s].live = entry[s].live /\ es[s].gen = entry[s].gen
  BY <1>3, <1>4, GivenBack
<1>6. mint # "ready" => \A s \in Targets : ~es[s].live
  BY <1>5 DEF NoClientYet
<1>7. /\ entry' \in [Targets -> EntryType] /\ user' \in [Users -> UserType]
      /\ mint' \in {"minting", "ready"}
      /\ \A s \in Targets : Right(entry'[s], user', s)
      /\ mint' # "ready" => \A s \in Targets : ~entry'[s].live
      /\ mint' = "minting" => entry' = es /\ user' = [user EXCEPT ![u] = Opening(u, t)]
                              /\ es[t].gen < MaxGen
      /\ mint' # "minting" => mint = "ready" /\ \A v \in Users : user'[v].at # "opening"
      /\ \A v \in Users : user'[v].at = "ready" => v \in Calls
  BY <1>3, <1>4, <1>5, <1>6, Acquired
<1>8. orphans' \subseteq Pages \X Targets
  BY DEF UserType
<1>9. mint' # "minting" => orphans' = {}
  BY <1>7 DEF NoClientYet
<1>10. ASSUME NEW s \in Targets, Pending(s)' PROVE entry'[s].gen < MaxGen
  <2>1. mint' = "minting"
    BY <1>7, <1>9, <1>10 DEF Pending
  <2>2. s = t \/ Pending(s)
    BY <1>7, <1>10, <2>1 DEF Pending, Opening
  <2>3. Pending(s) => entry[s].gen < MaxGen
    BY DEF NoClientYet
  <2> QED BY <1>5, <1>7, <2>1, <2>2, <2>3
<1>11. NoClientYet'
  BY <1>7, <1>9, <1>10 DEF NoClientYet
<1> QED BY <1>7, <1>8, <1>11

\* An entry that goes when nobody holds it.
LEMMA GoneRight ==
    ASSUME NEW us, NEW t, NEW e \in EntryType, HoldersIn(us, t) = {}
    PROVE  Right(Gone(e), us, t) /\ Gone(e) \in EntryType /\ ~Gone(e).live /\ Gone(e).gen = e.gen
<1>1. Gone(e) \in EntryType
  BY PoolAssumption DEF Gone, NoEntry, EntryType, ClientStates
<1>2. ~Gone(e).live /\ Gone(e).refs = 0 /\ Gone(e).gen = e.gen /\ Gone(e).ready = "ok"
  BY DEF Gone, NoEntry
<1>3. /\ \A v \in Pages : ~(us[v].at = "held" /\ us[v].target = t)
      /\ \A v \in Calls : ~(us[v].at = "ready" /\ us[v].target = t)
  BY DEF HoldersIn, Users
<1> QED BY <1>1, <1>2, <1>3 DEF Right, Counted

\* A step that only changes the entry of t, to one that is right.
LEMMA EntryStep ==
    ASSUME PoolIInv, NEW t \in Targets, NEW e \in EntryType, Right(e, user, t),
           e.gen = entry[t].gen, e.live => entry[t].live, AsksTyped',
           entry' = [entry EXCEPT ![t] = e], UNCHANGED <<mint, user, orphans>>
    PROVE  PoolIInv'
<1>1. entry' \in [Targets -> EntryType]
  BY DEF PoolIInv, PoolTyped
<1>2. \A s \in Targets : Right(entry'[s], user, s)
  BY DEF PoolIInv, PoolTyped
<1>3. \A s \in Targets : entry'[s].gen = entry[s].gen /\ (entry'[s].live => entry[s].live)
  BY DEF PoolIInv, PoolTyped
<1>4. \A s \in Targets : Pending(s)' <=> Pending(s)
  BY DEF Pending
<1>5. NoClientYet'
  BY <1>3, <1>4 DEF NoClientYet, PoolIInv
<1> QED BY <1>1, <1>2, <1>5 DEF PoolIInv, PoolTyped

LEMMA LeaveStep ==
    ASSUME PoolIInv, NEW u \in Users, Leave(u) \/ LeaveAgain(u)
    PROVE  PoolIInv'
<1> USE DEF PoolIInv, PoolTyped
<1>1. entry' = ReleaseOf(u) /\ mint' = mint
  BY DEF Leave, LeaveAgain
<1>2. user' \in [Users -> UserType] /\ user'[u].at \in {"idle", "released"}
  <2>1. CASE (Leave(u) /\ (u \in Calls \/ user[u].at # "held")) \/ LeaveAgain(u)
    <3>1. user' = [user EXCEPT ![u] = Nobody]
      BY <2>1 DEF Leave, LeaveAgain
    <3> QED BY <3>1, NobodyType
  <2>2. CASE Leave(u) /\ ~(u \in Calls \/ user[u].at # "held")
    <3>1. user[u].target \in Targets /\ user[u].gen \in 0 .. MaxGen
      BY DEF UserType
    <3>2. PICK n \in UserType : n = Stranded(user[u].target)
      BY <3>1, NobodyType
    <3>3. PICK g \in 0 .. MaxGen : g = user[u].gen
      BY <3>1
    <3>4. /\ [n EXCEPT !.at = "released", !.gen = g] \in UserType
          /\ [n EXCEPT !.at = "released", !.gen = g].at = "released"
      BY DEF UserType
    <3>5. user' = [user EXCEPT ![u] = [n EXCEPT !.at = "released", !.gen = g]]
      BY <2>2, <3>2, <3>3 DEF Leave
    <3> QED BY <3>4, <3>5
  <2> QED BY <2>1, <2>2
<1>3. \A v \in Users \ {u} : user'[v] = user[v]
  BY DEF Leave, LeaveAgain
<1>4. PICK us \in [Users -> UserType] : us = user'
  BY <1>2
<1>5. \A s \in Targets : u \notin HoldersIn(us, s)
  BY <1>2, <1>4 DEF HoldersIn
<1>6. /\ entry' \in [Targets -> EntryType]
      /\ \A s \in Targets : Right(entry'[s], us, s)
      /\ \A s \in Targets : entry'[s].live = entry[s].live /\ entry'[s].gen = entry[s].gen
  BY <1>1, <1>3, <1>4, <1>5, GivenBack
<1>7. orphans' = orphans \/ (/\ user[u].at = "opening" /\ u \in Pages
                             /\ orphans' = orphans \cup {<<u, user[u].target>>})
  BY DEF Leave, LeaveAgain, Orphaned
<1>8. orphans' \subseteq Pages \X Targets
  BY <1>7 DEF UserType
<1>9. mint # "minting" => orphans' = {}
  BY <1>7 DEF NoClientYet
<1>10. \A s \in Targets : Pending(s)' => Pending(s)
  BY <1>2, <1>3, <1>7 DEF Pending
<1>11. NoClientYet'
  BY <1>1, <1>2, <1>3, <1>6, <1>9, <1>10 DEF NoClientYet
<1>12. AsksTyped'
  <2>1. CASE LeaveAgain(u)
    BY <2>1 DEF LeaveAgain, AsksTyped
  <2>2. CASE Leave(u)
    <3>1. SUFFICES ASSUME NEW b \in asks'
                   PROVE  b \in [by : SUBSET Pages, target : Targets, gen : 0 .. MaxGen]
      BY DEF AsksTyped
    <3>2. PICK a \in asks : b = [a EXCEPT !.by = a.by \ {u}]
      BY <2>2 DEF Leave
    <3>3. a \in [by : SUBSET Pages, target : Targets, gen : 0 .. MaxGen]
      BY DEF AsksTyped
    <3> QED BY <3>2, <3>3
  <2> QED BY <2>1, <2>2
<1> QED BY <1>1, <1>2, <1>4, <1>6, <1>8, <1>11, <1>12

LEMMA MintStep == ASSUME PoolIInv, MintArrives PROVE PoolIInv'
<1> USE DEF PoolIInv, PoolTyped
<1> DEFINE W(t) == {u \in Users : user[u].at = "opening" /\ user[u].target = t}
           New(t) == [Built(entry[t]) EXCEPT !.refs = Cardinality(W(t)), !.idle = W(t) = {}]
<1>1. /\ mint = "minting" /\ mint' = "ready" /\ orphans' = {}
      /\ entry' = [t \in Targets |-> IF Pending(t) THEN New(t) ELSE entry[t]]
      /\ user' = [u \in Users |->
            IF user[u].at = "opening" THEN Given(u, user[u].target, New(user[u].target)) ELSE user[u]]
  BY DEF MintArrives
<1>a. AsksTyped'
  BY DEF MintArrives, AsksTyped
<1>2. PICK old \in [Users -> UserType] : old = user
  OBVIOUS
<1>3. ASSUME NEW t \in Targets
      PROVE  ~entry[t].live /\ HoldersIn(old, t) = {}
  <2>1. ~entry[t].live
    BY <1>1 DEF NoClientYet
  <2>2. PICK e : e = entry[t]
    OBVIOUS
  <2>3. Counted(e, old, t)
    BY <1>2, <2>2 DEF Right
  <2> QED BY <2>1, <2>2, <2>3, NobodyHolds
<1>4. ASSUME NEW t \in Targets, Pending(t)
      PROVE  /\ New(t) \in EntryType /\ New(t).live /\ New(t).st = "connecting" /\ New(t).run
             /\ New(t).refs = Cardinality(W(t)) /\ New(t).idle = (W(t) = {})
  <2>1. PICK e \in EntryType : e = Built(entry[t])
    BY <1>3, <1>4, <1>2, BuiltRight DEF NoClientYet
  <2>2. W(t) \in SUBSET Users
    OBVIOUS
  <2>3. Cardinality(W(t)) \in Nat
    BY <2>2, HoldersFinite, FS_Subset, FS_CardinalityType
  <2>4. e.live /\ e.st = "connecting" /\ e.run
    BY <2>1 DEF Built
  <2>5. New(t) = [e EXCEPT !.refs = Cardinality(W(t)), !.idle = W(t) = {}]
    BY <2>1
  <2> HIDE DEF W, New
  <2> QED BY <2>3, <2>4, <2>5 DEF EntryType
<1>5. ASSUME NEW u \in Users, user[u].at = "opening"
      PROVE  /\ Pending(user[u].target) /\ user[u].target \in Targets
             /\ user'[u] = Given(u, user[u].target, New(user[u].target))
             /\ user'[u] \in UserType
             /\ user'[u].at \in {"held", "ready"} /\ (user'[u].at = "ready" => u \in Calls)
             /\ user'[u].target = user[u].target /\ user'[u].shown = "connecting"
             /\ ~user'[u].asked
             /\ user'[u].gen = New(user[u].target).gen
  <2>1. Pending(user[u].target) /\ user[u].target \in Targets
    BY <1>5 DEF Pending, UserType
  <2>2. user'[u] = Given(u, user[u].target, New(user[u].target))
    BY <1>1, <1>5
  <2>3. PICK e \in EntryType : e = New(user[u].target) /\ e.st = "connecting"
    BY <1>4, <2>1
  <2>4. user'[u] = Given(u, user[u].target, e)
    BY <2>2, <2>3
  <2> HIDE DEF W, New
  <2> QED BY <2>1, <2>2, <2>3, <2>4 DEF Given, Waits, UserType, EntryType
<1>6. \A u \in Users : user[u].at # "opening" => user'[u] = user[u]
  BY <1>1
<1>7. user' \in [Users -> UserType]
  BY <1>1, <1>5, <1>6
<1>8. entry' \in [Targets -> EntryType]
  BY <1>1, <1>4
<1>9. PICK ws \in [Users -> UserType] : ws = user'
  BY <1>7
<1>10. ASSUME NEW t \in Targets PROVE HoldersIn(ws, t) = W(t)
  <2>1. \A u \in Users : user[u].at # "opening" => u \notin HoldersIn(ws, t)
    BY <1>2, <1>3, <1>6, <1>9 DEF HoldersIn
  <2> QED BY <1>5, <1>9, <2>1 DEF HoldersIn
<1>11. ASSUME NEW t \in Targets PROVE Right(entry'[t], ws, t)
  <2>1. CASE Pending(t)
    <3>1. PICK e \in EntryType : e = New(t)
      BY <1>4, <2>1
    <3>2. entry'[t] = e
      BY <1>1, <2>1, <3>1
    <3>3. /\ e.live /\ e.st = "connecting" /\ e.run /\ e.refs = Cardinality(HoldersIn(ws, t))
          /\ e.idle = (HoldersIn(ws, t) = {})
      BY <1>4, <1>10, <2>1, <3>1
    <3>4. \A u \in HoldersIn(ws, t) : /\ ws[u].gen = e.gen /\ ws[u].shown = "connecting"
                                        /\ ~ws[u].asked
      <4>1. SUFFICES ASSUME NEW u \in HoldersIn(ws, t)
                     PROVE  ws[u].gen = e.gen /\ ws[u].shown = "connecting" /\ ~ws[u].asked
        OBVIOUS
      <4>2. u \in Users /\ user[u].at = "opening" /\ user[u].target = t
        BY <1>10
      <4>3. /\ user'[u].gen = New(user[u].target).gen /\ user'[u].shown = "connecting"
            /\ ~user'[u].asked
        BY <1>5, <4>2
      <4>4. New(user[u].target) = e
        BY <3>1, <4>2
      <4> QED BY <1>9, <4>3, <4>4
    <3>5. \A u \in Pages : ws[u].at = "held" /\ ws[u].target = t => u \in HoldersIn(ws, t)
      BY DEF HoldersIn, Users
    <3>6. e.refs = 0 => e.idle
      BY <3>3, HoldersFinite
    <3> QED BY <3>2, <3>3, <3>4, <3>5, <3>6 DEF Right, Counted
  <2>2. CASE ~Pending(t)
    <3>1. HoldersIn(ws, t) = {}
      BY <1>10, <2>2 DEF Pending
    <3>2. entry'[t] = entry[t] /\ ~entry[t].live /\ entry[t].refs = 0
      BY <1>1, <1>3, <2>2 DEF Right, Counted
    <3>3. /\ \A u \in Pages : ~(ws[u].at = "held" /\ ws[u].target = t)
          /\ \A u \in Calls : ~(ws[u].at = "ready" /\ ws[u].target = t)
      BY <3>1 DEF HoldersIn, Users
    <3>4. entry[t].ready = "run" => entry[t].run
      BY DEF Right, Counted
    <3> QED BY <3>1, <3>2, <3>3, <3>4 DEF Right, Counted
  <2> QED BY <2>1, <2>2
<1>12. \A u \in Users : user'[u].at # "opening" /\ (user'[u].at = "ready" => u \in Calls)
  BY <1>5, <1>6 DEF NoClientYet
<1>13. \A t \in Targets : ~Pending(t)'
  BY <1>1, <1>12 DEF Pending
<1>14. NoClientYet'
  BY <1>1, <1>12, <1>13 DEF NoClientYet
<1> QED BY <1>1, <1>a, <1>7, <1>8, <1>9, <1>11, <1>14

LEMMA TicketFailsStep == ASSUME PoolIInv, TicketFails PROVE PoolIInv'
<1> USE DEF PoolIInv, PoolTyped
<1>1. \A u \in Users : user[u].at = "opening" =>
        user'[u] \in UserType /\ user'[u].at \in {"idle", "lost"}
  <2>1. \A u \in Users : user[u].target \in Targets
    BY DEF UserType
  <2> QED BY <2>1, NobodyType DEF TicketFails
<1>2. \A u \in Users : user[u].at # "opening" => user'[u] = user[u]
  BY DEF TicketFails
<1>3. user' \in [Users -> UserType]
  BY <1>1, <1>2 DEF TicketFails
<1>4. PICK old, ws : old = user /\ ws = user'
  OBVIOUS
<1>5. ASSUME NEW t \in Targets PROVE Right(entry[t], ws, t)
  <2>1. HoldersIn(ws, t) = HoldersIn(old, t)
    BY <1>1, <1>2, <1>4 DEF HoldersIn
  <2>2. \A u \in HoldersIn(ws, t) : ws[u] = old[u]
    BY <1>1, <1>2, <1>4 DEF HoldersIn
  <2>3. \A u \in Pages : ws[u].at = "held" => ws[u] = old[u]
    BY <1>1, <1>2, <1>4 DEF Users
  <2>4. Right(entry[t], old, t)
    BY <1>4
  <2>5. \A u \in Calls : ws[u].at = "ready" => ws[u] = old[u]
    BY <1>1, <1>2, <1>4 DEF Users
  <2> QED BY <2>1, <2>2, <2>3, <2>4, <2>5 DEF Right, Counted
<1>6. \A u \in Users : user'[u].at # "opening" /\ (user'[u].at = "ready" => u \in Calls)
  BY <1>1, <1>2 DEF NoClientYet
<1>7. \A t \in Targets : ~Pending(t)'
  BY <1>6 DEF Pending, TicketFails
<1>8. NoClientYet'
  BY <1>6, <1>7 DEF NoClientYet, TicketFails
<1> QED BY <1>3, <1>4, <1>5, <1>8 DEF TicketFails, AsksTyped

LEMMA IdleStep == ASSUME PoolIInv, NEW t \in Targets, IdleFires(t) PROVE PoolIInv'
<1> USE DEF PoolIInv, PoolTyped
<1>a. AsksTyped'
  BY DEF IdleFires, AsksTyped
<1>1. PICK e \in EntryType : e = entry[t]
  OBVIOUS
<1>2. PICK us : us = user
  OBVIOUS
<1>3. Right(e, us, t)
  BY <1>1, <1>2
<1>4. CASE e.refs > 0
  <2>1. [e EXCEPT !.idle = FALSE] \in EntryType
    BY DEF EntryType
  <2>2. Right([e EXCEPT !.idle = FALSE], us, t)
    BY <1>3, <1>4 DEF Right, Counted, EntryType
  <2>3. [e EXCEPT !.idle = FALSE].gen = e.gen /\ [e EXCEPT !.idle = FALSE].live = e.live
    BY DEF EntryType
  <2>4. entry' = [entry EXCEPT ![t] = [e EXCEPT !.idle = FALSE]]
    BY <1>1, <1>4 DEF IdleFires
  <2> QED BY <1>a, <1>1, <1>2, <2>1, <2>2, <2>3, <2>4, EntryStep DEF IdleFires
<1>5. CASE ~(e.refs > 0)
  <2>1. HoldersIn(us, t) = {}
    BY <1>3, <1>5, NobodyHolds DEF Right, EntryType
  <2>2. entry' = [entry EXCEPT ![t] = Gone(e)]
    BY <1>1, <1>5 DEF IdleFires
  <2> QED BY <1>a, <1>1, <1>2, <2>1, <2>2, GoneRight, EntryStep DEF IdleFires
<1> QED BY <1>4, <1>5

LEMMA AcquireFailedStep ==
    ASSUME PoolIInv, NEW u \in Users, NEW t \in Targets, AcquireFailed(u, t) PROVE PoolIInv'
<1> USE DEF PoolIInv, PoolTyped
<1>a. AsksTyped'
  BY DEF AcquireFailed, AsksTyped
<1>1. PICK e \in EntryType : e = entry[t]
  OBVIOUS
<1>2. PICK us : us = user
  OBVIOUS
<1>3. Right(e, us, t)
  BY <1>1, <1>2
<1>4. CASE e.refs = 0
  <2>1. HoldersIn(us, t) = {}
    BY <1>3, <1>4, NobodyHolds DEF Right
  <2>2. entry' = [entry EXCEPT ![t] = Gone(e)]
    BY <1>1, <1>4 DEF AcquireFailed
  <2> QED BY <1>a, <1>1, <1>2, <2>1, <2>2, GoneRight, EntryStep, ZenonT(60) DEF AcquireFailed
<1>5. CASE e.refs # 0
  <2>1. entry' = [entry EXCEPT ![t] = e]
    BY <1>1, <1>5 DEF AcquireFailed
  <2> QED BY <1>a, <1>1, <1>2, <1>3, <2>1, EntryStep DEF AcquireFailed
<1> QED BY <1>4, <1>5

\* A step of the client of t: its entry is f, those who hold it are told or stop waiting.
LEMMA ClientMoves ==
    ASSUME PoolIInv, NEW t \in Targets, NEW f \in EntryType, NEW ws \in [Users -> UserType],
           entry' = [entry EXCEPT ![t] = f], user' = ws, UNCHANGED <<mint, orphans>>, AsksTyped',
           Right(f, ws, t), f.gen = entry[t].gen, f.live => entry[t].live,
           \A u \in Users : \/ ws[u] = user[u]
                            \/ /\ user[u].target = t
                               /\ ws[u].at = "idle" \/ (ws[u].at = "held" /\ ws[u].target = t)
    PROVE  PoolIInv'
<1> USE DEF PoolIInv, PoolTyped
<1>1. PICK us \in [Users -> UserType] : us = user
  OBVIOUS
<1>2. entry' \in [Targets -> EntryType]
  OBVIOUS
<1>3. ASSUME NEW s \in Targets, s # t PROVE Right(entry[s], ws, s)
  <2>1. \A u \in Users : us[u].target = s => ws[u] = us[u]
    BY <1>1, <1>3
  <2>2. \A u \in Users : ws[u].at \in {"held", "ready"} /\ ws[u].target = s => ws[u] = us[u]
    BY <1>1, <1>3
  <2>3. HoldersIn(ws, s) = HoldersIn(us, s)
    BY <2>1, <2>2 DEF HoldersIn
  <2>4. \A u \in HoldersIn(ws, s) : ws[u] = us[u]
    BY <2>2 DEF HoldersIn
  <2>5. \A u \in Pages : ws[u].at = "held" /\ ws[u].target = s => ws[u] = us[u]
    BY <2>2 DEF Users
  <2>6. \A u \in Calls : ws[u].at = "ready" /\ ws[u].target = s => ws[u] = us[u]
    BY <2>2 DEF Users
  <2>7. PICK e : e = entry[s]
    OBVIOUS
  <2>8. Right(e, us, s)
    BY <1>1, <2>7
  <2>9. Right(e, ws, s)
    BY <2>3, <2>4, <2>5, <2>6, <2>8 DEF Right, Counted
  <2> QED BY <2>7, <2>9
<1>4. \A s \in Targets : Right(entry'[s], user', s)
  BY <1>3
<1>5. \A s \in Targets : entry'[s].gen = entry[s].gen /\ (entry'[s].live => entry[s].live)
  OBVIOUS
<1>6. \A u \in Users : /\ user'[u].at = "opening" => user'[u] = user[u]
                       /\ user'[u].at = "ready" => user'[u] = user[u]
  OBVIOUS
<1>7. \A s \in Targets : Pending(s)' => Pending(s)
  BY <1>6 DEF Pending
<1>8. NoClientYet'
  BY <1>5, <1>6, <1>7 DEF NoClientYet
<1> QED BY <1>2, <1>4, <1>8

\* The state of the client of t changes, and every page that holds it hears of it.
LEMMA HeardStep ==
    ASSUME PoolIInv, NEW t \in Targets, NEW f \in EntryType, entry[t].live, f.live,
           f.gen = entry[t].gen, f.refs = entry[t].refs, f.idle = entry[t].idle,
           entry[t].run => f.run, f.ready = "run" => f.run,
           entry' = [entry EXCEPT ![t] = f], user' = Heard(t, f.st),
           UNCHANGED <<mint, orphans>>, AsksTyped'
    PROVE  PoolIInv'
<1>1. PICK us \in [Users -> UserType] : us = user
  BY DEF PoolIInv, PoolTyped
<1>2. PICK e \in EntryType : e = entry[t]
  BY DEF PoolIInv, PoolTyped
<1>3. Right(e, us, t)
  BY <1>1, <1>2 DEF PoolIInv
<1>4. PICK st \in ClientStates : st = f.st
  BY DEF EntryType
<1>5. user' = [u \in Users |->
         IF u \in Pages /\ us[u].at = "held" /\ us[u].target = t
         THEN [us[u] EXCEPT !.shown = st, !.asked = FALSE] ELSE us[u]]
  BY <1>1, <1>4 DEF Heard
<1>6. ASSUME NEW u \in Users
      PROVE  /\ user'[u] \in UserType
             /\ user'[u].at = us[u].at /\ user'[u].target = us[u].target /\ user'[u].gen = us[u].gen
             /\ user'[u] = us[u] \/ (us[u].at = "held" /\ us[u].target = t)
             /\ u \in Pages /\ us[u].at = "held" /\ us[u].target = t =>
                    user'[u].shown = st /\ user'[u].asked = FALSE
  <2>1. CASE u \in Pages /\ us[u].at = "held" /\ us[u].target = t
    <3>1. user'[u] = [us[u] EXCEPT !.shown = st, !.asked = FALSE]
      BY <1>5, <2>1
    <3>2. PICK r \in UserType : r = us[u]
      OBVIOUS
    <3>3. /\ [r EXCEPT !.shown = st, !.asked = FALSE] \in UserType
          /\ [r EXCEPT !.shown = st, !.asked = FALSE].at = r.at
          /\ [r EXCEPT !.shown = st, !.asked = FALSE].target = r.target
          /\ [r EXCEPT !.shown = st, !.asked = FALSE].gen = r.gen
          /\ [r EXCEPT !.shown = st, !.asked = FALSE].shown = st
          /\ [r EXCEPT !.shown = st, !.asked = FALSE].asked = FALSE
      BY DEF UserType
    <3> QED BY <2>1, <3>1, <3>2, <3>3
  <2>2. CASE ~(u \in Pages /\ us[u].at = "held" /\ us[u].target = t)
    <3>1. user'[u] = us[u]
      BY <1>5, <2>2
    <3>2. us[u] \in UserType
      OBVIOUS
    <3> QED BY <2>2, <3>1, <3>2
  <2> QED BY <2>1, <2>2
<1>7. PICK ws \in [Users -> UserType] : ws = user'
  BY <1>5, <1>6
<1>8. HoldersIn(ws, t) = HoldersIn(us, t)
  BY <1>6, <1>7 DEF HoldersIn
<1>9. \A u \in HoldersIn(ws, t) : ws[u].gen = us[u].gen
  BY <1>6, <1>7 DEF HoldersIn
<1>10. \A u \in Pages : ws[u].at = "held" /\ ws[u].target = t => ws[u].shown = f.st /\ ~ws[u].asked
  <2> SUFFICES ASSUME NEW u \in Pages, ws[u].at = "held", ws[u].target = t
               PROVE  ws[u].shown = f.st /\ ~ws[u].asked
    OBVIOUS
  <2>1. u \in Users
    BY DEF Users
  <2>2. us[u].at = "held" /\ us[u].target = t
    BY <1>6, <1>7, <2>1
  <2>3. ws[u].shown = st /\ ws[u].asked = FALSE
    BY <1>6, <1>7, <2>1, <2>2
  <2> QED BY <1>4, <2>3
<1>11. \A u \in Calls : ws[u].at = "ready" /\ ws[u].target = t => us[u].at = "ready" /\ us[u].target = t
  BY <1>6, <1>7 DEF Users
<1>12. Right(f, ws, t)
  BY <1>2, <1>3, <1>8, <1>9, <1>10, <1>11 DEF Right, Counted
<1>13. \A u \in Users : \/ ws[u] = user[u]
                        \/ /\ user[u].target = t
                           /\ ws[u].at = "idle" \/ (ws[u].at = "held" /\ ws[u].target = t)
  BY <1>1, <1>6, <1>7
<1>14. user' = ws
  BY <1>7
<1> QED BY <1>12, <1>13, <1>14, ClientMoves

LEMMA ClientStep ==
    ASSUME PoolIInv, NEW t \in Targets, NEW st \in ClientStates, ClientChanges(t, st)
    PROVE  PoolIInv'
<1>1. PICK e \in EntryType : e = entry[t]
  BY DEF PoolIInv, PoolTyped
<1>2. PICK f \in EntryType : f = [e EXCEPT !.st = st]
  BY DEF EntryType
<1>3. /\ f.live = e.live /\ f.gen = e.gen /\ f.refs = e.refs /\ f.idle = e.idle
      /\ f.run = e.run /\ f.ready = e.ready /\ f.st = st
  BY <1>2 DEF EntryType
<1>4. e.ready = "run" => e.run
  BY <1>1 DEF PoolIInv, Right, Counted
<1>5. /\ entry[t].live /\ entry' = [entry EXCEPT ![t] = f] /\ user' = Heard(t, f.st)
      /\ UNCHANGED <<mint, orphans>>
  BY <1>1, <1>2, <1>3 DEF ClientChanges
<1>6. AsksTyped'
  BY DEF ClientChanges, AsksTyped, PoolIInv, PoolTyped
<1> QED BY <1>1, <1>3, <1>4, <1>5, <1>6, HeardStep

LEMMA RunEndsStep ==
    ASSUME PoolIInv, NEW t \in Targets, NEW ok \in BOOLEAN, RunEnds(t, ok)
    PROVE  PoolIInv'
<1> USE DEF PoolIInv, PoolTyped
<1>1. PICK e \in EntryType : e = entry[t]
  OBVIOUS
<1>2. PICK us \in [Users -> UserType] : us = user
  OBVIOUS
<1> DEFINE waiting == {u \in Calls : us[u].at = "ready" /\ us[u].target = t /\ us[u].gen = e.gen}
           back == IF ok THEN 0 ELSE Cardinality(waiting)
           new == IF e.ready # "run" THEN e.ready ELSE IF ok THEN "ok" ELSE "failed"
           e1 == [e EXCEPT !.run = FALSE, !.refs = e.refs - back, !.ready = new]
<1>3. /\ e.live /\ UNCHANGED <<mint, orphans>>
      /\ entry' = [entry EXCEPT ![t] = IF back > 0 /\ e1.refs = 0 THEN Gone(e1) ELSE e1]
      /\ user' = [u \in Users |-> IF u \notin waiting THEN us[u]
                                  ELSE IF ok THEN [us[u] EXCEPT !.at = "held"] ELSE Nobody]
  BY <1>1, <1>2 DEF RunEnds
<1>4. Right(e, us, t)
  BY <1>1, <1>2
<1>a. AsksTyped'
  BY DEF RunEnds, AsksTyped
<1>5. ASSUME NEW u \in Users
      PROVE  /\ user'[u] \in UserType
             /\ u \notin waiting => user'[u] = us[u]
             /\ u \in waiting /\ ok => user'[u].at = "held" /\ user'[u].target = t
                                       /\ user'[u].gen = us[u].gen
             /\ u \in waiting /\ ~ok => user'[u].at = "idle"
  <2>1. CASE u \notin waiting
    <3>1. user'[u] = us[u]
      BY <1>3, <2>1
    <3> QED BY <2>1, <3>1
  <2>2. CASE u \in waiting /\ ok
    <3>1. user'[u] = [us[u] EXCEPT !.at = "held"]
      BY <1>3, <2>2
    <3>2. us[u].at = "ready" /\ us[u].target = t
      BY <2>2
    <3> QED BY <2>2, <3>1, <3>2 DEF UserType
  <2>3. CASE u \in waiting /\ ~ok
    <3>1. user'[u] = Nobody
      BY <1>3, <2>3
    <3> QED BY <2>3, <3>1, NobodyType
  <2> QED BY <2>1, <2>2, <2>3
<1>6. PICK ws \in [Users -> UserType] : ws = user'
  <2>1. \A u \in Users : user'[u] \in UserType
    BY <1>5
  <2> QED BY <1>3, <2>1
<1>7. waiting \subseteq HoldersIn(us, t)
  BY DEF HoldersIn, Users
<1>8. \A u \in waiting : u \in Users /\ u \notin Pages
  BY PoolAssumption DEF Users
<1>9. HoldersIn(ws, t) = IF ok THEN HoldersIn(us, t) ELSE HoldersIn(us, t) \ waiting
  <2>1. ASSUME NEW u \in Users
        PROVE  u \in HoldersIn(ws, t) <=> u \in HoldersIn(us, t) /\ ~(u \in waiting /\ ~ok)
    <3>1. ws[u] = user'[u]
      BY <1>6
    <3>2. u \in waiting => us[u].at = "ready" /\ us[u].target = t
      OBVIOUS
    <3> HIDE DEF waiting
    <3> QED BY <1>5, <3>1, <3>2 DEF HoldersIn
  <2> HIDE DEF waiting
  <2> QED BY <2>1 DEF HoldersIn
<1>10. Cardinality(HoldersIn(ws, t)) = e.refs - back /\ e.refs - back \in Nat /\ back \in Nat
  <2>1. e.refs = Cardinality(HoldersIn(us, t))
    BY <1>3, <1>4 DEF Right, Counted
  <2>2. CASE ~ok
    <3>1. HoldersIn(us, t) \cap waiting = waiting
      BY <1>7
    <3> HIDE DEF waiting
    <3>2. Cardinality(HoldersIn(us, t) \ waiting) = Cardinality(HoldersIn(us, t)) - Cardinality(waiting)
      <4> DEFINE H == HoldersIn(us, t)
      <4>1. IsFiniteSet(H)
        BY HoldersFinite
      <4> HIDE DEF H
      <4>2. Cardinality(H \ waiting) = Cardinality(H) - Cardinality(H \cap waiting)
        BY <4>1, FS_Difference
      <4> QED BY <3>1, <4>2 DEF H
    <3>3. Cardinality(waiting) \in Nat
      BY <1>7, HoldersFinite, FS_Subset, FS_CardinalityType
    <3>4. Cardinality(HoldersIn(ws, t)) \in Nat
      BY HoldersFinite
    <3> QED BY <1>9, <2>1, <2>2, <3>2, <3>3, <3>4
  <2>3. CASE ok
    BY <1>9, <2>1, <2>3, HoldersFinite
  <2> QED BY <2>2, <2>3
<1>11. new \in {"run", "ok", "failed"} /\ new # "run"
  BY DEF EntryType
<1>12. /\ e1 \in EntryType /\ e1.live /\ e1.gen = e.gen /\ e1.st = e.st /\ e1.idle = e.idle
       /\ e1.refs = Cardinality(HoldersIn(ws, t)) /\ e1.ready # "run"
  <2> HIDE DEF back, new
  <2> QED BY <1>3, <1>10, <1>11 DEF EntryType
<1>13. \A u \in HoldersIn(ws, t) : ws[u].gen = e.gen
  <2>1. \A u \in HoldersIn(ws, t) : u \in HoldersIn(us, t) /\ ws[u].gen = us[u].gen
    <3>1. \A u \in HoldersIn(ws, t) : u \in Users /\ u \in HoldersIn(us, t) /\ ~(u \in waiting /\ ~ok)
      BY <1>9 DEF HoldersIn
    <3> HIDE DEF waiting
    <3> QED BY <1>5, <1>6, <3>1
  <2> QED BY <1>4, <2>1 DEF Right, Counted
<1>14. \A u \in Pages : ws[u] = us[u]
  <2> HIDE DEF waiting
  <2> QED BY <1>5, <1>6, <1>8 DEF Users
<1>15. \A u \in Calls : ~(ws[u].at = "ready" /\ ws[u].target = t)
  <2>1. SUFFICES ASSUME NEW u \in Calls, ws[u].at = "ready", ws[u].target = t PROVE FALSE
    OBVIOUS
  <2>2. u \notin waiting /\ u \in Users
    <3> HIDE DEF waiting
    <3> QED BY <1>5, <1>6, <2>1 DEF Users
  <2>3. us[u] = ws[u]
    <3> HIDE DEF waiting
    <3> QED BY <1>5, <1>6, <2>2
  <2>4. us[u].gen = e.gen
    BY <1>4, <2>1, <2>2, <2>3 DEF Right, Counted, HoldersIn
  <2> QED BY <2>1, <2>2, <2>3, <2>4
<1>16. Counted(e1, ws, t)
  <2>1. \A u \in Pages : ws[u].at = "held" /\ ws[u].target = t =>
            ws[u].shown = IF ws[u].asked THEN "connecting" ELSE e.st
    BY <1>4, <1>14 DEF Right, Counted
  <2> HIDE DEF e1
  <2> QED BY <1>12, <1>13, <1>15, <2>1 DEF Counted
<1>17. PICK f \in EntryType : /\ entry' = [entry EXCEPT ![t] = f]
                               /\ Right(f, ws, t) /\ f.gen = e.gen
  <2>1. CASE back > 0 /\ e1.refs = 0
    <3>1. HoldersIn(ws, t) = {}
      BY <1>12, <2>1, HoldersFinite
    <3> HIDE DEF e1
    <3>2. Right(Gone(e1), ws, t) /\ Gone(e1) \in EntryType /\ Gone(e1).gen = e.gen
      BY <1>12, <3>1, GoneRight
    <3> USE DEF e1
    <3> QED BY <1>3, <2>1, <3>2
  <2>2. CASE ~(back > 0 /\ e1.refs = 0)
    <3>1. entry' = [entry EXCEPT ![t] = e1]
      BY <1>3, <2>2
    <3>2. e1.refs = 0 => e1.idle
      <4> HIDE DEF back, new
      <4>1. ASSUME e1.refs = 0 PROVE e.refs = 0
        BY <1>10, <1>12, <2>2, <4>1 DEF EntryType
      <4> HIDE DEF e1
      <4> QED BY <1>3, <1>4, <1>12, <4>1 DEF Right
    <3> HIDE DEF e1
    <3>3. Right(e1, ws, t)
      BY <1>16, <3>2 DEF Right
    <3> QED BY <1>12, <3>1, <3>3
  <2> QED BY <2>1, <2>2
<1>18. ASSUME NEW u \in Users
       PROVE  \/ ws[u] = user[u]
              \/ /\ user[u].target = t
                 /\ ws[u].at = "idle" \/ (ws[u].at = "held" /\ ws[u].target = t)
  <2>1. u \in waiting => user[u].target = t
    BY <1>2
  <2> HIDE DEF waiting
  <2> QED BY <1>2, <1>5, <1>6, <2>1
<1>19. user' = ws /\ entry[t].live /\ f.gen = entry[t].gen
  BY <1>1, <1>3, <1>6, <1>17
<1>20. UNCHANGED <<mint, orphans>> /\ PoolIInv
  BY <1>3
<1> HIDE DEF waiting, back, new, e1, PoolIInv
<1> QED BY <1>a, <1>17, <1>18, <1>19, <1>20, ClientMoves

\* A page whose effect runs again.
LEMMA EffectStep ==
    ASSUME PoolIInv, NEW u \in Pages, NEW t \in Targets, EffectRuns(u, t), AsksTyped'
    PROVE  PoolIInv'
<1>1. AcquireFrom(ReleaseOf(u), u, t) /\ u \in Users
  BY DEF EffectRuns, Users
<1>2. orphans' = orphans \/ (/\ user[u].at = "opening" /\ u \in Pages
                             /\ orphans' = orphans \cup {<<u, user[u].target>>})
  BY DEF EffectRuns, Orphaned
<1> QED BY <1>1, <1>2, AcquireStep

LEMMA ReconnectsStep == ASSUME PoolIInv, NEW u \in Users, Reconnects(u) PROVE PoolIInv'
<1> DEFINE t == user[u].target
           asks1 == asks \cup {[by |-> {u}, target |-> t, gen |-> entry[t].gen]}
<1>1. u \in Pages /\ user[u].at \in {"held", "lost"} /\ t \in Targets
  BY DEF Reconnects, PoolIInv, PoolTyped, UserType
<1>2. AsksTyped
  BY DEF PoolIInv, PoolTyped
<1>3. CASE ~entry[t].live /\ EffectRuns(u, t) /\ UNCHANGED asks
  <2>1. AsksTyped'
    BY <1>2, <1>3 DEF AsksTyped
  <2> HIDE DEF t
  <2> QED BY <1>1, <1>3, <2>1, EffectStep
<1>4. CASE /\ asks' = asks1
           /\ user' = [user EXCEPT ![u].shown = "connecting", ![u].asked = TRUE]
           /\ UNCHANGED <<mint, entry, orphans>>
  <2> USE DEF PoolIInv, PoolTyped
  <2>1. AsksTyped'
    <3>1. entry[t].gen \in 0 .. MaxGen
      BY <1>1 DEF EntryType
    <3> QED BY <1>1, <1>2, <1>4, <3>1 DEF AsksTyped
  <2>2. PICK us \in [Users -> UserType] : us = user
    OBVIOUS
  <2>3. PICK r \in UserType : r = us[u]
    OBVIOUS
  <2>4. PICK q : q = [r EXCEPT !.shown = "connecting", !.asked = TRUE]
    OBVIOUS
  <2>5. /\ q \in UserType /\ q.at = r.at /\ q.target = r.target /\ q.gen = r.gen
        /\ q.shown = "connecting" /\ q.asked
    BY <2>4 DEF UserType, ClientStates
  <2>6. user' = [us EXCEPT ![u] = q]
    BY <1>4, <2>2, <2>3, <2>4
  <2>7. PICK ws \in [Users -> UserType] : ws = user'
    BY <2>5, <2>6
  <2>8. ws[u] = q /\ \A v \in Users \ {u} : ws[v] = us[v]
    BY <2>6, <2>7
  <2>9. \A v \in Users : ws[v].at = us[v].at /\ ws[v].target = us[v].target /\ ws[v].gen = us[v].gen
    BY <2>3, <2>5, <2>8
  <2>10. ASSUME NEW s \in Targets PROVE Right(entry[s], ws, s)
    <3>1. PICK e : e = entry[s]
      OBVIOUS
    <3>2. Right(e, us, s)
      BY <2>2, <3>1
    <3>3. HoldersIn(ws, s) = HoldersIn(us, s)
      BY <2>9 DEF HoldersIn
    <3>4. \A v \in HoldersIn(ws, s) : ws[v].gen = us[v].gen
      BY <2>9 DEF HoldersIn
    <3>5. \A v \in Pages : ws[v].at = "held" /\ ws[v].target = s =>
              ws[v].shown = IF ws[v].asked THEN "connecting" ELSE e.st
      BY <2>5, <2>8, <2>9, <3>2 DEF Right, Counted, Users
    <3>6. \A v \in Calls : ws[v].at = "ready" /\ ws[v].target = s => us[v].at = "ready" /\ us[v].target = s
      BY <2>9 DEF Users
    <3>7. Right(e, ws, s)
      BY <3>2, <3>3, <3>4, <3>5, <3>6 DEF Right, Counted
    <3> QED BY <3>1, <3>7
  <2>11. \A v \in Users : user'[v].at = user[v].at /\ user'[v].target = user[v].target
    BY <2>2, <2>7, <2>9
  <2>12. \A s \in Targets : Pending(s)' <=> Pending(s)
    BY <1>4, <2>11 DEF Pending
  <2>13. NoClientYet'
    BY <1>4, <2>11, <2>12 DEF NoClientYet
  <2> QED BY <1>4, <2>1, <2>7, <2>10, <2>13
<1> QED BY <1>3, <1>4 DEF Reconnects

LEMMA ReconnectDoneStep == ASSUME PoolIInv, NEW a \in asks, ReconnectDone(a) PROVE PoolIInv'
<1> USE DEF PoolIInv, PoolTyped
<1>1. a.target \in Targets
  BY DEF AsksTyped
<1>2. PICK t \in Targets : t = a.target
  BY <1>1
<1>3. PICK e \in EntryType : e = entry[t]
  OBVIOUS
<1>4. AsksTyped'
  BY DEF ReconnectDone, AsksTyped
<1>5. UNCHANGED <<mint, orphans>>
  BY DEF ReconnectDone
<1>6. PICK us : us = user
  OBVIOUS
<1>7. Right(e, us, t)
  BY <1>3, <1>6
<1>8. ASSUME NEW w \in {"ok", "run"}, w = "run" => e.run, UNCHANGED user,
             entry' = [entry EXCEPT ![t].ready = w]
      PROVE  PoolIInv'
  <2>1. PICK f \in EntryType : f = [e EXCEPT !.ready = w]
    BY DEF EntryType
  <2>2. /\ f.live = e.live /\ f.gen = e.gen /\ f.refs = e.refs /\ f.idle = e.idle /\ f.st = e.st
        /\ f.run = e.run /\ f.ready = w
    BY <2>1 DEF EntryType
  <2>3. entry' = [entry EXCEPT ![t] = f]
    BY <1>3, <1>8, <2>1
  <2>4. Right(f, us, t)
    BY <1>7, <1>8, <2>2 DEF Right, Counted
  <2>5. Right(f, user, t)
    BY <1>6, <2>4
  <2> HIDE DEF PoolIInv, PoolTyped
  <2> QED BY <1>3, <1>4, <1>5, <1>8, <2>2, <2>3, <2>5, EntryStep
<1>9. CASE /\ e.live /\ ~e.run
           /\ entry' = [entry EXCEPT ![t] = [e EXCEPT !.run = TRUE, !.ready = "run", !.st = "connecting"]]
           /\ user' = IF e.st = "connecting" THEN user ELSE Heard(t, "connecting")
  <2>1. PICK f \in EntryType : f = [e EXCEPT !.run = TRUE, !.ready = "run", !.st = "connecting"]
    BY DEF EntryType, ClientStates
  <2>2. /\ f.live = e.live /\ f.gen = e.gen /\ f.refs = e.refs /\ f.idle = e.idle
        /\ f.st = "connecting" /\ f.run /\ f.ready = "run"
    BY <2>1 DEF EntryType
  <2>3. entry' = [entry EXCEPT ![t] = f]
    BY <1>9, <2>1
  <2>4. CASE e.st = "connecting"
    <3>1. Right(f, us, t)
      BY <1>7, <2>2, <2>4 DEF Right, Counted
    <3>2. Right(f, user, t) /\ UNCHANGED user
      BY <1>6, <1>9, <2>4, <3>1
    <3> HIDE DEF PoolIInv, PoolTyped
    <3> QED BY <1>3, <1>4, <1>5, <2>2, <2>3, <3>2, EntryStep
  <2>5. CASE e.st # "connecting"
    <3>1. user' = Heard(t, f.st) /\ entry[t].live
      BY <1>3, <1>9, <2>2, <2>5
    <3> HIDE DEF PoolIInv, PoolTyped
    <3> QED BY <1>3, <1>4, <1>5, <2>2, <2>3, <3>1, HeardStep
  <2> QED BY <2>4, <2>5
<1>10. CASE UNCHANGED <<entry, user>>
  <2>1. \A s \in Targets : Pending(s)' <=> Pending(s)
    BY <1>5, <1>10 DEF Pending
  <2> QED BY <1>4, <1>5, <1>10, <2>1 DEF NoClientYet
<1> HIDE DEF PoolIInv, PoolTyped
<1> QED BY <1>2, <1>3, <1>8, <1>9, <1>10 DEF ReconnectDone

LEMMA ReconnectFailsStep == ASSUME PoolIInv, NEW a \in asks, ReconnectFails(a) PROVE PoolIInv'
<1>1. AsksTyped /\ AsksTyped'
  BY DEF ReconnectFails, AsksTyped, PoolIInv, PoolTyped
<1>2. CASE UNCHANGED <<mint, entry, user, orphans>>
  <2>1. \A s \in Targets : Pending(s)' <=> Pending(s)
    BY <1>2 DEF Pending
  <2> QED BY <1>1, <1>2, <2>1 DEF NoClientYet, PoolIInv, PoolTyped
<1>3. ASSUME NEW u \in a.by, EffectRuns(u, user[u].target) PROVE PoolIInv'
  <2>1. u \in Pages
    BY <1>1 DEF AsksTyped
  <2>2. user[u].target \in Targets
    BY <2>1 DEF PoolIInv, PoolTyped, UserType, Users
  <2> QED BY <1>1, <1>3, <2>1, <2>2, EffectStep
<1> QED BY <1>2, <1>3 DEF ReconnectFails

LEMMA PoolStart == PoolInit => PoolIInv
<1> SUFFICES ASSUME PoolInit PROVE PoolIInv
  OBVIOUS
<1>1. NoEntry \in EntryType
  BY PoolAssumption DEF NoEntry, EntryType, ClientStates
<1>3. Nobody \in UserType /\ Nobody.at = "idle"
  BY NobodyType
<1>4. entry = [t \in Targets |-> NoEntry] /\ user = [u \in Users |-> Nobody]
  BY DEF PoolInit
<1>5. PoolTyped
  BY <1>1, <1>3, <1>4 DEF PoolInit, PoolTyped, AsksTyped
<1>6. ASSUME NEW t \in Targets PROVE Right(entry[t], user, t)
  <2>1. PICK us : us = user
    OBVIOUS
  <2>2. \A u \in Users : us[u].at = "idle"
    BY <1>3, <1>4, <2>1
  <2>3. HoldersIn(us, t) = {}
    BY <2>2 DEF HoldersIn
  <2>4. NoEntry.live = FALSE /\ NoEntry.refs = 0 /\ NoEntry.ready = "ok"
    BY DEF NoEntry
  <2>5. Right(NoEntry, us, t)
    BY <2>2, <2>3, <2>4 DEF Right, Counted, Users
  <2> QED BY <1>4, <2>1, <2>5
<1>7. NoClientYet
  <2>1. \A u \in Users : user[u].at = "idle"
    BY <1>3, <1>4
  <2>2. \A t \in Targets : ~entry[t].live
    BY <1>4 DEF NoEntry
  <2> QED BY <2>1, <2>2 DEF NoClientYet, Pending, PoolInit
<1> QED BY <1>5, <1>6, <1>7 DEF PoolIInv

LEMMA PoolStep == PoolIInv /\ [PoolNext]_poolVars => PoolIInv'
<1> SUFFICES ASSUME PoolIInv, [PoolNext]_poolVars PROVE PoolIInv'
  OBVIOUS
<1>1. ASSUME NEW u \in Users, NEW t \in Targets, Acquire(u, t) PROVE PoolIInv'
  <2>1. ReleaseOf(u) = entry /\ AcquireFrom(entry, u, t) /\ orphans' = orphans
    BY <1>1 DEF Acquire, ReleaseOf
  <2>2. AsksTyped'
    BY <1>1 DEF Acquire, AsksTyped, PoolIInv, PoolTyped
  <2> QED BY <2>1, <2>2, AcquireStep
<1>2. ASSUME NEW u \in Users, NEW t \in Targets, SwitchTarget(u, t) PROVE PoolIInv'
  <2>1. EffectRuns(u, t) /\ u \in Pages
    BY <1>2 DEF SwitchTarget
  <2>2. AsksTyped'
    BY <1>2 DEF SwitchTarget, AsksTyped, PoolIInv, PoolTyped
  <2> QED BY <2>1, <2>2, EffectStep
<1>3. CASE UNCHANGED poolVars
  <2>1. \A s \in Targets : Pending(s)' <=> Pending(s)
    BY <1>3 DEF poolVars, Pending
  <2> QED BY <1>3, <2>1 DEF poolVars, PoolIInv, PoolTyped, AsksTyped, NoClientYet
<1> QED BY <1>1, <1>2, <1>3, LeaveStep, MintStep, TicketFailsStep, IdleStep, AcquireFailedStep,
           ClientStep, RunEndsStep, ReconnectsStep, ReconnectDoneStep, ReconnectFailsStep DEF PoolNext

(* The pool of relay clients keeps its invariant (lib/relayClientPool.ts): every lease
   is counted exactly once and worth something while it is held, a client nobody
   holds is on its way out, a page shows the state of the client it holds unless its
   user has just asked for a new connection, and a call that waits has a connect()
   to wait for, through reconnects as well as switches, evictions and late tickets. *)
THEOREM LeasesAreCounted == PoolSpec => []PoolInv
<1>1. PoolIInv => PoolInv
  <2> SUFFICES ASSUME PoolIInv PROVE PoolInv
    OBVIOUS
  <2>1. \A t \in Targets : Right(entry[t], user, t)
    BY DEF PoolIInv
  <2>2. \A t \in Targets : Holders(t) = HoldersIn(user, t)
    BY DEF Holders, HoldersIn
  <2>3. HeldIsCounted
    BY <2>1, <2>2 DEF HeldIsCounted, Right, Counted
  <2>4. UnusedIsReaped
    BY <2>1 DEF UnusedIsReaped, Right
  <2>5. ShownIsCurrent
    <3>1. \A u \in Pages : user[u].target \in Targets
      BY DEF PoolIInv, PoolTyped, UserType, Users
    <3> QED BY <2>1, <3>1 DEF ShownIsCurrent, Right, Counted
  <2>6. ASSUME NEW t \in Targets PROVE entry[t].refs \in 0 .. Cardinality(Users)
    <3>1. PICK us : us = user
      OBVIOUS
    <3>2. Counted(entry[t], us, t)
      BY <2>1, <3>1 DEF Right
    <3>3. entry[t].refs = 0 \/ entry[t].refs = Cardinality(HoldersIn(us, t))
      BY <3>2 DEF Counted
    <3> QED BY <3>3, HoldersFinite
  <2>7. PoolTypeOK
    <3>1. entry \in [Targets -> EntryType]
      BY DEF PoolIInv, PoolTyped
    <3>2. ASSUME NEW t \in Targets
          PROVE  entry[t] \in [gen : 0 .. MaxGen, refs : 0 .. Cardinality(Users), idle : BOOLEAN,
                               st : ClientStates, run : BOOLEAN,
                               ready : {"run", "ok", "failed"}, live : BOOLEAN]
      BY <2>6, <3>1 DEF EntryType
    <3> QED BY <3>1, <3>2 DEF PoolTypeOK, PoolIInv, PoolTyped, UserType, AsksTyped
  <2>8. WaitsForARun
    <3>1. \A u \in Calls : user[u].target \in Targets
      BY DEF PoolIInv, PoolTyped, UserType, Users
    <3> QED BY <2>1, <3>1 DEF WaitsForARun, Right, Counted
  <2> QED BY <2>3, <2>4, <2>5, <2>7, <2>8 DEF PoolInv
<1> QED BY <1>1, PoolStart, PoolStep, PTL DEF PoolSpec

-----------------------------------------------------------------------------
(* The connection and its clients. A client says it is connected on the socket there is
   only: a new socket is dialled in the state "connecting", of which every client with an
   open channel hears, and until that socket is open nobody is accepted on it. What takes
   a channel away drops the handshakes that wait for an answer, so that no answer comes
   to a client whose channel is gone.                                        *)

SocketStates == {"closed", "opening", "open", "cancelled"}
ConnTypes == [ws : Sockets \cup {0}, promise : Sockets \cup {0}, st : LinkStates,
              redial : BOOLEAN, sock : [Sockets -> SocketStates]]
DialerTypes == [kind : {"idle", "redial"} \cup Channels, at : {"ticket", "dial"},
                p : Sockets \cup {0}]
HandshakeTypes == [at : {"idle", "socket", "cred", "reply"}, p : Sockets \cup {0}]
ClientTypes == [st : LinkStates, open : BOOLEAN, code : ChannelCodes, hsRetry : BOOLEAN,
                reopen : BOOLEAN, run : Handshakes \cup {0}, closed : BOOLEAN,
                hs : [Handshakes -> HandshakeTypes], refused : BOOLEAN,
                authOn : Sockets \cup {0}, gone : {"no", "asked", "quiet"}]

ConnGood(c) ==
    /\ c \in ConnTypes
    /\ c.promise # 0 => c.promise = c.ws /\ c.sock[c.ws] \in {"opening", "open"}

(* A client that may still have handshakes to drop, and one that has not.    *)
ClientSound(k) ==
    /\ k \in ClientTypes
    /\ k.st = "connected" => k.open
    /\ k.open \/ k.hsRetry \/ k.reopen => ~k.closed

ClientGood(k) ==
    ClientSound(k) /\ \A h \in Handshakes : k.hs[h].at = "reply" => k.open

(* A socket that is being dialled is nobody's yet.                           *)
NobodyYet(c, K) ==
    c.st = "connecting" => /\ c.ws # 0 /\ c.sock[c.ws] = "opening"
                           /\ \A ch \in Channels : K[ch].st # "connected"

OnThisSocket(c, K) ==
    \A ch \in Channels : K[ch].st = "connected" /\ c.ws # 0 =>
        c.sock[c.ws] = "open" /\ K[ch].authOn = c.ws

Clients(c, K) ==
    /\ K \in [Channels -> ClientTypes] /\ \A ch \in Channels : ClientGood(K[ch])
    /\ NobodyYet(c, K) /\ OnThisSocket(c, K)

Tasks == /\ dialer \in [Dialers -> DialerTypes]
         /\ linkFaults \in 0 .. MaxLinkFaults /\ reconnects \in 0 .. MaxReconnects

LinkIInv == ConnGood(conn) /\ Clients(conn, client) /\ Tasks

-----------------------------------------------------------------------------
(* What the handlers of a client make of it.                                 *)

LEMMA EndSound ==
    ASSUME NEW k, ClientSound(k), NEW S
    PROVE  /\ ClientSound(End(k, S))
           /\ End(k, S).st = k.st /\ End(k, S).open = k.open /\ End(k, S).authOn = k.authOn
           /\ End(k, S).closed = k.closed /\ End(k, S).hsRetry = k.hsRetry
           /\ End(k, S).gone = k.gone
           /\ \A h \in Handshakes : End(k, S).hs[h] = IF h \in S THEN NoHandshake ELSE k.hs[h]
    <1> DEFINE H == [h \in Handshakes |-> IF h \in S THEN NoHandshake ELSE k.hs[h]]
               r == IF k.run \in S THEN 0 ELSE k.run
    <1>1. H \in [Handshakes -> HandshakeTypes]
        BY DEF ClientSound, ClientTypes, HandshakeTypes, NoHandshake
    <1>2. r \in Handshakes \cup {0}
        BY DEF ClientSound, ClientTypes
    <1>3. End(k, S) = [k EXCEPT !.hs = H, !.run = r]
        BY DEF End
    <1>4. \A h \in Handshakes : H[h] = IF h \in S THEN NoHandshake ELSE k.hs[h]
        OBVIOUS
    <1> DEFINE e == End(k, S)
    <1> HIDE DEF H, r, e
    <1>5. e = [k EXCEPT !.hs = H, !.run = r]
        BY <1>3 DEF e
    <1>6. /\ e \in ClientTypes /\ e.st = k.st /\ e.open = k.open /\ e.authOn = k.authOn
          /\ e.closed = k.closed /\ e.hsRetry = k.hsRetry /\ e.reopen = k.reopen /\ e.hs = H
          /\ e.gone = k.gone
        BY <1>1, <1>2, <1>5 DEF ClientSound, ClientTypes
    <1>7. ClientSound(e)
        BY <1>6 DEF ClientSound
    <1> QED BY <1>4, <1>6, <1>7 DEF e

LEMMA EndGood ==
    ASSUME NEW k, ClientGood(k), NEW S
    PROVE  ClientGood(End(k, S))
    BY EndSound DEF ClientGood, NoHandshake

LEMMA HandshakeFailsSound ==
    ASSUME NEW k, ClientSound(k), NEW S,
           \A h \in Handshakes : k.hs[h].at = "reply" => h \in S \/ k.open
    PROVE  /\ ClientGood(HandshakeFails(k, S)) /\ HandshakeFails(k, S).st = "reconnecting"
           /\ HandshakeFails(k, S).gone = k.gone /\ HandshakeFails(k, S).closed = k.closed
    <1> DEFINE e == End(k, S)
               f == HandshakeFails(k, S)
    <1>1. ClientSound(e) /\ e.gone = k.gone /\ e.closed = k.closed
        BY EndSound
    <1>2. \A h \in Handshakes : e.hs[h].at = "reply" => e.open
        BY EndSound DEF NoHandshake
    <1>3. f = [e EXCEPT !.st = "reconnecting", !.hsRetry = e.hsRetry \/ (~e.closed /\ e.open)]
        <2>1. f = ScheduleHandshakeRetry([e EXCEPT !.st = "reconnecting"])
            BY DEF HandshakeFails
        <2> HIDE DEF e, f
        <2> QED BY <1>1, <2>1 DEF ScheduleHandshakeRetry, ClientSound, ClientTypes
    <1> HIDE DEF e
    <1>4. f \in ClientTypes /\ f.st = "reconnecting" /\ f.hs = e.hs /\ f.open = e.open
          /\ f.closed = e.closed /\ f.reopen = e.reopen /\ f.gone = e.gone
          /\ f.hsRetry = (e.hsRetry \/ (~e.closed /\ e.open))
        <2> HIDE DEF f
        <2> QED BY <1>1, <1>3 DEF ClientSound, ClientTypes, LinkStates
    <1> HIDE DEF f
    <1>5. ClientSound(f)
        BY <1>1, <1>4 DEF ClientSound
    <1>6. ClientGood(f)
        BY <1>2, <1>4, <1>5 DEF ClientGood
    <1> QED BY <1>1, <1>4, <1>6 DEF f

(* Dropping what waits for an answer makes a client without a channel good.   *)
LEMMA FailPendingGood ==
    ASSUME NEW k, ClientSound(k)
    PROVE  /\ ClientGood(FailPending(k)) /\ FailPending(k).st \in {k.st, "reconnecting"}
           /\ FailPending(k).gone = k.gone /\ FailPending(k).closed = k.closed
    <1> DEFINE W == {h \in Handshakes : k.hs[h].at = "reply"}
    <1>1. CASE W = {}
        BY <1>1 DEF FailPending, ClientGood
    <1>2. CASE W # {}
        <2>1. FailPending(k) = HandshakeFails(k, W)
            BY <1>2 DEF FailPending
        <2>2. \A h \in Handshakes : k.hs[h].at = "reply" => h \in W \/ k.open
            OBVIOUS
        <2> HIDE DEF W
        <2> QED BY <2>1, <2>2, HandshakeFailsSound
    <1> QED BY <1>1, <1>2

(* A client hears of a state other than "connected" by giving up its own, if it has a
   channel; without one it says nothing.                                     *)
LEMMA HearingGood ==
    ASSUME NEW k, ClientGood(k), NEW st \in LinkStates
    PROVE  LET m == HandleConnectionState(k, st) IN
           /\ ClientGood(m) /\ (m.st = "connected" => st = "connected" /\ m = k)
           /\ m.gone = k.gone /\ m.closed = k.closed
    <1>1. CASE k.closed \/ ~k.open \/ st = "connected"
        BY <1>1 DEF HandleConnectionState, ClientGood, ClientSound
    <1>2. CASE ~(k.closed \/ ~k.open \/ st = "connected")
        <2> DEFINE s == [k EXCEPT !.st = st]
        <2>1. HandleConnectionState(k, st) = FailPending(s)
            BY <1>2 DEF HandleConnectionState
        <2>2. /\ s \in ClientTypes /\ s.st = st /\ s.open = k.open /\ s.closed = k.closed
              /\ s.hsRetry = k.hsRetry /\ s.reopen = k.reopen /\ s.gone = k.gone
            BY DEF ClientGood, ClientSound, ClientTypes
        <2> HIDE DEF s
        <2>3. ClientSound(s)
            BY <1>2, <2>2 DEF ClientGood, ClientSound
        <2> QED BY <1>2, <2>1, <2>2, <2>3, FailPendingGood
    <1> QED BY <1>1, <1>2

LEMMA StartHandshakeGood ==
    ASSUME NEW k, ClientGood(k), k.open
    PROVE  LET m == StartHandshake(k) IN
           /\ ClientGood(m) /\ m.st = k.st /\ m.open = k.open /\ m.authOn = k.authOn
           /\ m.gone = k.gone /\ m.closed = k.closed
    <1> DEFINE H == [k.hs EXCEPT ![FreeSlot(k)] = At("cred")]
               m == StartHandshake(k)
    <1>1. H \in [Handshakes -> HandshakeTypes]
        BY DEF ClientGood, ClientSound, ClientTypes, HandshakeTypes, At
    <1>2. m = [k EXCEPT !.hs = H]
        BY DEF StartHandshake, ClientGood, ClientSound, ClientTypes
    <1> HIDE DEF H, m
    <1>3. /\ m \in ClientTypes /\ m.st = k.st /\ m.open = k.open /\ m.closed = k.closed
          /\ m.hsRetry = k.hsRetry /\ m.reopen = k.reopen /\ m.authOn = k.authOn
          /\ m.gone = k.gone
        BY <1>1, <1>2 DEF ClientGood, ClientSound, ClientTypes
    <1>4. ClientGood(m)
        BY <1>3 DEF ClientGood, ClientSound
    <1> QED BY <1>3, <1>4 DEF m

LEMMA OpenChannelGood ==
    ASSUME NEW k, ClientSound(k), ~k.closed, NEW h \in Handshakes
    PROVE  LET m == OpenChannel(k, h) IN ClientGood(m) /\ m.st = k.st /\ m.open /\ m.gone = k.gone
    <1> DEFINE H == [k.hs EXCEPT ![h] = At("cred")]
               m == OpenChannel(k, h)
    <1>1. H \in [Handshakes -> HandshakeTypes]
        BY DEF ClientSound, ClientTypes, HandshakeTypes, At
    <1>2. m = [k EXCEPT !.open = TRUE, !.hs = H]
        BY DEF OpenChannel, ClientSound, ClientTypes
    <1> HIDE DEF H, m
    <1>3. /\ m \in ClientTypes /\ m.st = k.st /\ m.open /\ m.closed = k.closed /\ m.gone = k.gone
        BY <1>1, <1>2 DEF ClientSound, ClientTypes
    <1>4. ClientGood(m)
        BY <1>3 DEF ClientGood, ClientSound
    <1> QED BY <1>3, <1>4 DEF m

LEMMA ConnectGood ==
    ASSUME NEW k, ClientGood(k), ~k.open, HasSlot(k), NEW c, ConnGood(c)
    PROVE  /\ ClientGood(Connect(k, c)) /\ Connect(k, c).st # "connected"
           /\ Connect(k, c).gone = k.gone
    <1>1. CASE k.run # 0
        BY <1>1 DEF Connect, ClientGood, ClientSound
    <1>2. CASE k.run = 0
        <2> DEFINE h == FreeSlot(k)
                   k1 == [k EXCEPT !.closed = FALSE, !.st = "connecting", !.run = h]
                   H == [k.hs EXCEPT ![h] = [at |-> "socket", p |-> c.promise]]
                   k2 == [k1 EXCEPT !.hs[h] = [at |-> "socket", p |-> c.promise]]
        <2>1. h \in Handshakes
            BY DEF FreeSlot, HasSlot
        <2>2. Connect(k, c) = IF Resolved(c) THEN OpenChannel(k1, h) ELSE k2
            BY <1>2 DEF Connect
        <2>3. H \in [Handshakes -> HandshakeTypes]
            BY DEF ClientGood, ClientSound, ClientTypes, HandshakeTypes, ConnGood, ConnTypes
        <2> HIDE DEF h
        <2>4. /\ k1 \in ClientTypes /\ k1.st = "connecting" /\ k1.closed = FALSE
              /\ k1.open = k.open /\ k1.hs = k.hs /\ k1.gone = k.gone
            BY <2>1 DEF ClientGood, ClientSound, ClientTypes, LinkStates
        <2>5. ClientSound(k1)
            <3> HIDE DEF k1
            <3> QED BY <2>4 DEF ClientSound
        <2>6. k2 = [k1 EXCEPT !.hs = H]
            <3> HIDE DEF k1
            <3> QED BY <2>4 DEF ClientTypes
        <2> HIDE DEF k1, k2
        <2>7. CASE Resolved(c)
            BY <2>1, <2>2, <2>4, <2>5, <2>7, OpenChannelGood
        <2>8. CASE ~Resolved(c)
            <3>1. \A g \in Handshakes : H[g].at = "reply" => k.hs[g].at = "reply"
                BY DEF ClientGood, ClientSound, ClientTypes
            <3> HIDE DEF H
            <3>2. /\ k2 \in ClientTypes /\ k2.st = "connecting" /\ k2.closed = FALSE
                  /\ k2.open = k.open /\ k2.hs = H /\ k2.gone = k.gone
                BY <2>3, <2>4, <2>6 DEF ClientTypes
            <3>3. ClientGood(k2)
                BY <3>1, <3>2 DEF ClientGood, ClientSound
            <3> QED BY <2>2, <2>8, <3>2, <3>3
        <2> QED BY <2>7, <2>8
    <1> QED BY <1>1, <1>2

LEMMA ChannelClosedGood ==
    ASSUME NEW k, ClientGood(k), k.open
    PROVE  LET m == HandleChannelClosed(k) IN
           ClientGood(m) /\ m.st # "connected" /\ m.gone = k.gone /\ m.closed = k.closed
    <1> DEFINE t == k.code = "transient"
               r == k.reopen \/ t
               s == IF t THEN "reconnecting" ELSE "disconnected"
               k1 == [k EXCEPT !.open = FALSE, !.hsRetry = FALSE, !.code = "none",
                               !.reopen = r, !.st = s]
    <1>1. HandleChannelClosed(k) = FailPending(k1)
        BY DEF HandleChannelClosed
    <1>2. r \in BOOLEAN
        OBVIOUS
    <1>3. s \in LinkStates /\ s # "connected"
        BY DEF LinkStates
    <1> HIDE DEF r, s
    <1>4. /\ k1 \in ClientTypes /\ k1.st = s /\ k1.open = FALSE /\ k1.hsRetry = FALSE
          /\ k1.closed = k.closed /\ k1.gone = k.gone
        BY <1>2, <1>3 DEF ClientGood, ClientSound, ClientTypes, ChannelCodes
    <1> HIDE DEF k1
    <1>5. ClientSound(k1)
        BY <1>3, <1>4 DEF ClientGood, ClientSound
    <1> QED BY <1>1, <1>3, <1>4, <1>5, FailPendingGood

LEMMA CloseClientGood ==
    ASSUME NEW k, ClientGood(k)
    PROVE  LET m == CloseClient(k) IN ClientGood(m) /\ m.st # "connected" /\ m.closed
    <1> DEFINE k1 == [k EXCEPT !.closed = TRUE, !.hsRetry = FALSE, !.reopen = FALSE,
                               !.open = FALSE, !.run = 0, !.st = "disconnected"]
    <1>1. CloseClient(k) = FailPending(k1)
        BY DEF CloseClient
    <1>2. /\ k1 \in ClientTypes /\ k1.st = "disconnected" /\ k1.open = FALSE
          /\ k1.hsRetry = FALSE /\ k1.reopen = FALSE /\ k1.closed = TRUE
        BY DEF ClientGood, ClientSound, ClientTypes, LinkStates
    <1> HIDE DEF k1
    <1>3. ClientSound(k1)
        BY <1>2 DEF ClientSound
    <1> QED BY <1>1, <1>2, <1>3, FailPendingGood

-----------------------------------------------------------------------------
(* What becomes of the connection, and what its clients hear of it.          *)

(* A dial either finds the socket it needs or makes one that is nobody's yet.  *)
LEMMA DialGood ==
    ASSUME NEW c, ConnGood(c), CanDial(c)
    PROVE  LET d == Dial(c) IN
           /\ ConnGood(d)
           /\ d = c \/ (d.st = "connecting" /\ d.ws # 0 /\ d.sock[d.ws] = "opening")
    <1>1. CASE c.promise # 0
        BY <1>1 DEF Dial
    <1>2. CASE c.promise = 0
        <2> DEFINE i == CHOOSE s \in Sockets : c.sock[s] = "closed"
                   S == [c.sock EXCEPT ![i] = "opening"]
                   d == Dial(c)
        <2>1. i \in Sockets
            BY <1>2 DEF CanDial
        <2>2. S \in [Sockets -> SocketStates] /\ S[i] = "opening"
            BY <2>1 DEF ConnGood, ConnTypes, SocketStates
        <2>3. d = [c EXCEPT !.ws = i, !.promise = i, !.st = "connecting", !.sock = S]
            BY <1>2 DEF Dial, ConnGood, ConnTypes
        <2> HIDE DEF i, S, d
        <2>4. i # 0
            BY <2>1, LinkAssumption DEF Sockets
        <2>5. /\ d \in ConnTypes /\ d.ws = i /\ d.promise = i /\ d.st = "connecting"
              /\ d.sock = S
            BY <2>1, <2>2, <2>3 DEF ConnGood, ConnTypes, LinkStates
        <2>6. ConnGood(d)
            BY <2>2, <2>5 DEF ConnGood
        <2> QED BY <2>2, <2>4, <2>5, <2>6 DEF d
    <1> QED BY <1>1, <1>2

LEMMA SupersedeGood ==
    ASSUME NEW c, ConnGood(c), NEW j \in Sockets, c.sock[j] = "closed"
    PROVE  LET d == Supersede(c) IN
           ConnGood(d) /\ d.st = "connecting" /\ d.ws # 0 /\ d.sock[d.ws] = "opening"
    <1> DEFINE S == [i \in Sockets |->
                       IF i # c.ws THEN c.sock[i]
                       ELSE IF c.sock[i] = "opening" THEN "cancelled" ELSE "closed"]
               b == [c EXCEPT !.ws = 0, !.promise = 0, !.redial = FALSE, !.sock = S]
    <1>1. Supersede(c) = Dial(b)
        BY DEF Supersede
    <1>2. S \in [Sockets -> SocketStates] /\ S[j] = "closed"
        BY DEF ConnGood, ConnTypes, SocketStates
    <1> HIDE DEF S
    <1>3. b \in ConnTypes /\ b.ws = 0 /\ b.promise = 0 /\ b.sock = S
        BY <1>2 DEF ConnGood, ConnTypes
    <1> HIDE DEF b
    <1>4. ConnGood(b) /\ CanDial(b)
        BY <1>2, <1>3 DEF ConnGood, CanDial
    <1>5. Dial(b).ws # 0
        <2> DEFINE i == CHOOSE s \in Sockets : b.sock[s] = "closed"
        <2>1. i \in Sockets
            BY <1>2, <1>3
        <2> HIDE DEF i
        <2>2. Dial(b) = [b EXCEPT !.ws = i, !.promise = i, !.st = "connecting",
                                  !.sock[i] = "opening"]
            BY <1>3 DEF Dial, i
        <2> QED BY <1>3, <2>1, <2>2, LinkAssumption DEF ConnTypes, Sockets
    <1>6. Dial(b) # b
        BY <1>3, <1>5
    <1> QED BY <1>1, <1>4, <1>6, DialGood

LEMMA LostGood ==
    ASSUME NEW c, ConnGood(c)
    PROVE  /\ ConnGood(Lost(c)) /\ Lost(c).st = "reconnecting"
           /\ Lost(c).ws = c.ws /\ Lost(c).sock = c.sock
    <1> DEFINE d == Lost(c)
    <1>1. /\ d \in ConnTypes /\ d.st = "reconnecting" /\ d.ws = c.ws
          /\ d.promise = c.promise /\ d.sock = c.sock
        BY DEF Lost, ConnGood, ConnTypes, LinkStates
    <1> HIDE DEF d
    <1>2. ConnGood(d)
        BY <1>1 DEF ConnGood
    <1> QED BY <1>1, <1>2 DEF d

(* Whoever is still connected stayed as it was, in a step that made no new socket. *)
LEMMA StillConnected ==
    ASSUME Clients(conn, client), NEW c, NEW K,
           c.st = "connecting" => c.ws # 0 /\ c.sock[c.ws] = "opening",
           c.st # "connecting" /\ c.ws # 0 =>
               c.ws = conn.ws /\ (conn.sock[conn.ws] = "open" => c.sock[c.ws] = "open"),
           K \in [Channels -> ClientTypes],
           \A ch \in Channels : /\ ClientGood(K[ch])
                                /\ K[ch].st = "connected" =>
                                      /\ client[ch].st = "connected"
                                      /\ K[ch].authOn = client[ch].authOn
                                      /\ c.st = conn.st \/ c.st = "connected"
    PROVE  Clients(c, K)
    <1>1. NobodyYet(conn, client) /\ OnThisSocket(conn, client)
        BY DEF Clients
    <1>2. NobodyYet(c, K)
        <2> SUFFICES ASSUME c.st = "connecting", NEW ch \in Channels, K[ch].st = "connected"
                     PROVE  FALSE
            BY DEF NobodyYet
        <2>1. client[ch].st = "connected" /\ conn.st = "connecting"
            OBVIOUS
        <2> QED BY <1>1, <2>1 DEF NobodyYet
    <1>3. OnThisSocket(c, K)
        <2> SUFFICES ASSUME NEW ch \in Channels, K[ch].st = "connected", c.ws # 0
                     PROVE  c.sock[c.ws] = "open" /\ K[ch].authOn = c.ws
            BY DEF OnThisSocket
        <2>1. client[ch].st = "connected" /\ K[ch].authOn = client[ch].authOn
            OBVIOUS
        <2>2. c.st # "connecting"
            BY <1>2 DEF NobodyYet
        <2> QED BY <1>1, <2>1, <2>2 DEF OnThisSocket
    <1> QED BY <1>2, <1>3 DEF Clients

(* What the clients hear keeps them sound, if a new socket comes with the state
   "connecting" and every other step leaves the socket that is open as it was. *)
LEMMA ToldGood ==
    ASSUME Clients(conn, client), NEW c, ConnGood(c),
           c.st = "connecting" => c.ws # 0 /\ c.sock[c.ws] = "opening",
           c.st # "connecting" /\ c.ws # 0 =>
               c.ws = conn.ws /\ (conn.sock[conn.ws] = "open" => c.sock[c.ws] = "open")
    PROVE  Clients(c, Told(c))
    <1> DEFINE T == Told(c)
    <1>1. c.st \in LinkStates
        BY DEF ConnGood, ConnTypes
    <1>3. \A ch \in Channels : /\ ClientGood(T[ch])
                               /\ T[ch].st = "connected" =>
                                     T[ch] = client[ch] /\ (c.st = conn.st \/ c.st = "connected")
        <2> TAKE ch \in Channels
        <2>1. ClientGood(client[ch])
            BY DEF Clients
        <2>2. T[ch] = IF c.st = conn.st THEN client[ch]
                      ELSE HandleConnectionState(client[ch], c.st)
            BY DEF Told
        <2> HIDE DEF T
        <2> QED BY <1>1, <2>1, <2>2, HearingGood
    <1>2. T \in [Channels -> ClientTypes]
        <2>1. \A ch \in Channels : T[ch] \in ClientTypes
            <3> HIDE DEF T
            <3> QED BY <1>3 DEF ClientGood, ClientSound
        <2>2. T = [ch \in Channels |-> T[ch]]
            BY DEF Told
        <2> HIDE DEF T
        <2> QED BY <2>1, <2>2, Zenon
    <1> HIDE DEF T
    <1>4. Clients(c, T)
        BY <1>2, <1>3, StillConnected
    <1> QED BY <1>4 DEF T

(* Clients that change to ones that are not connected disturb no other.      *)
LEMMA SomeChange ==
    ASSUME NEW c, NEW K, NEW L, Clients(c, K), L \in [Channels -> ClientTypes],
           \A ch \in Channels :
               ClientGood(L[ch])
               /\ (L[ch].st = "connected" =>
                      K[ch].st = "connected" /\ L[ch].authOn = K[ch].authOn)
    PROVE  Clients(c, L)
    <1>1. NobodyYet(c, L)
        BY DEF Clients, NobodyYet
    <1>2. OnThisSocket(c, L)
        BY DEF Clients, OnThisSocket
    <1> QED BY <1>1, <1>2 DEF Clients

LEMMA OneChanges ==
    ASSUME NEW c, NEW K, Clients(c, K), NEW ch \in Channels, NEW k, ClientGood(k),
           k.st = "connected" => K[ch].st = "connected" /\ k.authOn = K[ch].authOn
    PROVE  Clients(c, [K EXCEPT ![ch] = k])
    <1> DEFINE L == [K EXCEPT ![ch] = k]
    <1>1. L \in [Channels -> ClientTypes] /\ \A x \in Channels : L[x] = IF x = ch THEN k ELSE K[x]
        BY DEF Clients, ClientGood, ClientSound
    <1> HIDE DEF L
    <1>2. \A x \in Channels : ClientGood(L[x])
        BY <1>1 DEF Clients
    <1>3. Clients(c, L)
        BY <1>1, <1>2, SomeChange
    <1> QED BY <1>3 DEF L

-----------------------------------------------------------------------------
(* The steps.                                                                *)

LEMMA DialTold ==
    ASSUME LinkIInv, CanDial(conn), NEW c, c = Dial(conn)
    PROVE  ConnGood(c) /\ Clients(c, Told(c))
    <1>1. ConnGood(c) /\ (c = conn \/ (c.st = "connecting" /\ c.ws # 0 /\ c.sock[c.ws] = "opening"))
        BY DialGood DEF LinkIInv
    <1>2. Clients(conn, client) /\ NobodyYet(conn, client)
        BY DEF LinkIInv, Clients
    <1>3. c.st = "connecting" => c.ws # 0 /\ c.sock[c.ws] = "opening"
        BY <1>1, <1>2 DEF NobodyYet
    <1>4. c.st # "connecting" /\ c.ws # 0 =>
              c.ws = conn.ws /\ (conn.sock[conn.ws] = "open" => c.sock[c.ws] = "open")
        BY <1>1
    <1> QED BY <1>1, <1>2, <1>3, <1>4, ToldGood

LEMMA FirstConnectStep ==
    ASSUME LinkIInv, NEW ch \in Channels, FirstConnect(ch)
    PROVE  LinkIInv'
    <1> DEFINE k == Connect(client[ch], conn')
    <1>1. conn' = Dial(conn) /\ CanDial(conn) /\ client[ch] = NewClient
          /\ client' = [Told(conn') EXCEPT ![ch] = k]
        BY DEF FirstConnect
    <1>2. ConnGood(conn') /\ Clients(conn', Told(conn'))
        BY <1>1, DialTold
    <1>3. HasSlot(client[ch]) /\ ~client[ch].open
        BY <1>1, LinkAssumption DEF HasSlot, NewClient, Handshakes
    <1>4. ClientGood(client[ch])
        BY DEF LinkIInv, Clients
    <1>5. ClientGood(k) /\ k.st # "connected"
        BY <1>2, <1>3, <1>4, ConnectGood
    <1>6. Clients(conn', client')
        <2> HIDE DEF k
        <2> QED BY <1>1, <1>2, <1>5, OneChanges
    <1>7. Tasks'
        BY DEF FirstConnect, LinkIInv, Tasks
    <1> QED BY <1>2, <1>6, <1>7 DEF LinkIInv

LEMMA ReopenFiresStep ==
    ASSUME LinkIInv, NEW ch \in Channels, ReopenFires(ch)
    PROVE  LinkIInv'
    <1> DEFINE k == client[ch]
               k1 == [k EXCEPT !.reopen = FALSE]
               skip == k.closed \/ k.open \/ k.run # 0
               m == IF skip THEN k1 ELSE Connect(k1, conn')
    <1>1. /\ conn' = IF skip THEN conn ELSE Dial(conn)
          /\ client' = [Told(conn') EXCEPT ![ch] = m] /\ HasSlot(k) /\ CanDial(conn)
        BY DEF ReopenFires
    <1>2. ClientGood(k)
        BY DEF LinkIInv, Clients
    <1>3. /\ ClientGood(k1) /\ k1.st = k.st /\ k1.open = k.open /\ k1.authOn = k.authOn
          /\ HasSlot(k1)
        <2>1. /\ k1 \in ClientTypes /\ k1.st = k.st /\ k1.open = k.open /\ k1.hs = k.hs
              /\ k1.authOn = k.authOn /\ k1.closed = k.closed /\ k1.hsRetry = k.hsRetry
              /\ k1.reopen = FALSE
            BY <1>2 DEF ClientGood, ClientSound, ClientTypes
        <2> HIDE DEF k, k1
        <2>2. ClientGood(k1)
            BY <1>2, <2>1 DEF ClientGood, ClientSound
        <2> QED BY <1>1, <2>1, <2>2 DEF HasSlot
    <1>4. Tasks'
        BY DEF ReopenFires, LinkIInv, Tasks
    <1>5. CASE skip
        <2>1. conn' = conn /\ m = k1
            BY <1>1, <1>5
        <2>2. Told(conn') = [x \in Channels |-> client[x]]
            BY <2>1 DEF Told
        <2>3. Told(conn')[ch] = k
            BY <2>2
        <2>4. Clients(conn', Told(conn'))
            BY <2>1, <2>2 DEF LinkIInv, Clients
        <2> HIDE DEF k1, m
        <2>5. Clients(conn', [Told(conn') EXCEPT ![ch] = m])
            BY <1>3, <2>1, <2>3, <2>4, OneChanges
        <2> QED BY <1>1, <1>4, <2>1, <2>5 DEF LinkIInv
    <1>6. CASE ~skip
        <2>1. conn' = Dial(conn) /\ m = Connect(k1, conn')
            BY <1>1, <1>6
        <2>2. ConnGood(conn') /\ Clients(conn', Told(conn'))
            BY <1>1, <2>1, DialTold
        <2>3. ~k1.open
            BY <1>3, <1>6
        <2> HIDE DEF k, k1, m
        <2>4. ClientGood(m) /\ m.st # "connected"
            BY <1>3, <2>1, <2>2, <2>3, ConnectGood
        <2>5. Clients(conn', [Told(conn') EXCEPT ![ch] = m])
            BY <2>2, <2>4, OneChanges
        <2> QED BY <1>1, <1>4, <2>2, <2>5 DEF LinkIInv
    <1> QED BY <1>5, <1>6

(* What a client does when a socket opens, before a reconnect has it reopened. *)
LEMMA WentGood ==
    ASSUME NEW k, ClientGood(k), HasSlot(k), NEW i
    PROVE  LET g == IF k.open THEN StartHandshake(k)
                    ELSE IF k.closed THEN End(k, Waiting(k, i))
                    ELSE IF Waiting(k, i) # {}
                        THEN OpenChannel(k, CHOOSE h \in Waiting(k, i) : TRUE)
                    ELSE k
           IN  /\ ClientGood(g) /\ (g.open \/ HasSlot(g))
               /\ g.st = "connected" => k.st = "connected" /\ g.authOn = k.authOn
               /\ g.gone = k.gone /\ (k.closed => g.closed)
    <1> DEFINE w == CHOOSE h \in Waiting(k, i) : TRUE
               g == IF k.open THEN StartHandshake(k)
                    ELSE IF k.closed THEN End(k, Waiting(k, i))
                    ELSE IF Waiting(k, i) # {} THEN OpenChannel(k, w)
                    ELSE k
    <1>1. CASE k.open
        BY <1>1, StartHandshakeGood
    <1>2. CASE ~k.open /\ k.closed
        <2>1. g = End(k, Waiting(k, i))
            BY <1>2
        <2> HIDE DEF g
        <2>2. ClientGood(g) /\ g.st = k.st /\ g.authOn = k.authOn /\ g.gone = k.gone
              /\ g.closed = k.closed
            BY <2>1, EndGood, EndSound DEF ClientGood
        <2>3. HasSlot(g)
            <3>1. PICK h \in Handshakes : k.hs[h] = NoHandshake
                BY DEF HasSlot
            <3>2. g.hs[h] = NoHandshake
                BY <2>1, <3>1, EndSound DEF ClientGood
            <3> QED BY <3>2 DEF HasSlot
        <2> QED BY <2>2, <2>3 DEF g
    <1>3. CASE ~k.open /\ ~k.closed /\ Waiting(k, i) # {}
        <2>1. g = OpenChannel(k, w) /\ w \in Handshakes
            BY <1>3 DEF Waiting
        <2> HIDE DEF g, w
        <2>2. ClientGood(g) /\ g.st = k.st /\ g.gone = k.gone /\ g.open /\ k.st # "connected"
            BY <1>3, <2>1, OpenChannelGood DEF ClientGood, ClientSound
        <2> QED BY <1>3, <2>2 DEF g, w
    <1>4. CASE ~k.open /\ ~k.closed /\ Waiting(k, i) = {}
        BY <1>4
    <1> QED BY <1>1, <1>2, <1>3, <1>4

LEMMA SocketOpensStep ==
    ASSUME LinkIInv, NEW i \in Sockets, SocketOpens(i)
    PROVE  LinkIInv'
    <1> DEFINE c == [conn EXCEPT !.sock[i] = "open", !.st = "connected"]
               S == [conn.sock EXCEPT ![i] = "open"]
               stuck == ~Usable(c) /\ \E ch \in Channels : client[ch].open
               DialsFor(ch) == \E d \in Dialers : dialer[d] = [kind |-> ch, at |-> "dial", p |-> i]
               Went(k) ==
                   IF k.open THEN StartHandshake(k)
                   ELSE IF k.closed THEN End(k, Waiting(k, i))
                   ELSE IF Waiting(k, i) # {} THEN OpenChannel(k, CHOOSE h \in Waiting(k, i) : TRUE)
                   ELSE k
               New(ch) == LET k == Went(client[ch]) IN IF DialsFor(ch) THEN Reopen(k, c) ELSE k
    <1>1. /\ conn.sock[i] = "opening" /\ conn' = c
          /\ \A ch \in Channels : HasSlot(client[ch])
          /\ client' = IF stuck THEN client ELSE [ch \in Channels |-> New(ch)]
        BY DEF SocketOpens
    <1>2. Tasks'
        <2>1. UNCHANGED <<linkFaults, reconnects>>
            BY DEF SocketOpens
        <2>2. dialer' = [d \in Dialers |->
                  IF ~stuck /\ dialer[d].at = "dial" /\ dialer[d].p = i THEN Idle ELSE dialer[d]]
            BY DEF SocketOpens
        <2> HIDE DEF stuck
        <2>3. dialer' \in [Dialers -> DialerTypes]
            BY <2>2 DEF LinkIInv, Tasks, DialerTypes, Idle
        <2> QED BY <2>1, <2>3 DEF LinkIInv, Tasks
    <1>3. S \in [Sockets -> SocketStates] /\ \A j \in Sockets : S[j] = IF j = i THEN "open" ELSE conn.sock[j]
        BY DEF LinkIInv, ConnGood, ConnTypes, SocketStates
    <1>4. c = [conn EXCEPT !.sock = S, !.st = "connected"]
        BY DEF LinkIInv, ConnGood, ConnTypes
    <1> HIDE DEF S, c
    <1>5. /\ c \in ConnTypes /\ c.ws = conn.ws /\ c.promise = conn.promise /\ c.sock = S
          /\ c.st = "connected"
        BY <1>3, <1>4 DEF LinkIInv, ConnGood, ConnTypes, LinkStates
    <1>6. ConnGood(c)
        <2>1. conn.ws \in Sockets \cup {0}
            BY DEF LinkIInv, ConnGood, ConnTypes
        <2> QED BY <1>3, <1>5, <2>1, LinkAssumption DEF LinkIInv, ConnGood, Sockets
    <1>7. c.ws # 0 => c.ws = conn.ws /\ (conn.sock[conn.ws] = "open" => c.sock[c.ws] = "open")
        <2>1. conn.ws \in Sockets \cup {0}
            BY DEF LinkIInv, ConnGood, ConnTypes
        <2> QED BY <1>3, <1>5, <2>1
    <1>8. Clients(conn, client) /\ \A ch \in Channels : ClientGood(client[ch])
        BY DEF LinkIInv, Clients
    <1>9. CASE stuck
        <2>1. client' = client
            BY <1>1, <1>9
        <2>2. client \in [Channels -> ClientTypes]
            BY DEF LinkIInv, Clients
        <2>3. Clients(c, client)
            BY <1>5, <1>7, <1>8, <2>2, StillConnected
        <2> QED BY <1>1, <1>2, <1>6, <2>1, <2>3 DEF LinkIInv
    <1>10. CASE ~stuck
        <2>1. client' = [ch \in Channels |-> New(ch)]
            BY <1>1, <1>10
        <2>2. ASSUME NEW ch \in Channels
              PROVE  /\ ClientGood(New(ch))
                     /\ New(ch).st = "connected" =>
                            client[ch].st = "connected" /\ New(ch).authOn = client[ch].authOn
            <3> DEFINE k == client[ch]
                       g == Went(k)
                       n == New(ch)
            <3>1. ClientGood(k) /\ HasSlot(k)
                BY <1>1, <1>8
            <3>2. /\ ClientGood(g) /\ (g.open \/ HasSlot(g))
                  /\ g.st = "connected" => k.st = "connected" /\ g.authOn = k.authOn
                <4> HIDE DEF k
                <4> QED BY <3>1, WentGood
            <3>3. n = IF DialsFor(ch) /\ ~g.open THEN Connect(g, c) ELSE g
                BY DEF Reopen
            <3> HIDE DEF g, n, DialsFor
            <3>4. CASE DialsFor(ch) /\ ~g.open
                <4>1. ClientGood(n) /\ n.st # "connected"
                    BY <1>6, <3>2, <3>3, <3>4, ConnectGood
                <4> QED BY <4>1 DEF n
            <3>5. CASE ~(DialsFor(ch) /\ ~g.open)
                BY <3>2, <3>3, <3>5 DEF n
            <3> QED BY <3>4, <3>5
        <2> DEFINE L == [ch \in Channels |-> New(ch)]
        <2> HIDE DEF New
        <2>3. L \in [Channels -> ClientTypes]
            BY <2>2 DEF ClientGood, ClientSound
        <2>4. \A ch \in Channels : L[ch] = New(ch)
            OBVIOUS
        <2> HIDE DEF L
        <2>5. Clients(c, L)
            BY <1>5, <1>7, <1>8, <2>2, <2>3, <2>4, StillConnected
        <2> QED BY <1>1, <1>2, <1>6, <2>1, <2>5 DEF LinkIInv, L
    <1> QED BY <1>9, <1>10

LEMMA SocketFailsStep ==
    ASSUME LinkIInv, NEW i \in Sockets, SocketFails(i)
    PROVE  LinkIInv'
    <1> DEFINE own == conn.ws = i
               Awaits(d) == dialer[d].at = "dial" /\ dialer[d].p = i
               redialed == \E d \in Dialers : Awaits(d) /\ dialer[d].kind = "redial"
               w == IF own THEN 0 ELSE conn.ws
               S == [conn.sock EXCEPT ![i] = "closed"]
               c0 == [conn EXCEPT !.sock[i] = "closed", !.promise = 0, !.ws = w]
               c == IF own \/ redialed THEN Lost(c0) ELSE c0
               T == Told(c)
               L == [ch \in Channels |-> End(T[ch], Waiting(T[ch], i))]
    <1>1. conn' = c /\ client' = L
        BY DEF SocketFails
    <1>2. Tasks'
        <2>1. UNCHANGED reconnects
            BY DEF SocketFails
        <2>2. linkFaults' \in 0 .. MaxLinkFaults
            BY LinkAssumption DEF SocketFails, Fault, LinkIInv, Tasks
        <2>3. dialer' = [d \in Dialers |-> IF Awaits(d) THEN Idle ELSE dialer[d]]
            BY DEF SocketFails
        <2> HIDE DEF Awaits
        <2>4. dialer' \in [Dialers -> DialerTypes]
            BY <2>3 DEF LinkIInv, Tasks, DialerTypes, Idle
        <2> QED BY <2>1, <2>2, <2>4 DEF LinkIInv, Tasks
    <1>3. S \in [Sockets -> SocketStates] /\ \A j \in Sockets : j # i => S[j] = conn.sock[j]
        BY DEF LinkIInv, ConnGood, ConnTypes, SocketStates
    <1>4. c0 = [conn EXCEPT !.sock = S, !.promise = 0, !.ws = w]
        BY DEF LinkIInv, ConnGood, ConnTypes
    <1>5. w \in Sockets \cup {0} /\ (w # 0 => w = conn.ws /\ w # i)
        BY DEF LinkIInv, ConnGood, ConnTypes
    <1> HIDE DEF S, c0, w, Awaits
    <1>6. /\ c0 \in ConnTypes /\ c0.ws = w /\ c0.promise = 0 /\ c0.sock = S /\ c0.st = conn.st
        BY <1>3, <1>4, <1>5 DEF LinkIInv, ConnGood, ConnTypes
    <1>7. ConnGood(c0)
        BY <1>6 DEF ConnGood
    <1>8. /\ ConnGood(c) /\ c.ws = w /\ c.sock = S
          /\ c.st = "connecting" => ~own /\ conn.st = "connecting"
        BY <1>6, <1>7, LostGood
    <1> HIDE DEF c
    <1>9. Clients(conn, client) /\ NobodyYet(conn, client)
        BY DEF LinkIInv, Clients
    <1>10. c.st = "connecting" => c.ws # 0 /\ c.sock[c.ws] = "opening"
        BY <1>3, <1>5, <1>8, <1>9 DEF NobodyYet, w
    <1>11. c.ws # 0 => c.ws = conn.ws /\ (conn.sock[conn.ws] = "open" => c.sock[c.ws] = "open")
        BY <1>3, <1>5, <1>8
    <1>12. Clients(c, T)
        <2> HIDE DEF T
        <2> QED BY <1>8, <1>9, <1>10, <1>11, ToldGood DEF T
    <1> HIDE DEF T
    <1>13. \A ch \in Channels :
               ClientGood(L[ch]) /\ L[ch].st = T[ch].st /\ L[ch].authOn = T[ch].authOn
        <2> TAKE ch \in Channels
        <2>1. ClientGood(T[ch])
            BY <1>12 DEF Clients
        <2>2. L[ch] = End(T[ch], Waiting(T[ch], i))
            OBVIOUS
        <2> HIDE DEF L
        <2> QED BY <2>1, <2>2, EndGood, EndSound DEF ClientGood
    <1>14. L \in [Channels -> ClientTypes]
        <2>1. \A ch \in Channels : End(T[ch], Waiting(T[ch], i)) \in ClientTypes
            BY <1>13 DEF ClientGood, ClientSound
        <2> QED BY <2>1
    <1> HIDE DEF L
    <1>15. Clients(c, L)
        BY <1>12, <1>13, <1>14, SomeChange
    <1> QED BY <1>1, <1>2, <1>8, <1>15 DEF LinkIInv

LEMMA SocketDropsStep ==
    ASSUME LinkIInv, NEW i \in Sockets, SocketDrops(i)
    PROVE  LinkIInv'
    <1> DEFINE S == [conn.sock EXCEPT ![i] = "closed"]
               c0 == [conn EXCEPT !.sock[i] = "closed"]
               c1 == [c0 EXCEPT !.ws = 0, !.promise = 0]
               c == IF conn.ws = i THEN Lost(c1) ELSE c0
    <1>1. conn' = c /\ client' = Told(conn')
        BY DEF SocketDrops
    <1>2. Tasks'
        BY LinkAssumption DEF SocketDrops, Fault, LinkIInv, Tasks
    <1>3. S \in [Sockets -> SocketStates] /\ \A j \in Sockets : j # i => S[j] = conn.sock[j]
        BY DEF LinkIInv, ConnGood, ConnTypes, SocketStates
    <1>4. c0 = [conn EXCEPT !.sock = S]
        BY DEF LinkIInv, ConnGood, ConnTypes
    <1> HIDE DEF S
    <1>5. /\ c0 \in ConnTypes /\ c0.ws = conn.ws /\ c0.promise = conn.promise /\ c0.sock = S
          /\ c0.st = conn.st
        BY <1>3, <1>4 DEF LinkIInv, ConnGood, ConnTypes
    <1> HIDE DEF c0
    <1>6. c1 \in ConnTypes /\ c1.ws = 0 /\ c1.promise = 0
        BY <1>5 DEF ConnTypes
    <1> HIDE DEF c1
    <1>7. conn.ws \in Sockets \cup {0}
        BY DEF LinkIInv, ConnGood, ConnTypes
    <1>8. Clients(conn, client) /\ NobodyYet(conn, client) /\ conn.sock[i] = "open"
        BY DEF LinkIInv, Clients, SocketDrops
    <1>9. CASE conn.ws = i
        <2>1. ConnGood(c1)
            BY <1>6 DEF ConnGood
        <2>2. ConnGood(c) /\ c.st = "reconnecting" /\ c.ws = 0
            BY <1>6, <1>9, <2>1, LostGood
        <2> HIDE DEF c
        <2> QED BY <1>1, <1>2, <1>8, <2>2, ToldGood DEF LinkIInv
    <1>10. CASE conn.ws # i
        <2>1. c = c0
            BY <1>10
        <2>2. conn.ws # 0 => S[conn.ws] = conn.sock[conn.ws]
            BY <1>3, <1>7, <1>10
        <2>3. c0.promise # 0 => c0.promise = c0.ws /\ c0.ws # 0
                                /\ conn.sock[conn.ws] \in {"opening", "open"}
            BY <1>5 DEF LinkIInv, ConnGood
        <2>4. ConnGood(c0)
            BY <1>5, <2>2, <2>3 DEF ConnGood
        <2>5. c0.st = "connecting" => c0.ws # 0 /\ c0.sock[c0.ws] = "opening"
            BY <1>5, <1>8, <2>2 DEF NobodyYet
        <2>6. Clients(c0, Told(c0))
            BY <1>5, <1>8, <2>2, <2>4, <2>5, ToldGood
        <2> QED BY <1>1, <1>2, <2>1, <2>4, <2>6 DEF LinkIInv
    <1> QED BY <1>9, <1>10

(* A task that redials or reconnects gets its ticket, or does not.           *)
LEMMA RedialFiresStep ==
    ASSUME LinkIInv, NEW d \in Dialers, RedialFires(d)
    PROVE  LinkIInv'
    <1>1. /\ conn' = [conn EXCEPT !.redial = FALSE] /\ client' = client
          /\ dialer' = [dialer EXCEPT ![d] = [Idle EXCEPT !.kind = "redial"]]
          /\ UNCHANGED <<linkFaults, reconnects>>
        BY DEF RedialFires
    <1>2. /\ conn' \in ConnTypes /\ conn'.ws = conn.ws /\ conn'.promise = conn.promise
          /\ conn'.sock = conn.sock /\ conn'.st = conn.st
        BY <1>1 DEF LinkIInv, ConnGood, ConnTypes
    <1>3. ConnGood(conn')
        BY <1>2 DEF LinkIInv, ConnGood
    <1>4. Clients(conn', client')
        BY <1>1, <1>2 DEF LinkIInv, Clients, NobodyYet, OnThisSocket
    <1>5. [Idle EXCEPT !.kind = "redial"] \in DialerTypes
        BY DEF Idle, DialerTypes
    <1>6. Tasks'
        BY <1>1, <1>5 DEF LinkIInv, Tasks
    <1> QED BY <1>3, <1>4, <1>6 DEF LinkIInv

LEMMA TicketArrivesStep ==
    ASSUME LinkIInv, NEW d \in Dialers, TicketArrives(d)
    PROVE  LinkIInv'
    <1> DEFINE byUser == dialer[d].kind \in Channels
               c == IF byUser THEN Supersede(conn) ELSE Dial(conn)
               t == IF Resolved(c) THEN Idle ELSE [dialer[d] EXCEPT !.at = "dial", !.p = c.promise]
    <1>1. /\ CanDial(conn) /\ (byUser => \E i \in Sockets : conn.sock[i] = "closed")
          /\ conn' = c /\ client' = Told(c) /\ dialer' = [dialer EXCEPT ![d] = t]
          /\ UNCHANGED <<linkFaults, reconnects>>
        BY DEF TicketArrives
    <1>2. ConnGood(conn) /\ Clients(conn, client)
        BY DEF LinkIInv
    <1>3. ConnGood(c) /\ Clients(c, Told(c))
        <2>1. CASE byUser
            <3>1. c = Supersede(conn)
                BY <2>1
            <3>2. PICK j \in Sockets : conn.sock[j] = "closed"
                BY <1>1, <2>1
            <3> HIDE DEF c
            <3>3. ConnGood(c) /\ c.st = "connecting" /\ c.ws # 0 /\ c.sock[c.ws] = "opening"
                BY <1>2, <3>1, <3>2, SupersedeGood
            <3> QED BY <1>2, <3>3, ToldGood
        <2>2. CASE ~byUser
            <3>1. c = Dial(conn)
                BY <2>2
            <3> HIDE DEF c
            <3> QED BY <1>1, <3>1, DialTold
        <2> QED BY <2>1, <2>2
    <1> HIDE DEF c
    <1>4. t \in DialerTypes
        BY <1>3, ZenonT(60) DEF LinkIInv, Tasks, DialerTypes, Idle, ConnGood, ConnTypes
    <1> HIDE DEF t
    <1>5. Tasks'
        BY <1>1, <1>4 DEF LinkIInv, Tasks
    <1> QED BY <1>1, <1>3, <1>5 DEF LinkIInv

LEMMA TicketRefusedStep ==
    ASSUME LinkIInv, NEW d \in Dialers, TicketRefused(d)
    PROVE  LinkIInv'
    <1> DEFINE c == IF dialer[d].kind = "redial" THEN Lost(conn) ELSE conn
    <1>1. /\ conn' = c /\ client' = Told(conn')
          /\ dialer' = [dialer EXCEPT ![d] = Idle] /\ Fault /\ UNCHANGED reconnects
        BY DEF TicketRefused
    <1>2. ConnGood(conn) /\ Clients(conn, client) /\ NobodyYet(conn, client)
        BY DEF LinkIInv, Clients
    <1>3. /\ ConnGood(c) /\ c.ws = conn.ws /\ c.sock = conn.sock
          /\ c.st = "connecting" => conn.st = "connecting"
        BY <1>2, LostGood
    <1> HIDE DEF c
    <1>4. c.st = "connecting" => c.ws # 0 /\ c.sock[c.ws] = "opening"
        BY <1>2, <1>3 DEF NobodyYet
    <1>5. Clients(c, Told(c))
        BY <1>2, <1>3, <1>4, ToldGood
    <1>6. Tasks'
        <2>1. Idle \in DialerTypes
            BY DEF Idle, DialerTypes
        <2> QED BY <1>1, <2>1, LinkAssumption DEF Fault, LinkIInv, Tasks
    <1> QED BY <1>1, <1>3, <1>5, <1>6 DEF LinkIInv

LEMMA UserReconnectsStep ==
    ASSUME LinkIInv, NEW ch \in Channels, NEW d \in Dialers, UserReconnects(ch, d)
    PROVE  LinkIInv'
    <1>1. [Idle EXCEPT !.kind = ch] \in DialerTypes
        BY DEF Idle, DialerTypes
    <1>2. UNCHANGED <<conn, client, linkFaults>>
        BY DEF UserReconnects
    <1>3. Tasks'
        BY <1>1, <1>2, LinkAssumption DEF UserReconnects, LinkIInv, Tasks
    <1> QED BY <1>2, <1>3 DEF LinkIInv

-----------------------------------------------------------------------------
(* The steps of one client.                                                  *)

LEMMA OneClientStep ==
    ASSUME LinkIInv, UNCHANGED <<conn, dialer, reconnects>>, Fault \/ UNCHANGED linkFaults,
           NEW ch \in Channels, NEW k, client' = [client EXCEPT ![ch] = k], ClientGood(k),
           k.st = "connected" => client[ch].st = "connected" /\ k.authOn = client[ch].authOn
    PROVE  LinkIInv'
    <1>1. Clients(conn, client')
        BY OneChanges DEF LinkIInv
    <1>2. Tasks'
        BY LinkAssumption DEF LinkIInv, Tasks, Fault
    <1> QED BY <1>1, <1>2 DEF LinkIInv

LEMMA CredentialArrivesStep ==
    ASSUME LinkIInv, NEW ch \in Channels, NEW h \in Handshakes, CredentialArrives(ch, h)
    PROVE  LinkIInv'
    <1> DEFINE k == client[ch]
               H == [k.hs EXCEPT ![h] = At("reply")]
               k1 == [k EXCEPT !.hs[h] = At("reply")]
               m == IF k.open /\ Usable(conn) THEN k1 ELSE HandshakeFails(k, {h})
    <1>1. ClientGood(k)
        BY DEF LinkIInv, Clients
    <1>2. /\ client' = [client EXCEPT ![ch] = m] /\ UNCHANGED <<conn, dialer, reconnects>>
          /\ UNCHANGED linkFaults
        BY DEF CredentialArrives
    <1> HIDE DEF k
    <1>3. CASE k.open /\ Usable(conn)
        <2>1. H \in [Handshakes -> HandshakeTypes]
            BY <1>1 DEF ClientGood, ClientSound, ClientTypes, HandshakeTypes, At
        <2>2. k1 = [k EXCEPT !.hs = H]
            BY <1>1 DEF ClientGood, ClientSound, ClientTypes
        <2> HIDE DEF H, k1
        <2>3. /\ k1 \in ClientTypes /\ k1.st = k.st /\ k1.open = k.open /\ k1.authOn = k.authOn
              /\ k1.closed = k.closed /\ k1.hsRetry = k.hsRetry /\ k1.reopen = k.reopen
            BY <1>1, <2>1, <2>2 DEF ClientGood, ClientSound, ClientTypes
        <2>4. ClientGood(k1)
            BY <1>1, <1>3, <2>3 DEF ClientGood, ClientSound
        <2>5. m = k1
            BY <1>3
        <2> HIDE DEF m
        <2> QED BY <1>2, <2>3, <2>4, <2>5, OneClientStep DEF k
    <1>4. CASE ~(k.open /\ Usable(conn))
        <2>1. m = HandshakeFails(k, {h})
            BY <1>4
        <2> HIDE DEF m
        <2>2. ClientGood(m) /\ m.st = "reconnecting"
            BY <1>1, <2>1, HandshakeFailsSound DEF ClientGood
        <2> QED BY <1>2, <2>2, OneClientStep
    <1> QED BY <1>3, <1>4

LEMMA HandshakeRefusedStep ==
    ASSUME LinkIInv, NEW ch \in Channels, NEW h \in Handshakes, HandshakeRefused(ch, h)
    PROVE  LinkIInv'
    <1> DEFINE m == HandshakeFails(client[ch], {h})
    <1>1. client' = [client EXCEPT ![ch] = m] /\ UNCHANGED <<conn, dialer, reconnects>> /\ Fault
        BY DEF HandshakeRefused
    <1>2. ClientGood(client[ch])
        BY DEF LinkIInv, Clients
    <1>3. ClientGood(m) /\ m.st = "reconnecting"
        BY <1>2, HandshakeFailsSound DEF ClientGood
    <1> HIDE DEF m
    <1> QED BY <1>1, <1>3, OneClientStep

LEMMA VersionRefusedStep ==
    ASSUME LinkIInv, NEW ch \in Channels, NEW h \in Handshakes, VersionRefused(ch, h)
    PROVE  LinkIInv'
    <1> DEFINE e == End(client[ch], {h})
               m == [e EXCEPT !.st = "disconnected", !.refused = TRUE]
    <1>1. client' = [client EXCEPT ![ch] = m] /\ UNCHANGED <<conn, dialer, reconnects>> /\ Fault
        BY DEF VersionRefused
    <1>2. ClientGood(e)
        BY EndGood DEF LinkIInv, Clients
    <1> HIDE DEF e
    <1>3. /\ m \in ClientTypes /\ m.st = "disconnected" /\ m.open = e.open
          /\ m.closed = e.closed /\ m.hsRetry = e.hsRetry /\ m.reopen = e.reopen /\ m.hs = e.hs
        BY <1>2 DEF ClientGood, ClientSound, ClientTypes, LinkStates
    <1> HIDE DEF m
    <1>4. ClientGood(m)
        BY <1>2, <1>3 DEF ClientGood, ClientSound
    <1> QED BY <1>1, <1>3, <1>4, OneClientStep

(* The machine said yes on the socket there is: the handshake that waited for this answer
   has its channel still.                                                    *)
LEMMA AuthenticatedStep ==
    ASSUME LinkIInv, NEW ch \in Channels, NEW h \in Handshakes, Authenticated(ch, h)
    PROVE  LinkIInv'
    <1> DEFINE e == End(client[ch], {h})
               m == [e EXCEPT !.st = "connected", !.authOn = conn.ws]
    <1>1. /\ client' = [client EXCEPT ![ch] = m]
          /\ UNCHANGED <<conn, dialer, linkFaults, reconnects>>
          /\ client[ch].hs[h].at = "reply" /\ Usable(conn)
        BY DEF Authenticated
    <1>2. ClientGood(client[ch]) /\ ClientGood(e) /\ client[ch].open
        BY <1>1, EndGood DEF LinkIInv, Clients, ClientGood
    <1>3. e.open
        BY <1>2, EndSound DEF ClientGood
    <1>4. conn.ws \in Sockets \cup {0}
        BY DEF LinkIInv, ConnGood, ConnTypes
    <1> HIDE DEF e
    <1>5. /\ m \in ClientTypes /\ m.st = "connected" /\ m.open = e.open /\ m.authOn = conn.ws
          /\ m.closed = e.closed /\ m.hsRetry = e.hsRetry /\ m.reopen = e.reopen /\ m.hs = e.hs
        BY <1>2, <1>4 DEF ClientGood, ClientSound, ClientTypes, LinkStates
    <1> HIDE DEF m
    <1>6. ClientGood(m)
        BY <1>2, <1>3, <1>5 DEF ClientGood, ClientSound
    <1>7. Clients(conn, client)
        BY DEF LinkIInv
    <1>8. /\ client' \in [Channels -> ClientTypes]
          /\ \A x \in Channels : client'[x] = IF x = ch THEN m ELSE client[x]
        BY <1>1, <1>5, <1>7 DEF Clients
    <1>9. \A x \in Channels : ClientGood(client'[x])
        BY <1>6, <1>7, <1>8 DEF Clients
    <1>10. conn.st # "connecting"
        BY <1>1, <1>7 DEF Usable, Clients, NobodyYet
    <1>11. OnThisSocket(conn, client')
        BY <1>1, <1>5, <1>7, <1>8 DEF Usable, Clients, OnThisSocket
    <1>12. Clients(conn, client')
        BY <1>8, <1>9, <1>10, <1>11 DEF Clients, NobodyYet
    <1>13. Tasks'
        BY <1>1 DEF LinkIInv, Tasks
    <1> QED BY <1>1, <1>12, <1>13 DEF LinkIInv

LEMMA HandshakeRetryFiresStep ==
    ASSUME LinkIInv, NEW ch \in Channels, HandshakeRetryFires(ch)
    PROVE  LinkIInv'
    <1> DEFINE k == client[ch]
               k1 == [k EXCEPT !.hsRetry = FALSE]
               m == IF k.closed \/ ~k.open THEN k1 ELSE StartHandshake(k1)
    <1>1. /\ client' = [client EXCEPT ![ch] = m] /\ UNCHANGED <<conn, dialer, reconnects>>
          /\ UNCHANGED linkFaults
        BY DEF HandshakeRetryFires
    <1>2. ClientGood(k)
        BY DEF LinkIInv, Clients
    <1> HIDE DEF k
    <1>3. /\ k1 \in ClientTypes /\ k1.st = k.st /\ k1.open = k.open /\ k1.hs = k.hs
          /\ k1.authOn = k.authOn /\ k1.closed = k.closed /\ k1.hsRetry = FALSE
          /\ k1.reopen = k.reopen
        BY <1>2 DEF ClientGood, ClientSound, ClientTypes
    <1> HIDE DEF k1
    <1>4. ClientGood(k1)
        BY <1>2, <1>3 DEF ClientGood, ClientSound
    <1>5. ClientGood(m) /\ m.st = k.st /\ m.authOn = k.authOn
        BY <1>3, <1>4, StartHandshakeGood
    <1> HIDE DEF m
    <1> QED BY <1>1, <1>5, OneClientStep DEF k

LEMMA ChannelClosesStep ==
    ASSUME LinkIInv, NEW ch \in Channels, ChannelCloses(ch)
    PROVE  LinkIInv'
    <1> DEFINE m == HandleChannelClosed(client[ch])
    <1>1. /\ client' = [client EXCEPT ![ch] = m] /\ UNCHANGED <<conn, dialer, reconnects>>
          /\ Fault \/ UNCHANGED linkFaults
          /\ client[ch].open
        BY DEF ChannelCloses
    <1>2. ClientGood(m) /\ m.st # "connected"
        BY <1>1, ChannelClosedGood DEF LinkIInv, Clients
    <1> HIDE DEF m
    <1> QED BY <1>1, <1>2, OneClientStep

LEMMA CloseByPoolStep ==
    ASSUME LinkIInv, NEW ch \in Channels, CloseByPool(ch)
    PROVE  LinkIInv'
    <1> DEFINE asked == \E d \in Dialers : dialer[d].kind = ch
               e == CloseClient(client[ch])
               m == [e EXCEPT !.gone = IF asked THEN "asked" ELSE "quiet"]
    <1>1. /\ client' = [client EXCEPT ![ch] = m] /\ UNCHANGED <<conn, dialer, reconnects>>
          /\ UNCHANGED linkFaults
        BY DEF CloseByPool
    <1>2. ClientGood(e) /\ e.st # "connected"
        BY CloseClientGood DEF LinkIInv, Clients
    <1> HIDE DEF asked, e
    <1>3. /\ m \in ClientTypes /\ m.st = e.st /\ m.open = e.open /\ m.hs = e.hs
          /\ m.closed = e.closed /\ m.hsRetry = e.hsRetry /\ m.reopen = e.reopen
        BY <1>2 DEF ClientGood, ClientSound, ClientTypes
    <1> HIDE DEF m
    <1>4. ClientGood(m)
        BY <1>2, <1>3 DEF ClientGood, ClientSound
    <1> QED BY <1>1, <1>2, <1>3, <1>4, OneClientStep

LEMMA ChannelErrorStep ==
    ASSUME LinkIInv, NEW ch \in Channels, NEW code \in {"transient", "permanent"},
           ChannelError(ch, code)
    PROVE  LinkIInv'
    <1> DEFINE k == client[ch]
               m == [k EXCEPT !.code = code]
    <1>1. ClientGood(k)
        BY DEF LinkIInv, Clients
    <1>2. client' = [client EXCEPT ![ch] = m] /\ UNCHANGED <<conn, dialer, reconnects>> /\ Fault
        BY DEF ChannelError, LinkIInv, Clients
    <1> HIDE DEF k
    <1>3. /\ m \in ClientTypes /\ m.st = k.st /\ m.open = k.open /\ m.hs = k.hs
          /\ m.authOn = k.authOn /\ m.closed = k.closed /\ m.hsRetry = k.hsRetry
          /\ m.reopen = k.reopen
        BY <1>1 DEF ClientGood, ClientSound, ClientTypes, ChannelCodes
    <1> HIDE DEF m
    <1>4. ClientGood(m)
        BY <1>1, <1>3 DEF ClientGood, ClientSound
    <1> QED BY <1>2, <1>3, <1>4, OneClientStep DEF k

-----------------------------------------------------------------------------
LEMMA LinkInitially == LinkInit => LinkIInv
    <1> SUFFICES ASSUME LinkInit PROVE LinkIInv
        OBVIOUS
    <1>1. ConnGood(conn)
        BY DEF LinkInit, ConnGood, ConnTypes, LinkStates, SocketStates
    <1>2. /\ NewClient \in ClientTypes /\ NewClient.st = "disconnected"
          /\ NewClient.open = FALSE /\ NewClient.hsRetry = FALSE /\ NewClient.reopen = FALSE
          /\ \A h \in Handshakes : NewClient.hs[h].at = "idle"
        BY DEF NewClient, NoHandshake, ClientTypes, HandshakeTypes, LinkStates, ChannelCodes
    <1>3. ClientGood(NewClient)
        BY <1>2 DEF ClientGood, ClientSound
    <1>4. /\ client \in [Channels -> ClientTypes] /\ \A ch \in Channels : client[ch] = NewClient
        BY <1>2 DEF LinkInit
    <1>5. Clients(conn, client)
        <2>1. \A ch \in Channels : ClientGood(client[ch]) /\ client[ch].st = "disconnected"
            BY <1>2, <1>3, <1>4
        <2>2. NobodyYet(conn, client)
            BY DEF LinkInit, NobodyYet
        <2>3. OnThisSocket(conn, client)
            BY <2>1 DEF OnThisSocket
        <2> QED BY <1>4, <2>1, <2>2, <2>3 DEF Clients
    <1>6. Idle \in DialerTypes
        BY DEF Idle, DialerTypes
    <1>7. Tasks
        BY <1>6, LinkAssumption DEF LinkInit, Tasks
    <1> QED BY <1>1, <1>5, <1>7 DEF LinkIInv

LEMMA LinkStep == LinkIInv /\ [LinkNext]_linkVars => LinkIInv'
    <1> SUFFICES ASSUME LinkIInv, [LinkNext]_linkVars PROVE LinkIInv'
        OBVIOUS
    <1>1. CASE UNCHANGED linkVars
        BY <1>1 DEF linkVars, LinkIInv, Tasks
    <1>2. ASSUME NEW i \in Sockets, SocketOpens(i) \/ SocketFails(i) \/ SocketDrops(i)
          PROVE  LinkIInv'
        BY <1>2, SocketOpensStep, SocketFailsStep, SocketDropsStep
    <1>3. ASSUME NEW d \in Dialers, RedialFires(d) \/ TicketArrives(d) \/ TicketRefused(d)
          PROVE  LinkIInv'
        BY <1>3, RedialFiresStep, TicketArrivesStep, TicketRefusedStep
    <1>4. ASSUME NEW ch \in Channels,
                 FirstConnect(ch) \/ ReopenFires(ch) \/ HandshakeRetryFires(ch)
                 \/ ChannelCloses(ch) \/ CloseByPool(ch)
          PROVE  LinkIInv'
        BY <1>4, FirstConnectStep, ReopenFiresStep, HandshakeRetryFiresStep,
           ChannelClosesStep, CloseByPoolStep
    <1>5. ASSUME NEW ch \in Channels, NEW code \in {"transient", "permanent"},
                 ChannelError(ch, code)
          PROVE  LinkIInv'
        BY <1>5, ChannelErrorStep
    <1>6. ASSUME NEW ch \in Channels, NEW d \in Dialers, UserReconnects(ch, d)
          PROVE  LinkIInv'
        BY <1>6, UserReconnectsStep
    <1>7. ASSUME NEW ch \in Channels, NEW h \in Handshakes,
                 CredentialArrives(ch, h) \/ Authenticated(ch, h)
                 \/ HandshakeRefused(ch, h) \/ VersionRefused(ch, h)
          PROVE  LinkIInv'
        BY <1>7, CredentialArrivesStep, AuthenticatedStep, HandshakeRefusedStep,
           VersionRefusedStep
    <1> QED BY <1>1, <1>2, <1>3, <1>4, <1>5, <1>6, <1>7 DEF LinkNext

-----------------------------------------------------------------------------
(* A client the pool has given up, no reconnect of the user being on its way to it, is
   closed for good: only connect() takes that back, a first connect is of a client the pool
   still has, a timer looks at it first, and nobody asks for a reconnect any more.       *)
GoneInv == \A ch \in Channels : client[ch].gone = "quiet" =>
               client[ch].closed /\ \A d \in Dialers : dialer[d].kind # ch

(* A step by which no client is given up or reopened and no reconnect is asked for. *)
LEMMA GoneStays ==
    ASSUME GoneInv,
           \A ch \in Channels : /\ client'[ch].gone = client[ch].gone
                                /\ client[ch].gone = "quiet" /\ client[ch].closed => client'[ch].closed,
           \A d \in Dialers : dialer'[d].kind \in {"idle", "redial", dialer[d].kind}
    PROVE  GoneInv'
    <1> SUFFICES ASSUME NEW ch \in Channels, client'[ch].gone = "quiet"
                 PROVE  client'[ch].closed /\ \A d \in Dialers : dialer'[d].kind # ch
        BY DEF GoneInv
    <1>1. client[ch].closed /\ \A d \in Dialers : dialer[d].kind # ch
        BY DEF GoneInv
    <1>2. ch \notin {"idle", "redial"}
        BY LinkAssumption
    <1> QED BY <1>1, <1>2

(* What the clients hear of the connection gives none of them up and closes none.  *)
LEMMA ToldKeeps ==
    ASSUME LinkIInv, NEW c, c.st \in LinkStates, NEW ch \in Channels
    PROVE  Told(c)[ch].gone = client[ch].gone /\ Told(c)[ch].closed = client[ch].closed
    <1>1. ClientGood(client[ch])
        BY DEF LinkIInv, Clients
    <1>2. Told(c)[ch] = IF c.st = conn.st THEN client[ch]
                        ELSE HandleConnectionState(client[ch], c.st)
        BY DEF Told
    <1> QED BY <1>1, <1>2, HearingGood

LEMMA OneGone ==
    ASSUME LinkIInv, GoneInv, NEW ch \in Channels, NEW k, client' = [client EXCEPT ![ch] = k],
           k.gone = client[ch].gone, client[ch].closed => k.closed, UNCHANGED dialer
    PROVE  GoneInv'
    <1>1. \A x \in Channels : client'[x] = IF x = ch THEN k ELSE client[x]
        BY DEF LinkIInv, Clients
    <1> QED BY <1>1, GoneStays

LEMMA SocketsGone ==
    ASSUME LinkIInv, LinkIInv', GoneInv, NEW i \in Sockets,
           SocketOpens(i) \/ SocketFails(i) \/ SocketDrops(i)
    PROVE  GoneInv'
    <1>1. conn'.st \in LinkStates
        BY DEF LinkIInv, ConnGood, ConnTypes
    <1>2. \A ch \in Channels : ClientGood(client[ch])
        BY DEF LinkIInv, Clients
    <1>3. ASSUME SocketOpens(i) PROVE GoneInv'
        <2> DEFINE c == [conn EXCEPT !.sock[i] = "open", !.st = "connected"]
                   stuck == ~Usable(c) /\ \E ch \in Channels : client[ch].open
                   Wanted(ch) == \E d \in Dialers : dialer[d] = [kind |-> ch, at |-> "dial", p |-> i]
                   Went(k) ==
                       IF k.open THEN StartHandshake(k)
                       ELSE IF k.closed THEN End(k, Waiting(k, i))
                       ELSE IF Waiting(k, i) # {} THEN OpenChannel(k, CHOOSE h \in Waiting(k, i) : TRUE)
                       ELSE k
                   New(ch) == LET k == Went(client[ch]) IN IF Wanted(ch) THEN Reopen(k, c) ELSE k
        <2>1. /\ conn' = c /\ \A ch \in Channels : HasSlot(client[ch])
              /\ client' = IF stuck THEN client ELSE [ch \in Channels |-> New(ch)]
              /\ dialer' = [d \in Dialers |->
                    IF ~stuck /\ dialer[d].at = "dial" /\ dialer[d].p = i THEN Idle ELSE dialer[d]]
            BY <1>3 DEF SocketOpens
        <2>2. ConnGood(c)
            BY <2>1 DEF LinkIInv
        <2>3. \A d \in Dialers : dialer'[d].kind \in {"idle", "redial", dialer[d].kind}
            <3> HIDE DEF stuck
            <3> QED BY <2>1 DEF Idle
        <2>4. ASSUME NEW ch \in Channels
              PROVE  /\ New(ch).gone = client[ch].gone
                     /\ client[ch].gone = "quiet" /\ client[ch].closed => New(ch).closed
            <3> DEFINE k == client[ch]
                       g == Went(k)
                       n == New(ch)
            <3>1. ClientGood(k) /\ HasSlot(k)
                BY <1>2, <2>1
            <3>2. ClientGood(g) /\ (g.open \/ HasSlot(g)) /\ g.gone = k.gone /\ (k.closed => g.closed)
                <4> HIDE DEF k
                <4> QED BY <3>1, WentGood
            <3>3. n = IF Wanted(ch) /\ ~g.open THEN Connect(g, c) ELSE g
                BY DEF Reopen
            <3>4. k.gone = "quiet" => ~Wanted(ch)
                BY DEF GoneInv
            <3> HIDE DEF g, n, k, c, Wanted
            <3>5. CASE Wanted(ch) /\ ~g.open
                <4>1. n.gone = g.gone
                    BY <2>2, <3>2, <3>3, <3>5, ConnectGood
                <4> QED BY <3>2, <3>4, <3>5, <4>1 DEF n, k
            <3>6. CASE ~(Wanted(ch) /\ ~g.open)
                BY <3>2, <3>3, <3>6 DEF n, k
            <3> QED BY <3>5, <3>6
        <2> HIDE DEF New, stuck
        <2>5. \A ch \in Channels : client'[ch] \in {client[ch], New(ch)}
            BY <2>1
        <2>6. \A ch \in Channels :
                  /\ client'[ch].gone = client[ch].gone
                  /\ client[ch].gone = "quiet" /\ client[ch].closed => client'[ch].closed
            BY <2>4, <2>5
        <2> QED BY <2>3, <2>6, GoneStays
    <1>4. ASSUME SocketFails(i) PROVE GoneInv'
        <2> DEFINE T == Told(conn')
        <2>1. /\ client' = [ch \in Channels |-> End(T[ch], Waiting(T[ch], i))]
              /\ dialer' = [d \in Dialers |->
                    IF dialer[d].at = "dial" /\ dialer[d].p = i THEN Idle ELSE dialer[d]]
            BY <1>4 DEF SocketFails
        <2>2. \A ch \in Channels : T[ch].gone = client[ch].gone /\ T[ch].closed = client[ch].closed
            BY <1>1, ToldKeeps
        <2>3. ASSUME NEW ch \in Channels PROVE ClientSound(T[ch])
            <3>1. T[ch] = IF conn'.st = conn.st THEN client[ch]
                          ELSE HandleConnectionState(client[ch], conn'.st)
                BY DEF Told
            <3> QED BY <1>1, <1>2, <3>1, HearingGood DEF ClientGood
        <2> HIDE DEF T
        <2>4. ASSUME NEW ch \in Channels
              PROVE  client'[ch].gone = client[ch].gone /\ client'[ch].closed = client[ch].closed
            <3> DEFINE W == Waiting(T[ch], i)
            <3>1. client'[ch] = End(T[ch], W)
                BY <2>1
            <3> HIDE DEF W
            <3> QED BY <2>2, <2>3, <3>1, EndSound
        <2>5. \A d \in Dialers : dialer'[d].kind \in {"idle", "redial", dialer[d].kind}
            BY <2>1 DEF Idle
        <2> QED BY <2>4, <2>5, GoneStays
    <1>5. ASSUME SocketDrops(i) PROVE GoneInv'
        BY <1>1, <1>5, ToldKeeps, GoneStays DEF SocketDrops
    <1> QED BY <1>3, <1>4, <1>5

LEMMA DialersGone ==
    ASSUME LinkIInv, LinkIInv', GoneInv, NEW d \in Dialers,
           RedialFires(d) \/ TicketArrives(d) \/ TicketRefused(d)
    PROVE  GoneInv'
    <1>1. conn'.st \in LinkStates
        BY DEF LinkIInv, ConnGood, ConnTypes
    <1>2. dialer \in [Dialers -> DialerTypes]
        BY DEF LinkIInv, Tasks
    <1>3. client' = client \/ client' = Told(conn')
        BY DEF RedialFires, TicketArrives, TicketRefused
    <1>4. \A ch \in Channels :
              client'[ch].gone = client[ch].gone /\ client'[ch].closed = client[ch].closed
        BY <1>1, <1>3, ToldKeeps
    <1>5. \E t : dialer' = [dialer EXCEPT ![d] = t] /\ t.kind \in {"idle", "redial", dialer[d].kind}
        <2>1. CASE RedialFires(d)
            <3> DEFINE t == [Idle EXCEPT !.kind = "redial"]
            <3>1. dialer' = [dialer EXCEPT ![d] = t] /\ t.kind = "redial"
                BY <2>1 DEF RedialFires, Idle
            <3> HIDE DEF t
            <3> QED BY <3>1
        <2>2. CASE TicketArrives(d)
            <3> DEFINE t == [dialer[d] EXCEPT !.at = "dial", !.p = conn'.promise]
            <3>1. dialer' = [dialer EXCEPT ![d] = Idle] \/ dialer' = [dialer EXCEPT ![d] = t]
                BY <2>2 DEF TicketArrives
            <3>2. t.kind = dialer[d].kind
                BY <1>2 DEF DialerTypes
            <3> QED BY <3>1, <3>2 DEF Idle
        <2>3. CASE TicketRefused(d)
            <3>1. dialer' = [dialer EXCEPT ![d] = Idle] /\ Idle.kind = "idle"
                BY <2>3 DEF TicketRefused, Idle
            <3> QED BY <3>1
        <2> QED BY <2>1, <2>2, <2>3
    <1>6. \A e \in Dialers : dialer'[e].kind \in {"idle", "redial", dialer[e].kind}
        BY <1>2, <1>5
    <1> QED BY <1>4, <1>6, GoneStays

LEMMA ClientsGone ==
    ASSUME LinkIInv, LinkIInv', GoneInv, NEW ch \in Channels,
           \/ FirstConnect(ch) \/ ReopenFires(ch) \/ HandshakeRetryFires(ch)
           \/ ChannelCloses(ch) \/ CloseByPool(ch)
           \/ (\E code \in {"transient", "permanent"} : ChannelError(ch, code))
           \/ (\E d \in Dialers : UserReconnects(ch, d))
    PROVE  GoneInv'
    <1> DEFINE k == client[ch]
    <1>1. ClientGood(k) /\ conn'.st \in LinkStates /\ ConnGood(conn')
        BY DEF LinkIInv, Clients, ConnGood, ConnTypes
    <1>2. client \in [Channels -> ClientTypes] /\ dialer \in [Dialers -> DialerTypes]
        BY DEF LinkIInv, Clients, Tasks
    <1>3. ASSUME NEW m, client' = [Told(conn') EXCEPT ![ch] = m], UNCHANGED dialer,
                 m.gone = k.gone, k.gone = "quiet" => (k.closed => m.closed)
          PROVE  GoneInv'
        <2>1. \A x \in Channels : client'[x] = IF x = ch THEN m ELSE Told(conn')[x]
            BY <1>3 DEF Told
        <2>2. \A x \in Channels : /\ Told(conn')[x].gone = client[x].gone
                                  /\ Told(conn')[x].closed = client[x].closed
            BY <1>1, ToldKeeps
        <2> QED BY <1>3, <2>1, <2>2, GoneStays
    <1>4. CASE FirstConnect(ch)
        <2> DEFINE m == Connect(k, conn')
        <2>1. k = NewClient /\ client' = [Told(conn') EXCEPT ![ch] = m] /\ UNCHANGED dialer
            BY <1>4 DEF FirstConnect
        <2>2. HasSlot(k) /\ ~k.open /\ k.gone = "no"
            BY <2>1, LinkAssumption DEF HasSlot, NewClient, Handshakes
        <2> HIDE DEF k
        <2>3. m.gone = k.gone
            BY <1>1, <2>2, ConnectGood
        <2> HIDE DEF m
        <2> QED BY <1>3, <2>1, <2>2, <2>3
    <1>5. CASE ReopenFires(ch)
        <2> DEFINE k1 == [k EXCEPT !.reopen = FALSE]
                   skip == k.closed \/ k.open \/ k.run # 0
                   m == IF skip THEN k1 ELSE Connect(k1, conn')
        <2>1. /\ client' = [Told(conn') EXCEPT ![ch] = m] /\ HasSlot(k) /\ UNCHANGED dialer
            BY <1>5 DEF ReopenFires
        <2> HIDE DEF k
        <2>2. /\ k1 \in ClientTypes /\ k1.st = k.st /\ k1.open = k.open /\ k1.hs = k.hs
              /\ k1.closed = k.closed /\ k1.hsRetry = k.hsRetry
              /\ k1.reopen = FALSE /\ k1.gone = k.gone
            BY <1>1 DEF ClientGood, ClientSound, ClientTypes
        <2> HIDE DEF k1
        <2>3. ClientGood(k1) /\ HasSlot(k1)
            BY <1>1, <2>1, <2>2 DEF ClientGood, ClientSound, HasSlot
        <2>4. m.gone = k.gone /\ (k.closed => m.closed)
            <3>1. CASE skip
                BY <2>2, <3>1
            <3>2. CASE ~skip
                <4>1. m.gone = k1.gone
                    BY <1>1, <2>2, <2>3, <3>2, ConnectGood
                <4> QED BY <2>2, <3>2, <4>1
            <3> QED BY <3>1, <3>2
        <2> HIDE DEF m
        <2> QED BY <1>3, <2>1, <2>4
    <1>6. CASE HandshakeRetryFires(ch)
        <2> DEFINE k1 == [k EXCEPT !.hsRetry = FALSE]
                   m == IF k.closed \/ ~k.open THEN k1 ELSE StartHandshake(k1)
        <2>1. client' = [client EXCEPT ![ch] = m] /\ UNCHANGED dialer
            BY <1>6 DEF HandshakeRetryFires
        <2> HIDE DEF k
        <2>2. /\ k1 \in ClientTypes /\ k1.st = k.st /\ k1.open = k.open /\ k1.hs = k.hs
              /\ k1.closed = k.closed /\ k1.hsRetry = FALSE
              /\ k1.reopen = k.reopen /\ k1.gone = k.gone
            BY <1>1 DEF ClientGood, ClientSound, ClientTypes
        <2> HIDE DEF k1
        <2>3. ClientGood(k1)
            BY <1>1, <2>2 DEF ClientGood, ClientSound
        <2>4. m.gone = k.gone /\ m.closed = k.closed
            BY <2>2, <2>3, StartHandshakeGood
        <2> HIDE DEF m
        <2> QED BY <2>1, <2>4, OneGone DEF k
    <1>7. CASE ChannelCloses(ch)
        <2>1. client' = [client EXCEPT ![ch] = HandleChannelClosed(k)] /\ UNCHANGED dialer /\ k.open
            BY <1>7 DEF ChannelCloses
        <2>2. HandleChannelClosed(k).gone = k.gone /\ HandleChannelClosed(k).closed = k.closed
            BY <1>1, <2>1, ChannelClosedGood
        <2> QED BY <2>1, <2>2, OneGone
    <1>8. CASE CloseByPool(ch)
        <2> DEFINE asked == \E d \in Dialers : dialer[d].kind = ch
                   e == CloseClient(k)
                   m == [e EXCEPT !.gone = IF asked THEN "asked" ELSE "quiet"]
        <2>1. client' = [client EXCEPT ![ch] = m] /\ UNCHANGED dialer
            BY <1>8 DEF CloseByPool
        <2>2. ClientGood(e) /\ e.closed
            BY <1>1, CloseClientGood
        <2> HIDE DEF e, asked
        <2>3. m.closed /\ m.gone = IF asked THEN "asked" ELSE "quiet"
            BY <2>2 DEF ClientGood, ClientSound, ClientTypes
        <2>4. \A x \in Channels : client'[x] = IF x = ch THEN m ELSE client[x]
            BY <1>2, <2>1
        <2> HIDE DEF m
        <2> SUFFICES ASSUME NEW x \in Channels, client'[x].gone = "quiet"
                     PROVE  client'[x].closed /\ \A d \in Dialers : dialer'[d].kind # x
            BY DEF GoneInv
        <2>5. CASE x = ch
            BY <2>1, <2>3, <2>4, <2>5 DEF asked
        <2>6. CASE x # ch
            BY <2>1, <2>4, <2>6 DEF GoneInv
        <2> QED BY <2>5, <2>6
    <1>9. CASE \E code \in {"transient", "permanent"} : ChannelError(ch, code)
        <2>1. PICK code \in {"transient", "permanent"} : ChannelError(ch, code)
            BY <1>9
        <2> DEFINE m == [k EXCEPT !.code = code]
        <2>2. client' = [client EXCEPT ![ch] = m] /\ UNCHANGED dialer
            BY <1>2, <2>1 DEF ChannelError
        <2>3. m.gone = k.gone /\ m.closed = k.closed
            BY <1>1 DEF ClientGood, ClientSound, ClientTypes
        <2> HIDE DEF m
        <2> QED BY <2>2, <2>3, OneGone
    <1>10. CASE \E d \in Dialers : UserReconnects(ch, d)
        <2>1. PICK d \in Dialers : UserReconnects(ch, d)
            BY <1>10
        <2>2. client' = client /\ k.gone = "no" /\ dialer' = [dialer EXCEPT ![d] = [Idle EXCEPT !.kind = ch]]
            BY <2>1 DEF UserReconnects
        <2>3. [Idle EXCEPT !.kind = ch].kind = ch
            BY DEF Idle
        <2>4. \A e \in Dialers : dialer'[e].kind = dialer[e].kind \/ dialer'[e].kind = ch
            BY <1>2, <2>2, <2>3
        <2> QED BY <2>2, <2>4 DEF GoneInv
    <1> QED BY <1>4, <1>5, <1>6, <1>7, <1>8, <1>9, <1>10

LEMMA HandshakesGone ==
    ASSUME LinkIInv, LinkIInv', GoneInv, NEW ch \in Channels, NEW h \in Handshakes,
           CredentialArrives(ch, h) \/ Authenticated(ch, h)
           \/ HandshakeRefused(ch, h) \/ VersionRefused(ch, h)
    PROVE  GoneInv'
    <1> DEFINE k == client[ch]
               e == End(k, {h})
               f == HandshakeFails(k, {h})
               r == [k EXCEPT !.hs[h] = At("reply")]
               a == [e EXCEPT !.st = "connected", !.authOn = conn.ws]
               v == [e EXCEPT !.st = "disconnected", !.refused = TRUE]
    <1>1. ClientGood(k)
        BY DEF LinkIInv, Clients
    <1>2. ClientSound(e) /\ e.gone = k.gone /\ e.closed = k.closed
        BY <1>1, EndSound DEF ClientGood
    <1>3. f.gone = k.gone /\ f.closed = k.closed
        BY <1>1, HandshakeFailsSound DEF ClientGood
    <1>4. r.gone = k.gone /\ r.closed = k.closed
        BY <1>1 DEF ClientGood, ClientSound, ClientTypes
    <1>5. a.gone = e.gone /\ a.closed = e.closed /\ v.gone = e.gone /\ v.closed = e.closed
        <2> HIDE DEF e
        <2> QED BY <1>2 DEF ClientSound, ClientTypes
    <1>6. UNCHANGED dialer /\ \E m \in {r, f, a, v} : client' = [client EXCEPT ![ch] = m]
        BY DEF CredentialArrives, Authenticated, HandshakeRefused, VersionRefused
    <1> HIDE DEF r, f, a, v, e
    <1>7. PICK m \in {r, f, a, v} : client' = [client EXCEPT ![ch] = m]
        BY <1>6
    <1>8. m.gone = k.gone /\ m.closed = k.closed
        BY <1>2, <1>3, <1>4, <1>5, <1>7
    <1> QED BY <1>6, <1>7, <1>8, OneGone

LEMMA GoneStep == LinkIInv /\ LinkIInv' /\ GoneInv /\ [LinkNext]_linkVars => GoneInv'
    <1> SUFFICES ASSUME LinkIInv, LinkIInv', GoneInv, [LinkNext]_linkVars PROVE GoneInv'
        OBVIOUS
    <1>1. CASE UNCHANGED linkVars
        BY <1>1 DEF linkVars, GoneInv
    <1>2. CASE LinkNext
        BY <1>2, SocketsGone, DialersGone, ClientsGone, HandshakesGone DEF LinkNext
    <1> QED BY <1>1, <1>2

LEMMA LinkIInvHelps == LinkIInv /\ GoneInv => LinkInv
    <1> SUFFICES ASSUME LinkIInv, GoneInv PROVE LinkInv
        OBVIOUS
    <1>1. LinkTypeOK
        BY DEF LinkIInv, LinkTypeOK, ConnGood, Clients, Tasks, ConnTypes, DialerTypes,
               ClientTypes, HandshakeTypes, SocketStates
    <1>2. \A ch \in Channels : ClientGood(client[ch])
        BY DEF LinkIInv, Clients
    <1>3. OnThisSocket(conn, client)
        BY DEF LinkIInv, Clients
    <1>4. ConnectedIsAuthenticated
        BY <1>2, <1>3 DEF ConnectedIsAuthenticated, OnThisSocket, Usable, ClientGood, ClientSound
    <1>5. GivenUpIsQuiet
        BY <1>2 DEF GivenUpIsQuiet, GoneInv, ClientGood, ClientSound
    <1> QED BY <1>1, <1>4, <1>5 DEF LinkInv

(* LinkInv of RelayLink: however sockets open, fail and drop, the user reconnects and
   handshakes are repeated, a client that says it is connected is on the socket on which
   its machine accepted it, and one the pool has given up stays silent, unless a reconnect
   the user had asked for was still on its way to it.                        *)
THEOREM AcceptedOnThisSocket == LinkSpec => []LinkInv
    <1>1. LinkInit => GoneInv
        BY DEF LinkInit, GoneInv, NewClient
    <1> QED BY <1>1, LinkInitially, LinkStep, GoneStep, LinkIInvHelps, PTL DEF LinkSpec

-----------------------------------------------------------------------------
(* The rows of a conversation.
   That a relay client hands over every row of a conversation, once while the machine
   keeps them, and asks for one page at a time: for any number of rows, size of page and
   room on the wire, whatever is lost, rewritten or forgotten.  NothingSkipped is not
   inductive: it says nothing of a page that is still on its way.  StreamIInv adds that
   such a page is the one asked for by the pull under way, and holds every row there
   still is between the cursor it was asked with and its last one.                    *)

Requests == [kind : {"attach", "pull"}, cursor : 0 .. MaxSeq]
Messages == [kind : {"live"}, seq : Seqs] \cup [kind : {"attached"}, ok : BOOLEAN]
            \cup [kind : {"page"}, rows : SUBSET Seqs, more : BOOLEAN, oldest : Nat]
Streams == [cursor : 0 .. MaxSeq, attach : {"no", "asked", "yes"}, watched : BOOLEAN,
            fill : {"none", "attach", "pull"}, before : 0 .. MaxSeq,
            sent : 0 .. MaxSeq, refill : BOOLEAN]

\* How many members of a sequence are of one kind.
None(q, k) == \A i \in 1 .. Len(q) : q[i].kind # k
One(q, k) == \E i \in 1 .. Len(q) :
                /\ q[i].kind = k
                /\ \A j \in 1 .. Len(q) : q[j].kind = k => j = i

\* What is awaited is asked for or answered, once; nothing else is on its way.
Outstanding(q, w, question, answer, awaited) ==
    IF awaited
    THEN \/ One(q, question) /\ None(w, answer)
         \/ None(q, question) /\ One(w, answer)
    ELSE None(q, question) /\ None(w, answer)

\* A client that awaits no page, and one that may.
NoPull(s, q, w) ==
    /\ s \in Streams /\ q \in Seq(Requests) /\ w \in Seq(Messages)
    /\ Outstanding(q, w, "attach", "attached", s.attach = "asked")
    /\ None(q, "pull") /\ None(w, "page")

Talks(s, q, w) ==
    /\ s \in Streams /\ q \in Seq(Requests) /\ w \in Seq(Messages)
    /\ Outstanding(q, w, "attach", "attached", s.attach = "asked")
    /\ Outstanding(q, w, "pull", "page", s.fill = "pull")
    /\ s.fill = "attach" => s.attach = "asked"
    /\ s.fill = "pull" => s.sent <= s.cursor
    /\ \A i \in 1 .. Len(q) : q[i].kind = "pull" => q[i].cursor = s.sent

\* The machine numbers its rows and keeps those from oldest on.
MachineInv ==
    /\ head \in Seqs /\ oldest \in 1 .. head
    /\ log \subseteq oldest .. head /\ bad \subseteq 1 .. head

\* A page on its way has no hole above the cursor it was asked with.
FullPage(m) ==
    /\ m.rows \subseteq 1 .. head /\ m.oldest <= oldest
    /\ \A r \in m.rows, s \in log : stream.sent < s /\ s <= r => s \in m.rows

WireInv ==
    /\ Len(wire) <= MaxWire
    /\ \A i \in 1 .. Len(wire) :
          /\ wire[i].kind = "live" => wire[i].seq <= head
          /\ wire[i].kind = "page" => FullPage(wire[i])

\* What was handed over lies at or below the cursor.
TimesInv ==
    /\ times \in [Seqs -> Nat]
    /\ oldest = 1 => \A s \in Seqs : times[s] <= 1 /\ (s > stream.cursor => times[s] = 0)

StreamIInv ==
    /\ subscribed \in BOOLEAN /\ online \in BOOLEAN
    /\ base \in 0 .. MaxSeq /\ gap \in 0 .. MaxSeq
    /\ Talks(stream, request, wire)
    /\ stream.cursor <= head
    /\ MachineInv /\ WireInv /\ TimesInv /\ NothingSkipped

-----------------------------------------------------------------------------
(* Sequences.                                                                *)

\* The first member goes: the others move up, and the count is one less or the same.
LEMMA TailCounts ==
    ASSUME NEW S, NEW q \in Seq(S), q # <<>>
    PROVE  /\ Head(q) = q[1] /\ Head(q) \in S /\ 1 \in 1 .. Len(q)
           /\ Tail(q) \in Seq(S) /\ Len(Tail(q)) = Len(q) - 1 /\ Len(q) \in Nat
           /\ \A i \in 1 .. Len(Tail(q)) : i + 1 \in 1 .. Len(q) /\ Tail(q)[i] = q[i + 1]
           /\ \A k : None(q, k) => None(Tail(q), k)
           /\ \A k : One(q, k) /\ Head(q).kind = k => None(Tail(q), k)
           /\ \A k : One(q, k) /\ Head(q).kind # k => One(Tail(q), k)
<1>1. /\ Head(q) = q[1] /\ Head(q) \in S /\ Tail(q) \in Seq(S) /\ Len(Tail(q)) = Len(q) - 1
      /\ Len(q) \in Nat \ {0}
      /\ \A i \in 1 .. Len(Tail(q)) : Tail(q)[i] = q[i + 1]
  BY HeadTailProperties, EmptySeq, ElementOfSeq
<1>2. \A i \in 1 .. Len(Tail(q)) : i + 1 \in 1 .. Len(q)
  BY <1>1
<1>3. ASSUME NEW k, None(q, k) PROVE None(Tail(q), k)
  BY <1>1, <1>2, <1>3 DEF None
<1>4. ASSUME NEW k, One(q, k), Head(q).kind = k PROVE None(Tail(q), k)
  BY <1>1, <1>2, <1>4 DEF None, One
<1>5. ASSUME NEW k, One(q, k), Head(q).kind # k PROVE One(Tail(q), k)
  <2>1. PICK i \in 1 .. Len(q) : q[i].kind = k /\ \A j \in 1 .. Len(q) : q[j].kind = k => j = i
    BY <1>5 DEF One
  <2>2. i - 1 \in 1 .. Len(Tail(q)) /\ Tail(q)[i - 1] = q[i]
    BY <1>1, <1>5, <2>1
  <2>3. \A j \in 1 .. Len(Tail(q)) : Tail(q)[j].kind = k => j = i - 1
    BY <1>1, <1>2, <2>1
  <2> QED BY <2>1, <2>2, <2>3 DEF One
<1> QED BY <1>1, <1>2, <1>3, <1>4, <1>5

\* One more at the end: the count of its kind is one more.
LEMMA AppendCounts ==
    ASSUME NEW S, NEW q \in Seq(S), NEW e \in S
    PROVE  /\ Append(q, e) \in Seq(S) /\ Len(Append(q, e)) = Len(q) + 1 /\ Len(q) \in Nat
           /\ \A i \in 1 .. Len(q) : Append(q, e)[i] = q[i]
           /\ Append(q, e)[Len(q) + 1] = e
           /\ \A k : e.kind # k /\ None(q, k) => None(Append(q, e), k)
           /\ \A k : e.kind # k /\ One(q, k) => One(Append(q, e), k)
           /\ \A k : e.kind = k /\ None(q, k) => One(Append(q, e), k)
<1>1. /\ Append(q, e) \in Seq(S) /\ Len(Append(q, e)) = Len(q) + 1 /\ Len(q) \in Nat
      /\ \A i \in 1 .. Len(q) : Append(q, e)[i] = q[i]
      /\ Append(q, e)[Len(q) + 1] = e
  BY AppendProperties, LenProperties
<1> DEFINE a == Append(q, e)
<1>2. \A i \in 1 .. Len(a) : i \in 1 .. Len(q) \/ i = Len(q) + 1
  BY <1>1
<1>3. \A i \in 1 .. Len(q) : i \in 1 .. Len(a)
  BY <1>1
<1>4. Len(q) + 1 \in 1 .. Len(a) /\ Len(q) + 1 \notin 1 .. Len(q)
  BY <1>1
<1> HIDE DEF a
<1>5. /\ \A i \in 1 .. Len(q) : a[i] = q[i]
      /\ a[Len(q) + 1] = e
  BY <1>1 DEF a
<1>6. ASSUME NEW k, e.kind # k, None(q, k) PROVE None(a, k)
  BY <1>2, <1>5, <1>6 DEF None
<1>7. ASSUME NEW k, e.kind # k, One(q, k) PROVE One(a, k)
  BY <1>2, <1>3, <1>5, <1>7 DEF One
<1>8. ASSUME NEW k, e.kind = k, None(q, k) PROVE One(a, k)
  BY <1>2, <1>4, <1>5, <1>8 DEF One, None
<1> QED BY <1>1, <1>6, <1>7, <1>8 DEF a

-----------------------------------------------------------------------------
(* The client.                                                               *)

\* An idle client that pulls awaits one page, from its cursor on.
LEMMA PullTalks ==
    ASSUME NEW s, NEW q, NEW w, NoPull(s, q, w)
    PROVE  LET x == Pull(s, q) IN
           /\ Talks(x.s, x.q, w) /\ x.s.cursor = s.cursor /\ x.s.fill = "pull"
<1> DEFINE t == [s EXCEPT !.fill = "pull", !.sent = s.cursor]
           e == [kind |-> "pull", cursor |-> s.cursor]
           a == Append(q, e)
<1>1. /\ t \in Streams /\ t.cursor = s.cursor /\ t.sent = s.cursor /\ t.fill = "pull"
      /\ t.attach = s.attach
  BY DEF NoPull, Streams
<1>2. e \in Requests /\ e.kind = "pull" /\ e.cursor = s.cursor
  BY DEF NoPull, Streams, Requests
<1>3. q \in Seq(Requests) /\ None(q, "pull")
  BY DEF NoPull
<1> HIDE DEF e, t
<1>4. /\ a \in Seq(Requests) /\ Len(a) = Len(q) + 1 /\ Len(q) \in Nat
      /\ \A i \in 1 .. Len(q) : a[i] = q[i]
      /\ a[Len(q) + 1] = e
      /\ One(a, "pull")
      /\ None(q, "attach") => None(a, "attach")
      /\ One(q, "attach") => One(a, "attach")
  BY <1>2, <1>3, AppendCounts
<1> HIDE DEF a
<1>5. Outstanding(a, w, "attach", "attached", t.attach = "asked")
  BY <1>1, <1>4 DEF NoPull, Outstanding
<1>6. Outstanding(a, w, "pull", "page", t.fill = "pull")
  BY <1>1, <1>4 DEF NoPull, Outstanding
<1>7. \A i \in 1 .. Len(a) : a[i].kind = "pull" => a[i].cursor = t.sent
  BY <1>1, <1>2, <1>3, <1>4 DEF None
<1>8. t.sent <= t.cursor
  BY <1>1 DEF Streams
<1>9. Talks(t, a, w)
  BY <1>1, <1>4, <1>5, <1>6, <1>7, <1>8 DEF Talks, NoPull
<1> QED BY <1>1, <1>9 DEF Pull, Ask, t, a, e

\* A client that has not asked to attach may.
LEMMA AttachTalks ==
    ASSUME NEW s, NEW q, NEW w, s.attach = "no",
           Talks(s, q, w) \/ (NoPull(s, q, w) /\ s.fill = "attach")
    PROVE  LET x == Attach(s, q) IN
           /\ Talks(x.s, x.q, w) /\ x.s.cursor = s.cursor
           /\ x.s.fill = s.fill /\ x.s.sent = s.sent
<1> DEFINE t == [s EXCEPT !.attach = "asked"]
           e == [kind |-> "attach", cursor |-> 0]
           a == Append(q, e)
<1>1. /\ t \in Streams /\ t.cursor = s.cursor /\ t.sent = s.sent /\ t.fill = s.fill
      /\ t.attach = "asked"
  BY DEF NoPull, Talks, Streams
<1>2. e \in Requests /\ e.kind = "attach"
  BY StreamAssumption DEF Requests
<1>3. q \in Seq(Requests) /\ None(q, "attach") /\ None(w, "attached") /\ w \in Seq(Messages)
  BY DEF NoPull, Talks, Outstanding
<1>4. /\ Outstanding(q, w, "pull", "page", s.fill = "pull")
      /\ s.fill = "pull" => s.sent <= s.cursor
      /\ \A i \in 1 .. Len(q) : q[i].kind = "pull" => q[i].cursor = s.sent
  BY DEF NoPull, Talks, Outstanding, None
<1> HIDE DEF e, t
<1>5. /\ a \in Seq(Requests) /\ Len(a) = Len(q) + 1 /\ Len(q) \in Nat
      /\ \A i \in 1 .. Len(q) : a[i] = q[i]
      /\ a[Len(q) + 1] = e
      /\ One(a, "attach")
      /\ None(q, "pull") => None(a, "pull")
      /\ One(q, "pull") => One(a, "pull")
  BY <1>2, <1>3, AppendCounts
<1> HIDE DEF a
<1>6. Outstanding(a, w, "attach", "attached", t.attach = "asked")
  BY <1>1, <1>3, <1>5 DEF Outstanding
<1>7. Outstanding(a, w, "pull", "page", t.fill = "pull")
  BY <1>1, <1>4, <1>5 DEF Outstanding
<1>8. \A i \in 1 .. Len(a) : a[i].kind = "pull" => a[i].cursor = t.sent
  BY <1>1, <1>2, <1>4, <1>5
<1>9. Talks(t, a, w)
  BY <1>1, <1>3, <1>4, <1>5, <1>6, <1>7, <1>8 DEF Talks
<1> QED BY <1>1, <1>9 DEF Attach, Ask, t, a, e

\* A catch-up starts where none runs, and another one waits for it.
LEMMA CatchUpTalks ==
    ASSUME NEW s, NEW q, NEW w, Talks(s, q, w)
    PROVE  LET x == CatchUp(s, q) IN
           /\ Talks(x.s, x.q, w) /\ x.s.cursor = s.cursor
           /\ s.fill = "pull" => x.s.sent = s.sent
<1>1. CASE s.fill # "none"
  <2> DEFINE t == [s EXCEPT !.refill = TRUE]
  <2>1. t \in Streams /\ t.cursor = s.cursor /\ t.sent = s.sent /\ t.fill = s.fill /\ t.attach = s.attach
    BY DEF Talks, Streams
  <2> HIDE DEF t
  <2>2. Talks(t, q, w)
    BY <2>1 DEF Talks
  <2> QED BY <1>1, <2>1, <2>2 DEF CatchUp, t
<1>2. CASE s.fill = "none"
  <2> DEFINE t == [s EXCEPT !.before = s.cursor, !.fill = "attach"]
  <2>1. t \in Streams /\ t.cursor = s.cursor /\ t.fill = "attach" /\ t.attach = s.attach
    BY DEF Talks, Streams
  <2> HIDE DEF t
  <2>2. NoPull(t, q, w)
    BY <1>2, <2>1 DEF Talks, NoPull, Outstanding
  <2>3. CASE s.attach = "yes"
    BY <1>2, <2>1, <2>2, <2>3, PullTalks DEF CatchUp, PullUntilCaughtUp, t
  <2>4. CASE s.attach = "asked"
    <3>1. Talks(t, q, w)
      BY <2>1, <2>2, <2>4 DEF Talks, NoPull, Outstanding, None
    <3> QED BY <1>2, <2>1, <2>4, <3>1 DEF CatchUp, PullUntilCaughtUp, t
  <2>5. CASE s.attach = "no"
    <3>1. LET x == Attach(t, q) IN Talks(x.s, x.q, w) /\ x.s.cursor = t.cursor
      BY <2>1, <2>2, <2>5, AttachTalks
    <3> QED BY <1>2, <2>1, <2>5, <3>1 DEF CatchUp, PullUntilCaughtUp, t
  <2> QED BY <2>3, <2>4, <2>5 DEF Talks, Streams
<1> QED BY <1>1, <1>2

\* A catch-up that ends awaits nothing, or starts again.
LEMMA CatchUpEndsTalks ==
    ASSUME NEW s, NEW q, NEW w, NoPull(s, q, w)
    PROVE  LET x == CatchUpEnds(s, q) IN
           /\ Talks(x.s, x.q, w) /\ x.s.cursor = s.cursor
<1> DEFINE t == [s EXCEPT !.fill = "none", !.refill = FALSE]
<1>1. t \in Streams /\ t.cursor = s.cursor /\ t.fill = "none" /\ t.attach = s.attach
  BY DEF NoPull, Streams
<1> HIDE DEF t
<1>2. Talks(t, q, w)
  BY <1>1 DEF Talks, NoPull, Outstanding, None
<1>3. LET x == CatchUp(t, q) IN Talks(x.s, x.q, w) /\ x.s.cursor = t.cursor
  BY <1>2, CatchUpTalks
<1> QED BY <1>1, <1>2, <1>3 DEF CatchUpEnds, t

-----------------------------------------------------------------------------
(* The machine's answer to a pull.                                           *)

\* A set of rows has a last one.
LEMMA LastRow ==
    ASSUME NEW n \in Nat, NEW T, T \subseteq 1 .. n, T # {}
    PROVE  \E m \in T : \A k \in T : k <= m
<1> DEFINE U == {n - k : k \in T}
           R == {x \in Nat \X Nat : x[1] < x[2]}
<1>1. IsWellFoundedOn(R, Nat)
  <2>1. OpToRel(<, Nat) = R
    BY Zenon DEF OpToRel
  <2> QED BY <2>1, NatLessThanWellFounded
<1>2. \A x, y \in Nat : x < y => <<x, y>> \in R
  OBVIOUS
<1> HIDE DEF R
<1>3. \A k \in T : k \in Nat /\ k <= n
  OBVIOUS
<1>4. U \subseteq Nat
  BY <1>3
<1>5. U # {}
  OBVIOUS
<1> HIDE DEF U
<1>6. PICK x \in U : \A y \in U : ~ (<<y, x>> \in R)
  BY <1>1, <1>4, <1>5, WFMin
<1>7. \A y \in U : x <= y
  <2>1. \A y \in U : ~ (y < x)
    BY <1>2, <1>4, <1>6, Zenon
  <2> QED BY <1>4, <2>1
<1> QED BY <1>3, <1>7 DEF U

\* What is sent of the rows above a cursor are the first of them.
LEMMA PageIsPrefix ==
    ASSUME NEW above, above \subseteq Seqs,
           NEW r \in above, NEW s \in above, s <= r,
           Cardinality({t \in above : t <= r}) <= PageLimit
    PROVE  Cardinality({t \in above : t <= s}) <= PageLimit
<1> DEFINE Upto(x) == {t \in above : t <= x}
<1>1. IsFiniteSet(above)
  <2>1. IsFiniteSet(Seqs) /\ above \in SUBSET Seqs
    BY FS_Interval, StreamAssumption DEF Seqs
  <2> QED BY <2>1, FS_Subset
<1>2. IsFiniteSet(Upto(r)) /\ Upto(s) \in SUBSET Upto(r)
  <2>1. Upto(r) \in SUBSET above
    OBVIOUS
  <2>2. Upto(s) \subseteq Upto(r)
    <3>1. \A t \in above : t \in Int
      BY StreamAssumption DEF Seqs
    <3> QED BY <3>1
  <2> QED BY <1>1, <2>1, <2>2, FS_Subset
<1>3. /\ Cardinality(Upto(s)) <= Cardinality(Upto(r))
      /\ Cardinality(Upto(s)) \in Nat /\ Cardinality(Upto(r)) \in Nat
  BY <1>2, FS_Subset, FS_CardinalityType
<1> QED BY <1>3, StreamAssumption

-----------------------------------------------------------------------------
(* The steps.  In each the conversation between client and machine goes on, and what is
   still on the wire stays what it is.                                        *)

\* A page on its way keeps its promise as long as the machine only drops old rows or
\* numbers new ones, and no other page is asked for.
LEMMA WireKeeps ==
    ASSUME StreamIInv, MachineInv',
           head <= head', oldest <= oldest', log' \subseteq log \cup {head + 1},
           stream'.sent = stream.sent,
           NEW i \in 1 .. Len(wire)
    PROVE  /\ wire[i].kind = "live" => wire[i].seq <= head'
           /\ wire[i].kind = "page" =>
                 /\ wire[i].rows \subseteq 1 .. head' /\ wire[i].oldest <= oldest'
                 /\ \A r \in wire[i].rows, s \in log' :
                        stream'.sent < s /\ s <= r => s \in wire[i].rows
<1>1. wire[i] \in Messages
  BY ElementOfSeq DEF StreamIInv, Talks
<1>2. /\ head \in Nat /\ oldest \in Nat /\ head' \in Nat /\ oldest' \in Nat
  BY StreamAssumption DEF StreamIInv, MachineInv, Seqs
<1>3. ASSUME wire[i].kind = "live" PROVE wire[i].seq <= head'
  <2>1. wire[i].seq <= head /\ wire[i].seq \in Nat
    BY <1>1, <1>3, StreamAssumption DEF StreamIInv, WireInv, Messages, Seqs
  <2> QED BY <1>2, <2>1
<1>4. ASSUME wire[i].kind = "page"
      PROVE  /\ wire[i].rows \subseteq 1 .. head' /\ wire[i].oldest <= oldest'
             /\ \A r \in wire[i].rows, s \in log' :
                    stream'.sent < s /\ s <= r => s \in wire[i].rows
  <2>1. FullPage(wire[i]) /\ wire[i].oldest \in Nat
    BY <1>1, <1>4 DEF StreamIInv, WireInv, Messages
  <2>2. wire[i].rows \subseteq 1 .. head'
    BY <1>2, <2>1 DEF FullPage
  <2>3. wire[i].oldest <= oldest'
    BY <1>2, <2>1 DEF FullPage
  <2>4. ASSUME NEW r \in wire[i].rows, NEW s \in log', stream'.sent < s, s <= r
        PROVE  s \in wire[i].rows
    <3>1. r \in Nat /\ r <= head
      BY <1>2, <2>1 DEF FullPage
    <3>2. s \in log
      BY <1>2, <2>4, <3>1 DEF MachineInv
    <3> QED BY <2>1, <2>4, <3>2 DEF FullPage
  <2> QED BY <2>2, <2>3, <2>4
<1> QED BY <1>3, <1>4

\* The same when the first message is taken.
LEMMA WireTaken ==
    ASSUME StreamIInv, UNCHANGED machine, Took,
           stream'.sent = stream.sent \/ None(wire', "page")
    PROVE  WireInv'
<1>1. /\ wire \in Seq(Messages) /\ wire # <<>> /\ wire' = Tail(wire)
      /\ Len(wire) \in Nat /\ Len(wire') = Len(wire) - 1 /\ Len(wire) <= MaxWire
      /\ \A i \in 1 .. Len(wire') : i + 1 \in 1 .. Len(wire) /\ wire'[i] = wire[i + 1]
  BY TailCounts DEF StreamIInv, Talks, WireInv, Took
<1>2. Len(wire') <= MaxWire
  BY <1>1, StreamAssumption
<1>3. /\ head' = head /\ oldest' = oldest /\ log' = log
  BY DEF machine
<1>4. ASSUME NEW i \in 1 .. Len(wire')
      PROVE  /\ wire'[i].kind = "live" => wire'[i].seq <= head'
             /\ wire'[i].kind = "page" => FullPage(wire[i])'
  <2>1. wire'[i] = wire[i + 1] /\ i + 1 \in 1 .. Len(wire)
    BY <1>1
  <2>2. wire'[i].kind = "live" => wire'[i].seq <= head'
    BY <1>3, <2>1 DEF StreamIInv, WireInv
  <2>3. wire'[i].kind = "page" => FullPage(wire[i])'
    <3>1. CASE None(wire', "page")
      BY <3>1 DEF None
    <3>2. CASE stream'.sent = stream.sent
      BY <1>3, <2>1, <3>2 DEF StreamIInv, WireInv, FullPage
    <3> QED BY <3>1, <3>2
  <2> QED BY <2>2, <2>3
<1> QED BY <1>2, <1>4 DEF WireInv

\* Taking a message the client does not wait for changes nothing it does wait for.
LEMMA LiveTaken ==
    ASSUME NEW s, NEW q, NEW w, Talks(s, q, w), w # <<>>, Head(w).kind = "live"
    PROVE  Talks(s, q, Tail(w))
<1>1. /\ Tail(w) \in Seq(Messages)
      /\ \A k : None(w, k) => None(Tail(w), k)
      /\ \A k : One(w, k) /\ Head(w).kind # k => One(Tail(w), k)
  BY TailCounts DEF Talks
<1> QED BY <1>1 DEF Talks, Outstanding

\* A client that awaits no page has none coming.
LEMMA NoPageUnlessPulled ==
    ASSUME NEW s, NEW q, NEW w, Talks(s, q, w), s.fill # "pull"
    PROVE  None(w, "page") /\ None(q, "pull")
  BY DEF Talks, Outstanding

\* The same when the wire is left alone.
LEMMA WireStays ==
    ASSUME StreamIInv, UNCHANGED <<machine, wire>>,
           stream'.sent = stream.sent \/ None(wire, "page")
    PROVE  WireInv'
<1>1. /\ head' = head /\ oldest' = oldest /\ log' = log /\ wire' = wire
  BY DEF machine
<1>2. ASSUME NEW i \in 1 .. Len(wire')
      PROVE  /\ wire'[i].kind = "live" => wire'[i].seq <= head'
             /\ wire'[i].kind = "page" => FullPage(wire[i])'
  <2>1. i \in 1 .. Len(wire)
    BY <1>1
  <2>2. CASE None(wire, "page")
    BY <1>1, <2>1, <2>2 DEF None, StreamIInv, WireInv
  <2>3. CASE stream'.sent = stream.sent
    BY <1>1, <2>1, <2>3 DEF StreamIInv, WireInv, FullPage
  <2> QED BY <2>2, <2>3
<1> QED BY <1>1, <1>2 DEF StreamIInv, WireInv

\* A step that moves no cursor and hands nothing over.
LEMMA CursorStays ==
    ASSUME StreamIInv, UNCHANGED <<machine, base, times>>,
           stream'.cursor = stream.cursor,
           subscribed' \in BOOLEAN, online' \in BOOLEAN, gap' \in 0 .. MaxSeq,
           Talks(stream', request', wire'), WireInv'
    PROVE  StreamIInv'
<1>1. /\ head' = head /\ oldest' = oldest /\ log' = log /\ bad' = bad
      /\ base' = base /\ times' = times
  BY DEF machine
<1>2. MachineInv' /\ TimesInv' /\ NothingSkipped'
  BY <1>1 DEF StreamIInv, MachineInv, TimesInv, NothingSkipped
<1> QED BY <1>1, <1>2 DEF StreamIInv

\* A client that asks again: nothing on the wire belongs to what it asks for.
LEMMA ClientAsks ==
    ASSUME StreamIInv, NEW s, NEW q, Step([s |-> s, q |-> q]), Talks(s, q, wire),
           s.cursor = stream.cursor, stream.fill = "pull" => s.sent = stream.sent \/ None(wire, "page"),
           UNCHANGED <<machine, wire, base, times>>,
           subscribed' \in BOOLEAN, online' \in BOOLEAN, gap' \in 0 .. MaxSeq
    PROVE  StreamIInv'
<1>1. stream' = s /\ request' = q /\ wire' = wire
  BY DEF Step
<1>2. stream'.sent = stream.sent \/ None(wire, "page")
  BY <1>1, NoPageUnlessPulled DEF StreamIInv
<1>3. WireInv'
  BY <1>2, WireStays
<1> QED BY <1>1, <1>3, CursorStays

LEMMA PageCatchesUpInv == StreamIInv /\ PageCatchesUp => StreamIInv'
<1> SUFFICES ASSUME StreamIInv, PageCatchesUp PROVE StreamIInv'
  OBVIOUS
<1> DEFINE x == CatchUp(stream, request)
<1>1. Talks(x.s, x.q, wire) /\ x.s.cursor = stream.cursor
  BY CatchUpTalks DEF StreamIInv
<1>2. stream.fill # "pull" /\ Step(x) /\ UNCHANGED <<machine, subscribed, wire, online, base, times, gap>>
  BY DEF PageCatchesUp
<1> HIDE DEF x
<1> QED BY <1>1, <1>2, ClientAsks DEF Step, StreamIInv

LEMMA PageAttachesInv == StreamIInv /\ PageAttaches => StreamIInv'
<1> SUFFICES ASSUME StreamIInv, PageAttaches PROVE StreamIInv'
  OBVIOUS
<1> DEFINE x == Attach(stream, request)
<1>1. Talks(x.s, x.q, wire) /\ x.s.cursor = stream.cursor /\ x.s.sent = stream.sent
  BY AttachTalks DEF StreamIInv, PageAttaches
<1>2. Step(x) /\ UNCHANGED <<machine, subscribed, wire, online, base, times, gap>>
  BY DEF PageAttaches
<1> HIDE DEF x
<1> QED BY <1>1, <1>2, ClientAsks DEF Step, StreamIInv

\* Nothing is on the wire when the next connection is there.
LEMMA ReconnectedInv == StreamIInv /\ Reconnected => StreamIInv'
<1> SUFFICES ASSUME StreamIInv, Reconnected PROVE StreamIInv'
  OBVIOUS
<1>1. CASE stream.watched
  <2> DEFINE x == CatchUp(stream, request)
  <2>1. /\ Talks(x.s, x.q, wire) /\ x.s.cursor = stream.cursor
        /\ stream.fill = "pull" => x.s.sent = stream.sent
    BY CatchUpTalks DEF StreamIInv
  <2>2. Step(x) /\ online' = TRUE /\ UNCHANGED <<machine, subscribed, wire, base, times, gap>>
    BY <1>1 DEF Reconnected
  <2> HIDE DEF x
  <2> QED BY <2>1, <2>2, ClientAsks DEF Step, StreamIInv
<1>2. CASE ~stream.watched
  <2>1. /\ stream' = stream /\ request' = request /\ online' = TRUE
        /\ UNCHANGED <<machine, subscribed, wire, base, times, gap>>
    BY <1>2 DEF Reconnected, Step
  <2> QED BY <2>1, ClientAsks DEF Step, StreamIInv
<1> QED BY <1>1, <1>2

\* The answer to an attach: a catch-up that waited for it pulls.
LEMMA ReceiveAttachInv == StreamIInv /\ ReceiveAttach => StreamIInv'
<1> SUFFICES ASSUME StreamIInv, ReceiveAttach PROVE StreamIInv'
  OBVIOUS
<1> DEFINE ok == Head(wire).ok
           s == [stream EXCEPT !.attach = IF ok THEN "yes" ELSE "no",
                               !.watched = stream.watched \/ ok]
<1>1. /\ wire # <<>> /\ wire' = Tail(wire) /\ Head(wire).kind = "attached" /\ Took
      /\ Step(IF s.fill = "attach" THEN Pull(s, request) ELSE [s |-> s, q |-> request])
      /\ UNCHANGED <<machine, subscribed, online, base, times, gap>>
  BY DEF ReceiveAttach, Took
<1>2. /\ Head(wire) \in Messages /\ Tail(wire) \in Seq(Messages)
      /\ \A k : None(wire, k) => None(Tail(wire), k)
      /\ \A k : One(wire, k) /\ Head(wire).kind = k => None(Tail(wire), k)
      /\ \A k : One(wire, k) /\ Head(wire).kind # k => One(Tail(wire), k)
      /\ Head(wire) = wire[1] /\ 1 \in 1 .. Len(wire)
  BY <1>1, TailCounts DEF StreamIInv, Talks
<1>3. ok \in BOOLEAN
  BY <1>1, <1>2 DEF Messages
<1>4. /\ s \in Streams /\ s.cursor = stream.cursor /\ s.sent = stream.sent /\ s.fill = stream.fill
      /\ s.attach # "asked"
  BY <1>3 DEF StreamIInv, Talks, Streams
<1> HIDE DEF s, ok
<1>5. None(request, "attach") /\ None(Tail(wire), "attached")
  BY <1>1, <1>2 DEF StreamIInv, Talks, Outstanding, None
<1>6. /\ Outstanding(request, Tail(wire), "pull", "page", stream.fill = "pull")
      /\ request \in Seq(Requests)
  BY <1>1, <1>2 DEF StreamIInv, Talks, Outstanding
<1>7. CASE s.fill = "attach"
  <2> DEFINE x == Pull(s, request)
  <2>1. NoPull(s, request, Tail(wire))
    BY <1>2, <1>4, <1>5, <1>6, <1>7 DEF NoPull, Outstanding
  <2>2. Talks(x.s, x.q, Tail(wire)) /\ x.s.cursor = s.cursor
    BY <2>1, PullTalks
  <2>3. stream' = x.s /\ request' = x.q
    BY <1>1, <1>7 DEF Step
  <2> HIDE DEF x
  <2>4. WireInv'
    BY <1>1, <2>1, WireTaken DEF NoPull
  <2> QED BY <1>1, <1>4, <2>2, <2>3, <2>4, CursorStays DEF StreamIInv
<1>8. CASE s.fill # "attach"
  <2>1. stream' = s /\ request' = request
    BY <1>1, <1>8 DEF Step
  <2>2. Talks(s, request, Tail(wire))
    BY <1>2, <1>4, <1>5, <1>6, <1>8 DEF Talks, Outstanding, StreamIInv
  <2>3. WireInv'
    BY <1>1, <1>4, <2>1, WireTaken
  <2> QED BY <1>1, <1>4, <2>1, <2>2, <2>3, CursorStays DEF StreamIInv
<1> QED BY <1>7, <1>8

\* A question without an answer: a failed attach is followed by the pull all the same, a
\* failed pull ends the catch-up.
LEMMA RequestTimesOutInv == StreamIInv /\ RequestTimesOut => StreamIInv'
<1> SUFFICES ASSUME StreamIInv, RequestTimesOut PROVE StreamIInv'
  OBVIOUS
<1> DEFINE s == [stream EXCEPT !.attach = "no"]
           q == Tail(request)
<1>1. /\ request # <<>>
      /\ IF Head(request).kind = "attach"
         THEN /\ Step(IF s.fill = "attach" THEN Pull(s, q) ELSE [s |-> s, q |-> q])
              /\ gap' = gap
         ELSE Step(CatchUpEnds(stream, q)) /\ gap' = 0
      /\ UNCHANGED <<machine, subscribed, wire, online, base, times>>
  BY DEF RequestTimesOut
<1>2. /\ q \in Seq(Requests) /\ Head(request) \in Requests
      /\ Head(request) = request[1] /\ 1 \in 1 .. Len(request)
      /\ \A i \in 1 .. Len(q) : i + 1 \in 1 .. Len(request) /\ q[i] = request[i + 1]
      /\ \A k : None(request, k) => None(q, k)
      /\ \A k : One(request, k) /\ Head(request).kind = k => None(q, k)
      /\ \A k : One(request, k) /\ Head(request).kind # k => One(q, k)
  BY <1>1, TailCounts DEF StreamIInv, Talks
<1> HIDE DEF q
<1>3. gap' \in 0 .. MaxSeq
  BY <1>1, StreamAssumption DEF StreamIInv
<1>4. CASE Head(request).kind = "attach"
  <2>1. s \in Streams /\ s.cursor = stream.cursor /\ s.sent = stream.sent /\ s.fill = stream.fill
        /\ s.attach = "no"
    BY DEF StreamIInv, Talks, Streams
  <2> HIDE DEF s
  <2>2. None(q, "attach") /\ None(wire, "attached")
    BY <1>2, <1>4 DEF StreamIInv, Talks, Outstanding, None
  <2>3. Outstanding(q, wire, "pull", "page", stream.fill = "pull")
    BY <1>2, <1>4 DEF StreamIInv, Talks, Outstanding
  <2>4. CASE s.fill = "attach"
    <3> DEFINE x == Pull(s, q)
    <3>1. NoPull(s, q, wire)
      BY <1>2, <2>1, <2>2, <2>3, <2>4 DEF NoPull, Outstanding, StreamIInv, Talks
    <3>2. Talks(x.s, x.q, wire) /\ x.s.cursor = s.cursor
      BY <3>1, PullTalks
    <3>3. stream' = x.s /\ request' = x.q
      BY <1>1, <1>4, <2>4 DEF Step
    <3> HIDE DEF x
    <3>4. WireInv'
      BY <1>1, <3>1, WireStays DEF NoPull
    <3> QED BY <1>1, <1>3, <2>1, <3>2, <3>3, <3>4, CursorStays DEF StreamIInv
  <2>5. CASE s.fill # "attach"
    <3>1. stream' = s /\ request' = q
      BY <1>1, <1>4, <2>5 DEF Step
    <3>2. \A i \in 1 .. Len(q) : q[i].kind = "pull" => q[i].cursor = s.sent
      BY <1>2, <2>1 DEF StreamIInv, Talks
    <3>3. Talks(s, q, wire)
      BY <1>2, <2>1, <2>2, <2>3, <2>5, <3>2 DEF Talks, Outstanding, StreamIInv
    <3>4. WireInv'
      BY <1>1, <2>1, <3>1, WireStays
    <3> QED BY <1>1, <1>3, <2>1, <3>1, <3>3, <3>4, CursorStays DEF StreamIInv
  <2> QED BY <2>4, <2>5
<1>5. CASE Head(request).kind # "attach"
  <2> DEFINE x == CatchUpEnds(stream, q)
  <2>1. Head(request).kind = "pull"
    BY <1>2, <1>5 DEF Requests
  <2>2. None(q, "pull") /\ None(wire, "page")
    BY <1>2, <2>1 DEF StreamIInv, Talks, Outstanding, None
  <2>3. Outstanding(q, wire, "attach", "attached", stream.attach = "asked")
    BY <1>2, <2>1 DEF StreamIInv, Talks, Outstanding
  <2>4. NoPull(stream, q, wire)
    BY <1>2, <2>2, <2>3 DEF NoPull, StreamIInv, Talks
  <2>5. Talks(x.s, x.q, wire) /\ x.s.cursor = stream.cursor
    BY <2>4, CatchUpEndsTalks
  <2>6. stream' = x.s /\ request' = x.q
    BY <1>1, <1>5 DEF Step
  <2> HIDE DEF x
  <2>7. WireInv'
    BY <1>1, <2>2, WireStays
  <2> QED BY <1>1, <1>3, <2>5, <2>6, <2>7, CursorStays DEF StreamIInv
<1> QED BY <1>4, <1>5

\* Nothing is asked and nothing on its way when the connection has dropped.
LEMMA DropInv == StreamIInv /\ Drop => StreamIInv'
<1> SUFFICES ASSUME StreamIInv, Drop PROVE StreamIInv'
  OBVIOUS
<1>1. /\ online' = FALSE /\ subscribed' = FALSE /\ wire' = <<>> /\ request' = <<>> /\ gap' = 0
      /\ stream' = [stream EXCEPT !.attach = "no", !.fill = "none", !.refill = FALSE]
      /\ UNCHANGED <<machine, base, times>>
  BY DEF Drop
<1>2. /\ stream' \in Streams /\ stream'.cursor = stream.cursor
      /\ stream'.attach = "no" /\ stream'.fill = "none"
  BY <1>1 DEF StreamIInv, Talks, Streams
<1>3. /\ request' \in Seq(Requests) /\ Len(request') = 0
      /\ wire' \in Seq(Messages) /\ Len(wire') = 0
  BY <1>1, EmptySeq
<1>4. Talks(stream', request', wire')
  BY <1>2, <1>3 DEF Talks, Outstanding, None
<1>5. WireInv'
  BY <1>3, StreamAssumption DEF WireInv
<1>6. gap' \in 0 .. MaxSeq
  BY <1>1, StreamAssumption
<1> QED BY <1>1, <1>2, <1>4, <1>5, <1>6, CursorStays

LEMMA LoseFrameInv == StreamIInv /\ LoseFrame => StreamIInv'
<1> SUFFICES ASSUME StreamIInv, LoseFrame PROVE StreamIInv'
  OBVIOUS
<1>1. /\ wire # <<>> /\ Head(wire).kind = "live" /\ wire' = Tail(wire) /\ Took
      /\ UNCHANGED <<machine, subscribed, request, online, stream, base, times, gap>>
  BY DEF LoseFrame, Took
<1>2. Talks(stream', request', wire')
  BY <1>1, LiveTaken DEF StreamIInv
<1>3. WireInv'
  BY <1>1, WireTaken
<1> QED BY <1>1, <1>2, <1>3, CursorStays DEF StreamIInv

\* The gate of the live frames: the next number is handed over, and only that one.
LEMMA ReceiveLiveInv == StreamIInv /\ ReceiveLive => StreamIInv'
<1> SUFFICES ASSUME StreamIInv, ReceiveLive PROVE StreamIInv'
  OBVIOUS
<1> DEFINE n == Head(wire).seq
<1>1. /\ Took /\ wire # <<>> /\ wire' = Tail(wire) /\ Head(wire).kind = "live"
      /\ IF n \in bad \/ n <= stream.cursor
         THEN UNCHANGED <<stream, request, times, gap>>
         ELSE IF n > stream.cursor + 1
         THEN Step(CatchUp(stream, request)) /\ gap' = n /\ times' = times
         ELSE /\ stream' = [stream EXCEPT !.cursor = n] /\ Deliver({n})
              /\ UNCHANGED <<request, gap>>
      /\ UNCHANGED <<machine, subscribed, online, base>>
  BY DEF ReceiveLive, Took
<1>2. Talks(stream, request, wire')
  BY <1>1, LiveTaken DEF StreamIInv
<1>3. n \in Seqs /\ n <= head
  <2>1. Head(wire) = wire[1] /\ wire[1] \in Messages /\ 1 \in 1 .. Len(wire)
    BY <1>1, TailCounts DEF StreamIInv, Talks
  <2> QED BY <1>1, <2>1 DEF StreamIInv, WireInv, Messages
<1> HIDE DEF n
<1>4. CASE n \in bad \/ n <= stream.cursor
  <2>1. WireInv'
    BY <1>1, <1>4, WireTaken
  <2> QED BY <1>1, <1>2, <1>4, <2>1, CursorStays DEF StreamIInv
<1>5. CASE ~(n \in bad \/ n <= stream.cursor) /\ n > stream.cursor + 1
  <2> DEFINE x == CatchUp(stream, request)
  <2>1. /\ Talks(x.s, x.q, wire') /\ x.s.cursor = stream.cursor
        /\ stream.fill = "pull" => x.s.sent = stream.sent
    BY <1>2, CatchUpTalks
  <2>2. stream' = x.s /\ request' = x.q /\ gap' = n /\ times' = times
    BY <1>1, <1>5 DEF Step
  <2> HIDE DEF x
  <2>3. stream'.sent = stream.sent \/ None(wire', "page")
    BY <1>2, <2>1, <2>2, NoPageUnlessPulled
  <2>4. WireInv'
    BY <1>1, <2>3, WireTaken
  <2>5. gap' \in 0 .. MaxSeq
    BY <1>3, <2>2, StreamAssumption DEF Seqs
  <2> QED BY <1>1, <2>1, <2>2, <2>4, <2>5, CursorStays DEF StreamIInv
<1>6. CASE ~(n \in bad \/ n <= stream.cursor) /\ ~(n > stream.cursor + 1)
  <2>1. /\ stream' = [stream EXCEPT !.cursor = n] /\ request' = request /\ gap' = gap
        /\ times' = [s \in Seqs |-> times[s] + (IF s \in {n} \ bad THEN 1 ELSE 0)]
    BY <1>1, <1>6 DEF Deliver
  <2>2. n = stream.cursor + 1 /\ stream.cursor \in 0 .. MaxSeq
    BY <1>3, <1>6, StreamAssumption DEF StreamIInv, Talks, Streams, Seqs
  <2>3. /\ stream' \in Streams /\ stream'.cursor = n /\ stream'.sent = stream.sent
        /\ stream'.fill = stream.fill /\ stream'.attach = stream.attach
    BY <1>3, <2>1, StreamAssumption, SMTT(30) DEF StreamIInv, Talks, Streams, Seqs
  <2>4. stream.fill = "pull" => stream'.sent <= stream'.cursor
    BY <2>2, <2>3 DEF StreamIInv, Talks, Streams
  <2>5. Talks(stream', request', wire')
    BY <1>2, <2>1, <2>3, <2>4 DEF Talks
  <2>6. WireInv'
    BY <1>1, <2>3, WireTaken
  <2>7. /\ head' = head /\ oldest' = oldest /\ log' = log /\ bad' = bad /\ base' = base
        /\ online' = online /\ subscribed' = subscribed
    BY <1>1 DEF machine
  <2>8. TimesInv'
    <3>1. times \in [Seqs -> Nat]
      BY DEF StreamIInv, TimesInv
    <3>2. times' \in [Seqs -> Nat]
      BY <2>1, <3>1
    <3>3. ASSUME oldest' = 1, NEW s \in Seqs
          PROVE  times'[s] <= 1 /\ (s > stream'.cursor => times'[s] = 0)
      <4>1. times[s] \in Nat /\ times[s] <= 1 /\ (s > stream.cursor => times[s] = 0) /\ s \in Nat
        BY <2>7, <3>1, <3>3, StreamAssumption DEF StreamIInv, TimesInv, Seqs
      <4>2. times'[s] = times[s] + (IF s \in {n} \ bad THEN 1 ELSE 0)
        BY <2>1
      <4> QED BY <2>2, <2>3, <4>1, <4>2
    <3> QED BY <3>2, <3>3 DEF TimesInv
  <2>9. NothingSkipped'
    <3> SUFFICES ASSUME NEW s \in log \ bad, base < s, s <= n PROVE times'[s] > 0
      BY <2>3, <2>7 DEF NothingSkipped
    <3>1. s \in Seqs
      BY StreamAssumption DEF StreamIInv, MachineInv, Seqs
    <3>2. CASE s = n
      BY <2>1, <3>1, <3>2 DEF StreamIInv, TimesInv
    <3>3. CASE s # n
      <4>1. s <= stream.cursor
        BY <2>2, <3>1, <3>3, StreamAssumption DEF Seqs
      <4>2. times[s] > 0 /\ times[s] \in Nat
        BY <3>1, <4>1 DEF StreamIInv, TimesInv, NothingSkipped
      <4> QED BY <2>1, <3>1, <4>2
    <3> QED BY <3>2, <3>3
  <2>10. MachineInv' /\ stream'.cursor <= head'
    BY <1>3, <2>3, <2>7 DEF StreamIInv, MachineInv
  <2> QED BY <2>1, <2>5, <2>6, <2>7, <2>8, <2>9, <2>10 DEF StreamIInv
<1> QED BY <1>4, <1>5, <1>6

\* A page: what lies between the old cursor and the new one was handed over before, is in
\* the page, or is not kept any more.
LEMMA ReceivePageInv == StreamIInv /\ ReceivePage => StreamIInv'
<1> SUFFICES ASSUME StreamIInv, ReceivePage PROVE StreamIInv'
  OBVIOUS
<1> DEFINE page == Head(wire)
           start == IF page.oldest > 0 /\ stream.sent + 1 < page.oldest
                    THEN page.oldest - 1 ELSE stream.cursor
           new == {r \in page.rows \ bad : r > start}
           cursor == IF new = {} THEN start ELSE CHOOSE m \in new : \A r \in new : r <= m
           s == [stream EXCEPT !.cursor = cursor]
<1>1. /\ Took /\ wire # <<>> /\ wire' = Tail(wire) /\ page.kind = "page"
      /\ times' = [t \in Seqs |-> times[t] + (IF t \in new \ bad THEN 1 ELSE 0)]
      /\ Step(IF page.more /\ cursor > stream.sent THEN Pull(s, request) ELSE CatchUpEnds(s, request))
      /\ gap' \in {0, gap}
      /\ UNCHANGED <<machine, subscribed, online, base>>
  BY DEF ReceivePage, Took, Deliver
<1>2. /\ page = wire[1] /\ page \in Messages /\ 1 \in 1 .. Len(wire)
      /\ Tail(wire) \in Seq(Messages)
      /\ \A k : None(wire, k) => None(Tail(wire), k)
      /\ \A k : One(wire, k) /\ page.kind = k => None(Tail(wire), k)
      /\ \A k : One(wire, k) /\ page.kind # k => One(Tail(wire), k)
  BY <1>1, TailCounts DEF StreamIInv, Talks
<1>3. /\ FullPage(page) /\ page.oldest \in Nat /\ page.rows \subseteq 1 .. head
      /\ page.oldest <= oldest
  BY <1>1, <1>2 DEF StreamIInv, WireInv, Messages, FullPage
<1>4. /\ stream.fill = "pull" /\ None(request, "pull") /\ None(Tail(wire), "page")
  BY <1>1, <1>2 DEF StreamIInv, Talks, Outstanding, None
<1>5. /\ head \in Nat /\ oldest \in Nat /\ oldest >= 1 /\ oldest <= head /\ head <= MaxSeq
      /\ \A r \in log : r \in Nat /\ oldest <= r /\ r <= head
      /\ stream.cursor \in Nat /\ stream.sent \in Nat /\ stream.sent <= stream.cursor
      /\ stream.cursor <= head /\ stream \in Streams /\ MaxSeq \in Nat
  BY <1>4, StreamAssumption DEF StreamIInv, MachineInv, Talks, Streams, Seqs
<1> HIDE DEF page
<1>6. /\ start \in Nat /\ stream.sent <= start /\ start <= head
      /\ start = stream.cursor \/ start < page.oldest
      /\ oldest = 1 => start = stream.cursor
  BY <1>3, <1>5
<1> HIDE DEF start
<1>7. /\ cursor \in Nat /\ start <= cursor /\ cursor <= head
      /\ \A r \in new : r <= cursor
      /\ cursor = start \/ cursor \in page.rows
  <2>1. CASE new = {}
    BY <1>6, <2>1
  <2>2. CASE new # {}
    <3>1. new \subseteq 1 .. head
      BY <1>3
    <3>2. \E m \in new : \A r \in new : r <= m
      BY <1>5, <2>2, <3>1, LastRow
    <3>3. cursor \in new /\ \A r \in new : r <= cursor
      BY <2>2, <3>2
    <3>4. cursor \in page.rows /\ cursor > start
      BY <3>3
    <3> HIDE DEF new, cursor
    <3> QED BY <1>3, <1>5, <1>6, <3>3, <3>4
  <2> QED BY <2>1, <2>2
<1> HIDE DEF cursor
<1>8. /\ s \in Streams /\ s.cursor = cursor /\ s.sent = stream.sent /\ s.fill = stream.fill
      /\ s.attach = stream.attach
  BY <1>5, <1>7 DEF Streams
<1> HIDE DEF s
<1>9. NoPull(s, request, Tail(wire))
  <2>1. Outstanding(request, Tail(wire), "attach", "attached", stream.attach = "asked")
    BY <1>1, <1>2 DEF StreamIInv, Talks, Outstanding
  <2> QED BY <1>2, <1>4, <1>8, <2>1 DEF NoPull, StreamIInv, Talks
<1>10. Talks(stream', request', wire') /\ stream'.cursor = cursor
  <2> DEFINE x == Pull(s, request)
             y == CatchUpEnds(s, request)
  <2>1. /\ Talks(x.s, x.q, Tail(wire)) /\ x.s.cursor = cursor
    BY <1>8, <1>9, PullTalks
  <2>2. /\ Talks(y.s, y.q, Tail(wire)) /\ y.s.cursor = cursor
    BY <1>8, <1>9, CatchUpEndsTalks
  <2>3. \/ stream' = x.s /\ request' = x.q
        \/ stream' = y.s /\ request' = y.q
    BY <1>1 DEF Step
  <2> HIDE DEF x, y
  <2> QED BY <1>1, <2>1, <2>2, <2>3
<1>11. WireInv'
  BY <1>1, <1>4, WireTaken
<1>12. /\ head' = head /\ oldest' = oldest /\ log' = log /\ bad' = bad /\ base' = base
       /\ gap' \in 0 .. MaxSeq /\ online' = online /\ subscribed' = subscribed
  BY <1>1, StreamAssumption DEF machine, StreamIInv
<1>13. \A t \in log \ bad : start < t /\ t <= cursor => t \in new
  <2> SUFFICES ASSUME NEW t \in log \ bad, start < t, t <= cursor PROVE t \in new
    OBVIOUS
  <2>1. cursor \in page.rows /\ stream.sent < t
    BY <1>5, <1>6, <1>7
  <2>2. t \in page.rows
    BY <1>3, <2>1 DEF FullPage
  <2> QED BY <2>2
<1>14. \A r \in new : r \notin bad /\ r \in Seqs /\ start < r
  BY <1>3, <1>5 DEF Seqs
<1> HIDE DEF new
<1>15. \A t \in Seqs : /\ times[t] \in Nat /\ times'[t] \in Nat
                       /\ t \in new => times'[t] = times[t] + 1
                       /\ t \notin new => times'[t] = times[t]
  BY <1>1, <1>14 DEF StreamIInv, TimesInv
<1>16. NothingSkipped'
  <2> SUFFICES ASSUME NEW t \in log \ bad, base < t, t <= cursor PROVE times'[t] > 0
    BY <1>10, <1>12 DEF NothingSkipped
  <2>1. t \in Seqs /\ t \in Nat /\ oldest <= t
    BY <1>5 DEF Seqs
  <2>2. CASE start < t
    BY <1>13, <1>15, <2>1, <2>2
  <2>3. CASE ~(start < t)
    <3>1. start = stream.cursor /\ t <= stream.cursor
      BY <1>3, <1>5, <1>6, <2>1, <2>3
    <3>2. times[t] > 0
      BY <3>1 DEF StreamIInv, NothingSkipped
    <3> QED BY <1>15, <2>1, <3>2
  <2> QED BY <2>2, <2>3
<1>17. TimesInv'
  <2>1. times' \in [Seqs -> Nat]
    BY <1>1, <1>15
  <2>2. ASSUME oldest = 1, NEW t \in Seqs
        PROVE  times'[t] <= 1 /\ (t > cursor => times'[t] = 0)
    <3>1. start = stream.cursor /\ times[t] <= 1 /\ (t > stream.cursor => times[t] = 0)
      BY <1>6, <2>2 DEF StreamIInv, TimesInv
    <3>2. CASE t \in new
      BY <1>7, <1>14, <1>15, <3>1, <3>2, StreamAssumption DEF Seqs
    <3>3. CASE t \notin new
      BY <1>5, <1>6, <1>7, <1>15, <3>1, <3>3, StreamAssumption DEF Seqs
    <3> QED BY <3>2, <3>3
  <2> QED BY <1>10, <1>12, <2>1, <2>2 DEF TimesInv
<1>18. MachineInv' /\ stream'.cursor <= head'
  BY <1>7, <1>10, <1>12 DEF StreamIInv, MachineInv
<1> QED BY <1>10, <1>11, <1>12, <1>16, <1>17, <1>18 DEF StreamIInv

-----------------------------------------------------------------------------
(* The machine's steps.                                                      *)

\* One more message, which keeps the promise, joins the others.
LEMMA WireAppended ==
    ASSUME StreamIInv, MachineInv',
           head <= head', oldest <= oldest', log' \subseteq log \cup {head + 1},
           stream'.sent = stream.sent,
           NEW m \in Messages, Room, wire' = Append(wire, m),
           m.kind = "live" => m.seq <= head',
           m.kind = "page" => FullPage(m)'
    PROVE  WireInv'
<1>1. /\ wire \in Seq(Messages) /\ Len(wire) \in Nat /\ Len(wire') = Len(wire) + 1
      /\ \A i \in 1 .. Len(wire) : wire'[i] = wire[i]
      /\ wire'[Len(wire) + 1] = m
  BY AppendCounts DEF StreamIInv, Talks
<1>2. Len(wire') <= MaxWire
  BY <1>1, StreamAssumption DEF Room
<1>3. ASSUME NEW i \in 1 .. Len(wire')
      PROVE  /\ wire'[i].kind = "live" => wire'[i].seq <= head'
             /\ wire'[i].kind = "page" => FullPage(wire[i])'
  <2>1. CASE i \in 1 .. Len(wire)
    <3>1. wire'[i] = wire[i]
      BY <1>1, <2>1
    <3>2. /\ wire[i].kind = "live" => wire[i].seq <= head'
          /\ wire[i].kind = "page" =>
                /\ wire[i].rows \subseteq 1 .. head' /\ wire[i].oldest <= oldest'
                /\ \A r \in wire[i].rows, s \in log' :
                       stream'.sent < s /\ s <= r => s \in wire[i].rows
      BY <2>1, WireKeeps
    <3> QED BY <3>1, <3>2 DEF FullPage
  <2>2. CASE i = Len(wire) + 1
    <3>1. wire'[i] = m
      BY <1>1, <2>2
    <3> QED BY <3>1 DEF FullPage
  <2> QED BY <1>1, <2>1, <2>2
<1> QED BY <1>2, <1>3 DEF WireInv

\* Rows that are numbered or dropped leave what was handed over as it was.
LEMMA MachineMoves ==
    ASSUME StreamIInv, MachineInv',
           head <= head', oldest <= oldest', log' \subseteq log \cup {head + 1},
           bad \subseteq bad',
           UNCHANGED <<subscribed, request, online, stream, base, times, gap>>,
           wire' = wire \/ /\ Room /\ head' \in Seqs
                           /\ wire' = Append(wire, [kind |-> "live", seq |-> head'])
    PROVE  StreamIInv'
<1>1. /\ subscribed' = subscribed /\ request' = request /\ online' = online
      /\ stream' = stream /\ base' = base /\ times' = times /\ gap' = gap
  OBVIOUS
<1>2. /\ head \in Nat /\ head' \in Nat /\ oldest \in Nat /\ oldest' \in Nat /\ oldest >= 1
      /\ stream.cursor \in Nat /\ stream.cursor <= head
      /\ \A s \in log' : s \in Nat
  BY StreamAssumption DEF StreamIInv, MachineInv, Talks, Streams, Seqs
<1>3. WireInv' /\ Talks(stream', request', wire')
  <2>1. CASE wire' = wire
    <3>1. ASSUME NEW i \in 1 .. Len(wire)
          PROVE  /\ wire'[i].kind = "live" => wire'[i].seq <= head'
                 /\ wire'[i].kind = "page" => FullPage(wire[i])'
      <4>1. /\ wire[i].kind = "live" => wire[i].seq <= head'
            /\ wire[i].kind = "page" =>
                  /\ wire[i].rows \subseteq 1 .. head' /\ wire[i].oldest <= oldest'
                  /\ \A r \in wire[i].rows, s \in log' :
                         stream'.sent < s /\ s <= r => s \in wire[i].rows
        BY <1>1, WireKeeps
      <4> QED BY <2>1, <4>1 DEF FullPage
    <3>2. WireInv'
      BY <2>1, <3>1 DEF WireInv, StreamIInv
    <3> QED BY <1>1, <2>1, <3>2 DEF StreamIInv
  <2>2. CASE /\ Room /\ head' \in Seqs
             /\ wire' = Append(wire, [kind |-> "live", seq |-> head'])
    <3>1. PICK m \in Messages : m = [kind |-> "live", seq |-> head']
      BY <2>2 DEF Messages
    <3>2. m.kind = "live" /\ m.seq = head'
      BY <3>1
    <3>3. WireInv'
      BY <1>1, <1>2, <2>2, <3>1, <3>2, WireAppended
    <3>4. /\ wire' \in Seq(Messages)
          /\ \A k : k # "live" /\ None(wire, k) => None(wire', k)
          /\ \A k : k # "live" /\ One(wire, k) => One(wire', k)
      BY <2>2, <3>1, <3>2, AppendCounts DEF StreamIInv, Talks
    <3>5. Talks(stream, request, wire')
      BY <3>4 DEF StreamIInv, Talks, Outstanding
    <3> QED BY <1>1, <3>3, <3>5
  <2> QED BY <2>1, <2>2
<1>4. NothingSkipped'
  <2> SUFFICES ASSUME NEW s \in log' \ bad', base < s, s <= stream.cursor PROVE times[s] > 0
    BY <1>1 DEF NothingSkipped
  <2>1. s \in log \ bad
    BY <1>2
  <2> QED BY <2>1 DEF StreamIInv, NothingSkipped
<1>5. TimesInv'
  BY <1>1, <1>2 DEF StreamIInv, TimesInv
<1>6. stream'.cursor <= head'
  BY <1>1, <1>2
<1> QED BY <1>1, <1>3, <1>4, <1>5, <1>6 DEF StreamIInv

\* A number the machine gives is above all others, a row it drops below what it keeps.
LEMMA EmitInv == ASSUME StreamIInv, NEW b \in BOOLEAN, Emit(b) PROVE StreamIInv'
<1>1. /\ head < MaxSeq /\ Room /\ head' = head + 1 /\ log' = log \cup {head + 1}
      /\ bad' = IF b THEN bad \cup {head + 1} ELSE bad
      /\ wire' = wire \/ wire' = Append(wire, [kind |-> "live", seq |-> head + 1])
      /\ UNCHANGED <<oldest, subscribed, request, online, stream, base, times, gap>>
  BY DEF Emit, Live, Send
<1>2. MachineInv' /\ head <= head' /\ oldest <= oldest' /\ head' \in Seqs
  BY <1>1, StreamAssumption DEF StreamIInv, MachineInv, Seqs
<1> QED BY <1>1, <1>2, MachineMoves

LEMMA RewriteInv == ASSUME StreamIInv, NEW r \in Seqs, Rewrite(r) PROVE StreamIInv'
<1>1. /\ head < MaxSeq /\ Room /\ head' = head + 1 /\ log' = (log \ {r}) \cup {head + 1}
      /\ bad' = bad
      /\ wire' = wire \/ wire' = Append(wire, [kind |-> "live", seq |-> head + 1])
      /\ UNCHANGED <<oldest, subscribed, request, online, stream, base, times, gap>>
  BY DEF Rewrite, Live, Send
<1>2. MachineInv' /\ head <= head' /\ oldest <= oldest' /\ head' \in Seqs
  BY <1>1, StreamAssumption DEF StreamIInv, MachineInv, Seqs
<1> QED BY <1>1, <1>2, MachineMoves

LEMMA ForgetInv == ASSUME StreamIInv, NEW r \in Seqs, Forget(r) PROVE StreamIInv'
<1>1. /\ r \in log /\ r < head /\ log' = {s \in log : s > r} /\ oldest' = r + 1
      /\ bad' = bad /\ head' = head /\ wire' = wire
      /\ UNCHANGED <<subscribed, request, online, stream, base, times, gap>>
  BY DEF Forget
<1>2. MachineInv' /\ head <= head' /\ oldest <= oldest'
  <2>1. /\ head \in Seqs /\ oldest \in Nat /\ r \in Nat /\ oldest <= r /\ 1 <= oldest
        /\ head \in Nat /\ \A s \in log : s \in Nat /\ s <= head
    BY <1>1, StreamAssumption DEF StreamIInv, MachineInv, Seqs
  <2>2. head' \in Seqs /\ oldest' \in 1 .. head' /\ oldest <= oldest'
    BY <1>1, <2>1
  <2>3. ASSUME NEW s \in log' PROVE s \in oldest' .. head'
    <3>1. s \in log /\ s > r
      BY <1>1, <2>3
    <3>2. s \in Nat /\ s <= head
      BY <2>1, <3>1
    <3> QED BY <1>1, <2>1, <3>1, <3>2
  <2>4. bad' \subseteq 1 .. head'
    BY <1>1 DEF StreamIInv, MachineInv
  <2>5. log' \subseteq oldest' .. head'
    BY <2>3
  <2>6. MachineInv'
    BY <2>2, <2>4, <2>5 DEF MachineInv
  <2>7. head <= head'
    BY <1>1, <2>1
  <2> QED BY <2>2, <2>6, <2>7
<1> QED BY <1>1, <1>2, MachineMoves

\* Questions are answered in their order; the answer takes the question's place.
LEMMA AnswerAttachInv == ASSUME StreamIInv, NEW ok \in BOOLEAN, AnswerAttach(ok) PROVE StreamIInv'
<1> DEFINE m == [kind |-> "attached", ok |-> ok]
<1>1. /\ request # <<>> /\ Head(request).kind = "attach" /\ Room
      /\ request' = Tail(request) /\ subscribed' = ok /\ wire' = Append(wire, m)
      /\ UNCHANGED <<machine, online, stream, base, times, gap>>
  BY DEF AnswerAttach, Asked, Send
<1>2. m \in Messages /\ m.kind = "attached"
  BY DEF Messages
<1> HIDE DEF m
<1>3. /\ request' \in Seq(Requests)
      /\ Head(request) = request[1] /\ 1 \in 1 .. Len(request)
      /\ \A i \in 1 .. Len(request') : i + 1 \in 1 .. Len(request) /\ request'[i] = request[i + 1]
      /\ None(request, "pull") => None(request', "pull")
      /\ One(request, "pull") => One(request', "pull")
      /\ One(request, "attach") => None(request', "attach")
  BY <1>1, TailCounts DEF StreamIInv, Talks
<1>4. /\ wire' \in Seq(Messages)
      /\ None(wire, "page") => None(wire', "page")
      /\ One(wire, "page") => One(wire', "page")
      /\ None(wire, "attached") => One(wire', "attached")
  BY <1>1, <1>2, AppendCounts DEF StreamIInv, Talks
<1>5. stream.attach = "asked" /\ None(request', "attach") /\ One(wire', "attached")
  BY <1>1, <1>3, <1>4 DEF StreamIInv, Talks, Outstanding, None
<1>6. \A i \in 1 .. Len(request') : request'[i].kind = "pull" => request'[i].cursor = stream.sent
  BY <1>3 DEF StreamIInv, Talks
<1>7. Talks(stream, request', wire')
  BY <1>3, <1>4, <1>5, <1>6 DEF StreamIInv, Talks, Outstanding
<1>8. /\ MachineInv' /\ head' = head /\ oldest' = oldest /\ log' = log
      /\ head \in Nat /\ oldest \in Nat
  BY <1>1, StreamAssumption DEF machine, StreamIInv, MachineInv, Seqs
<1>9. WireInv'
  BY <1>1, <1>2, <1>8, WireAppended
<1> QED BY <1>1, <1>7, <1>9, CursorStays DEF StreamIInv

LEMMA AnswerPullInv == ASSUME StreamIInv, NEW f \in {0, oldest}, AnswerPull(f) PROVE StreamIInv'
<1> DEFINE above == {s \in log : s > Head(request).cursor}
           rows == {s \in above : Cardinality({t \in above : t <= s}) <= PageLimit}
           m == [kind |-> "page", rows |-> rows, more |-> rows # above, oldest |-> f]
<1>1. /\ request # <<>> /\ Head(request).kind = "pull" /\ Room
      /\ request' = Tail(request) /\ wire' = Append(wire, m)
      /\ UNCHANGED <<machine, subscribed, online, stream, base, times, gap>>
  BY DEF AnswerPull, Asked, Send
<1>2. /\ request' \in Seq(Requests)
      /\ Head(request) = request[1] /\ 1 \in 1 .. Len(request)
      /\ \A i \in 1 .. Len(request') : i + 1 \in 1 .. Len(request) /\ request'[i] = request[i + 1]
      /\ None(request, "attach") => None(request', "attach")
      /\ One(request, "attach") => One(request', "attach")
      /\ One(request, "pull") => None(request', "pull")
  BY <1>1, TailCounts DEF StreamIInv, Talks
<1>3. /\ stream.fill = "pull" /\ One(request, "pull") /\ None(wire, "page")
      /\ Head(request).cursor = stream.sent
  BY <1>1, <1>2 DEF StreamIInv, Talks, Outstanding, None
<1>4. /\ MachineInv /\ head \in Nat /\ oldest \in Nat /\ stream.sent \in Nat
      /\ log \subseteq Seqs /\ log \subseteq 1 .. head
  BY StreamAssumption DEF StreamIInv, MachineInv, Talks, Streams, Seqs
<1>5. above \subseteq Seqs /\ rows \subseteq log
  BY <1>4
<1>6. \A r \in rows, s \in above : s <= r => s \in rows
  BY <1>5, PageIsPrefix
<1>7. \A s \in log : stream.sent < s => s \in above
  BY <1>3, <1>4
<1> HIDE DEF rows, above
<1>8. PICK page \in Messages : page = m
  <2>1. rows \in SUBSET Seqs /\ f \in Nat /\ (rows # above) \in BOOLEAN
    BY <1>4, <1>5
  <2>2. m \in [kind : {"page"}, rows : SUBSET Seqs, more : BOOLEAN, oldest : Nat]
    BY <2>1, Zenon
  <2> QED BY <2>2 DEF Messages
<1>9. page.kind = "page" /\ page.rows = rows /\ page.oldest = f /\ wire' = Append(wire, page)
  BY <1>1, <1>8
<1> HIDE DEF m
<1>10. /\ wire' \in Seq(Messages)
       /\ None(wire, "attached") => None(wire', "attached")
       /\ One(wire, "attached") => One(wire', "attached")
       /\ None(wire, "page") => One(wire', "page")
  BY <1>8, <1>9, AppendCounts DEF StreamIInv, Talks
<1>11. \A i \in 1 .. Len(request') : request'[i].kind = "pull" => request'[i].cursor = stream.sent
  BY <1>2 DEF StreamIInv, Talks
<1>12. Talks(stream, request', wire')
  BY <1>2, <1>3, <1>10, <1>11 DEF StreamIInv, Talks, Outstanding
<1>13. /\ MachineInv' /\ head' = head /\ oldest' = oldest /\ log' = log /\ stream' = stream
  BY <1>1 DEF machine, StreamIInv, MachineInv
<1>14. WireInv'
  <2>1. page.rows \subseteq 1 .. head /\ page.oldest <= oldest
    BY <1>4, <1>5, <1>9
  <2>2. \A r \in rows, s \in log : stream.sent < s /\ s <= r => s \in rows
    BY <1>6, <1>7
  <2>3. FullPage(page)'
    BY <1>9, <1>13, <2>1, <2>2 DEF FullPage
  <2>4. page.kind # "live" /\ head <= head' /\ oldest <= oldest'
        /\ log' \subseteq log \cup {head + 1} /\ stream'.sent = stream.sent
    BY <1>4, <1>9, <1>13
  <2> QED BY <1>1, <1>9, <1>13, <2>3, <2>4, WireAppended
<1> QED BY <1>1, <1>12, <1>14, CursorStays DEF StreamIInv

-----------------------------------------------------------------------------

LEMMA StreamInitInv == StreamInit => StreamIInv
<1> SUFFICES ASSUME NEW c \in 0 .. 1,
                    log = 1 .. 1, bad = {}, head = 1, oldest = 1,
                    subscribed = FALSE, request = <<>>, wire = <<>>, online = TRUE,
                    stream = NewStream(c),
                    base = c, times = [s \in Seqs |-> 0], gap = 0
             PROVE  StreamIInv
  BY DEF StreamInit
<1>1. /\ MaxSeq \in Nat /\ 1 <= MaxSeq /\ 1 \in Seqs /\ 0 \in 0 .. MaxSeq /\ c \in 0 .. MaxSeq
  BY StreamAssumption DEF Seqs
<1>2. /\ stream \in Streams /\ stream.cursor = c /\ stream.attach = "no" /\ stream.fill = "none"
  BY <1>1 DEF NewStream, Streams
<1>3. /\ request \in Seq(Requests) /\ Len(request) = 0
      /\ wire \in Seq(Messages) /\ Len(wire) = 0
  BY EmptySeq
<1>4. Talks(stream, request, wire)
  BY <1>2, <1>3 DEF Talks, Outstanding, None
<1>5. WireInv
  BY <1>3, StreamAssumption DEF WireInv
<1>6. MachineInv
  BY <1>1 DEF MachineInv
<1>7. TimesInv
  BY DEF TimesInv
<1>8. NothingSkipped
  BY <1>2 DEF NothingSkipped
<1>9. stream.cursor <= head /\ base \in 0 .. MaxSeq /\ gap \in 0 .. MaxSeq
  BY <1>1, <1>2
<1> QED BY <1>4, <1>5, <1>6, <1>7, <1>8, <1>9 DEF StreamIInv

LEMMA StreamNextInv == StreamIInv /\ [StreamNext]_streamVars => StreamIInv'
<1> SUFFICES ASSUME StreamIInv, [StreamNext]_streamVars PROVE StreamIInv'
  OBVIOUS
<1>1. CASE UNCHANGED streamVars
  <2>1. /\ UNCHANGED <<machine, base, times, subscribed, online, gap>>
        /\ stream' = stream /\ request' = request /\ wire' = wire
    BY <1>1 DEF streamVars, machine
  <2>2. WireInv'
    BY <2>1, WireStays
  <2> QED BY <2>1, <2>2, CursorStays DEF StreamIInv
<1>2. ASSUME NEW b \in BOOLEAN, Emit(b) \/ AnswerAttach(b) PROVE StreamIInv'
  BY <1>2, EmitInv, AnswerAttachInv
<1>3. ASSUME NEW r \in Seqs, Rewrite(r) \/ Forget(r) PROVE StreamIInv'
  BY <1>3, RewriteInv, ForgetInv
<1>4. ASSUME NEW f \in {0, oldest}, AnswerPull(f) PROVE StreamIInv'
  BY <1>4, AnswerPullInv
<1> QED BY <1>1, <1>2, <1>3, <1>4, ReceiveLiveInv, ReceiveAttachInv, ReceivePageInv, PageCatchesUpInv,
           PageAttachesInv, RequestTimesOutInv, DropInv, ReconnectedInv, LoseFrameInv
           DEF StreamNext

\* One message of a kind, or none, is what a count says.
LEMMA CountsOfKinds ==
    ASSUME NEW S, NEW q \in Seq(S), NEW k
    PROVE  /\ None(q, k) => Cardinality({i \in DOMAIN q : q[i].kind = k}) = 0
           /\ One(q, k) => Cardinality({i \in DOMAIN q : q[i].kind = k}) = 1
<1> DEFINE I == {i \in DOMAIN q : q[i].kind = k}
<1>1. DOMAIN q = 1 .. Len(q)
  BY LenProperties
<1>2. ASSUME None(q, k) PROVE Cardinality(I) = 0
  <2>1. I = {}
    BY <1>1, <1>2 DEF None
  <2> HIDE DEF I
  <2> QED BY <2>1, FS_EmptySet
<1>3. ASSUME One(q, k) PROVE Cardinality(I) = 1
  <2>1. PICK i \in 1 .. Len(q) : q[i].kind = k /\ \A j \in 1 .. Len(q) : q[j].kind = k => j = i
    BY <1>3 DEF One
  <2>2. I = {i}
    BY <1>1, <2>1
  <2> HIDE DEF I
  <2> QED BY <2>2, FS_Singleton
<1> QED BY <1>2, <1>3

\* At most one question of each kind is at most two questions.
LEMMA TwoQuestions ==
    ASSUME NEW q \in Seq(Requests),
           None(q, "attach") \/ One(q, "attach"), None(q, "pull") \/ One(q, "pull")
    PROVE  Len(q) <= 2
<1>1. Len(q) \in Nat /\ \A i \in 1 .. Len(q) : q[i].kind \in {"attach", "pull"}
  <2>1. Len(q) \in Nat /\ \A i \in 1 .. Len(q) : q[i] \in Requests
    BY LenProperties, ElementOfSeq
  <2> QED BY <2>1 DEF Requests
<1>2. \A i, j \in 1 .. Len(q) : q[i].kind = q[j].kind => i = j
  BY <1>1 DEF None, One
<1>3. CASE Len(q) > 2
  <2>1. 1 \in 1 .. Len(q) /\ 2 \in 1 .. Len(q) /\ 3 \in 1 .. Len(q)
    BY <1>1, <1>3
  <2>2. /\ q[1].kind \in {"attach", "pull"} /\ q[2].kind \in {"attach", "pull"}
        /\ q[3].kind \in {"attach", "pull"}
    BY <1>1, <2>1
  <2>3. q[1].kind # q[2].kind /\ q[1].kind # q[3].kind /\ q[2].kind # q[3].kind
    BY <1>2, <2>1
  <2> QED BY <2>2, <2>3
<1> QED BY <1>1, <1>3

LEMMA StreamInvFollows == StreamIInv => StreamInv
<1> SUFFICES ASSUME StreamIInv PROVE StreamInv
  OBVIOUS
<1>1. /\ stream \in Streams /\ request \in Seq(Requests) /\ wire \in Seq(Messages)
      /\ Outstanding(request, wire, "attach", "attached", stream.attach = "asked")
      /\ Outstanding(request, wire, "pull", "page", stream.fill = "pull")
      /\ stream.fill = "attach" => stream.attach = "asked"
  BY DEF StreamIInv, Talks
<1>2. Len(request) <= 2
  BY <1>1, TwoQuestions DEF Outstanding
<1>3. /\ head \in Seqs /\ oldest \in Seqs /\ log \subseteq Seqs /\ bad \subseteq Seqs
  BY StreamAssumption DEF StreamIInv, MachineInv, Seqs
<1>4. StreamTypeOK
  BY <1>1, <1>2, <1>3 DEF StreamTypeOK, StreamIInv, WireInv, TimesInv, Streams
<1>5. OnceWhileKept
  BY DEF StreamIInv, TimesInv, OnceWhileKept, AppliedOnce
<1>6. OnePull
  <2> DEFINE pages == {i \in DOMAIN wire : wire[i].kind = "page"}
             pulls == {i \in DOMAIN request : request[i].kind = "pull"}
  <2>1. /\ None(wire, "page") => Cardinality(pages) = 0
        /\ One(wire, "page") => Cardinality(pages) = 1
        /\ None(request, "pull") => Cardinality(pulls) = 0
        /\ One(request, "pull") => Cardinality(pulls) = 1
    BY <1>1, CountsOfKinds
  <2> HIDE DEF pages, pulls
  <2>2. Cardinality(pages) + Cardinality(pulls) = IF stream.fill = "pull" THEN 1 ELSE 0
    BY <1>1, <2>1 DEF Outstanding
  <2> QED BY <2>2 DEF OnePull, pages, pulls
<1> QED BY <1>4, <1>5, <1>6 DEF StreamInv, StreamIInv

\* A relay client skips no row of a conversation, hands none over twice while the machine
\* has forgotten nothing, and asks for one page at a time (relayClient.ts), for any number
\* of rows, any size of page and any number of faults.
THEOREM NoRowIsSkipped == StreamSpec => []StreamInv
<1>1. StreamSpec => []StreamIInv
  BY StreamInitInv, StreamNextInv, PTL DEF StreamSpec
<1> QED BY <1>1, StreamInvFollows, PTL
=============================================================================
