------------------------------ MODULE FilePreview ------------------------------
(* The files of a conversation that are open beside it (frontend
   components/session/useFilePreviewTabs, SessionFilePreviewColumn, lib/filePreviewPorts): the
   tabs, the layer that shows them on a phone and the history entry it stands on, and what is
   read of the file in front.                                                              *)
EXTENDS Integers, FiniteSets, Sequences, SequencesExt

CONSTANTS Talks, Paths, Marks,  \* Marks: the paths of markdown files
          Roots,                \* working directories a conversation may be in
          PreviewStarts         \* bound: how the view is at first, and what may happen

ASSUME MarksAssumption == Marks \subseteq Paths

VARIABLES hist,     \* (external) the browser's history: conversation and marker of each entry
          at,       \* (external) the entry the browser is on
          pops,     \* (external) traversals asked for that have not landed
          mobile,   \* isMobile
          tabs, front,  \* useFilePreviewTabs: tabs and activePath
          pending,  \* useFilePreviewLayer: popPendingRef
          root,     \* summary.cwd, "" until the summary is there
          epoch,    \* turnEpoch: turns seen to end
          disk,     \* (external) the version of the files
          doc,      \* (external) the panel: the read of the file in front
          raced,    \* (history) the user went elsewhere while a traversal was under way
          asked,    \* (history) a file was opened and nothing done since to leave it
          pleft     \* what is left of the bounds

previewVars == <<hist, at, pops, mobile, tabs, front, pending, root, epoch, disk, doc, raced,
                 asked, pleft>>

Has(b) == pleft[b] > 0 /\ pleft' = [pleft EXCEPT ![b] = @ - 1]

NoEntry == "list"
NoPath == "none"
NoDoc == [target |-> <<>>, of |-> <<>>, state |-> "none", version |-> 0]
Entry(c, m) == [talk |-> c, marked |-> m]
Tab(p, anchored, n) == [path |-> p, temp |-> TRUE, pinned |-> FALSE, reveal |-> n,
                        segment |-> IF anchored /\ p \in Marks THEN "text" ELSE "own"]

Talk == hist[at].talk
Marked == mobile /\ hist[at].marked
Shown == Marked /\ front # NoPath

PreviewInit ==
    \E s \in PreviewStarts :
        /\ hist = s.hist /\ at = Len(s.hist) /\ mobile = s.mobile
        /\ pops = 0 /\ tabs = <<>> /\ front = NoPath /\ pending = FALSE
        /\ root = "" /\ epoch = 0 /\ disk = 0 /\ doc = NoDoc
        /\ raced = FALSE /\ asked = FALSE /\ pleft = s.left

-----------------------------------------------------------------------------
(* What is read of the file in front: the panel reads again when the conversation, its
   working directory, the path or the turn is another, and drops what it asked before.    *)

SourceTalk(h, k, r) == <<h[k].talk>>
SourceKey(h, k, r) == <<h[k].talk, r>>

Target(h, k, r, f, e) == IF f = NoPath THEN <<>> ELSE <<SourceKey(h, k, r), f, e>>

\* readFile of a conversation whose directory is not known fails before anything is sent.
Reads(h, k, r, f, e) ==
    LET t == Target(h, k, r, f, e)
    IN  doc' = IF t = <<>> THEN NoDoc
               ELSE IF t = doc.target THEN doc
               ELSE [target |-> t, of |-> <<h[k].talk, r>>, version |-> 0,
                     state |-> IF r = "" THEN "offline" ELSE "asked"]

ReadServed ==
    /\ doc.state = "asked"
    /\ doc' = [doc EXCEPT !.state = "served", !.version = disk]
    /\ UNCHANGED <<hist, at, pops, mobile, tabs, front, pending, root, epoch, disk, raced, asked,
                   pleft>>

ReadArrives ==
    /\ doc.state = "served"
    /\ doc' = [doc EXCEPT !.state = "shown"]
    /\ UNCHANGED <<hist, at, pops, mobile, tabs, front, pending, root, epoch, disk, raced, asked,
                   pleft>>

\* classify: a machine that cannot be reached is worth asking again.
ReadFails ==
    /\ doc.state \in {"asked", "served"} /\ Has("fault")
    /\ doc' = [doc EXCEPT !.state = "offline"]
    /\ UNCHANGED <<hist, at, pops, mobile, tabs, front, pending, root, epoch, disk, raced, asked>>

RetryRead ==
    /\ doc.state = "offline" /\ root # "" /\ Has("retry")
    /\ doc' = [doc EXCEPT !.state = "asked", !.of = <<Talk, root>>]
    /\ UNCHANGED <<hist, at, pops, mobile, tabs, front, pending, root, epoch, disk, raced, asked>>

\* The summary says in which directory the conversation is, and later may say another.
SummaryArrives(r) ==
    /\ Talk # NoEntry /\ r # root /\ Has("summary")
    /\ root' = r
    /\ Reads(hist, at, r, front, epoch)
    /\ UNCHANGED <<hist, at, pops, mobile, tabs, front, pending, epoch, disk, raced, asked>>

TurnEndsUnread ==
    /\ Talk # NoEntry /\ Has("turn")
    /\ disk' = disk + 1
    /\ UNCHANGED <<hist, at, pops, mobile, tabs, front, pending, root, epoch, doc, raced, asked>>

\* A turn that changed files ends in front of this view.
TurnEnds ==
    /\ Talk # NoEntry /\ Has("turn")
    /\ disk' = disk + 1 /\ epoch' = epoch + 1
    /\ Reads(hist, at, root, front, epoch + 1)
    /\ UNCHANGED <<hist, at, pops, mobile, tabs, front, pending, root, raced, asked>>

-----------------------------------------------------------------------------
(* The history the layer stands on.                                          *)

\* hide: one traversal, and no second before it has landed.
HidesTwice(m, p, n) == IF m THEN pending' = TRUE /\ pops' = n + 1
                       ELSE pending' = p /\ pops' = n
Hides(m, p, n) == IF m /\ ~p THEN pending' = TRUE /\ pops' = n + 1
                  ELSE pending' = p /\ pops' = n

\* When the last tab goes the layer goes with it.
LeftBare(f, m, p, n) == IF front # NoPath /\ f = NoPath THEN Hides(m, p, n)
                        ELSE pending' = p /\ pops' = n

\* show: an entry for the layer, unless this is one.
ShowOnce == IF ~mobile \/ front # NoPath THEN UNCHANGED <<hist, at>>
            ELSE hist' = Append(SubSeq(hist, 1, at), Entry(Talk, TRUE)) /\ at' = at + 1
ShowAlways == hist' = Append(SubSeq(hist, 1, at), Entry(Talk, TRUE)) /\ at' = at + 1
Show == IF ~mobile \/ Marked THEN UNCHANGED <<hist, at>>
        ELSE hist' = Append(SubSeq(hist, 1, at), Entry(Talk, TRUE)) /\ at' = at + 1

\* The browser is on another entry: the files of one conversation are not those of another.
Arrives(h, k, n) ==
    /\ hist' = h /\ at' = k
    /\ IF h[k].talk = Talk
       THEN /\ UNCHANGED <<tabs, front, root, epoch>>
            /\ pending' = FALSE /\ pops' = n
            /\ Reads(h, k, root, front, epoch)
       ELSE /\ tabs' = <<>> /\ front' = NoPath /\ root' = "" /\ epoch' = 0 /\ doc' = NoDoc
            /\ IF h[k].talk = NoEntry THEN pending' = FALSE /\ pops' = n
               ELSE LeftBare(NoPath, mobile /\ h[k].marked, FALSE, n)

PopLands ==
    /\ pops > 0 /\ at > 1
    /\ Arrives(hist, at - 1, pops - 1)
    /\ asked' = FALSE
    /\ UNCHANGED <<mobile, disk, raced, pleft>>

BackButton ==
    /\ Shown /\ Has("back")
    /\ Hides(Marked, pending, pops)
    /\ asked' = FALSE
    /\ UNCHANGED <<hist, at, mobile, tabs, front, root, epoch, disk, doc, raced>>

\* The browser's own back and forward, a link to another conversation, the page loaded again.
SystemGoes ==
    /\ Has("go")
    /\ \/ at > 1 /\ Arrives(hist, at - 1, pops)
       \/ at < Len(hist) /\ Arrives(hist, at + 1, pops)
       \/ \E c \in Talks \ {Talk} :
              Arrives(Append(SubSeq(hist, 1, at), Entry(c, FALSE)), at + 1, pops)
       \/ /\ tabs' = <<>> /\ front' = NoPath /\ pending' = FALSE /\ pops' = 0
          /\ root' = "" /\ epoch' = 0 /\ doc' = NoDoc /\ UNCHANGED <<hist, at>>
    /\ raced' = (raced \/ pops > 0) /\ asked' = FALSE
    /\ UNCHANGED <<mobile, disk>>

\* A window that is made wider shows the column again, and does not touch the history.
Resize ==
    /\ Has("resize")
    /\ mobile' = ~mobile /\ asked' = FALSE
    /\ UNCHANGED <<hist, at, pops, tabs, front, pending, root, epoch, disk, doc, raced>>

-----------------------------------------------------------------------------
(* The tabs.                                                                 *)

OpenTab(ts) == {ts[i].path : i \in DOMAIN ts}
\* The tabs, with T done to the one of path p.
Changed(p, T(_)) == [i \in DOMAIN tabs |-> IF tabs[i].path = p THEN T(tabs[i]) ELSE tabs[i]]

\* open: where it is open already it only comes to the front; a new one takes the place of
\* the one that was only looked at.
OpenedBeside(p, anchored, n) ==
    IF p \in OpenTab(tabs) THEN Changed(p, LAMBDA t : [t EXCEPT !.reveal = n])
    ELSE Append(tabs, Tab(p, anchored, n))
Opened(p, anchored, n) ==
    IF p \in OpenTab(tabs) THEN Changed(p, LAMBDA t : [t EXCEPT !.reveal = n])
    ELSE Append(SelectSeq(tabs, LAMBDA t : ~t.temp), Tab(p, anchored, n))

\* A link of the transcript, which is there once the working directory is.
OpenLink(p, anchored) ==
    /\ Talk # NoEntry /\ root # "" /\ ~Shown /\ Has("open")
    /\ tabs' = Opened(p, anchored, IF anchored THEN pleft["open"] ELSE 0) /\ front' = p
    /\ Show
    /\ Reads(hist, at, root, p, epoch)
    /\ asked' = (mobile /\ pops = 0)
    /\ UNCHANGED <<pops, mobile, pending, root, epoch, disk, raced>>

\* Where the tabs can be reached: the column, or the layer.
Reachable == front # NoPath /\ (~mobile \/ Marked)

Activate(p) ==
    /\ Reachable /\ p \in OpenTab(tabs) /\ p # front /\ Has("tab")
    /\ tabs' = Opened(p, FALSE, 0) /\ front' = p
    /\ Reads(hist, at, root, p, epoch)
    /\ UNCHANGED <<hist, at, pops, mobile, pending, root, epoch, disk, raced, asked>>

\* promote, togglePin, setSegment.
Alter(p) ==
    /\ Reachable /\ p \in OpenTab(tabs) /\ Has("tab")
    /\ \/ tabs' = Changed(p, LAMBDA t : [t EXCEPT !.temp = FALSE])
       \/ tabs' = Changed(p, LAMBDA t : IF t.pinned THEN [t EXCEPT !.pinned = FALSE]
                                        ELSE [t EXCEPT !.pinned = TRUE, !.temp = FALSE])
       \/ p = front /\ tabs' = Changed(p, LAMBDA t : [t EXCEPT !.segment = "rendered"])
    /\ tabs' # tabs
    /\ UNCHANGED <<hist, at, pops, mobile, front, pending, root, epoch, disk, doc, raced, asked>>

\* The tab that comes to the front when this one is closed: to its left, else to its right.
Neighbour(ts, i) == IF i - 1 \in DOMAIN ts THEN ts[i - 1].path
                    ELSE IF i \in DOMAIN ts THEN ts[i].path ELSE NoPath

Without(ts, f) ==
    /\ tabs' = ts /\ front' = f
    /\ LeftBare(f, Marked, pending, pops)
    /\ Reads(hist, at, root, f, epoch)
    /\ asked' = FALSE
    /\ UNCHANGED <<hist, at, mobile, root, epoch, disk, raced>>

Close(p) ==
    /\ Reachable /\ p \in OpenTab(tabs) /\ Has("tab")
    /\ LET rest == SelectSeq(tabs, LAMBDA t : t.path # p)
           i    == CHOOSE j \in DOMAIN tabs : tabs[j].path = p
       IN  Without(rest, IF p = front THEN Neighbour(rest, i) ELSE front)

CloseOthers(p) ==
    /\ Reachable /\ p \in OpenTab(tabs) /\ Len(tabs) > 1 /\ Has("tab")
    /\ Without(SelectSeq(tabs, LAMBDA t : t.path = p), p)

CloseAll == Reachable /\ Has("tab") /\ Without(<<>>, NoPath)

PreviewNext ==
    \/ ReadServed \/ ReadArrives \/ ReadFails \/ RetryRead \/ TurnEnds
    \/ \E r \in Roots : SummaryArrives(r)
    \/ PopLands \/ BackButton \/ SystemGoes \/ Resize \/ CloseAll
    \/ \E p \in Paths : Activate(p) \/ Alter(p) \/ Close(p) \/ CloseOthers(p)
    \/ \E p \in Paths, anchored \in BOOLEAN : OpenLink(p, anchored)

\* The machine answers, and a traversal that was asked for happens.
PreviewFairness == WF_previewVars(ReadServed) /\ WF_previewVars(ReadArrives)
                   /\ WF_previewVars(PopLands)

PreviewSpec == PreviewInit /\ [][PreviewNext]_previewVars /\ PreviewFairness

-----------------------------------------------------------------------------
(* Properties.                                                               *)

\* The variables stay in their types; one tab at most is only looked at, a pinned one is not,
\* and whenever there are tabs one of them, and only then, is in front.
PreviewTypeOK ==
    /\ at \in DOMAIN hist /\ pops \in Nat /\ mobile \in BOOLEAN /\ pending \in BOOLEAN
    /\ root \in Roots \cup {""} /\ doc.state \in {"none", "offline", "asked", "served", "shown"}
    /\ Cardinality(OpenTab(tabs)) = Len(tabs)
    /\ Cardinality({i \in DOMAIN tabs : tabs[i].temp}) <= 1
    /\ \A i \in DOMAIN tabs : ~(tabs[i].temp /\ tabs[i].pinned)
    /\ IF tabs = <<>> THEN front = NoPath ELSE front \in OpenTab(tabs)

\* Below the entry of a layer is the conversation it covers, and no other layer: going back
\* from it is going back to the conversation (useFilePreviewLayer show).
LayerCoversItsTalk ==
    \A i \in DOMAIN hist : hist[i].marked => /\ i > 1 /\ ~hist[i - 1].marked
                                             /\ hist[i - 1].talk = hist[i].talk

\* However often the layer's button is pressed and its tabs closed, the page does not go back
\* out of the conversation, as long as the user does not go elsewhere while it is going back
\* (useFilePreviewLayer hide).
NeverBacksOut == [][pops > pops' /\ ~raced' /\ at' # at => hist'[at'].talk = Talk]_previewVars

\* A file that was opened is seen until somebody leaves it (SessionDetailView previewFileRef).
OpenedIsSeen == asked => Shown

\* What a conversation had open is not carried over to another, and no file is shown as one of
\* another conversation or directory, also when the directory changes while it is being read
\* (SessionFilePreviewColumn sourceKey).
DocOfItsPlace ==
    doc.state \in {"asked", "served", "shown"} => doc.of = <<Talk, root>>

\* What is in front ends as it is on the machine's disk, unless it could not be read
\* (SessionDetailView refreshToken).
DocCatchesUp == <>[](front = NoPath \/ doc.state = "offline" \/
                     (doc.state = "shown" /\ doc.version = disk))

(* The preview: the layer, the tab and the document belong to the
   conversation that shows them. *)
PreviewInv ==
    /\ PreviewTypeOK
    /\ LayerCoversItsTalk
    /\ OpenedIsSeen
    /\ DocOfItsPlace
=============================================================================
