------------------------------ MODULE Devices ------------------------------
(* The page of the account's machines (frontend pages/Devices, components/devices,
   hooks/use-device-upgrade, components/AddDeviceGuide). The list is read when the page
   opens, on every presence signal, after a rename or a revocation and while an upgrade is
   watched; the answers are applied as they come. A row that is opened reads its details
   once and asks the machine itself for its counts of conversations.            *)
EXTENDS Integers, FiniteSets

CONSTANTS Devs,     \* machines
          Gone,         \* those whose relay cannot be reached although they are listed online
          DeviceStarts  \* bound: what is there at first and what may happen in a run

ASSUME DevsAssumption == "none" \notin Devs

VARIABLES account,    \* the machines of the account: there, online, name, version; at: changes
          rows,       \* devices: the list shown; at (history): the account when it was read
          page,       \* loading, loadError, guideRequested
          reads,      \* fetchDevices in flight; crossed (history): the last ones overlapped;
                      \* behind (history): the list shown was applied while they did
          signalled,  \* a presence signal is on its way
          popups,    \* renaming and revoking
          expanded, details, detailReads,   \* the rows open, what they read
          links, counts,  \* the channel of an open row and its counts
          upgrade,    \* the upgrade panel of an open row
          dmoves      \* what is left of the bounds

deviceVars == <<account, rows, page, reads, signalled, popups, expanded, details, detailReads,
                links, counts, upgrade, dmoves>>
listVars == <<rows, page, reads>>
rowVars == <<expanded, details, detailReads, links, counts, upgrade>>

Nobody == "none"
Pay(b) == dmoves[b] > 0 /\ dmoves' = [dmoves EXCEPT ![b] = @ - 1]

Idle == [on |-> Nobody, error |-> FALSE, busy |-> FALSE]
Ops == {"rename", "revoke"}
Listed == {d \in Devs : rows.of[d].there}
NoRows == [of |-> [d \in Devs |-> [there |-> FALSE, online |-> FALSE, name |-> 0, version |-> 0]],
           at |-> 0]

DevicesInit ==
    \E s \in DeviceStarts :
        /\ account = [of |-> [d \in Devs |-> [there |-> d \in s.there, online |-> d \in s.online,
                                                  name |-> 0, version |-> 0]], at |-> 1]
        /\ rows = NoRows /\ page = [loading |-> TRUE, error |-> FALSE, guide |-> FALSE]
        /\ reads = [of |-> {[why |-> "first", got |-> FALSE, list |-> NoRows]}, crossed |-> FALSE,
                     behind |-> FALSE]
        /\ signalled = FALSE /\ popups = [o \in Ops |-> Idle]
        /\ expanded = {} /\ details = [d \in Devs |-> "none"]
        /\ detailReads = [d \in Devs |-> 0]
        /\ links = [d \in Devs |-> "off"]
        /\ counts = [d \in Devs |-> [shown |-> FALSE, asked |-> FALSE, now |-> FALSE]]
        /\ upgrade = [d \in Devs |-> "idle"]
        /\ dmoves = s.moves

-----------------------------------------------------------------------------
(* The list.                                                                 *)

\* fetchDevices. A second request for the same reason is told apart by nothing.
ReadList(why) ==
    reads' = [reads EXCEPT !.of = @ \cup {[why |-> why, got |-> FALSE, list |-> NoRows]},
                           !.crossed = reads.of # {}]

ListServed(r) ==
    /\ ~r.got
    /\ reads' = [reads EXCEPT !.of = (@ \ {r}) \cup {[r EXCEPT !.got = TRUE, !.list = account]}]
    /\ UNCHANGED <<account, rows, page, signalled, popups, rowVars, dmoves>>

\* Whatever waited for the list is free again.
ReadOverBusy(r, behind) ==
    reads' = [reads EXCEPT !.of = @ \ {r}, !.behind = behind] /\ popups' = popups

ReadOver(r, behind) ==
    /\ reads' = [reads EXCEPT !.of = @ \ {r}, !.behind = behind]
    /\ popups' = IF r.why \in Ops THEN [popups EXCEPT ![r.why].busy = FALSE] ELSE popups

\* What an open row is worth: a row that is gone takes its state with it.
ListKept(list) ==
    /\ links' = [d \in Devs |-> IF d \in expanded /\ list.of[d].there /\ list.of[d].online
                                    THEN links[d] ELSE "off"]
    /\ counts' = [d \in Devs |->
                    IF ~list.of[d].there THEN [shown |-> FALSE, asked |-> FALSE, now |-> FALSE]
                    ELSE IF list.of[d].online THEN counts[d]
                    ELSE [counts[d] EXCEPT !.asked = FALSE, !.now = FALSE]]
    /\ upgrade' = [d \in Devs |-> IF list.of[d].there THEN upgrade[d] ELSE "idle"]

\* applyList.
ListLands(r) ==
    /\ r.got
    /\ rows' = r.list
    /\ page' = [page EXCEPT !.error = FALSE, !.loading = IF r.why = "first" THEN FALSE ELSE @]
    /\ ReadOver(r, reads.crossed) /\ ListKept(r.list)
    /\ UNCHANGED <<account, signalled, expanded, details, detailReads, dmoves>>

ListFailsEmpty(r) ==
    /\ ~r.got /\ Pay("fault")
    /\ page' = [page EXCEPT !.error = TRUE, !.loading = FALSE]
    /\ rows' = NoRows
    /\ ReadOver(r, reads.behind) /\ ListKept(NoRows)
    /\ UNCHANGED <<account, signalled, expanded, details, detailReads>>

\* The rows listed stay; a failed poll of an upgrade says nothing of the list.
ListFails(r) ==
    /\ ~r.got /\ Pay("fault")
    /\ page' = [page EXCEPT !.error = @ \/ r.why # "poll",
                            !.loading = IF r.why = "first" THEN FALSE ELSE @]
    /\ ReadOver(r, reads.behind)
    /\ UNCHANGED <<account, rows, signalled, rowVars>>

\* The account changes elsewhere: a machine comes, goes or is paired. Every change is
\* signalled (AccountChannel); signals on their way are one.
Changes(d) ==
    /\ Pay("change")
    /\ \/ account' = [account EXCEPT !.of[d].there = TRUE, !.of[d].online = ~@, !.at = @ + 1]
       \/ account.of[d].there /\ account' = [account EXCEPT !.of[d].there = FALSE, !.at = @ + 1]
    /\ signalled' = TRUE
    /\ UNCHANGED <<listVars, popups, rowVars>>

\* Another read for the signal may still be on its way: the two are not told apart here
\* unless the first was served.
Signalled ==
    /\ signalled /\ [why |-> "signal", got |-> FALSE, list |-> NoRows] \notin reads.of
    /\ signalled' = FALSE /\ ReadList("signal")
    /\ UNCHANGED <<account, rows, page, popups, rowVars, dmoves>>

-----------------------------------------------------------------------------
(* Renaming and revoking.                                                    *)

OpenDialog(o, d) ==
    /\ d \in Listed /\ \A x \in Ops : popups[x].on = Nobody
    /\ Pay("dialog")
    /\ popups' = [popups EXCEPT ![o].on = d, ![o].error = FALSE]
    /\ UNCHANGED <<account, listVars, signalled, rowVars>>

Dismiss(o) ==
    /\ popups[o].on # Nobody /\ ~popups[o].busy
    /\ popups' = [popups EXCEPT ![o] = Idle]
    /\ UNCHANGED <<account, listVars, signalled, rowVars, dmoves>>

Submit(o) ==
    /\ popups[o].on # Nobody /\ ~popups[o].busy
    /\ popups' = [popups EXCEPT ![o] = [@ EXCEPT !.busy = TRUE, !.error = FALSE]]
    /\ UNCHANGED <<account, listVars, signalled, rowVars, dmoves>>

\* The change a dialog asks for, of the machine it is open for.
Asked(o, d) == IF o = "rename" THEN [account.of[d] EXCEPT !.name = 1]
                               ELSE [account.of[d] EXCEPT !.there = FALSE, !.online = FALSE]

PendingRow(o) == popups[o].busy /\ popups[o].on # Nobody
                /\ \A r \in reads.of : r.why # o

TakenUnread(o) ==
    /\ PendingRow(o)
    /\ account' = [of |-> [account.of EXCEPT ![popups[o].on] = Asked(o, popups[o].on)], at |-> account.at + 1]
    /\ popups' = [popups EXCEPT ![o] = Idle]
    /\ UNCHANGED <<listVars, signalled, rowVars, dmoves>>

\* The dialog closes and the list is read; the buttons wait for it.
Taken(o) ==
    /\ PendingRow(o)
    /\ account' = [of |-> [account.of EXCEPT ![popups[o].on] = Asked(o, popups[o].on)], at |-> account.at + 1]
    /\ popups' = [popups EXCEPT ![o].on = Nobody]
    /\ ReadList(o)
    /\ UNCHANGED <<rows, page, signalled, rowVars, dmoves>>

Refused(o) ==
    /\ PendingRow(o) /\ Pay("fault")
    /\ popups' = [popups EXCEPT ![o] = [@ EXCEPT !.error = TRUE, !.busy = FALSE]]
    /\ UNCHANGED <<account, listVars, signalled, rowVars>>

-----------------------------------------------------------------------------
(* An open row: its details, its counts.                                     *)

LoadDetail(d) ==
    /\ details' = [details EXCEPT ![d] = "loading"]
    /\ detailReads' = [detailReads EXCEPT ![d] = @ + 1]

CachedData(d) == details[d] = "data"
Cached(d) == details[d] \in {"loading", "data"}

Expand(d) ==
    /\ d \in Listed \ expanded /\ Pay("expand")
    /\ expanded' = expanded \cup {d}
    /\ IF Cached(d) THEN UNCHANGED <<details, detailReads>> ELSE LoadDetail(d)
    /\ UNCHANGED <<account, listVars, signalled, popups, links, counts, upgrade>>

CollapseAsking(d) ==
    /\ d \in Listed \cap expanded
    /\ expanded' = expanded \ {d} /\ links' = [links EXCEPT ![d] = "off"]
    /\ upgrade' = [upgrade EXCEPT ![d] = "idle"]
    /\ UNCHANGED <<account, listVars, signalled, popups, details, detailReads, counts, dmoves>>

\* The channel is let go; what the counts said stays with the row.
Collapse(d) ==
    /\ d \in Listed \cap expanded
    /\ expanded' = expanded \ {d}
    /\ links' = [links EXCEPT ![d] = "off"]
    /\ counts' = [counts EXCEPT ![d].asked = FALSE, ![d].now = FALSE]
    /\ upgrade' = [upgrade EXCEPT ![d] = "idle"]
    /\ UNCHANGED <<account, listVars, signalled, popups, details, detailReads, dmoves>>

RetryDetail(d) ==
    /\ d \in Listed \cap expanded /\ details[d] = "error" /\ Pay("expand")
    /\ LoadDetail(d)
    /\ UNCHANGED <<account, listVars, signalled, popups, expanded, links, counts, upgrade>>

DetailFailsForever(d) ==
    /\ detailReads[d] > 0 /\ Pay("fault")
    /\ detailReads' = [detailReads EXCEPT ![d] = @ - 1]
    /\ UNCHANGED <<account, listVars, signalled, popups, expanded, details, links, counts, upgrade>>

DetailLands(d) ==
    /\ detailReads[d] > 0
    /\ detailReads' = [detailReads EXCEPT ![d] = @ - 1]
    /\ details' = [details EXCEPT ![d] = "data"]
    /\ UNCHANGED <<account, listVars, signalled, popups, expanded, links, counts, upgrade, dmoves>>

DetailFails(d) ==
    /\ detailReads[d] > 0 /\ Pay("fault")
    /\ detailReads' = [detailReads EXCEPT ![d] = @ - 1]
    /\ details' = [details EXCEPT ![d] = "error"]
    /\ UNCHANGED <<account, listVars, signalled, popups, expanded, links, counts, upgrade>>

\* sessionActive: open, and listed online.
SessionActive(d) == d \in expanded /\ rows.of[d].there /\ rows.of[d].online

Connects(d) ==
    /\ SessionActive(d) /\ links[d] = "off" /\ d \notin Gone
    /\ links' = [links EXCEPT ![d] = "on"]
    /\ counts' = [counts EXCEPT ![d].asked = TRUE]
    /\ UNCHANGED <<account, listVars, signalled, popups, expanded, details, detailReads, upgrade, dmoves>>

Disconnects(d) ==
    /\ links[d] = "on" /\ Pay("drop")
    /\ links' = [links EXCEPT ![d] = "off"]
    /\ counts' = [counts EXCEPT ![d].asked = FALSE]
    /\ UNCHANGED <<account, listVars, signalled, popups, expanded, details, detailReads, upgrade>>

\* Only the answer of the connection that is up counts; a failure says nothing.
CountsAnswered(d) ==
    /\ counts[d].asked
    /\ \/ counts' = [counts EXCEPT ![d] = [shown |-> TRUE, asked |-> FALSE, now |-> TRUE]]
       \/ counts' = [counts EXCEPT ![d].asked = FALSE]
    /\ UNCHANGED <<account, listVars, signalled, popups, expanded, details, detailReads, links,
                   upgrade, dmoves>>

-----------------------------------------------------------------------------
(* Upgrading a machine: the button of the panel (actionLabel) and what follows. *)

Button(d) == d \in expanded /\ rows.of[d].there /\ rows.of[d].version = 0
               /\ upgrade[d] \notin {"requesting", "forcing", "upgrading", "asking"}

\* A machine with turns under way refuses, and a second request that forces it has to be
\* confirmed first.
StartUpgrade(d) ==
    /\ Button(d) /\ Pay("upgrade")
    /\ upgrade' = [upgrade EXCEPT ![d] = IF @ = "active" THEN "asking" ELSE "requesting"]
    /\ UNCHANGED <<account, listVars, signalled, popups, expanded, details, detailReads, links, counts>>

ConfirmForce(d) ==
    /\ upgrade[d] = "asking"
    /\ \E next \in {"forcing", "active"} : upgrade' = [upgrade EXCEPT ![d] = next]
    /\ UNCHANGED <<account, listVars, signalled, popups, expanded, details, detailReads, links,
                   counts, dmoves>>

UpgradeAnswered(d) ==
    /\ upgrade[d] \in {"requesting", "forcing"}
    /\ \E next \in {"upgrading", "failed"} \cup (IF upgrade[d] = "requesting" THEN {"active"} ELSE {}) :
        upgrade' = [upgrade EXCEPT ![d] = next]
    /\ UNCHANGED <<account, listVars, signalled, popups, expanded, details, detailReads, links,
                   counts, dmoves>>

\* The machine restarts with the new version; the panel reads the list until it sees it.
Restarts(d) ==
    /\ upgrade[d] = "upgrading" /\ account.of[d].version = 0
    /\ account' = [account EXCEPT !.of[d].version = 1, !.at = @ + 1]
    /\ signalled' = TRUE
    /\ UNCHANGED <<listVars, popups, rowVars, dmoves>>

ReadVersion(d) ==
    /\ upgrade[d] = "upgrading" /\ (\A r \in reads.of : r.why # "poll") /\ Pay("poll")
    /\ ReadList("poll")
    /\ UNCHANGED <<account, rows, page, signalled, popups, rowVars>>

UpgradeEnds(d) ==
    /\ upgrade[d] = "upgrading"
    /\ upgrade' = [upgrade EXCEPT ![d] = IF rows.of[d].version = 1 THEN "success" ELSE "timeout"]
    /\ UNCHANGED <<account, listVars, signalled, popups, expanded, details, detailReads, links,
                   counts, dmoves>>

-----------------------------------------------------------------------------
(* The guide that adds a machine.                                            *)

ListKnownEarly == ~page.loading
ListKnown == ~page.loading /\ ~(page.error /\ Listed = {})
NoDevices == ListKnown /\ Listed = {}
GuideOpen == ListKnown /\ (NoDevices \/ page.guide)

AskGuide ==
    /\ ListKnown /\ ~GuideOpen /\ Pay("guide")
    /\ page' = [page EXCEPT !.guide = TRUE]
    /\ UNCHANGED <<account, rows, reads, signalled, popups, rowVars>>

CloseGuide ==
    /\ GuideOpen /\ ~NoDevices
    /\ page' = [page EXCEPT !.guide = FALSE]
    /\ UNCHANGED <<account, rows, reads, signalled, popups, rowVars, dmoves>>

DevicesNext ==
    \/ \E r \in reads.of : ListServed(r) \/ ListLands(r) \/ ListFails(r)
    \/ \E o \in Ops : Dismiss(o) \/ Submit(o) \/ Taken(o) \/ Refused(o) \/ \E d \in Devs : OpenDialog(o, d)
    \/ \E d \in Devs :
        \/ Changes(d) \/ Expand(d) \/ Collapse(d) \/ RetryDetail(d) \/ DetailLands(d) \/ DetailFails(d)
        \/ Connects(d) \/ Disconnects(d) \/ CountsAnswered(d)
        \/ StartUpgrade(d) \/ ConfirmForce(d) \/ UpgradeAnswered(d) \/ Restarts(d) \/ ReadVersion(d)
        \/ UpgradeEnds(d)
    \/ Signalled \/ AskGuide \/ CloseGuide

\* Requests are answered and a signal is delivered.
DevicesFair ==
    /\ WF_deviceVars(\E r \in reads.of : ListServed(r) \/ ListLands(r))
    /\ WF_deviceVars(\E d \in Devs : DetailLands(d))
    /\ WF_deviceVars(Signalled) /\ WF_deviceVars(\E o \in Ops : Taken(o))

DevicesSpec == DevicesInit /\ [][DevicesNext]_deviceVars /\ DevicesFair

-----------------------------------------------------------------------------
(* Properties.                                                               *)

DevicesTypeOK ==
    /\ \A o \in Ops : popups[o].busy /\ popups[o].on = Nobody => \E r \in reads.of : r.why = o
    /\ Cardinality({o \in Ops : popups[o].on # Nobody}) <= 1
    /\ \A d \in Devs : links[d] = "on" => SessionActive(d)
    /\ \A d \in Devs : counts[d].asked => links[d] = "on"
    /\ page.loading => \E r \in reads.of : r.why = "first"

(* "已经取到过就不重复取": a row's details are asked for once, however often it is opened and
   closed, and are said to load exactly while they are.                       *)
DetailAskedOnce == \A d \in Devs :
    detailReads[d] <= 1 /\ (detailReads[d] = 1 <=> details[d] = "loading")

(* What is said to load ends, with the details or with an error to try again from. *)
DetailEnds == \A d \in Devs : details[d] = "loading" ~> details[d] # "loading"

(* "更不能改口说「还没有任何设备」": the guide that opens by itself opens only for an account
   whose list was read, and read as empty.                                    *)
NoDevicesIsRead == NoDevices => rows.at > 0

(* "失败照旧只写进 loadError，不清空已经列出来的行": as long as reads do not overlap the rows
   never go back to what the account was before, or to nothing.               *)
RowsNeverGoBack == [][rows'.at < rows.at => reads.crossed]_deviceVars

(* With nothing on its way, and neither the last reads nor those the list is from
   overlapping, the list is the account's, unless it says that reading it failed. *)
ReadApart == ~reads.crossed /\ ~reads.behind
ListIsTheAccount ==
    reads.of = {} /\ ~signalled /\ ReadApart /\ ~page.error => rows.of = account.of

(* A dialog that was submitted can be used again.                             *)
DialogFreed == \A o \in Ops : popups[o].busy ~> ~popups[o].busy

(* The machines: what is shown of them was read, and asked for once. *)
DevicesInv ==
    /\ DevicesTypeOK
    /\ DetailAskedOnce
    /\ NoDevicesIsRead
    /\ ListIsTheAccount

-----------------------------------------------------------------------------
(* What the repository says, or a user would expect, and the code does not       *)
(* keep: TLC finds each of these violated (README, section 8).                   *)

(* "重取到的那份才是此刻真正的状态": the same, however the reads overlapped. *)
ReadBackIsNow == reads.of = {} /\ ~signalled /\ ~page.error => rows.of = account.of

(* "收起即断开；问不到就返回 null，调用方不得编数字": the counts of an open row were read since
   it was opened.                                                             *)
CountsAreOfNow == \A d \in Devs : SessionActive(d) /\ counts[d].shown => counts[d].now
=============================================================================
