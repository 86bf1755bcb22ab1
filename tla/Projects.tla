-------------------------------- MODULE Projects --------------------------------
(* The projects of an account and what is done to them (frontend pages/chat/
   useProjectManagement, lib/projects, lib/projectPorts): the tree the page read last, the
   settings of one project with its directory on a machine, and the confirmation before one
   is deleted. One agentred stands for all.                                                *)
EXTENDS Integers, FiniteSets, Sequences, SequencesExt

CONSTANTS Projects,
          Parent,           \* parentSyncId of each; itself for the ones at the top
          ProjectStarts     \* bound: what there is at first, and what may happen

ASSUME ParentAssumption == Parent \in [Projects -> Projects]

VARIABLES account,    \* the server: the projects that are alive, and those with a path
          tree,       \* projects: the tree the page shows
          treeReads,      \* reloadProjects: requests in flight, in the order they were asked
          stale,      \* (history) an older read came last, or the newest failed
          signal,     \* the account channel has a new version to tell
          settings,   \* settingsFor
          rows,       \* what the settings show of the machine: unread, or whether it has a path
          lists,      \* listMachines: requests in flight
          lastMachines,   \* the project whose location is remembered for the machine
          late,       \* (history) the list of settings that had been left came late
          deleting,   \* deleteFor
          deleteMachines, \* the project whose machines the confirmation names
          fetches,    \* onDelete: lists of machines in flight
          crossed,    \* (history) a deletion was asked for while another's list was in flight
          writes,     \* writes in flight
          projLeft      \* what is left of the bounds

projectVars == <<account, tree, treeReads, stale, signal, settings, rows, lists,
                 lastMachines, late, deleting, deleteMachines, fetches, crossed, writes, projLeft>>
treeVars == <<tree, treeReads, stale>>
settingsVars == <<settings, rows, lists, lastMachines, late>>
deleteVars == <<deleting, deleteMachines, fetches, crossed>>

Permits(b) == projLeft[b] > 0 /\ projLeft' = [projLeft EXCEPT ![b] = @ - 1]

NoProject == "none"
NoRead == [old |-> FALSE, served |-> FALSE, answer |-> {}]
Listing(p) == [of |-> p, mine |-> TRUE, served |-> FALSE, has |-> FALSE]
Unasked == "unread"
Removable(b) == IF b THEN "removable" ELSE "bare"

\* descendantCount's subtree: a project and what is below it.
Subtree(p) == {q \in Projects : q = p \/ Parent[q] = p \/ Parent[Parent[q]] = p}

\* Once the tree has been read.
ProjectInit ==
    \E s \in ProjectStarts :
        /\ account = s.account /\ tree = s.account.alive /\ treeReads = <<>>
        /\ stale = FALSE /\ signal = FALSE
        /\ settings = NoProject /\ rows = Unasked /\ lists = <<>> /\ lastMachines = NoProject
        /\ late = FALSE /\ deleting = NoProject /\ deleteMachines = NoProject /\ fetches = <<>>
        /\ crossed = FALSE /\ writes = {} /\ projLeft = s.left

-----------------------------------------------------------------------------
(* The tree.                                                                 *)

\* reloadProjects: nothing holds back a read because another one is under way.
Reload ==
    /\ treeReads' = Append(treeReads, NoRead)
    /\ UNCHANGED <<tree, stale>>

\* (history) The treeReads asked before the k-th are old once it is over.
Over(k) == [i \in 1..(Len(treeReads) - 1) |-> IF i < k THEN [treeReads[i] EXCEPT !.old = TRUE]
                                          ELSE treeReads[i + 1]]

TreeServed(k) ==
    /\ ~treeReads[k].served
    /\ treeReads' = [treeReads EXCEPT ![k].served = TRUE, ![k].answer = account.alive]
    /\ UNCHANGED <<account, tree, stale, signal, settingsVars, deleteVars, writes,
                   projLeft>>

OrphanedNot == lists

\* The settings are of a project of the tree: they go when it does, and what they had asked
\* is of nobody then.
Orphaned == [k \in DOMAIN lists |-> [lists[k] EXCEPT !.mine = FALSE]]

\* Whichever comes last is shown.
TreeArrives(k) ==
    /\ treeReads[k].served
    /\ tree' = treeReads[k].answer /\ stale' = treeReads[k].old /\ treeReads' = Over(k)
    /\ IF settings \in tree \ treeReads[k].answer THEN rows' = Unasked /\ lists' = Orphaned
       ELSE IF settings \in treeReads[k].answer \ tree
       THEN rows' = Unasked /\ lists' = Append(Orphaned, Listing(settings))
       ELSE UNCHANGED <<rows, lists>>
    /\ UNCHANGED <<account, signal, settings, lastMachines, late, deleteVars, writes, projLeft>>

\* The sessions stay listed without it.
TreeFails(k) ==
    /\ Permits("fault")
    /\ treeReads' = Over(k) /\ stale' = TRUE
    /\ UNCHANGED <<account, tree, signal, settingsVars, deleteVars, writes>>

\* Another client creates, deletes or places one.
Elsewhere(p) ==
    /\ Permits("elsewhere")
    /\ \/ p \notin account.alive /\ account' = [account EXCEPT !.alive = @ \cup {p}]
       \/ p \in account.alive /\ account' = [account EXCEPT !.alive = @ \ Subtree(p)]
       \/ p \in account.alive /\ account' = [account EXCEPT !.placed = @ \cup {p}]
    /\ account' # account /\ signal' = TRUE
    /\ UNCHANGED <<treeVars, settingsVars, deleteVars, writes>>

SignalHeardIdle ==
    /\ signal /\ signal' = FALSE
    /\ UNCHANGED <<account, treeVars, settingsVars, deleteVars, writes, projLeft>>

\* The account channel tells the sync version.
SignalHeard ==
    /\ signal /\ signal' = FALSE /\ Reload
    /\ UNCHANGED <<account, settingsVars, deleteVars, writes, projLeft>>

-----------------------------------------------------------------------------
(* The settings of one.                                                      *)

Modal == settings \in tree \/ deleting # NoProject

OpenSettings(p) ==
    /\ p \in tree /\ ~Modal /\ Permits("open")
    /\ settings' = p /\ rows' = Unasked
    /\ lists' = Append(Orphaned, Listing(p))
    /\ UNCHANGED <<account, treeVars, signal, lastMachines, late, deleteVars, writes>>

CloseSettings ==
    /\ settings # NoProject
    /\ settings' = NoProject /\ rows' = Unasked /\ lists' = Orphaned
    /\ UNCHANGED <<account, treeVars, signal, lastMachines, late, deleteVars, writes, projLeft>>

\* ProjectMachines, for a project that is there.
ListServed(k) ==
    /\ ~lists[k].served /\ lists[k].of \in account.alive
    /\ lists' = [lists EXCEPT ![k].served = TRUE, ![k].has = lists[k].of \in account.placed]
    /\ UNCHANGED <<account, treeVars, signal, settings, rows, lastMachines, late, deleteVars,
                   writes, projLeft>>

\* What is remembered is the first list only.
RememberFirst(l) ==
    lastMachines' = IF lastMachines = NoProject /\ l.has THEN l.of ELSE lastMachines

\* lastMachines: what the last list that came back holds, whoever asked for it.
Remember(l) == lastMachines' = IF l.has THEN l.of ELSE NoProject

ListArrives(k) ==
    /\ lists[k].served
    /\ Remember(lists[k])
    /\ rows' = IF lists[k].mine THEN Removable(lists[k].has) ELSE rows
    /\ late' = (late \/ ~lists[k].mine)
    /\ lists' = RemoveAt(lists, k)
    /\ UNCHANGED <<account, treeVars, signal, settings, deleteVars, writes, projLeft>>

ListFails(k) ==
    /\ IF lists[k].of \in account.alive \/ lists[k].served THEN Permits("fault")
       ELSE projLeft' = projLeft
    /\ lists' = RemoveAt(lists, k)
    /\ UNCHANGED <<account, treeVars, signal, settings, rows, lastMachines, late, deleteVars,
                   writes>>

\* A write: kind, the project it changes, and the one it was meant for.
Puts(kind, p, meant) ==
    writes' = writes \cup {[kind |-> kind, of |-> p, meant |-> meant, served |-> FALSE]}

\* A field or a member is changed, or a path is set, by the settings of the project.
Changes(kind) ==
    /\ settings \in tree /\ Permits("write")
    /\ \A w \in writes : w.meant # settings
    /\ Puts(kind, settings, settings)
    /\ UNCHANGED <<account, treeVars, signal, settingsVars, deleteVars>>

\* clearMachinePath: the location that is remembered for the machine; without one it fails
\* before anything is sent.
ClearPath ==
    /\ settings \in tree /\ rows = "removable" /\ Permits("write")
    /\ \A w \in writes : w.meant # settings
    /\ IF lastMachines = NoProject THEN writes' = writes ELSE Puts("clear", lastMachines, settings)
    /\ UNCHANGED <<account, treeVars, signal, settingsVars, deleteVars>>

\* ProjectCreateDialog.
Create(p) ==
    /\ p \notin tree /\ ~Modal /\ Permits("create")
    /\ Parent[p] = p \/ Parent[p] \in tree
    /\ \A w \in writes : w.meant # p
    /\ Puts("create", p, p)
    /\ UNCHANGED <<account, treeVars, signal, settingsVars, deleteVars>>

-----------------------------------------------------------------------------
(* Deleting one.                                                             *)

AskDeleteUncleared(p) ==
    /\ p \in tree /\ ~Modal /\ Permits("delete")
    /\ fetches' = Append(fetches, [of |-> p, served |-> FALSE])
    /\ crossed' = (crossed \/ fetches # <<>>)
    /\ UNCHANGED <<account, treeVars, signal, settingsVars, deleting, deleteMachines, writes>>

\* onDelete: the machines are asked first, and the confirmation opens with them.
AskDelete(p) ==
    /\ p \in tree /\ ~Modal /\ Permits("delete")
    /\ deleteMachines' = NoProject
    /\ fetches' = Append(fetches, [of |-> p, served |-> FALSE])
    /\ crossed' = (crossed \/ fetches # <<>>)
    /\ UNCHANGED <<account, treeVars, signal, settingsVars, deleting, writes>>

MachinesServed(k) ==
    /\ ~fetches[k].served /\ fetches[k].of \in account.alive
    /\ fetches' = [fetches EXCEPT ![k].served = TRUE]
    /\ UNCHANGED <<account, treeVars, signal, settingsVars, deleting, deleteMachines, crossed,
                   writes,
                   projLeft>>

MachinesArrive(k) ==
    /\ fetches[k].served
    /\ deleteMachines' = fetches[k].of /\ deleting' = fetches[k].of
    /\ fetches' = RemoveAt(fetches, k)
    /\ UNCHANGED <<account, treeVars, signal, settingsVars, crossed, writes, projLeft>>

MachinesFailQuietly(k) ==
    /\ IF fetches[k].of \in account.alive \/ fetches[k].served THEN Permits("fault")
       ELSE projLeft' = projLeft
    /\ fetches' = RemoveAt(fetches, k)
    /\ UNCHANGED <<account, treeVars, signal, settingsVars, deleting, deleteMachines, crossed,
                   writes>>

\* It opens without them when they could not be read.
MachinesFail(k) ==
    /\ IF fetches[k].of \in account.alive \/ fetches[k].served THEN Permits("fault")
       ELSE projLeft' = projLeft
    /\ deleting' = fetches[k].of
    /\ fetches' = RemoveAt(fetches, k)
    /\ UNCHANGED <<account, treeVars, signal, settingsVars, deleteMachines, crossed, writes>>

ConfirmDelete ==
    /\ deleting # NoProject /\ \A w \in writes : w.meant # deleting
    /\ Puts("delete", deleting, deleting)
    /\ UNCHANGED <<account, treeVars, signal, settingsVars, deleteVars, projLeft>>

CancelDelete ==
    /\ deleting # NoProject /\ deleting' = NoProject
    /\ UNCHANGED <<account, treeVars, signal, settingsVars, deleteMachines, fetches, crossed,
                   writes,
                   projLeft>>

-----------------------------------------------------------------------------
(* What a write does.                                                        *)

\* A project takes its subtree with it; what is not there any more is refused.
Written(w) ==
    CASE w.kind = "edit"   -> account
      [] w.kind = "place"  -> [account EXCEPT !.placed = @ \cup {w.of}]
      [] w.kind = "clear"  -> [account EXCEPT !.placed = @ \ {w.of}]
      [] w.kind = "create" -> [account EXCEPT !.alive = @ \cup {w.of}]
      [] OTHER             -> [alive  |-> account.alive \ Subtree(w.of),
                               placed |-> account.placed \ Subtree(w.of)]

Refused(w) == IF w.kind = "create" THEN Parent[w.of] # w.of /\ Parent[w.of] \notin account.alive
              ELSE w.of \notin account.alive

ProjectWriteServed(w) ==
    /\ ~w.served /\ ~Refused(w)
    /\ account' = Written(w) /\ signal' = TRUE
    /\ writes' = (writes \ {w}) \cup {[w EXCEPT !.served = TRUE]}
    /\ UNCHANGED <<treeVars, settingsVars, deleteVars, projLeft>>

\* onChanged, onCreated, onDeleted: the tree is read again; the settings read their machine,
\* and whatever confirmation is open is closed.
WriteTaken(w) ==
    /\ w.served /\ writes' = writes \ {w}
    /\ Reload
    /\ deleting' = IF w.kind = "delete" THEN NoProject ELSE deleting
    /\ IF w.kind \in {"place", "clear"} /\ settings = w.meant /\ settings \in tree
       THEN lists' = Append(lists, Listing(settings))
       ELSE lists' = lists
    /\ UNCHANGED <<account, signal, settings, rows, lastMachines, late, deleteMachines, fetches,
                   crossed, projLeft>>

\* The dialog says it, and stays.
ProjectWriteFails(w) ==
    /\ IF Refused(w) /\ ~w.served THEN projLeft' = projLeft ELSE Permits("fault")
    /\ writes' = writes \ {w}
    /\ UNCHANGED <<account, treeVars, signal, settingsVars, deleteVars>>

ProjectNext ==
    \/ \E k \in DOMAIN treeReads : TreeServed(k) \/ TreeArrives(k) \/ TreeFails(k)
    \/ \E k \in DOMAIN lists : ListServed(k) \/ ListArrives(k) \/ ListFails(k)
    \/ \E k \in DOMAIN fetches : MachinesServed(k) \/ MachinesArrive(k) \/ MachinesFail(k)
    \/ \E p \in Projects : Elsewhere(p) \/ OpenSettings(p) \/ Create(p) \/ AskDelete(p)
    \/ \E w \in writes : ProjectWriteServed(w) \/ WriteTaken(w) \/ ProjectWriteFails(w)
    \/ \E kind \in {"edit", "place"} : Changes(kind)
    \/ SignalHeard \/ CloseSettings \/ ClearPath \/ ConfirmDelete \/ CancelDelete

\* The server answers, the channel tells, and a confirmation is not left open for ever.
ProjectFairness ==
    /\ WF_projectVars(\E k \in DOMAIN treeReads : TreeServed(k) \/ TreeArrives(k))
    /\ WF_projectVars(\E k \in DOMAIN fetches :
                          MachinesServed(k) \/ MachinesArrive(k) \/ MachinesFail(k))
    /\ WF_projectVars(\E w \in writes : ProjectWriteServed(w) \/ WriteTaken(w) \/ ProjectWriteFails(w))
    /\ WF_projectVars(SignalHeard)

ProjectSpec == ProjectInit /\ [][ProjectNext]_projectVars /\ ProjectFairness

-----------------------------------------------------------------------------
(* Properties.                                                               *)

\* The variables stay in their types, and the settings show a machine only while they are of
\* a project of the tree.
ProjectsTypeOK ==
    /\ account.alive \cup account.placed \cup tree \subseteq Projects
    /\ {settings, lastMachines, deleting, deleteMachines} \subseteq Projects \cup {NoProject}
    /\ rows \in {Unasked, "removable", "bare"} /\ (rows # Unasked => settings \in tree)

\* The tree shows what the account holds in the end, whoever changed it, unless the last read
\* failed or an older one came after it (reloadProjects).
TreeCatchesUp == <>[](stale \/ tree = account.alive)

\* What "remove" clears is the directory of the project whose settings are open, as long as
\* no list of settings left before came late (createProjectSettingsPorts lastMachines).
ClearsItsOwn == late \/ \A w \in writes : w.kind = "clear" => w.of = w.meant

\* The confirmation names the machines of the project it deletes, or none, as long as no two
\* were asked for at once (useProjectManagement onDelete).
NamesItsMachines == crossed \/ deleting = NoProject \/ deleteMachines \in {NoProject, deleting}

\* Asking to delete one opens its confirmation, also when the machines could not be read
\* (useProjectManagement onDelete).
DeleteIsAsked ==
    \A p \in Projects : (\E k \in DOMAIN fetches : fetches[k].of = p) ~> (deleting = p)

(* The project dialogs: what is cleared and what is named belongs to the
   project they are about. *)
ProjectsInv == ProjectsTypeOK /\ ClearsItsOwn /\ NamesItsMachines

-----------------------------------------------------------------------------
(* What the repository says, or a user would expect, and the code does not       *)
(* keep: TLC finds each of these violated (README, section 8).                   *)

(* What is removed is the project whose paths are shown: "弹窗里能按到「移除」就一定先读过
   清单" (projectPorts.ts:110).                                                 *)
ClearsWhatIsShown == \A w \in writes : w.kind = "clear" => w.of = w.meant

(* The machines a confirmation names are those of its project, and none when they could
   not be read: "获取失败时按空列表处理" (useProjectManagement.ts:205).              *)
FailureNamesNone == deleting = NoProject \/ deleteMachines \in {NoProject, deleting}

\* A confirmation is of one project until it is closed.
ConfirmationStays == [][deleting # NoProject => deleting' \in {NoProject, deleting}]_projectVars
=============================================================================
