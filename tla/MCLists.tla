------------------------------- MODULE MCLists -------------------------------
(* Instances of the lists of the console: conversations, machines, devices,
   agent settings, execution targets, and the tabs of the file preview.
   They share no state, so that one run checks them side by side: part says which
   of them moves, among Parts.                                                 *)
EXTENDS SessionIndex, MachineIndex, Devices, EngineSettings, OrgTargets, FilePreview

CONSTANT Parts

VARIABLE part

mcVars == <<part, indexVars, machineVars, deviceVars, engineVars, targetVars, previewVars>>

SessionIndexLeft(r,f,m,s,d,rd,t,ag) == [range |-> r, fault |-> f, more |-> m, save |-> s,
      delete |-> d, read |-> rd, touch |-> t, again |-> ag]
SessionIndexAt == [x \in Rows |-> CASE x = "a" -> 3 [] x = "b" -> 2 [] OTHER -> 1]
SessionIndexStart(r, sv, sn, m) == [at |-> SessionIndexAt,
      seen |-> [x \in Rows |-> IF x \in sn THEN 3 ELSE 0], saved |-> sv, range |-> r,
      moves |-> m]
MCIndexStarts == {SessionIndexStart("time", Rows, {}, SessionIndexLeft(2,0,1,0,0,0,0,0)),
  SessionIndexStart("time", Rows, {"b"}, SessionIndexLeft(0,1,1,0,0,1,0,0)),
  SessionIndexStart("time", Rows, {}, SessionIndexLeft(0,1,0,0,0,1,1,0)),
  SessionIndexStart("unread", {"a","b"}, {}, SessionIndexLeft(0,1,0,0,1,1,0,0)),
  SessionIndexStart("machine", {"a"}, {}, SessionIndexLeft(0,1,0,1,0,0,0,1)),
  SessionIndexStart("machine", {}, {}, SessionIndexLeft(1,1,0,2,0,0,0,0))}

MachineIndexLeft(d,r,f,k,l,t,p) == [drop |-> d, refuse |-> r, fault |-> f, key |-> k,
      leave |-> l, retry |-> t, popup |-> p]
MCMachineStarts == {[key |-> "all", shown |-> TRUE,
      steps |-> MachineIndexLeft(2,1,1,2,0,1,0)], [key |-> "unread", shown |-> FALSE,
      steps |-> MachineIndexLeft(1,0,0,1,2,0,1)]}

DevicesLeft(f,c,g,e,r,u,p,h) == [fault |-> f, change |-> c, dialog |-> g, expand |-> e,
      drop |-> r, upgrade |-> u, poll |-> p, guide |-> h]
MCDeviceStarts == {[there |-> Devs, online |-> {"a"}, moves |-> DevicesLeft(1,1,1,0,0,0,0,0)],
 [there |-> Devs, online |-> {"a"}, moves |-> DevicesLeft(0,1,2,0,0,0,0,0)],
 [there |-> {"a"}, online |-> {"a"}, moves |-> DevicesLeft(1,1,0,2,1,0,0,0)],
 [there |-> {}, online |-> {}, moves |-> DevicesLeft(1,2,0,0,0,0,0,1)],
 [there |-> {"a"}, online |-> {}, moves |-> DevicesLeft(0,0,1,1,0,2,1,0)],
 [there |-> Devs, online |-> Devs, moves |-> DevicesLeft(1,0,0,3,0,0,0,0)]}

EngineSettingsLeft(e,f,a,t,l,m,s,o) == [edit |-> e, fault |-> f, away |-> a, turn |-> t,
      list |-> l, model |-> m, scan |-> s, offer |-> o]
EngineSettingsRow(k, x) == [there |-> TRUE, kind |-> k, box |-> x, ver |-> 1]
EngineSettingsOne == [b \in Backs |-> IF b = 1 THEN EngineSettingsRow("claw", "x") ELSE NoRow]
EngineSettingsNone0 == [b \in Backs |-> NoRow]
MCEngineStarts == {[up |-> {"x"}, store |-> EngineSettingsOne, models |-> {},
      left |-> EngineSettingsLeft(2,1,1,1,1,0,0,0)],
 [up |-> Boxes, store |-> EngineSettingsNone0, models |-> {"g"},
       left |-> EngineSettingsLeft(0,1,2,0,0,3,0,0)],
 [up |-> Boxes, store |-> EngineSettingsOne, models |-> {},
       left |-> EngineSettingsLeft(1,0,0,0,0,0,2,0)],
 [up |-> {"x"}, store |-> EngineSettingsNone0, models |-> {},
       left |-> EngineSettingsLeft(0,1,0,1,0,0,3,0)],
 [up |-> Boxes, store |-> EngineSettingsOne, models |-> {},
       left |-> EngineSettingsLeft(1,0,1,0,1,0,0,3)]}

OrgTargetsLeft(m,a,r,e,f,u,s,p,y) == [move |-> m, add |-> a, remove |-> r, elsewhere |-> e,
      fault |-> f, unfold |-> u, skill |-> s, packs |-> p, retry |-> y]
OrgTargetsAuth(b, s, v) == [t \in Tiers |-> [k \in Skills |-> IF t = b
      /\ k = s THEN v ELSE "inherit"]]
OrgTargetsPacks(a, b) == [m \in Machines |-> [k \in Skills |-> IF m = "m1" THEN a ELSE b]]
OrgTargetsOn(b, m) == [t \in Tiers |-> IF t = b THEN m ELSE "none"]
OrgTargetsStart(ts, p, q, l) == [tiers |-> ts, machine |-> OrgTargetsOn("a", "m1"),
      skills |-> OrgTargetsAuth("a", "s", "on"), packs |-> OrgTargetsPacks(p, q), left |-> l]
MCTargetStarts ==
      {OrgTargetsStart(<<"a","p","n","b">>, "installed", "unknown",
      OrgTargetsLeft(2,0,0,1,0,0,0,0,0)),
 OrgTargetsStart(<<"a","n","b">>, "installed", "unknown", OrgTargetsLeft(1,1,1,0,1,0,0,0,0)),
 OrgTargetsStart(<<"a","p","b">>, "installed", "unknown", OrgTargetsLeft(1,0,0,1,1,0,0,0,0)),
 OrgTargetsStart(<<"a","b","c","p">>, "installed", "unknown",
       OrgTargetsLeft(2,0,0,0,0,0,0,0,0)),
 OrgTargetsStart(<<"a","b">>, "installed", "unknown", OrgTargetsLeft(0,0,0,1,1,1,0,0,1)),
 OrgTargetsStart(<<"a","b">>, "installed", "unknown", OrgTargetsLeft(0,0,1,0,0,1,1,1,0))}

FilePreviewLeft(o, t, b, g, r, s, u, f, y) == [open |-> o, tab |-> t, back |-> b, go |-> g,
      resize |-> r, summary |-> s, turn |-> u, fault |-> f, retry |-> y]
FilePreviewAt(c, m) == [talk |-> c, marked |-> m]
MCPreviewStarts == {[hist |-> <<FilePreviewAt("list", FALSE), FilePreviewAt("A", FALSE)>>,
      mobile |-> TRUE, left |-> FilePreviewLeft(2,1,2,1,0,1,0,0,0)],
 [hist |-> <<FilePreviewAt("A", FALSE), FilePreviewAt("A", TRUE)>>, mobile |-> TRUE,
       left |-> FilePreviewLeft(1,1,1,2,0,2,0,0,0)],
 [hist |-> <<FilePreviewAt("A", FALSE)>>, mobile |-> FALSE,
       left |-> FilePreviewLeft(3,2,0,0,1,1,0,0,0)],
 [hist |-> <<FilePreviewAt("A", FALSE)>>, mobile |-> FALSE,
       left |-> FilePreviewLeft(1,1,0,1,0,2,2,1,1)]}

In(p) == part = p /\ UNCHANGED part

Some(S) == CHOOSE s \in S : TRUE

\* The parts at rest stay in one initial state.
MCInit ==
    /\ part \in Parts
    /\ IndexInit
    /\ MachineInit
    /\ DevicesInit
    /\ EngineInit
    /\ TargetInit
    /\ PreviewInit
    /\ part # "index" => moves = Some(IndexStarts).moves
    /\ part # "machines" => steps = Some(MachineStarts).steps
    /\ part # "devices" => dmoves = Some(DeviceStarts).moves
    /\ part # "engines" => eleft = Some(EngineStarts).left
    /\ part # "targets" => tleft = Some(TargetStarts).left
    /\ part # "preview" => pleft = Some(PreviewStarts).left

MCNext ==
    \/ In("index") /\ IndexNext /\ UNCHANGED <<machineVars, deviceVars, engineVars,
          targetVars, previewVars>>
    \/ In("machines") /\ MachineNext /\ UNCHANGED <<indexVars, deviceVars, engineVars,
          targetVars, previewVars>>
    \/ In("devices") /\ DevicesNext /\ UNCHANGED <<indexVars, machineVars, engineVars,
          targetVars, previewVars>>
    \/ In("engines") /\ EngineNext /\ UNCHANGED <<indexVars, machineVars, deviceVars,
          targetVars, previewVars>>
    \/ In("targets") /\ TargetNext /\ UNCHANGED <<indexVars, machineVars, deviceVars,
          engineVars, previewVars>>
    \/ In("preview") /\ PreviewNext /\ UNCHANGED <<indexVars, machineVars, deviceVars,
          engineVars, targetVars>>

\* The fairness of the modules, for the part that moves.
MCFair ==
    /\ WF_indexVars(In("index") /\ Pulls)
    /\ WF_indexVars(In("index") /\ MirrorChanged)
    /\ WF_machineVars(In("machines") /\ ChannelConnects)
    /\ WF_machineVars(In("machines") /\ \E a \in resolver.asks : Answer(a))
    /\ WF_deviceVars(In("devices") /\ \E r \in reads.of : ListServed(r) \/ ListLands(r))
    /\ WF_deviceVars(In("devices") /\ \E d \in Devs : DetailLands(d))
    /\ WF_deviceVars(In("devices") /\ Signalled)
    /\ WF_deviceVars(In("devices") /\ \E o \in Ops : Taken(o))
    /\ WF_engineVars(In("engines")
          /\ (RowWritten \/ Refreshed \/ DeviceFound \/ TokenKept \/ Undone \/ RowDeleted
          \/ TokenCleared))
    /\ WF_targetVars(In("targets") /\ \E k \in DOMAIN calls : CallServed(k) \/ CallDone(k))
    /\ WF_targetVars(In("targets") /\ (ChartServed \/ ChartArrives))
    /\ WF_targetVars(In("targets") /\ (AskServed \/ AskAnswered))
    /\ WF_previewVars(In("preview") /\ ReadServed)
    /\ WF_previewVars(In("preview") /\ ReadArrives)
    /\ WF_previewVars(In("preview") /\ PopLands)

MCSpec == MCInit /\ [][MCNext]_mcVars /\ MCFair

-----------------------------------------------------------------------------
\* The settings of an agent: the models of a tool are those of the configuration asked with, and
\* moving execution targets loses none of them (two forms of one dialog).
AgentInv == EngineInv /\ TargetsInv

(* The liveness properties, each where its part moves.                         *)

\* A range of the index is read, or its failure shown.
MCRangeSettles == part = "index" => RangeSettles

\* The index shows the mirror again, or a failure.
MCPageCatchesUp == part = "index" => PageCatchesUp

\* A connected machine is not "connecting" for ever.
MCAskedIsAnswered == part = "machines" => AskedIsAnswered

\* Loading the detail of a device ends.
MCDetailEnds == part = "devices" => DetailEnds

\* A dialog of the devices does not stay busy.
MCDialogFreed == part = "devices" => DialogFreed

\* An edit of the agent settings ends.
MCEditEnds == part = "engines" => EditEnds

\* The targets shown are the account's in the end.
MCListSettles == part = "targets" => ListSettles

\* Loading the catalog of a machine ends.
MCCatalogEnds == part = "targets" => CatalogEnds

\* The preview shows the file of now.
MCDocCatchesUp == part = "preview" => DocCatchesUp

(* Every list, detail, dialog, edit, catalog and document comes to rest;
   rows read never go back, undoing restores, saving keeps what it does not
   touch, and hiding the preview never leaves the conversation. *)
ListsKeepOn ==
    /\ MCRangeSettles
    /\ MCPageCatchesUp
    /\ MCAskedIsAnswered
    /\ MCDetailEnds
    /\ RowsNeverGoBack
    /\ MCDialogFreed
    /\ UndoneIsAsBefore
    /\ SavedIsKept
    /\ OthersLeftAlone
    /\ MCEditEnds
    /\ MCListSettles
    /\ MCCatalogEnds
    /\ NeverBacksOut
    /\ MCDocCatchesUp
=============================================================================
