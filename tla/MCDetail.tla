------------------------------ MODULE MCDetail ------------------------------
(* Instances of the detail pages of the console: the transcript of a conversation
   and its settings, the organization chart, the projects and their directories.
   They share no state, so that one run checks them side by side: part says which
   of them moves, among Parts.                                                 *)
EXTENDS Transcript, SessionSettings, OrgPage, Projects, ProjectFs

CONSTANT Parts

VARIABLE part

mcVars == <<part, transcriptVars, settingVars, orgVars, projectVars, fsVars>>

TranscriptStart(x, la, ma, sv, f, v) == [first |-> x, faults |-> f, visits |-> v,
      grow |-> {"A"}, log |-> [c \in Talks |-> IF c = "A" THEN la ELSE 1],
      mirror |-> [c \in Talks |-> IF c = "A" THEN ma ELSE IF "B" \in sv THEN 1 ELSE 0],
      saved |-> sv]
Silent(s) == [s EXCEPT !.grow = {}]
MCStarts == {Silent(TranscriptStart("A",2,1,{"A","B"},0,3)),
  TranscriptStart("A",2,1,{"A","B"},0,2),
  TranscriptStart("A",2,0,{"B"},0,2),
  TranscriptStart("A",2,1,{"A","B"},1,1),
  TranscriptStart("A",1,0,{"B"},0,1),
  TranscriptStart("A",3,0,{"B"},1,1),
  Silent(TranscriptStart("B",2,1,{"A","B"},1,2))}

SessionSettingsLeft(o,c,h,t,f) == [open |-> o, change |-> c, choose |-> h, turn |-> t,
      fault |-> f]
MCSettingStarts == {[here |-> "A", left |-> SessionSettingsLeft(2,2,0,0,2)], [here |-> "B",
      left |-> SessionSettingsLeft(2,0,2,1,1)], [here |-> "A",
      left |-> SessionSettingsLeft(1,1,1,1,0)]}

OrgPageLeft(e,f,r,s,y,w,m,d) == [elsewhere |-> e, fault |-> f, retry |-> r, select |-> s,
      type |-> y, write |-> w, mutate |-> m, fold |-> d]
MCOrgStarts == {[depts |-> <<"d1">>, open |-> "a", left |-> OrgPageLeft(0,1,1,0,2,2,0,0)],
 [depts |-> <<>>, open |-> "a", left |-> OrgPageLeft(0,1,0,2,2,2,0,0)],
 [depts |-> <<"d1","d2">>, open |-> "d1", left |-> OrgPageLeft(1,1,0,1,1,1,0,1)],
 [depts |-> <<"d1">>, open |-> "d1", left |-> OrgPageLeft(0,1,0,1,1,1,1,0)],
 [depts |-> <<>>, open |-> "a", left |-> OrgPageLeft(1,0,0,0,1,2,0,0)],
 [depts |-> <<"d1">>, open |-> "none", left |-> OrgPageLeft(1,1,1,0,0,0,1,2)]}

ProjectsLeft(e,o,w,c,d,f) == [elsewhere |-> e, open |-> o, write |-> w, create |-> c,
      delete |-> d, fault |-> f]
MCParent == [p \in Projects |-> IF p = "q" THEN "p" ELSE p]
ProjectsAcc(a, m) == [alive |-> a, placed |-> m]
MCProjectStarts == {[account |-> ProjectsAcc({"p","q"},{"p","q"}),
      left |-> ProjectsLeft(0,2,1,0,0,0)],
 [account |-> ProjectsAcc({"p"},{"p"}), left |-> ProjectsLeft(1,0,0,1,0,0)],
 [account |-> ProjectsAcc({"p","q"},{}), left |-> ProjectsLeft(0,0,0,0,2,1)],
 [account |-> ProjectsAcc({"p","r"},{"p"}), left |-> ProjectsLeft(1,1,0,0,1,0)],
 [account |-> ProjectsAcc({"r"},{}), left |-> ProjectsLeft(0,1,1,0,0,1)]}

MCFsStarts == {[call |-> 3, fault |-> 1, twice |-> 1], [call |-> 4, fault |-> 0, twice |-> 0]}

In(p) == part = p /\ UNCHANGED part

Some(S) == CHOOSE s \in S : TRUE

\* The parts at rest stay in one initial state.
MCInit ==
    /\ part \in Parts
    /\ TranscriptInit
    /\ SettingsInit
    /\ OrgInit
    /\ ProjectInit
    /\ FsInit
    /\ part # "transcript" => budget.visits = 2 /\ budget.faults = 1
    /\ part # "settings" => left = Some(SettingStarts).left
    /\ part # "org" => oleft = Some(OrgStarts).left
    /\ part # "projects" => projLeft = Some(ProjectStarts).left
    /\ part # "directories" => fsLeft = Some(FsStarts)

MCNext ==
    \/ In("transcript") /\ TranscriptNext /\ UNCHANGED <<settingVars, orgVars, projectVars,
          fsVars>>
    \/ In("settings") /\ SettingsNext /\ UNCHANGED <<transcriptVars, orgVars, projectVars,
          fsVars>>
    \/ In("org") /\ OrgNext /\ UNCHANGED <<transcriptVars, settingVars, projectVars, fsVars>>
    \/ In("projects") /\ ProjectNext /\ UNCHANGED <<transcriptVars, settingVars, orgVars,
          fsVars>>
    \/ In("directories") /\ FsNext /\ UNCHANGED <<transcriptVars, settingVars, orgVars,
          projectVars>>

\* The fairness of the modules, for the part that moves.
MCFair ==
    /\ WF_transcriptVars(In("transcript") /\ LoadStep)
    /\ WF_transcriptVars(In("transcript") /\ (TopUp \/ \E t \in calls : EarlierArrives(t)))
    /\ \A h \in Holders : WF_orgVars(In("org") /\ ReadServed(h))
          /\ WF_orgVars(In("org") /\ ReadArrives(h))
    /\ WF_orgVars(In("org") /\ First(Send))
    /\ WF_orgVars(In("org") /\ First(WriteServed))
    /\ WF_orgVars(In("org") /\ First(WriteReloads))
    /\ WF_orgVars(In("org") /\ (First(WriteDone) \/ First(WriteFails)))
    /\ WF_orgVars(In("org") /\ MutationServed)
    /\ WF_orgVars(In("org") /\ MutationReloads)
    /\ WF_orgVars(In("org") /\ MutationDone)
    /\ WF_projectVars(In("projects") /\ \E k \in DOMAIN treeReads : TreeServed(k)
          \/ TreeArrives(k))
    /\ WF_projectVars(In("projects") /\ \E k \in DOMAIN fetches : MachinesServed(k)
          \/ MachinesArrive(k) \/ MachinesFail(k))
    /\ WF_projectVars(In("projects") /\ \E w \in writes : ProjectWriteServed(w)
          \/ WriteTaken(w) \/ ProjectWriteFails(w))
    /\ WF_projectVars(In("projects") /\ SignalHeard)
    /\ WF_fsVars(In("directories") /\ \E l \in pending : Acquired(l) \/ AcquireFails(l))

MCSpec == MCInit /\ [][MCNext]_mcVars /\ MCFair

-----------------------------------------------------------------------------
(* What an organization is made of: the last write of a field is what is stored and no
   failure goes unsaid, whoever edits the chart; a dialog of a project clears what it
   owns and names the machines of that project. *)
OrganizationInv == OrgInv /\ ProjectsInv

(* The liveness properties, each where its part moves.                         *)

\* What the part that moves waits for first: Settles, ChartLoadingEnds and AllReturned in
\* one formula, as a formula for each of them triples TLC's work on the graph.
Opening == \/ part = "transcript" /\ ~load.ready
           \/ part = "org" /\ loading
           \/ part = "directories" /\ port = "gone"
Opened == \/ part = "transcript" /\ (load.ready \/ load.failed)
          \/ part = "org" /\ ~loading
          \/ part = "directories" /\ port = "gone" /\ pending \cup held = {}
OpeningEnds == Opening ~> Opened

\* What it waits for next: RowsShown and SavingEnds.
Late == \/ part = "transcript" /\ Behind
        \/ part = "org" /\ header.kind = "saving"
LateEnds == Late ~> ~Late

\* The tree shows the account's projects again.
MCTreeCatchesUp == part = "projects" => TreeCatchesUp

\* Asking to delete opens the confirmation.
MCDeleteIsAsked == part = "projects" => DeleteIsAsked

(* Every load, save, request for deletion and lease comes to its end, and an
   error is not cleared by an answer older than it. *)
DetailKeepsOn ==
    /\ OpeningEnds
    /\ LateEnds
    /\ ErrorOutlivesOlder
    /\ MCTreeCatchesUp
    /\ MCDeleteIsAsked
=============================================================================
