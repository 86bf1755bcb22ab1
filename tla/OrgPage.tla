------------------------------- MODULE OrgPage -------------------------------
(* The organisation page (frontend pages/Org and pages/org): the chart it reads, the fields
   of the object that is open, which are written one after another for the whole page, the
   state of those writes in the header, the other writes and the banner of the page, and the
   departments folded in the index, which are known there by their place in the chart.  *)
EXTENDS Integers, FiniteSets, Sequences, SequencesExt

CONSTANTS Depts, Agents,  \* the objects there can be
          Texts,          \* texts of a field, 0 the one it has at first
          OrgStarts       \* bound: the departments at first, what is open, what may happen

ASSUME TextsAssumption == 0 \in Texts /\ Depts \cap Agents = {}

VARIABLES org,        \* (external) the account's: departments in their order, agents, texts
          chart,      \* chart: what the page has read of it
          chartError, loading,
          reads,      \* reload: reads in flight, by who waits for them
          open,       \* selection, with its visit and the mount of its detail
          name,       \* useOrgIdentityText: draft and submitted
          box,        \* OrgAgentDetail: prompt
          queue,      \* fieldQueue
          header,     \* useOrgSaveState
          mutation,   \* runMutation: the write under way
          banner,     \* mutationError and mutationErrorRevision
          folded,     \* collapsed; meant: (history) the departments that were folded
          wanted,     \* (history) what was last left in each field of this detail
          orgSent,       \* (history) what was last written of each field and did not fail
          unsaid,     \* (history) the failures nothing on the page showed, by what hid them
          oleft       \* what is left of the bounds

orgVars == <<org, chart, chartError, loading, reads, open, name, box, queue, header, mutation,
             banner, folded, wanted, orgSent, unsaid, oleft>>
reading == <<chart, chartError, loading, reads>>
detail == <<name, box, header, wanted>>

Costs(b) == oleft[b] > 0 /\ oleft' = [oleft EXCEPT ![b] = @ - 1]

Objects == Depts \cup Agents
Fields == {"name", "prompt"}
Nil == "none"
NoText == -1
Holders == {"page", "field", "mutation"}
NoDetail == [on |-> FALSE, served |-> FALSE, newest |-> FALSE, answer |-> Nil]
NoFailure == [on |-> FALSE, value |-> 0, id |-> 0]
Calm == [kind |-> "idle", pending |-> 0, failed |-> [f \in Fields |-> NoFailure]]
NoMutation == [what |-> Nil, id |-> Nil, rev |-> 0, stage |-> "asked"]
NoName == [draft |-> NoText, submitted |-> NoFailure]
Unwanted == [f \in Fields |-> NoText]

Holds(c, x) == x \in ToSet(c.depts) \/ x \in c.agents

\* A detail that comes to be shows what the chart has, and knows of no write.
Mounts(c, x) ==
    /\ name' = NoName /\ header' = Calm /\ wanted' = Unwanted
    /\ box' = IF x # Nil /\ Holds(c, x) THEN c.text[x]["prompt"] ELSE 0

\* reload: the newest read is the one that is shown.
Reloads(h) == [r \in Holders |-> IF r = h THEN [NoDetail EXCEPT !.on = TRUE, !.newest = TRUE]
                                 ELSE [reads[r] EXCEPT !.newest = FALSE]]

OrgInit ==
    \E s \in OrgStarts :
        /\ org = [depts |-> s.depts, agents |-> Agents,
                  text |-> [x \in Objects |-> [f \in Fields |-> 0]]]
        /\ chart = [depts |-> <<>>, agents |-> {}, text |-> org.text]
        /\ chartError = FALSE /\ loading = TRUE
        /\ reads = [r \in Holders |-> IF r = "page" THEN [NoDetail EXCEPT !.on = TRUE, !.newest = TRUE]
                                      ELSE NoDetail]
        /\ open = [id |-> s.open, visit |-> 0, mount |-> 0]
        /\ name = NoName /\ box = 0 /\ header = Calm /\ wanted = Unwanted
        /\ queue = <<>> /\ mutation = NoMutation /\ banner = [on |-> FALSE, rev |-> 0]
        /\ folded = [at |-> {}, meant |-> {}] /\ unsaid = {}
        /\ orgSent = [x \in Objects |-> Unwanted]
        /\ oleft = s.left

-----------------------------------------------------------------------------
(* Reading the chart.                                                        *)

\* Somebody else renames, adds or takes away; the account channel says so.
OrgChanges ==
    /\ Costs("elsewhere")
    /\ \/ \E x \in Objects, f \in Fields, t \in Texts :
              /\ Holds(org, x) /\ (f = "prompt" => x \in Agents) /\ t # org.text[x][f]
              /\ org' = [org EXCEPT !.text[x][f] = t]
              /\ wanted' = IF x = open.id THEN [wanted EXCEPT ![f] = NoText] ELSE wanted
              /\ orgSent' = [orgSent EXCEPT ![x][f] = NoText]
       \/ \E d \in ToSet(org.depts) :
              org' = [org EXCEPT !.depts = Remove(@, d)] /\ UNCHANGED <<wanted, orgSent>>
       \/ \E d \in Depts \ ToSet(org.depts) :
              org' = [org EXCEPT !.depts = <<d>> \o @] /\ UNCHANGED <<wanted, orgSent>>
    /\ reads' = Reloads("page")
    /\ UNCHANGED <<chart, chartError, loading, open, name, box, queue, header, mutation, banner,
                   folded, unsaid>>

ReadServed(h) ==
    /\ reads[h].on /\ ~reads[h].served
    /\ reads' = [reads EXCEPT ![h].served = TRUE,
                     ![h].answer = IF reads[h].newest THEN org ELSE Nil]
    /\ UNCHANGED <<org, chart, chartError, loading, open, detail, queue, mutation, banner, folded,
                   orgSent, unsaid, oleft>>

\* The object that is open may be gone from what was read, and its detail with it.
Shows(c) ==
    /\ chart' = c
    /\ IF open.id # Nil /\ Holds(chart, open.id) # Holds(c, open.id)
       THEN Mounts(c, open.id) /\ open' = [open EXCEPT !.mount = @ + 1]
       ELSE UNCHANGED <<detail, open>>

ReadArrives(h) ==
    /\ reads[h].served
    /\ IF reads[h].newest
       THEN Shows(reads[h].answer) /\ chartError' = FALSE /\ loading' = FALSE
       ELSE UNCHANGED <<chart, chartError, loading, open, detail>>
    /\ reads' = [reads EXCEPT ![h] = NoDetail]
    /\ UNCHANGED <<org, queue, mutation, banner, folded, orgSent, unsaid, oleft>>

ReadFailsLoading(h) ==
    /\ reads[h].on /\ Costs("fault")
    /\ chartError' = (chartError \/ reads[h].newest)
    /\ reads' = [reads EXCEPT ![h] = NoDetail]
    /\ UNCHANGED <<org, chart, loading, open, detail, queue, mutation, banner, folded, orgSent, unsaid>>

\* A failed read is no failure of who waits for it.
ReadFails(h) ==
    /\ reads[h].on /\ Costs("fault")
    /\ IF reads[h].newest THEN chartError' = TRUE /\ loading' = FALSE
       ELSE UNCHANGED <<chartError, loading>>
    /\ reads' = [reads EXCEPT ![h] = NoDetail]
    /\ UNCHANGED <<org, chart, open, detail, queue, mutation, banner, folded, orgSent, unsaid>>

RetryRead ==
    /\ chartError /\ chart.agents = {} /\ Costs("retry")
    /\ reads' = Reloads("page")
    /\ UNCHANGED <<org, chart, chartError, loading, open, detail, queue, mutation, banner, folded,
                   orgSent, unsaid>>

-----------------------------------------------------------------------------
(* What is open, and its fields.                                             *)

Select(x) ==
    /\ x # open.id /\ (x = Nil \/ Holds(chart, x)) /\ name.draft = NoText /\ Costs("select")
    /\ open' = [id |-> x, visit |-> open.visit + 1, mount |-> open.mount + 1]
    /\ Mounts(chart, x)
    /\ UNCHANGED <<org, reading, queue, mutation, banner, folded, orgSent, unsaid>>

ShownObject(x) == x # Nil /\ Holds(chart, x)

\* saveState.run(runFieldUpdate): behind whatever the page is writing.
Enqueued(f, v, id) ==
    Append(queue, [f |-> f, value |-> v, id |-> id, of |-> open.id, visit |-> open.visit,
                   mount |-> open.mount, rev |-> banner.rev, stage |-> "waits"])
Begins == header' = [header EXCEPT !.kind = "saving", !.pending = @ + 1]
NextId == oleft["write"]   \* told apart by what is left

Type(v) ==
    /\ ShownObject(open.id) /\ v # name.draft /\ Costs("type")
    /\ name' = [name EXCEPT !.draft = v]
    /\ UNCHANGED <<org, reading, open, box, queue, header, mutation, banner, folded, wanted, orgSent, unsaid>>

\* What a field is compared with is what was last written, not what the chart still has.
Baseline == IF name.submitted.on THEN name.submitted.value ELSE chart.text[open.id]["name"]

LeaveName ==
    /\ ShownObject(open.id) /\ name.draft # NoText
    /\ wanted' = [wanted EXCEPT !["name"] = name.draft]
    /\ IF name.draft = Baseline
       THEN name' = [name EXCEPT !.draft = NoText] /\ UNCHANGED <<queue, header, oleft>>
       ELSE /\ Costs("write")
            /\ name' = [draft |-> NoText,
                        submitted |-> [on |-> TRUE, value |-> name.draft, id |-> NextId]]
            /\ queue' = Enqueued("name", name.draft, NextId) /\ Begins
    /\ orgSent' = IF name.draft = Baseline THEN orgSent
               ELSE [orgSent EXCEPT ![open.id]["name"] = name.draft]
    /\ UNCHANGED <<org, reading, open, box, mutation, banner, folded, unsaid>>

TypePrompt(v) ==
    /\ ShownObject(open.id) /\ open.id \in Agents /\ v # box /\ Costs("type")
    /\ box' = v /\ wanted' = [wanted EXCEPT !["prompt"] = v]
    /\ UNCHANGED <<org, reading, open, name, queue, header, mutation, banner, folded, orgSent, unsaid>>

\* The box keeps what it had when the detail came to be; leaving it compares it with the chart.
LeavePrompt ==
    /\ ShownObject(open.id) /\ open.id \in Agents /\ box # chart.text[open.id]["prompt"] /\ Costs("write")
    /\ queue' = Enqueued("prompt", box, NextId) /\ Begins
    /\ orgSent' = [orgSent EXCEPT ![open.id]["prompt"] = box]
    /\ UNCHANGED <<org, reading, open, name, box, mutation, banner, folded, wanted, unsaid>>

RetrySave ==
    /\ header.kind = "error" /\ Costs("retry")
    /\ \E f \in Fields :
          /\ header.failed[f].on
          /\ queue' = Enqueued(f, header.failed[f].value, header.failed[f].id)
          /\ orgSent' = [orgSent EXCEPT ![open.id][f] = header.failed[f].value]
    /\ Begins
    /\ UNCHANGED <<org, reading, open, name, box, mutation, banner, folded, wanted, unsaid>>

Of(i) == <<queue[i].of, queue[i].f>>

\* fieldQueue: one at a time and in their order, whatever was opened meanwhile.
SendBeside(i) ==
    /\ queue[i].stage = "waits"
    /\ queue' = [queue EXCEPT ![i].stage = "asked"]
    /\ UNCHANGED <<org, reading, open, detail, mutation, banner, folded, orgSent, unsaid, oleft>>

Send(i) ==
    /\ i = 1 /\ queue[i].stage = "waits"
    /\ queue' = [queue EXCEPT ![i].stage = "asked"]
    /\ UNCHANGED <<org, reading, open, detail, mutation, banner, folded, orgSent, unsaid, oleft>>

WriteServed(i) ==
    /\ queue[i].stage = "asked"
    /\ IF Holds(org, queue[i].of)
       THEN /\ org' = [org EXCEPT !.text[queue[i].of][queue[i].f] = queue[i].value]
            /\ queue' = [queue EXCEPT ![i].stage = "stored"]
       ELSE queue' = [queue EXCEPT ![i].stage = "refused"] /\ UNCHANGED org
    /\ UNCHANGED <<reading, open, detail, mutation, banner, folded, orgSent, unsaid, oleft>>

WriteReloads(i) ==
    /\ queue[i].stage = "stored" /\ ~reads["field"].on
    /\ queue' = [queue EXCEPT ![i].stage = "reads"] /\ reads' = Reloads("field")
    /\ UNCHANGED <<org, chart, chartError, loading, open, detail, mutation, banner, folded, orgSent, unsaid,
                   oleft>>

SettledEarly(failed) ==
    [kind |-> IF header.pending > 0 THEN "saving"
              ELSE IF \E f \in Fields : failed[f].on THEN "error" ELSE "saved",
     pending |-> header.pending - 1, failed |-> failed]

\* The header of a detail that is still there: it is over when nothing is pending.
Settled(failed) ==
    [kind |-> IF header.pending > 1 THEN "saving"
              ELSE IF \E f \in Fields : failed[f].on THEN "error" ELSE "saved",
     pending |-> header.pending - 1, failed |-> failed]

WriteDone(i) ==
    /\ queue[i].stage = "reads" /\ ~reads["field"].on
    /\ queue' = RemoveAt(queue, i)
    /\ banner' = IF queue[i].rev = banner.rev THEN [banner EXCEPT !.on = FALSE] ELSE banner
    /\ IF queue[i].mount = open.mount
       THEN /\ header' = Settled([header.failed EXCEPT ![queue[i].f] = NoFailure])
            /\ name' = IF name.submitted.id = queue[i].id /\ queue[i].f = "name"
                       THEN [name EXCEPT !.submitted = NoFailure] ELSE name
       ELSE UNCHANGED <<header, name>>
    /\ UNCHANGED <<org, reading, open, box, mutation, folded, wanted, orgSent, unsaid, oleft>>

\* A failure is said in the header, or in the banner when something else is open by then. One
\* whose detail went because a read no longer lists the object is said nowhere.
BannerFailsNever(i) == banner' = banner
BannerFails(i) == banner' = IF queue[i].visit # open.visit
                            THEN [on |-> TRUE, rev |-> banner.rev + 1] ELSE banner

WriteFails(i) ==
    /\ \/ queue[i].stage = "refused" /\ UNCHANGED oleft
       \/ queue[i].stage \in {"asked", "stored"} /\ Costs("fault")
    /\ queue' = RemoveAt(queue, i)
    /\ BannerFails(i)
    /\ IF queue[i].mount = open.mount
       THEN header' = Settled([header.failed EXCEPT ![queue[i].f] =
                                  [on |-> TRUE, value |-> queue[i].value, id |-> queue[i].id]])
       ELSE UNCHANGED header
    /\ unsaid' = IF header' = header /\ banner' = banner
                 THEN unsaid \cup {IF queue[i].visit # open.visit THEN "closed" ELSE "unlisted"}
                 ELSE unsaid
    /\ orgSent' = IF \E k \in DOMAIN queue \ {i} : Of(k) = Of(i) THEN orgSent
               ELSE [orgSent EXCEPT ![queue[i].of][queue[i].f] = NoText]
    /\ UNCHANGED <<org, reading, open, name, box, mutation, folded, wanted>>

-----------------------------------------------------------------------------
(* The other writes: a department is created or what is open deleted.        *)

Mutate(what, x) ==
    /\ mutation = NoMutation /\ Costs("mutate")
    /\ \/ what = "delete" /\ x = open.id /\ ShownObject(x)
       \/ what = "create" /\ x \in Depts \ ToSet(org.depts)
    /\ mutation' = [what |-> what, id |-> x, rev |-> banner.rev, stage |-> "asked"]
    /\ UNCHANGED <<org, reading, open, detail, queue, banner, folded, orgSent, unsaid>>

MutationServed ==
    /\ mutation.what # Nil /\ mutation.stage = "asked"
    /\ org' = CASE mutation.what = "create" /\ mutation.id \notin ToSet(org.depts)
                       -> [org EXCEPT !.depts = Append(@, mutation.id)]
                [] mutation.what = "delete" /\ mutation.id \in Depts
                       -> [org EXCEPT !.depts = SelectSeq(@, LAMBDA d : d # mutation.id)]
                [] mutation.what = "delete" /\ mutation.id \in Agents
                       -> [org EXCEPT !.agents = @ \ {mutation.id}]
                [] OTHER -> org
    /\ mutation' = [mutation EXCEPT !.stage = "stored"]
    /\ UNCHANGED <<reading, open, detail, queue, banner, folded, orgSent, unsaid, oleft>>

\* A deletion closes what is open before it reads; a creation opens its own after.
MutationReloads ==
    /\ mutation.stage = "stored" /\ ~reads["mutation"].on
    /\ mutation' = [mutation EXCEPT !.stage = "reads"]
    /\ reads' = Reloads("mutation")
    /\ IF mutation.what = "delete" /\ open.id # Nil
       THEN Mounts(chart, Nil) /\ open' = [id |-> Nil, visit |-> open.visit + 1, mount |-> open.mount + 1]
       ELSE UNCHANGED <<open, detail>>
    /\ UNCHANGED <<org, chart, chartError, loading, queue, banner, folded, orgSent, unsaid, oleft>>

ClearsAlways == [banner EXCEPT !.on = FALSE]
Clears == IF mutation.rev = banner.rev THEN [banner EXCEPT !.on = FALSE] ELSE banner

MutationDone ==
    /\ mutation.stage = "reads" /\ ~reads["mutation"].on
    /\ mutation' = NoMutation /\ banner' = Clears
    /\ IF mutation.what = "create" /\ open.id # mutation.id
       THEN /\ Mounts(chart, mutation.id)
            /\ open' = [id |-> mutation.id, visit |-> open.visit + 1, mount |-> open.mount + 1]
       ELSE UNCHANGED <<open, detail>>
    /\ UNCHANGED <<org, reading, queue, folded, orgSent, unsaid, oleft>>

MutationFails ==
    /\ mutation.what # Nil /\ mutation.stage # "reads" /\ Costs("fault")
    /\ mutation' = NoMutation /\ banner' = [on |-> TRUE, rev |-> banner.rev + 1]
    /\ UNCHANGED <<org, reading, open, detail, queue, folded, orgSent, unsaid>>

-----------------------------------------------------------------------------
(* The index.                                                                *)

\* toggleCollapsed: a department is known by its number in this chart.
Place(d) == CHOOSE i \in DOMAIN chart.depts : chart.depts[i] = d
Toggled(S, e) == IF e \in S THEN S \ {e} ELSE S \cup {e}

Fold(d) ==
    /\ d \in ToSet(chart.depts) /\ Costs("fold")
    /\ folded' = [at |-> Toggled(folded.at, Place(d)),
                  meant |-> IF Place(d) \in folded.at THEN folded.meant \ {d}
                            ELSE folded.meant \cup {d}]
    /\ UNCHANGED <<org, reading, open, detail, queue, mutation, banner, orgSent, unsaid>>

OrgNext ==
    \/ OrgChanges \/ RetryRead
    \/ \E h \in Holders : ReadServed(h) \/ ReadArrives(h) \/ ReadFails(h)
    \/ \E x \in Objects \cup {Nil} : Select(x)
    \/ \E v \in Texts : Type(v) \/ TypePrompt(v)
    \/ LeaveName \/ LeavePrompt \/ RetrySave
    \/ \E i \in DOMAIN queue : \/ Send(i) \/ WriteServed(i) \/ WriteReloads(i)
                               \/ WriteDone(i) \/ WriteFails(i)
    \/ \E x \in Objects : Mutate("delete", x) \/ Mutate("create", x)
    \/ MutationServed \/ MutationReloads \/ MutationDone \/ MutationFails
    \/ \E d \in Depts : Fold(d)

First(A(_)) == queue # <<>> /\ A(1)
\* Requests are answered, and their answers handled; a person and a fault are not owed.
OrgFair ==
    /\ \A h \in Holders : WF_orgVars(ReadServed(h)) /\ WF_orgVars(ReadArrives(h))
    /\ WF_orgVars(First(Send)) /\ WF_orgVars(First(WriteServed))
    /\ WF_orgVars(First(WriteReloads))
    /\ WF_orgVars(First(WriteDone) \/ First(WriteFails))
    /\ WF_orgVars(MutationServed) /\ WF_orgVars(MutationReloads)
    /\ WF_orgVars(MutationDone)

OrgSpec == OrgInit /\ [][OrgNext]_orgVars /\ OrgFair

-----------------------------------------------------------------------------
(* Properties.                                                               *)

\* Every variable has its type; at most one read is the one to be shown, and the header of a
\* detail says that it saves exactly while a write of that detail is in the queue.
OrgTypeOK ==
    /\ ToSet(org.depts) \subseteq Depts /\ org.agents \subseteq Agents
    /\ open.id \in Objects \cup {Nil}
    /\ \A g, h \in Holders : reads[g].newest /\ reads[h].newest => g = h
    /\ header.pending = Cardinality({i \in DOMAIN queue : queue[i].mount = open.mount})
    /\ (header.kind = "saving") = (header.pending > 0)

\* Of two writes of one field the later one is what the account has in the end, even when
\* the object was closed and opened again between them (Org: fieldQueue).
LastWriteWins ==
    \A x \in Objects, f \in Fields :
        /\ orgSent[x][f] # NoText /\ Holds(org, x)
        /\ \A i \in DOMAIN queue : Of(i) # <<x, f>>
        => org.text[x][f] = orgSent[x][f]

\* A write that fails is said in the header of the detail that began it or, once something
\* else is open or the object was closed and opened again, in the banner of the page
\* (Org: runFieldUpdate). Only a detail that a read took away hides its failures.
NoFailureUnsaid == "closed" \notin unsaid

\* An error in the banner is taken away by a write that was begun after it, never by one that
\* was under way already and happened to succeed.
ErrorOutlivesOlder ==
    [][banner.on /\ ~banner'.on
         => \/ queue # <<>> /\ queue[1].rev = banner.rev
            \/ mutation.rev = banner.rev]_orgVars

\* The page stops loading, and what was left in a field comes to an answer.
ChartLoadingEnds == loading ~> ~loading
SavingEnds == header.kind = "saving" ~> header.kind # "saving"

-----------------------------------------------------------------------------
(* Not so.                                                                   *)

(* The organization page: the last write of a field wins, and a failure is
   told. *)
OrgInv == OrgTypeOK /\ LastWriteWins /\ NoFailureUnsaid

-----------------------------------------------------------------------------
(* What the repository says, or a user would expect, and the code does not       *)
(* keep: TLC finds each of these violated (README, section 8).                   *)

\* What is folded in the index are the departments that were: another read numbers them anew
\* and the fold stays with the number.
FoldedAsMeant ==
    {chart.depts[i] : i \in folded.at \cap DOMAIN chart.depts} = folded.meant \cap ToSet(chart.depts)

\* Only what a person typed is written: leaving a prompt box that was not touched writes the
\* text it had over the one somebody else wrote.
OnlyTypedIsWritten ==
    \A i \in DOMAIN queue : queue[i].f = "prompt" /\ queue[i].mount = open.mount
                            => wanted["prompt"] # NoText

\* A header that says saved is right: a name, whatever it was changed to and back, is what
\* the account has. Once a write is over the name is compared with the chart again, which a
\* read that failed or was overtaken has left behind.
NameIsStored ==
    header.kind = "saved" /\ wanted["name"] # NoText /\ name.draft = NoText /\ ShownObject(open.id)
      /\ Holds(org, open.id)
    => org.text[open.id]["name"] = wanted["name"]

\* The same for a prompt as for a name: one that is changed back while its write is under way
\* is not written.
PromptIsStored ==
    header.kind = "saved" /\ wanted["prompt"] # NoText /\ Holds(org, open.id)
    => org.text[open.id]["prompt"] = box

\* A failure whose detail is gone is said by the page: the page asks whether something else is
\* open, and a detail may go because the object is no longer listed.
EveryFailureSaid == unsaid = {}

\* What is open is what the person opened last: a late creation or deletion changes it.
StaysOpen ==
    [][open'.id # open.id => Costs("select") \/ mutation.id = open.id]_orgVars
=============================================================================
