------------------------------- MODULE Decisions -------------------------------
(* What a conversation waits for the user to decide (frontend
   components/session/useSessionDecisionPorts, DecisionPanel): the list of what its machine is
   blocked on, the panel that shows what the transcript has no card for, and the two ways an
   answer takes, the panel's with a check beforehand and a retry after a failure.           *)
EXTENDS Integers, FiniteSets, Sequences, SequencesExt

CONSTANTS Talks, Requests,
          TalkOf,           \* the conversation of each request
          DecisionStarts    \* bound: what waits at first, and what may happen

ASSUME TalkOfAssumption == TalkOf \in [Requests -> Talks]

VARIABLES waiting,   \* (external) what the machine is blocked on
          settled,   \* (external) requests that were answered or went with their turn
          here,      \* sid
          linked,    \* the channel is connected and what was missed is here (ready)
          cards,     \* requests the transcript shows a card for
          waiters,   \* waiters
          handled,   \* handledRequestId
          listAsks,      \* refreshWaiters: requests in flight, and who waits for them
          jobs,      \* runPanelDecision: how far the answer to each request is
          cardJobs,  \* answers of cards in flight
          toasts,    \* answers that failed and can be sent again
          missed,    \* (history) the last refresh failed, or another conversation's came
          mixedLists,     \* (history) a list of another conversation was shown
          decLeft     \* what is left of the bounds

decisionVars == <<waiting, settled, here, linked, cards, waiters, handled, listAsks, jobs, cardJobs,
                  toasts, missed, mixedLists, decLeft>>

Uses(b) == decLeft[b] > 0 /\ decLeft' = [decLeft EXCEPT ![b] = @ - 1]

NoRequest == "none"
NoDecision == [stage |-> "idle", of |-> NoRequest]

ASSUME DecisionStartsAssumption ==
    /\ NoRequest \notin Requests
    /\ \A s \in DecisionStarts :
           s.waiting \subseteq Requests /\ s.cards \subseteq Requests /\ s.here \in Talks

Ours(c) == {r \in Requests : TalkOf[r] = c}

DecisionInit ==
    \E s \in DecisionStarts :
        /\ waiting = s.waiting /\ settled = {} /\ here = s.here /\ linked = FALSE
        /\ cards = s.cards /\ waiters = {} /\ handled = NoRequest /\ listAsks = <<>>
        /\ jobs = [r \in Requests |-> NoDecision] /\ cardJobs = {} /\ toasts = {}
        /\ missed = FALSE /\ mixedLists = FALSE /\ decLeft = s.left

-----------------------------------------------------------------------------
(* The list.                                                                 *)

\* refreshWaiters: of the conversation that was there when it was called; by: the decision
\* that waits for it, its check before or its end.
Asked(c, by) == Append(listAsks, [of |-> c, by |-> by, served |-> FALSE, answer |-> {}])

\* Without a channel nothing is asked, which is no answer.
Refreshes == listAsks' = IF linked THEN Asked(here, NoRequest) ELSE listAsks

AskServed(k) ==
    /\ ~listAsks[k].served
    /\ listAsks' = [listAsks EXCEPT ![k].served = TRUE, ![k].answer = waiting \cap Ours(listAsks[k].of)]
    /\ UNCHANGED <<waiting, settled, here, linked, cards, waiters, handled, jobs, cardJobs,
                   toasts,
                   missed, mixedLists, decLeft>>

\* The decision that waited goes on: it is over where the request was gone before it was sent.
AnsweredUnasked(before, r) == r \notin before
AnsweredBy(before, r) == before # {NoRequest} /\ r \notin before

ContinuesHeld(by, before) ==
    IF by = NoRequest \/ AnsweredBy(before, by) THEN jobs' = jobs
    ELSE jobs' = IF jobs[by].stage = "ending" THEN [jobs EXCEPT ![by] = NoDecision]
                 ELSE [jobs EXCEPT ![by].stage = "sending"]

Continues(by, before) ==
    IF by = NoRequest THEN jobs' = jobs
    ELSE jobs' = IF jobs[by].stage = "ending" \/ AnsweredBy(before, by)
                 THEN [jobs EXCEPT ![by] = NoDecision]
                 ELSE [jobs EXCEPT ![by].stage = "sending"]

\* The note that one was handled belongs to that one: it goes when others are there.
Notes(by, before) ==
    IF by # NoRequest /\ jobs[by].stage = "checking" /\ AnsweredBy(before, by) THEN by
    ELSE IF before \ {NoRequest} # {} THEN NoRequest ELSE handled

AskArrives(k) ==
    /\ listAsks[k].served
    /\ waiters' = listAsks[k].answer
    /\ handled' = Notes(listAsks[k].by, listAsks[k].answer)
    /\ Continues(listAsks[k].by, listAsks[k].answer)
    /\ missed' = (listAsks[k].of # here) /\ mixedLists' = (mixedLists \/ listAsks[k].of # here)
    /\ listAsks' = RemoveAt(listAsks, k)
    /\ UNCHANGED <<waiting, settled, here, linked, cards, cardJobs, toasts, decLeft>>

\* That it could not be asked does not say that nothing waits.
AskFails(k) ==
    /\ Uses("fault")
    /\ handled' = Notes(listAsks[k].by, {NoRequest})
    /\ Continues(listAsks[k].by, {NoRequest})
    /\ missed' = TRUE
    /\ listAsks' = RemoveAt(listAsks, k)
    /\ UNCHANGED <<waiting, settled, here, linked, cards, waiters, cardJobs, toasts, mixedLists>>

-----------------------------------------------------------------------------
(* What makes the page ask.                                                  *)

\* The machine is blocked on one more; its frame brings a card where it arrives.
Blocks(r) ==
    /\ r \notin waiting \cup settled /\ Uses("block")
    /\ waiting' = waiting \cup {r}
    /\ IF linked /\ TalkOf[r] = here THEN cards' = cards \cup {r} /\ Refreshes
       ELSE UNCHANGED <<cards, listAsks>>
    /\ UNCHANGED <<settled, here, linked, waiters, handled, jobs, cardJobs, toasts, missed,
                   mixedLists>>

\* Another client answers.
AnsweredElsewhere(r) ==
    /\ r \in waiting /\ Uses("elsewhere")
    /\ waiting' = waiting \ {r} /\ settled' = settled \cup {r}
    /\ UNCHANGED <<here, linked, cards, waiters, handled, listAsks, jobs, cardJobs, toasts, missed,
                   mixedLists>>

\* onRunResultDone: nothing waits any more in a turn that is over.
TurnEnds ==
    /\ waiting \cap Ours(here) # {} /\ Uses("turn")
    /\ settled' = settled \cup (waiting \cap Ours(here)) /\ waiting' = waiting \ Ours(here)
    /\ Refreshes
    /\ UNCHANGED <<here, linked, cards, waiters, handled, jobs, cardJobs, toasts, missed, mixedLists>>

LinksUnasked ==
    /\ ~linked
    /\ linked' = TRUE
    /\ UNCHANGED <<waiting, settled, here, cards, waiters, handled, listAsks, jobs, cardJobs, toasts,
                   missed, mixedLists, decLeft>>

\* Connected and caught up.
Links ==
    /\ ~linked
    /\ linked' = TRUE /\ listAsks' = Asked(here, NoRequest)
    /\ UNCHANGED <<waiting, settled, here, cards, waiters, handled, jobs, cardJobs, toasts,
                   missed,
                   mixedLists, decLeft>>

\* reset: what was shown was of the other conversation.
Switch(c) ==
    /\ c # here /\ Uses("switch")
    /\ here' = c /\ linked' = FALSE /\ cards' = {}
    /\ waiters' = {} /\ handled' = NoRequest
    /\ UNCHANGED <<waiting, settled, listAsks, jobs, cardJobs, toasts, missed, mixedLists>>

-----------------------------------------------------------------------------
(* Answering.                                                                *)

\* selectPanelWaiters: what the transcript has no card for.
Panel == waiters \ cards

\* runPanelDecision: first it listAsks whether the request still waits.
Checks(r, c) ==
    /\ handled' = NoRequest
    /\ jobs' = [jobs EXCEPT ![r] = [stage |-> IF linked THEN "checking" ELSE "sending", of |-> c]]
    /\ listAsks' = IF linked THEN Asked(c, r) ELSE listAsks

PanelAnswer(r) ==
    /\ r \in Panel /\ jobs[r].stage = "idle" /\ Uses("answer")
    /\ Checks(r, here)
    /\ UNCHANGED <<waiting, settled, here, linked, cards, waiters, cardJobs, toasts, missed,
                   mixedLists>>

\* The answer is one for its conversation: the machine takes the first, and refuses others.
Accepted(r, c) == r \in waiting /\ TalkOf[r] = c

Settles(r) == waiting' = waiting \ {r} /\ settled' = settled \cup {r}

\* Whatever became of it, the list is read again.
EndsWith(r) ==
    IF linked THEN /\ jobs' = [jobs EXCEPT ![r].stage = "ending"]
                   /\ listAsks' = Asked(jobs[r].of, r)
    ELSE jobs' = [jobs EXCEPT ![r] = NoDecision] /\ listAsks' = listAsks

SendServed(r) ==
    /\ jobs[r].stage = "sending" /\ linked
    /\ Accepted(r, jobs[r].of)
    /\ Settles(r) /\ EndsWith(r)
    /\ UNCHANGED <<here, linked, cards, waiters, handled, cardJobs, toasts, missed, mixedLists,
                   decLeft>>

SendRefusedSilently(r) ==
    /\ jobs[r].stage = "sending"
    /\ ~linked \/ ~Accepted(r, jobs[r].of) \/ decLeft["fault"] > 0
    /\ EndsWith(r)
    /\ decLeft' = IF linked /\ Accepted(r, jobs[r].of) THEN [decLeft EXCEPT !["fault"] = @ - 1]
                 ELSE decLeft
    /\ UNCHANGED <<waiting, settled, here, linked, cards, waiters, handled, cardJobs, toasts,
                   missed, mixedLists>>

\* Refused, or failed: it is said, with a retry; it may have got there.
SendFails(r) ==
    /\ jobs[r].stage = "sending"
    /\ IF linked /\ Accepted(r, jobs[r].of)
       THEN Uses("fault") /\ (UNCHANGED <<waiting, settled>> \/ Settles(r))
       ELSE UNCHANGED <<waiting, settled, decLeft>>
    /\ toasts' = toasts \cup {[what |-> r, of |-> jobs[r].of]}
    /\ EndsWith(r)
    /\ UNCHANGED <<here, linked, cards, waiters, handled, cardJobs, missed, mixedLists>>

RetryAnswer(x) ==
    /\ x \in toasts /\ jobs[x.what].stage = "idle" /\ Uses("retry")
    /\ toasts' = toasts \ {x}
    /\ Checks(x.what, x.of)
    /\ UNCHANGED <<waiting, settled, here, linked, cards, waiters, cardJobs, missed, mixedLists>>

\* A card of the transcript sends at once.
CardAnswer(r) ==
    /\ r \in cards /\ TalkOf[r] = here /\ linked /\ r \notin cardJobs /\ Uses("answer")
    /\ cardJobs' = cardJobs \cup {r}
    /\ UNCHANGED <<waiting, settled, here, linked, cards, waiters, handled, listAsks, jobs, toasts,
                   missed, mixedLists>>

\* Its failure is its own to show.
CardServed(r) ==
    /\ r \in cardJobs
    /\ cardJobs' = cardJobs \ {r}
    /\ IF r \in waiting
       THEN Settles(r) /\ listAsks' = IF linked THEN Asked(TalkOf[r], NoRequest) ELSE listAsks
       ELSE UNCHANGED <<waiting, settled, listAsks>>
    /\ UNCHANGED <<here, linked, cards, waiters, handled, jobs, toasts, missed, mixedLists, decLeft>>

DecisionNext ==
    \/ \E k \in DOMAIN listAsks : AskServed(k) \/ AskArrives(k) \/ AskFails(k)
    \/ \E r \in Requests : \/ Blocks(r) \/ AnsweredElsewhere(r) \/ PanelAnswer(r) \/ SendServed(r)
                           \/ SendFails(r) \/ CardAnswer(r) \/ CardServed(r)
    \/ \E x \in toasts : RetryAnswer(x)
    \/ \E c \in Talks : Switch(c)
    \/ TurnEnds \/ Links

\* The machine answers what it is asked, and the channel connects.
DecisionFairness ==
    /\ WF_decisionVars(Links)
    /\ WF_decisionVars(\E k \in DOMAIN listAsks : AskServed(k) \/ AskArrives(k))
    /\ \A r \in Requests :
         WF_decisionVars(SendServed(r) \/ SendFails(r)) /\ WF_decisionVars(CardServed(r))

DecisionSpec == DecisionInit /\ [][DecisionNext]_decisionVars /\ DecisionFairness

-----------------------------------------------------------------------------
(* Properties.                                                               *)

\* The variables stay in their types, and a decision that waits for the list waits for one
\* that is under way.
DecisionTypeOK ==
    /\ waiting \cup settled \cup waiters \cup cards \cup cardJobs \subseteq Requests
    /\ waiting \cap settled = {} /\ here \in Talks /\ linked \in BOOLEAN
    /\ handled \in Requests \cup {NoRequest}
    /\ \A r \in Requests :
           /\ jobs[r].stage \in {"idle", "checking", "sending", "ending"}
           /\ Cardinality({k \in DOMAIN listAsks : listAsks[k].by = r})
                  = IF jobs[r].stage \in {"checking", "ending"} THEN 1 ELSE 0

\* A request that is said to have been handled by somebody is, also when the list could not
\* be read; unless the list of another conversation has been shown (runPanelDecision).
HandledIsSo == handled # NoRequest => handled \in settled \/ mixedLists

\* An answer given in the panel is not lost: the request is settled, or the failure is there
\* to be tried again, as long as no list of another conversation is shown (runPanelDecision).
AnswerIsNotLost ==
    \A r \in Requests : (jobs[r].stage # "idle") ~>
                            (r \in settled \/ mixedLists \/ \E x \in toasts : x.what = r)

\* What the conversation waits for is on the page in the end, also what came while the
\* channel was down, unless the last list could not be read (SessionDetailView).
WaitingIsSeen == <>[](missed \/ waiting \cap Ours(here) \subseteq waiters \cup cards)

(* Decisions: what is shown as handled was answered. *)
DecisionInv == DecisionTypeOK /\ HandledIsSo

-----------------------------------------------------------------------------
(* What the repository says, or a user would expect, and the code does not       *)
(* keep: TLC finds each of these violated (README, section 8).                   *)

\* The list is that of the conversation that is open (useSessionDecisionPorts reset).
WaitersOfHere == waiters \subseteq Ours(here)
=============================================================================
