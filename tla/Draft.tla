------------------------------- MODULE Draft -------------------------------
(* A conversation before it exists (frontend DraftSession, lib/dispatch). The draft asks
   the account for the plan of what is chosen, borrows the channel of the machine the plan
   names and asks it what it can do. Sending starts the conversation there: a run, or the
   three steps of a Pi generation, then the account is told and the choices are pinned.
   A call of the machine is in flight, served or lost; what was served may still be lost. *)
EXTENDS Integers, FiniteSets

CONSTANTS Carriers,   \* machines an agent may run on, in no order
          PiCarriers, \* those whose backend starts in three steps
          Efforts,    \* those whose backend takes a reasoning effort
          MaxConv,    \* bound: conversations a draft may try to start
          DraftStarts \* bound: the machines online at first and what may happen in a run

ASSUME CarriersAssumption == PiCarriers \subseteq Carriers /\ Efforts \subseteq Carriers
ASSUME DraftStartsAssumption ==
    MaxConv \in Nat /\ \A s \in DraftStarts : s.online \subseteq Carriers

VARIABLES online,      \* the machines the account can reach
          wish,        \* targetBackendSyncId, planAttempt; there: the draft is still on screen
          plan, asking,  \* planState, and the read of the effect in charge
          lamp,        \* relayState of the chosen machine's channel
          caps, capsAsk, \* what the probe last said, and the probe in charge
          picks,       \* effort, model: the choices of the composer
          composer, starting, failed,  \* the text, DraftPending, startFailure
          job,         \* dispatchNewConversation in progress
          leases,      \* channels borrowed by it
          convs, kept, \* (external) the conversations of the machines; saved-sessions
          said,        \* the conversations the page was told of: DispatchedSession
          dleft        \* what is left of the bounds

draftVars == <<online, wish, plan, asking, lamp, caps, capsAsk, picks, composer, starting,
               failed, job, leases, convs, kept, said, dleft>>
planVars == <<wish, plan, asking>>
probeVars == <<lamp, caps, capsAsk>>
outside == <<leases, convs, kept, said>>

NoOne == "none"
Use(b) == dleft[b] > 0 /\ dleft' = [dleft EXCEPT ![b] = @ - 1]

NoJob == [at |-> "idle", call |-> "none", to |-> NoOne, conv |-> 0, own |-> FALSE, odd |-> FALSE,
          set |-> [effort |-> FALSE, model |-> FALSE, caps |-> NoOne],
          out |-> [kept |-> FALSE, effort |-> FALSE, model |-> FALSE]]
NoCaps == [on |-> FALSE, of |-> NoOne]

Chosen == IF plan.got = "plan" THEN plan.chosen ELSE NoOne
Settled == plan.key = wish.key
PlanReady == Settled /\ Chosen # NoOne

DraftInit ==
    \E s \in DraftStarts :
        /\ online = s.online
        /\ wish = [key |-> [target |-> NoOne, attempt |-> 0], there |-> TRUE]
        /\ plan = [key |-> [target |-> NoOne, attempt |-> -1], got |-> "none", chosen |-> NoOne,
                   tiers |-> {}]
        /\ asking = [on |-> TRUE, key |-> [target |-> NoOne, attempt |-> 0]]
        /\ lamp = "off" /\ caps = NoOne /\ capsAsk = NoCaps
        /\ picks = [effort |-> FALSE, model |-> "none"]
        /\ composer = FALSE /\ starting = FALSE /\ failed = FALSE
        /\ job = NoJob /\ leases = 0
        /\ convs = [c \in 1..MaxConv |-> [on |-> NoOne, state |-> "none", effort |-> FALSE,
                                          model |-> FALSE]]
        /\ kept = {} /\ said = {}
        /\ dleft = s.left

-----------------------------------------------------------------------------
(* The plan.                                                                 *)

Presence(m) ==
    /\ Use("presence")
    /\ online' = IF m \in online THEN online \ {m} ELSE online \cup {m}
    /\ UNCHANGED <<planVars, probeVars, picks, composer, starting, failed, job, outside>>

\* A new key runs the effect again: the read before it is no longer listened to. The lines
\* and the chips are not there while a start is pending.
Wish(key) ==
    /\ wish.there /\ ~starting /\ key # wish.key
    /\ wish' = [wish EXCEPT !.key = key]
    /\ asking' = [on |-> TRUE, key |-> key]
    /\ UNCHANGED <<online, plan, probeVars, picks, composer, starting, failed, job, outside>>

\* ExecTargetLine: the plan on screen, of an older key perhaps, lists the machines to pick.
PickTarget(m) ==
    /\ Chosen # NoOne /\ m \in plan.tiers /\ Use("wish")
    /\ Wish([wish.key EXCEPT !.target = m])

PickAuto ==
    /\ plan.got = "plan" /\ wish.key.target # NoOne /\ Use("wish")
    /\ Wish([wish.key EXCEPT !.target = NoOne])

\* Another project is another key, as another attempt is.
PickProject == Chosen # NoOne /\ Use("wish") /\ Wish([wish.key EXCEPT !.attempt = @ + 1])

RetryPlan ==
    /\ Settled /\ plan.got = "error" /\ Use("wish")
    /\ Wish([wish.key EXCEPT !.attempt = @ + 1])

\* Another machine is another channel, another probe and another key of the choice of CLI
\* model. What the last probe said stays until the next answer.
ChannelOf(old, new) ==
    IF old = new THEN UNCHANGED <<probeVars, picks>>
    ELSE /\ lamp' = IF new = NoOne THEN "off" ELSE "wait"
         /\ capsAsk' = NoCaps /\ UNCHANGED caps
         /\ picks' = [picks EXCEPT !.model = IF @ = "cli" THEN "none" ELSE @]

PlanLandsKeyed ==
    /\ wish.there /\ asking.on
    /\ asking' = [asking EXCEPT !.on = FALSE]
    /\ \E m \in online \cup {NoOne} :
          /\ IF asking.key.target # NoOne
             THEN m = IF asking.key.target \in online THEN asking.key.target ELSE NoOne
             ELSE m = NoOne => online = {}
          /\ plan' = [key |-> IF m = NoOne THEN plan.key ELSE asking.key, got |-> "plan", chosen |-> m, tiers |-> online]
          /\ ChannelOf(Chosen, m)
    /\ UNCHANGED <<online, wish, composer, starting, failed, job, outside, dleft>>

\* What the account answers: the target asked for if it is online, or any that is.
PlanLands ==
    /\ wish.there /\ asking.on
    /\ asking' = [asking EXCEPT !.on = FALSE]
    /\ \E m \in online \cup {NoOne} :
          /\ IF asking.key.target # NoOne
             THEN m = IF asking.key.target \in online THEN asking.key.target ELSE NoOne
             ELSE m = NoOne => online = {}
          /\ plan' = [key |-> asking.key, got |-> "plan", chosen |-> m, tiers |-> online]
          /\ ChannelOf(Chosen, m)
    /\ UNCHANGED <<online, wish, composer, starting, failed, job, outside, dleft>>

PlanFails ==
    /\ wish.there /\ asking.on /\ Use("fault")
    /\ asking' = [asking EXCEPT !.on = FALSE]
    /\ plan' = [key |-> asking.key, got |-> "error", chosen |-> NoOne, tiers |-> {}]
    /\ ChannelOf(Chosen, NoOne)
    /\ UNCHANGED <<online, wish, composer, starting, failed, job, outside>>

-----------------------------------------------------------------------------
(* The channel and the probe.                                                *)

LampTurns ==
    /\ wish.there /\ lamp # "off"
    /\ \/ /\ lamp = "wait" /\ lamp' = "on" /\ Chosen \in online
          /\ capsAsk' = [on |-> TRUE, of |-> Chosen] /\ UNCHANGED dleft
       \/ lamp = "on" /\ Use("drop") /\ lamp' = "wait" /\ capsAsk' = NoCaps
    /\ UNCHANGED <<online, planVars, caps, picks, composer, starting, failed, job, outside>>

\* A probe that fails says that nothing can be set.
ProbeEnds ==
    /\ wish.there /\ capsAsk.on
    /\ \/ caps' = capsAsk.of /\ UNCHANGED dleft
       \/ caps' = NoOne /\ Use("fault")
    /\ capsAsk' = NoCaps
    /\ UNCHANGED <<online, planVars, lamp, picks, composer, starting, failed, job, outside>>

Takes == caps \in Efforts

\* One of a provider's model and a CLI's model: each choice withdraws the other.
PickSettings ==
    /\ wish.there /\ ~starting /\ Use("pick")
    /\ \/ Takes /\ picks' = [picks EXCEPT !.effort = TRUE]
       \/ \E m \in {"provider", "cli"} : picks' = [picks EXCEPT !.model = m]
    /\ UNCHANGED <<online, planVars, probeVars, composer, starting, failed, job, outside>>

-----------------------------------------------------------------------------
(* Starting.                                                                 *)

TypeDraft ==
    /\ wish.there /\ ~composer /\ ~starting /\ Use("send")
    /\ composer' = TRUE
    /\ UNCHANGED <<online, planVars, probeVars, picks, starting, failed, job, outside>>

\* The channel is the draft's own when it is up, and stays the one captured here.
Submitted(m) ==
    /\ wish.there /\ composer /\ ~starting /\ job.at = "idle" /\ job.conv < MaxConv
    /\ composer' = FALSE /\ starting' = TRUE /\ failed' = FALSE
    /\ job' = [NoJob EXCEPT !.at = "ticket", !.to = m, !.conv = job.conv + 1, !.own = (lamp = "on"),
                            !.set = [effort |-> picks.effort /\ Takes, caps |-> caps,
                                     model |-> picks.model # "none"]]
    /\ UNCHANGED <<online, planVars, probeVars, picks, outside, dleft>>

SubmitUnsettled == Chosen # NoOne /\ Submitted(Chosen)
Submit == PlanReady /\ Submitted(Chosen)

\* What was borrowed goes back whatever happened; the text goes back to the composer, which
\* is gone with the draft.
StartFailsHolding ==
    /\ job' = [NoJob EXCEPT !.conv = job.conv]
    /\ starting' = FALSE /\ failed' = wish.there /\ composer' = wish.there
    /\ leases' = leases

StartFailsSilently ==
    /\ job' = [NoJob EXCEPT !.conv = job.conv]
    /\ starting' = FALSE /\ failed' = wish.there /\ composer' = composer
    /\ leases' = 0

StartFails ==
    /\ job' = [NoJob EXCEPT !.conv = job.conv]
    /\ starting' = FALSE /\ failed' = wish.there /\ composer' = wish.there
    /\ leases' = 0

Working(at) == job.at = at

TicketEndsUnheard ==
    /\ Working("ticket")
    /\ \/ /\ job' = [job EXCEPT !.at = IF job.own THEN "run" ELSE "lease"] /\ UNCHANGED <<starting, dleft>>
       \/ Use("fault") /\ job' = [NoJob EXCEPT !.conv = job.conv] /\ starting' = TRUE
    /\ UNCHANGED <<online, planVars, probeVars, picks, composer, failed, leases, convs, kept, said>>

TicketEnds ==
    /\ Working("ticket")
    /\ \/ /\ job' = [job EXCEPT !.at = IF job.own THEN "run" ELSE "lease"]
          /\ UNCHANGED <<starting, failed, composer, leases, dleft>>
       \/ Use("fault") /\ StartFails
    /\ UNCHANGED <<online, planVars, probeVars, picks, convs, kept, said>>

LeaseEnds ==
    /\ Working("lease")
    /\ \/ /\ job' = [job EXCEPT !.at = "run"] /\ leases' = leases + 1
          /\ UNCHANGED <<starting, failed, composer, dleft>>
       \/ Use("fault") /\ StartFails
    /\ UNCHANGED <<online, planVars, probeVars, picks, convs, kept, said>>

\* A call is asked, served and answered. Pi is asked three times.
Steps == {"run", "register", "prepare", "begin", "abort", "pinEffort", "pinModel"}
AskMachine ==
    /\ job.at \in Steps /\ job.call = "none"
    /\ job' = [job EXCEPT !.call = "sent",
                          !.at = IF @ = "run" /\ job.to \in PiCarriers THEN "register" ELSE @]
    /\ UNCHANGED <<online, planVars, probeVars, picks, composer, starting, failed, outside, dleft>>

\* External: the machine. It may refuse; an answer may name another conversation.
MachineServes ==
    /\ job.call = "sent"
    /\ \/ /\ job' = [job EXCEPT !.call = "served"]
          /\ convs' = [convs EXCEPT ![job.conv] =
                CASE job.at = "register"  -> [@ EXCEPT !.on = job.to, !.state = "registered"]
                  [] job.at = "prepare"   -> [@ EXCEPT !.state = "prepared"]
                  [] job.at \in {"run", "begin"} -> [@ EXCEPT !.on = job.to, !.state = "running"]
                  [] job.at = "abort"     -> [@ EXCEPT !.state = IF @ = "none" THEN @ ELSE "aborted"]
                  [] job.at = "pinEffort" -> [@ EXCEPT !.effort = TRUE]
                  [] OTHER                -> [@ EXCEPT !.model = TRUE]]
          /\ UNCHANGED dleft
       \/ Use("refuse") /\ job' = [job EXCEPT !.call = "refused"] /\ UNCHANGED convs
       \/ /\ Use("refuse") /\ job.at \in {"register", "prepare", "begin"}
          /\ job' = [job EXCEPT !.call = "served", !.odd = TRUE] /\ UNCHANGED convs
    /\ UNCHANGED <<online, planVars, probeVars, picks, composer, starting, failed, leases, kept, said>>

Gained == job.call = "served" /\ ~job.odd
LostCall == job.call \in {"sent", "served"} /\ Use("fault")
Denied == (job.call = "refused" \/ job.odd) /\ UNCHANGED dleft

RunEndsUnaborted ==
    /\ job.at \in {"run", "register", "prepare", "begin"}
    /\ \/ /\ Gained /\ UNCHANGED <<starting, failed, composer, leases, dleft>>
          /\ job' = [job EXCEPT !.call = "none",
                       !.at = CASE @ = "register" -> "prepare" [] @ = "prepare" -> "begin"
                                [] OTHER -> "save"]
       \/ (LostCall \/ Denied) /\ StartFails
    /\ UNCHANGED <<online, planVars, probeVars, picks, convs, kept, said>>

RunEnds ==
    /\ job.at \in {"run", "register", "prepare", "begin"}
    /\ \/ /\ Gained /\ UNCHANGED <<starting, failed, composer, leases, dleft>>
          /\ job' = [job EXCEPT !.call = "none",
                       !.at = CASE @ = "register" -> "prepare" [] @ = "prepare" -> "begin"
                                [] OTHER -> "save"]
       \/ /\ job.at = "run" /\ (LostCall \/ Denied) /\ StartFails
       \/ /\ job.at # "run" /\ (LostCall \/ Denied)
          /\ job' = [job EXCEPT !.at = "abort", !.call = "none", !.odd = FALSE]
          /\ UNCHANGED <<starting, failed, composer, leases>>
    /\ UNCHANGED <<online, planVars, probeVars, picks, convs, kept, said>>

\* However the abort ends, the start failed.
AbortEnds ==
    /\ Working("abort")
    /\ \/ job.call = "served" /\ UNCHANGED dleft
       \/ LostCall \/ Denied
    /\ StartFails
    /\ UNCHANGED <<online, planVars, probeVars, picks, convs, kept, said>>

\* The conversation runs: nothing that fails from here on takes it back.
AfterSave == IF job.set.effort THEN "pinEffort" ELSE IF job.set.model THEN "pinModel" ELSE "done"

SaveEnds ==
    /\ Working("save")
    /\ \/ /\ kept' = kept \cup {job.conv} /\ UNCHANGED dleft
          /\ job' = [job EXCEPT !.at = AfterSave, !.out.kept = TRUE]
       \/ /\ Use("fault") /\ kept' \in {kept, kept \cup {job.conv}}
          /\ job' = [job EXCEPT !.at = AfterSave]
    /\ UNCHANGED <<online, planVars, probeVars, picks, composer, starting, failed, leases, convs, said>>

PinEndsHopeful ==
    /\ job.at \in {"pinEffort", "pinModel"} /\ job.call # "none"
    /\ (job.call = "served" /\ UNCHANGED dleft) \/ LostCall \/ Denied
    /\ job' = IF job.at = "pinEffort"
              THEN [job EXCEPT !.call = "none", !.out.effort = TRUE,
                               !.at = IF job.set.model THEN "pinModel" ELSE "done"]
              ELSE [job EXCEPT !.call = "none", !.out.model = TRUE, !.at = "done"]
    /\ UNCHANGED <<online, planVars, probeVars, picks, composer, starting, failed, outside>>

PinEnds ==
    /\ job.at \in {"pinEffort", "pinModel"} /\ job.call # "none"
    /\ (job.call = "served" /\ UNCHANGED dleft) \/ LostCall \/ Denied
    /\ LET pinned == job.call = "served" /\ dleft' = dleft
       IN  job' = IF job.at = "pinEffort"
                  THEN [job EXCEPT !.call = "none", !.out.effort = pinned,
                                   !.at = IF job.set.model THEN "pinModel" ELSE "done"]
                  ELSE [job EXCEPT !.call = "none", !.out.model = pinned, !.at = "done"]
    /\ UNCHANGED <<online, planVars, probeVars, picks, composer, starting, failed, outside>>

\* onStarted: the page opens the conversation, whether or not the draft is still there.
Started ==
    /\ Working("done")
    /\ said' = said \cup {[conv |-> job.conv, kept |-> job.out.kept,
                           effort |-> job.set.effort => job.out.effort,
                           model |-> job.set.model => job.out.model,
                           asked |-> job.set]}
    /\ wish' = [wish EXCEPT !.there = FALSE]
    /\ job' = [NoJob EXCEPT !.conv = job.conv] /\ leases' = 0
    /\ starting' = FALSE
    /\ UNCHANGED <<online, plan, asking, probeVars, picks, composer, failed, convs, kept, dleft>>

LeaveDraft ==
    /\ wish.there /\ Use("leave")
    /\ wish' = [wish EXCEPT !.there = FALSE]
    /\ composer' = FALSE
    /\ UNCHANGED <<online, plan, asking, probeVars, picks, starting, failed, job, outside>>

DraftNext ==
    \/ \E m \in Carriers : Presence(m) \/ PickTarget(m)
    \/ PickAuto \/ PickProject \/ RetryPlan \/ PlanLands \/ PlanFails \/ LampTurns \/ ProbeEnds
    \/ PickSettings \/ TypeDraft \/ Submit \/ LeaveDraft
    \/ TicketEnds \/ LeaseEnds \/ AskMachine \/ MachineServes
    \/ RunEnds \/ AbortEnds \/ SaveEnds \/ PinEnds \/ Started

\* Every call ends: requests have a limit of time. A plan is answered or fails.
DraftFair ==
    /\ WF_draftVars(PlanLands)
    /\ WF_draftVars(TicketEnds \/ LeaseEnds \/ AskMachine \/ MachineServes \/ RunEnds \/ AbortEnds
                      \/ SaveEnds \/ PinEnds \/ Started)

DraftSpec == DraftInit /\ [][DraftNext]_draftVars /\ DraftFair

-----------------------------------------------------------------------------
(* Properties.                                                               *)

\* Every variable has its type; a channel is borrowed only while a start needs it (the
\* finally of dispatchNewConversation).
DraftTypeOK ==
    /\ online \subseteq Carriers /\ lamp \in {"off", "wait", "on"}
    /\ caps \in Carriers \cup {NoOne} /\ plan.got \in {"none", "plan", "error"}
    /\ Chosen \in Carriers \cup {NoOne} /\ (lamp = "off") = (Chosen = NoOne)
    /\ leases \in 0..1 /\ (leases = 1 => job.at # "idle" /\ ~job.own)
    /\ kept \subseteq 1..MaxConv /\ job.conv \in 0..MaxConv
    /\ capsAsk.on => capsAsk.of = Chosen

\* A run goes to the machine the user picked, never to the one of a plan asked before the
\* pick (readyPlan): the line above the composer shows the older plan until it is answered.
RunsWherePicked ==
    wish.there /\ job.at # "idle" /\ wish.key.target # NoOne => job.to = wish.key.target

\* A generation of Pi whose start failed at any of its steps is aborted; it is left as it
\* was only if the abort itself was lost or refused (the catch around the three steps).
FailedPiIsAborted ==
    [][starting /\ ~starting' /\ said' = said /\ convs[job.conv].on \in PiCarriers
         => \/ convs[job.conv].state = "aborted"
            \/ job.at = "abort" /\ job.call # "served"]_draftVars

\* What the page is told of a conversation is so: saved if it says saved, and a choice it
\* does not report as not pinned holds on the machine (savedToAccount, modelPinned,
\* reasoningEffortPinned).
ToldIsSo ==
    \A s \in said :
        /\ convs[s.conv].state = "running" /\ (s.kept => s.conv \in kept)
        /\ s.asked.effort /\ s.effort => convs[s.conv].effort
        /\ s.asked.model /\ s.model => convs[s.conv].model

\* A start ends, opened or given back, whatever fails on the way: the draft never hangs on
\* its pending line, and while it is there the text is back in the composer.
StartEnds == starting ~> ~starting
TextComesBack ==
    [][starting /\ ~starting' => composer' \/ ~wish'.there \/ said' # said]_draftVars

\* The plan of what is asked for arrives while the draft is there.
PlanArrives == ~Settled ~> (Settled \/ ~wish.there)

(* The new conversation: it runs where it was picked, and says what
   happened. *)
DraftInv == DraftTypeOK /\ RunsWherePicked /\ ToldIsSo

-----------------------------------------------------------------------------
(* What the repository says, or a user would expect, and the code does not       *)
(* keep: TLC finds each of these violated (README, section 8).                   *)

\* A text is one conversation: a lost answer and a retry make two (a fresh id each time).
OneConversation == Cardinality({c \in 1..MaxConv : convs[c].state = "running"}) <= 1

\* The mode and effort sent are those of the backend that runs: the last probe's stay.
SettingsOfTheMachine ==
    job.at # "idle" /\ job.set.caps # NoOne => job.set.caps = job.to
=============================================================================
