-------------------------- MODULE SessionSettings --------------------------
(* What a conversation runs with: the model it is pinned to, its reasoning effort, its
   permission mode and the model of its command line (frontend SessionDetailView,
   useSessionCLIModel). One view shows one conversation after another. A setting is
   shown at once and written to the machine that carries the conversation, and to the
   machine it was started from when that is another; the model of the command line is
   switched in the running process first, then written, and shown when written. 0 is
   "follow the agent".                                                         *)
EXTENDS Integers, FiniteSets

CONSTANTS Convs,        \* conversations
          Abroad,       \* those started on another machine than the one that carries them
          Values,       \* bound: values of a setting, 0 among them
          SettingStarts \* bound: the moves of a run (see SettingsInit)

ASSUME ValuesAssumption == 0 \in Values /\ Values \subseteq Nat /\ Abroad \subseteq Convs
ASSUME NobodyAssumption == "nobody" \notin Convs
ASSUME SettingStartsAssumption == \A s \in SettingStarts : s.here \in Convs

VARIABLES here,    \* the conversation the view shows
          stored,  \* what the two machines have written down, per conversation and setting
          known,   \* the summary the view read when it opened the conversation
          cliRun,  \* model of the running process; fresh: the next turn takes the stored one;
                   \* crossed (history): two choices of the conversation overlapped, or one
                   \* was made where another model was shown than is stored
          turns,   \* a turn is under way, and the model it runs with
          ui,      \* values shown before they are written, and the note under the control
          local,   \* LocalState of useSessionCLIModel
          sent,    \* writes in flight
          left     \* what is left of the bounds

settingVars == <<here, stored, known, cliRun, turns, ui, local, sent, left>>

Doubles == {"model", "effort"}
Shown == Doubles \cup {"permission"}
Unset == -1
Free(b) == left[b] > 0 /\ left' = [left EXCEPT ![b] = @ - 1]

FreshState(c) == [key |-> c, choice |-> Unset, pending |-> FALSE, hide |-> FALSE, error |-> FALSE]

\* of is a history variable: the conversation a value was chosen in; lone turns false when
\* its write overlaps another of the same setting, or when there was no client to write with.
NoValue == [v |-> Unset, note |-> "none", of |-> "nobody", lone |-> TRUE]

SettingsInit ==
    \E s \in SettingStarts :
        /\ here = s.here /\ left = s.left
        /\ stored = [c \in Convs |-> [k \in Doubles \cup {"cli"} |-> [carrier |-> 0, origin |-> 0]]]
        /\ known = [k \in Doubles \cup {"cli"} |-> 0]
        /\ cliRun = [c \in Convs |-> [v |-> 0, fresh |-> FALSE, crossed |-> FALSE]]
        /\ turns = [c \in Convs |-> Unset]
        /\ ui = [k \in Shown |-> NoValue]
        /\ local = FreshState(s.here)
        /\ sent = {}

Local == IF local.key = here THEN local ELSE FreshState(here)
Choice == IF Local.choice = Unset THEN known["cli"] ELSE Local.choice
Effective(k) == IF ui[k].v # Unset THEN ui[k].v ELSE IF k \in Doubles THEN known[k] ELSE 0
Active(c) == turns[c] # Unset

-----------------------------------------------------------------------------
(* Switching conversations: the list of what starts afresh has the effort in it. Leaving
   a conversation voids the choices of a model of its command line under way.  *)

Afresh == ui' = [ui EXCEPT !["effort"] = [NoValue EXCEPT !.lone = \A w \in sent : w.kind # "effort"]]

OpenKeepsChoices(c) ==
    /\ c # here /\ Free("open")
    /\ here' = c /\ known' = [k \in Doubles \cup {"cli"} |-> stored[c][k].carrier]
    /\ Afresh
    /\ UNCHANGED <<stored, cliRun, turns, local, sent>>

Open(c) ==
    /\ c # here /\ Free("open")
    /\ here' = c /\ known' = [k \in Doubles \cup {"cli"} |-> stored[c][k].carrier]
    /\ Afresh
    /\ sent' = {[w EXCEPT !.live = FALSE] : w \in sent}
    /\ UNCHANGED <<stored, cliRun, turns, local>>

-----------------------------------------------------------------------------
(* writeSessionSetting: two writes, judged together.                         *)

Write(k, v, before) ==
    [kind |-> k, conv |-> here, v |-> v, before |-> before, hot |-> "no", live |-> TRUE,
     carrier |-> "open", origin |-> IF here \in Abroad /\ k # "permission" THEN "open" ELSE "none"]

SameSent(k) == {w \in sent : w.kind = k \/ (k = "model" /\ w.kind = "cli")}

Alone(k) == SameSent(k) = {} /\ ui[k].lone /\ ui[k].of \in {here, "nobody"}

Showing(k, v) ==
    ui' = [ui EXCEPT ![k] = [v |-> v, note |-> "none", of |-> here, lone |-> Alone(k)]]

\* The permission mode is the process's own: it is set there, and written nowhere else.
ChangePermission(v) ==
    /\ Free("change") /\ v # Effective("permission")
    /\ Showing("permission", v)
    /\ sent' = sent \cup {Write("permission", v, Effective("permission"))}
    /\ UNCHANGED <<here, stored, known, cliRun, turns, local>>

\* Overlapping choices of what the process runs are marked.
Crossing(yes) == cliRun' = IF yes THEN [cliRun EXCEPT ![here].crossed = TRUE] ELSE cliRun
Choosing(kinds) == \E w \in sent : w.conv = here /\ w.kind \in kinds

ChangeSetting(k, v) ==
    /\ Free("change")
    /\ Showing(k, v)
    /\ sent' = sent \cup {Write(k, v, Effective(k))}
    /\ Crossing(k = "model" /\ Choosing({"cli", "back"}))
    /\ UNCHANGED <<here, stored, known, turns, local>>

\* Without a client nothing is written and nothing is said: the control shows the choice.
ChangeUnheard(k, v) ==
    /\ Free("change") /\ (k = "permission" => v # Effective(k))
    /\ ui' = [ui EXCEPT ![k] = [v |-> v, note |-> "none", of |-> here, lone |-> FALSE]]
    /\ UNCHANGED <<here, stored, known, cliRun, turns, local, sent>>

\* A machine answers. The carrier takes a pinned model as the end of the command line's own.
Kept(w, machine) ==
    [stored EXCEPT ![w.conv] =
        [k \in DOMAIN @ |-> IF k = w.kind THEN [@[k] EXCEPT ![machine] = w.v]
                            ELSE IF w.kind = "model" /\ k = "cli" THEN [@[k] EXCEPT ![machine] = 0]
                            ELSE @[k]]]

WriteAnswers(w, machine, yes) ==
    /\ w.hot # "asked" /\ w[machine] = "open"
    /\ IF yes THEN UNCHANGED left ELSE Free("fault")
    /\ sent' = (sent \ {w}) \cup {[w EXCEPT ![machine] = IF yes THEN "ok" ELSE "refused"]}
    /\ stored' = IF yes /\ w.kind # "permission" THEN Kept(w, machine) ELSE stored
    /\ cliRun' = IF yes /\ w.kind \in {"cli", "model"} /\ machine = "carrier"
                 THEN [cliRun EXCEPT ![w.conv].fresh = TRUE] ELSE cliRun
    /\ UNCHANGED <<here, known, turns, ui, local>>

Judged(w) == w.carrier # "open" /\ w.origin # "open"
Lost(w) == w.carrier = "refused" /\ w.origin # "ok"
NoteHopeful(w) == IF w.carrier = "ok" THEN "none" ELSE "partial"
Note(w) == IF {w.carrier, w.origin} = {"ok", "refused"} THEN "partial" ELSE "none"

SettingLandsKept(w) ==
    /\ w.kind \in Shown /\ Judged(w)
    /\ ui' = [ui EXCEPT ![w.kind].note = IF Lost(w) THEN "failed" ELSE Note(w)]
    /\ local' = IF w.kind = "model" /\ ~Lost(w)
                THEN [FreshState(w.conv) EXCEPT !.choice = 0] ELSE local
    /\ sent' = sent \ {w}
    /\ UNCHANGED <<here, stored, known, cliRun, turns, left>>

\* Nothing was written: the control goes back. A pinned model clears the choice of the
\* command line (cli.clear, which voids its writes as well).
SettingLands(w) ==
    /\ w.kind \in Shown /\ Judged(w)
    /\ ui' = [ui EXCEPT ![w.kind] =
                  IF Lost(w) THEN [v |-> w.before, note |-> "failed", of |-> w.conv,
                                    lone |-> ui[w.kind].lone /\ ui[w.kind].of = w.conv]
                  ELSE [@ EXCEPT !.note = Note(w)]]
    /\ IF w.kind = "model" /\ ~Lost(w)
       THEN /\ local' = [FreshState(w.conv) EXCEPT !.choice = 0]
            /\ sent' = {[x EXCEPT !.live = FALSE] : x \in sent \ {w}}
       ELSE UNCHANGED local /\ sent' = sent \ {w}
    /\ UNCHANGED <<here, stored, known, cliRun, turns, left>>

-----------------------------------------------------------------------------
(* choose: the model of the command line.                                    *)

Settle(patch) == local' = patch

\* persistCLIModel uses the note of the model's control.
Persisting == ui' = [ui EXCEPT !["model"].note = "none", !["model"].lone = FALSE]

Choose(v) ==
    /\ v # Choice /\ Free("choose")
    /\ Settle([Local EXCEPT !.error = FALSE])
    /\ sent' = {[w EXCEPT !.live = FALSE] : w \in sent} \cup
               {[Write("cli", v, Choice) EXCEPT !.hot = IF Active(here) THEN "no" ELSE "asked"]}
    /\ IF Active(here) THEN Persisting ELSE UNCHANGED ui
    /\ Crossing(Choosing({"cli", "back", "model"}) \/ Choice # stored[here]["cli"].carrier)
    /\ UNCHANGED <<here, stored, known, turns>>

\* The running process switches; one that does not run has nothing to switch.
HotSwitched(w, runs) ==
    /\ w.hot = "asked"
    /\ sent' = (sent \ {w}) \cup {[w EXCEPT !.hot = IF runs THEN "done" ELSE "no"]}
    /\ cliRun' = IF runs THEN [cliRun EXCEPT ![w.conv].v = w.v] ELSE cliRun
    /\ Persisting
    /\ UNCHANGED <<here, stored, known, turns, local, left>>

Failing(w) == IF w.live THEN Settle([Local EXCEPT !.error = TRUE]) ELSE UNCHANGED local

HotRefused(w) ==
    /\ w.hot = "asked" /\ Free("fault")
    /\ sent' = sent \ {w}
    /\ Failing(w)
    /\ UNCHANGED <<here, stored, known, cliRun, turns, ui>>

\* A choice that has no client to be written with fails, which is said: at once,
ChooseUnheard(v) ==
    /\ v # Choice /\ Free("choose")
    /\ Settle([Local EXCEPT !.error = TRUE])
    /\ sent' = {[w EXCEPT !.live = FALSE] : w \in sent}
    /\ UNCHANGED <<here, stored, known, cliRun, turns, ui>>

\* or after the switch, which is taken back.
Unwritten(w) == [w EXCEPT !.kind = "back", !.hot = "done", !.live = FALSE, !.carrier = "refused",
                          !.origin = IF w.origin = "none" THEN "none" ELSE "refused"]
HotUnwritten(w) ==
    /\ w.hot = "asked" /\ Free("fault")
    /\ sent' = (sent \ {w}) \cup {Unwritten(w)}
    /\ cliRun' = [cliRun EXCEPT ![w.conv].v = w.v]
    /\ Failing(w)
    /\ UNCHANGED <<here, stored, known, turns, ui>>

ChoiceFailsLeft(w) ==
    /\ w.kind = "cli" /\ Judged(w) /\ Lost(w)
    /\ Failing(w) /\ sent' = sent \ {w}
    /\ UNCHANGED <<here, stored, known, cliRun, turns, ui, left>>

\* Neither machine wrote it down: what was switched is switched back.
ChoiceFails(w) ==
    /\ w.kind = "cli" /\ Judged(w) /\ Lost(w)
    /\ Failing(w)
    /\ sent' = (sent \ {w}) \cup
               (IF w.hot = "done" THEN {[w EXCEPT !.kind = "back", !.live = FALSE]} ELSE {})
    /\ UNCHANGED <<here, stored, known, cliRun, turns, ui, left>>

SwitchedBack(w) ==
    /\ w.kind = "back"
    /\ sent' = sent \ {w}
    /\ cliRun' = [cliRun EXCEPT ![w.conv].v = w.before]
    /\ UNCHANGED <<here, stored, known, turns, ui, local, left>>

ChoiceLandsPending(w) ==
    /\ w.kind = "cli" /\ Judged(w) /\ ~Lost(w)
    /\ sent' = sent \ {w}
    /\ ui' = [ui EXCEPT !["model"].note = Note(w)]
    /\ IF w.live
       THEN Settle([Local EXCEPT !.choice = w.v, !.pending = TRUE, !.hide = ~Active(here)])
       ELSE UNCHANGED local
    /\ UNCHANGED <<here, stored, known, cliRun, turns, left>>

\* It counts when no later choice was made and the conversation is still shown; a choice
\* written while a turn runs waits for the next one.
ChoiceLands(w) ==
    /\ w.kind = "cli" /\ Judged(w) /\ ~Lost(w)
    /\ sent' = sent \ {w}
    /\ ui' = [ui EXCEPT !["model"].note = Note(w)]
    /\ IF w.live
       THEN Settle([Local EXCEPT !.choice = w.v, !.pending = Active(here), !.hide = ~Active(here)])
       ELSE UNCHANGED local
    /\ UNCHANGED <<here, stored, known, cliRun, turns, left>>

-----------------------------------------------------------------------------
(* Turns.                                                                    *)

TurnStarts(c) ==
    /\ ~Active(c) /\ Free("turn")
    /\ LET v == IF cliRun[c].fresh THEN stored[c]["cli"].carrier ELSE cliRun[c].v
       IN  turns' = [turns EXCEPT ![c] = v] /\ cliRun' = [cliRun EXCEPT ![c] = [@ EXCEPT !.v = v, !.fresh = FALSE]]
    /\ local' = IF c = here /\ local.key = here /\ local.pending
                THEN [local EXCEPT !.pending = FALSE, !.hide = TRUE] ELSE local
    /\ UNCHANGED <<here, stored, known, ui, sent>>

TurnEnds(c) ==
    /\ Active(c)
    /\ turns' = [turns EXCEPT ![c] = Unset]
    /\ local' = IF c = here /\ local.key = here /\ ~local.pending
                THEN [local EXCEPT !.hide = FALSE] ELSE local
    /\ UNCHANGED <<here, stored, known, cliRun, ui, sent, left>>

SettingsNext ==
    \/ \E c \in Convs : Open(c) \/ TurnStarts(c) \/ TurnEnds(c)
    \/ \E v \in Values :
        \/ Choose(v) \/ ChooseUnheard(v) \/ ChangePermission(v)
        \/ \E k \in Doubles : ChangeSetting(k, v)
        \/ \E k \in Shown : ChangeUnheard(k, v)
    \/ \E w \in sent :
        \/ \E m \in {"carrier", "origin"}, yes \in BOOLEAN : WriteAnswers(w, m, yes)
        \/ SettingLands(w) \/ HotRefused(w) \/ HotUnwritten(w) \/ ChoiceFails(w) \/ SwitchedBack(w) \/ ChoiceLands(w)
        \/ \E runs \in BOOLEAN : HotSwitched(w, runs)

SettingsSpec == SettingsInit /\ [][SettingsNext]_settingVars

-----------------------------------------------------------------------------
(* Properties.                                                               *)

SettingsTypeOK ==
    /\ here \in Convs
    /\ \A c \in Convs, k \in Doubles \cup {"cli"} : stored[c][k] \in [carrier : Values, origin : Values]
    /\ \A k \in Shown : ui[k].v \in Values \cup {Unset} /\ ui[k].note \in {"none", "partial", "failed"}
    /\ local.key \in Convs /\ local.choice \in Values \cup {Unset}
    /\ \A w \in sent : w.v \in Values /\ w.before \in Values /\ 
        (w.origin = "none" <=> w.conv \notin Abroad \/ w.kind = "permission")
    /\ ~(local.pending /\ local.hide)

(* A control whose writes did not overlap, and always had a client to go through, says
   what is true: what it shows was written down on every machine; on one of the two when
   it says so; and when it says it failed it is back at what a machine has.   *)
Machines == IF here \in Abroad THEN {"carrier", "origin"} ELSE {"carrier"}
NoteIsTrue == \A k \in Doubles :
    ui[k].of = here /\ ui[k].lone /\ SameSent(k) = {} =>
        LET having == {m \in Machines : stored[here][k][m] = ui[k].v}
        IN  IF ui[k].note = "none" THEN having = Machines ELSE having # {}

(* "连续几次选择只认最后一次": of the choices under way at most the last one counts, and
   it is one of the conversation shown.                                       *)
LastChoiceCounts ==
    LET live == {w \in sent : w.kind = "cli" /\ w.live}
    IN  Cardinality(live) <= 1 /\ \A w \in live : w.conv = here

(* "否则 CLI 在跑的与会话记着的是两个模型": with nothing under way the process runs what a
   machine wrote down, or takes it with its next turn: a switch whose writing failed is
   undone. (Of a conversation one machine has, and as long as no two choices overlapped.) *)
RunsWhatIsStored == \A c \in Convs \ Abroad :
    (\A w \in sent : w.conv # c) /\ ~cliRun[c].crossed =>
        cliRun[c].fresh \/ cliRun[c].v = stored[c]["cli"].carrier

(* The settings: overlapping changes end on the last choice, and what is
   said of them is true. *)
SettingsInv ==
    /\ SettingsTypeOK
    /\ NoteIsTrue
    /\ LastChoiceCounts
    /\ RunsWhatIsStored

-----------------------------------------------------------------------------
(* What the repository says, or a user would expect, and the code does not       *)
(* keep: TLC finds each of these violated (README, section 8).                   *)

(* "挂起": a choice is said to wait for the next turn while the turn that runs has another. *)
PendingIsTrue == Local.pending /\ Active(here) => turns[here] # Local.choice

(* "不做「看起来成功了」的乐观留存": what a control shows at rest without a note is on a
   machine. A change made while the view has no client is shown, and dropped.  *)
ShownIsWritten == \A k \in Doubles :
    ui[k].of = here /\ ui[k].note = "none" /\ SameSent(k) = {} =>
        \E m \in Machines : stored[here][k][m] = ui[k].v

(* "会话级状态必须随 (did, sid) 变化重置": what is shown as chosen was chosen here. *)
OwnSettings == \A k \in Shown : ui[k].v # Unset => ui[k].of = here

(* The same when choices overlap: the last that was written down wins.         *)
OverlapsRunWhatIsStored == \A c \in Convs \ Abroad :
    (\A w \in sent : w.conv # c) => cliRun[c].fresh \/ cliRun[c].v = stored[c]["cli"].carrier

(* What a conversation shows as its own choice is not changed by an answer another one
   waited for.                                                                *)
ChoiceStays == [][here' = here /\ Local.choice # Unset /\ Local'.choice = Unset => FALSE]_settingVars
=============================================================================
