------------------------------ MODULE OrgTargets ------------------------------
(* The machines an agent may run on, in the order they are tried (frontend
   pages/org/OrgExecTargetSection, lib/execOrder): moving one by a button or by dragging, the
   order the server makes of what the page sends, and the block of skills of the one that is
   unfolded, with the catalogue its machine is asked for (lib/skillCatalog).               *)
EXTENDS Integers, FiniteSets, Sequences, SequencesExt

CONSTANTS Tiers,         \* targets there can be
          Pinned,        \* those a browser may not move (no_device, or no backend)
          Nameless,      \* those whose row names no backend
          Machines, Skills,
          TargetStarts   \* bound: the targets at first, what is authorised, what may happen

ASSUME TiersAssumption == Nameless \subseteq Pinned /\ Pinned \subseteq Tiers

VARIABLES acct,    \* (external) the account's: order, skills of each target, its machine
          packs,   \* (external) what the machines know of each skill
          seen,    \* props.targets: what the page has read of the account's
          fresh,   \* reload: the newest read
          missed,  \* that the last read failed
          calls,   \* requests in flight
          spoken,  \* announcement
          block,   \* SkillsEditor and useSkillCatalog: the target unfolded, attempt, answer
          ask,     \* useSkillCatalog: the request of the newest effect
          members, \* (history) the targets created and not removed; steady: none ever was
          tleft    \* what is left of the bounds

targetVars == <<acct, packs, seen, fresh, missed, calls, spoken, block, ask, members, tleft>>

Buys(b) == tleft[b] > 0 /\ tleft' = [tleft EXCEPT ![b] = @ - 1]

NoTier == "none"
NoMachine == "none"
States == {"inherit", "on", "off"}
Known == {"unknown", "installable", "installed"}
NoPacks == [s \in Skills |-> "unknown"]
NoRead == [on |-> FALSE, served |-> FALSE, answer |-> <<>>]
Asleep == [on |-> FALSE, served |-> FALSE, packs |-> NoPacks]
Unanswered == [key |-> <<>>, outcome |-> "none", packs |-> NoPacks]
Folded == [tier |-> NoTier, attempt |-> 0, answer |-> Unanswered]

Place(ts, t) == CHOOSE i \in DOMAIN ts : ts[i] = t
Reading == [NoRead EXCEPT !.on = TRUE]

TargetInit ==
    \E s \in TargetStarts :
        /\ acct = [tiers |-> s.tiers, machine |-> s.machine, skills |-> s.skills]
        /\ packs = s.packs /\ seen = acct /\ fresh = NoRead /\ missed = FALSE
        /\ calls = <<>> /\ spoken = "" /\ block = Folded /\ ask = Asleep
        /\ members = [now |-> ToSet(s.tiers), first |-> s.tiers, steady |-> TRUE]
        /\ tleft = s.left

-----------------------------------------------------------------------------
(* The order.                                                                *)

Movable(ts) == {i \in DOMAIN ts : ts[i] \notin Pinned}

\* The place one may move to: the next that may be moved, or its own where there is none.
NextAnywhere(ts, i, dir) == IF i + dir \in DOMAIN ts THEN i + dir ELSE i
NextPlace(ts, i, dir) ==
    LET ahead == {j \in Movable(ts) : (j - i) * dir > 0}
    IN  IF i \notin Movable(ts) \/ ahead = {} THEN i
        ELSE CHOOSE j \in ahead : \A k \in ahead : (k - j) * dir >= 0

Swapped(ts, i, j) == [ts EXCEPT ![i] = ts[j], ![j] = ts[i]]

\* stepTier: one place, leaving those that may not be moved where they are.
Stepped(m, dir) ==
    LET j == NextPlace(m.tiers, m.at, dir)
    IN  [tiers |-> Swapped(m.tiers, m.at, j), at |-> j]

\* dragTier: step after step.
Dragged(ts, from, to) ==
    LET dir == IF to > from THEN 1 ELSE -1
    IN  FoldLeft(LAMBDA m, k : IF (to - m.at) * dir > 0 THEN Stepped(m, dir) ELSE m,
                 [tiers |-> ts, at |-> from], [k \in DOMAIN ts |-> k])

Named(ts) == SelectSeq(ts, LAMBDA t : t \notin Nameless)

OrderCall(m) == [what |-> "order", tier |-> NoTier, ids |-> Named(m.tiers), landed |-> m.at,
                 skills |-> NoPacks, done |-> FALSE]
Call(what, t, sk) == [what |-> what, tier |-> t, ids |-> <<>>, landed |-> 0, skills |-> sk,
                      done |-> FALSE]

Commit(m) ==
    /\ m.tiers # seen.tiers
    /\ calls' = Append(calls, OrderCall(m))
    /\ UNCHANGED <<acct, packs, seen, fresh, missed, spoken, block, ask, members>>

MoveButton(i, dir) == Buys("move") /\ Commit(Stepped([tiers |-> seen.tiers, at |-> i], dir))

\* A row that may not be moved is no place to drop one on either.
DragEnd(i, j) ==
    /\ i # j /\ {i, j} \subseteq Movable(seen.tiers)
    /\ Buys("move") /\ Commit(Dragged(seen.tiers, i, j))

\* orderExecTargets: unknown names are ignored, those not named come last in their order, and
\* rows without a name stay where they are.
OrderedLoose(ts, ids) ==
    SelectSeq(ids, LAMBDA t : t \in ToSet(ts)) \o SelectSeq(ts, LAMBDA t : t \notin ToSet(ids))
OrderedNamed(ts, ids) == SelectSeq(ids, LAMBDA t : t \in ToSet(ts))
Ordered(ts, ids) ==
    LET named == SelectSeq(ids, LAMBDA t : t \in ToSet(ts))
        rest  == SelectSeq(Named(ts), LAMBDA t : t \notin ToSet(ids))
        all   == named \o rest
    IN  [i \in DOMAIN ts |->
            IF ts[i] \in Nameless THEN ts[i]
            ELSE all[Cardinality({j \in 1..i : ts[j] \notin Nameless})]]

\* create, remove and changeSkills of the page.
AddTier(t) ==
    /\ t \notin ToSet(seen.tiers) /\ t \notin members.now \cup Pinned /\ Buys("add")
    /\ calls' = Append(calls, Call("add", t, NoPacks))
    /\ UNCHANGED <<acct, packs, seen, fresh, missed, spoken, block, ask, members>>

RemoveTier(t) ==
    /\ t \in ToSet(seen.tiers) /\ Buys("remove")
    /\ calls' = Append(calls, Call("remove", t, NoPacks))
    /\ UNCHANGED <<acct, packs, seen, fresh, missed, spoken, block, ask, members>>

\* The account as a request leaves it.
Served(c) ==
    CASE c.what = "order" -> [acct EXCEPT !.tiers = Ordered(@, c.ids)]
      [] c.what = "skills" -> [acct EXCEPT !.skills[c.tier] = c.skills]
      [] c.what = "add" -> [acct EXCEPT !.tiers = IF c.tier \in ToSet(@) THEN @
                                                  ELSE Append(@, c.tier)]
      [] OTHER -> [acct EXCEPT !.tiers = Remove(@, c.tier)]

Counted(c) ==
    members' = CASE c.what = "add" -> [members EXCEPT !.now = @ \cup {c.tier}, !.steady = FALSE]
                 [] c.what = "remove" -> [members EXCEPT !.now = @ \ {c.tier}, !.steady = FALSE]
                 [] OTHER -> members

CallServed(k) ==
    /\ ~calls[k].done
    /\ acct' = Served(calls[k]) /\ Counted(calls[k])
    /\ calls' = [calls EXCEPT ![k].done = TRUE]
    /\ UNCHANGED <<packs, seen, fresh, missed, spoken, block, ask, tleft>>

CallDoneUnread(k) ==
    /\ calls[k].done
    /\ calls' = RemoveAt(calls, k)
    /\ spoken' = IF calls[k].what = "order" THEN "moved" ELSE spoken
    /\ UNCHANGED <<acct, packs, seen, fresh, missed, block, ask, members, tleft>>

\* A request that went through is said where it moved one, and the chart is read again.
CallDone(k) ==
    /\ calls[k].done
    /\ calls' = RemoveAt(calls, k)
    /\ spoken' = IF calls[k].what = "order" THEN "moved" ELSE spoken
    /\ fresh' = Reading
    /\ UNCHANGED <<acct, packs, seen, missed, block, ask, members, tleft>>

\* A request that fails may have been served; of that only the account channel tells.
CallFails(k) ==
    /\ Buys("fault")
    /\ calls' = RemoveAt(calls, k)
    /\ fresh' = IF calls[k].done THEN Reading ELSE fresh
    /\ spoken' = IF calls[k].what = "order" THEN "orderFailed" ELSE spoken
    /\ UNCHANGED <<acct, packs, seen, missed, block, ask, members>>

\* Another page moves one or adds one, or a target is given another machine; the account
\* channel makes the page read again.
Elsewhere ==
    /\ Buys("elsewhere")
    /\ \/ \E i \in DOMAIN acct.tiers :
              /\ acct' = [acct EXCEPT !.tiers = Stepped([tiers |-> @, at |-> i], 1).tiers]
              /\ UNCHANGED members
       \/ \E t \in Tiers \ (members.now \cup Pinned) :
              /\ acct' = [acct EXCEPT !.tiers = Append(@, t)]
              /\ members' = [members EXCEPT !.now = @ \cup {t}, !.steady = FALSE]
       \/ \E t \in ToSet(acct.tiers) \ Pinned, m \in Machines \cup {NoMachine} :
              acct' = [acct EXCEPT !.machine[t] = m] /\ UNCHANGED members
    /\ acct' # acct
    /\ fresh' = Reading
    /\ UNCHANGED <<packs, seen, missed, calls, spoken, block, ask>>

-----------------------------------------------------------------------------
(* The skills of the target that is unfolded.                                *)

Key(b, at) == <<b.attempt, at.machine[b.tier]>>
Dialable(b, at) == b.tier # NoTier /\ at.machine[b.tier] # NoMachine

\* The effect of useSkillCatalog: what it asked before is cancelled.
AskingAlways(b, at) == [Asleep EXCEPT !.on = TRUE]
Asking(b, at) == IF Dialable(b, at) THEN [Asleep EXCEPT !.on = TRUE] ELSE Asleep

\* The answer counts as long as it is the answer of this round.
SettledAlways == block.answer
Settled == IF block.answer.key = Key(block, seen) THEN block.answer ELSE Unanswered

Status == IF ~Dialable(block, seen) THEN "not-dialable"
          ELSE IF Settled.outcome = "none" THEN "loading" ELSE Settled.outcome

Catalog == IF Status = "ok" THEN Settled.packs ELSE NoPacks

Authorized == {s \in Skills : seen.skills[block.tier][s] # "inherit"}
Orphans == {s \in Authorized : Catalog[s] = "unknown"}

Unfold(t) ==
    /\ t \in ToSet(seen.tiers) \ Nameless /\ block.tier = NoTier /\ Buys("unfold")
    /\ block' = [Folded EXCEPT !.tier = t]
    /\ ask' = Asking(block', seen)
    /\ UNCHANGED <<acct, packs, seen, fresh, missed, calls, spoken, members>>

AskServed ==
    /\ ask.on /\ ~ask.served
    /\ ask' = [ask EXCEPT !.served = TRUE, !.packs = packs[seen.machine[block.tier]]]
    /\ UNCHANGED <<acct, packs, seen, fresh, missed, calls, spoken, block, members, tleft>>

\* A machine may know no catalogue, or not now.
AskAnswered ==
    /\ ask.served
    /\ \E o \in {"ok", "unsupported"} :
           block' = [block EXCEPT !.answer = [key |-> Key(block, seen), outcome |-> o,
                                              packs |-> ask.packs]]
    /\ ask' = Asleep
    /\ UNCHANGED <<acct, packs, seen, fresh, missed, calls, spoken, members, tleft>>

AskFailsQuietly ==
    /\ ask.on /\ Buys("fault")
    /\ ask' = Asleep
    /\ UNCHANGED <<acct, packs, seen, fresh, missed, calls, spoken, block, members>>

AskFails ==
    /\ ask.on /\ Buys("fault")
    /\ block' = [block EXCEPT !.answer = [key |-> Key(block, seen), outcome |-> "unreachable",
                                          packs |-> NoPacks]]
    /\ ask' = Asleep
    /\ UNCHANGED <<acct, packs, seen, fresh, missed, calls, spoken, members>>

RetryAsk ==
    /\ Status = "unreachable" /\ Buys("retry")
    /\ block' = [block EXCEPT !.attempt = @ + 1]
    /\ ask' = Asking(block', seen)
    /\ UNCHANGED <<acct, packs, seen, fresh, missed, calls, spoken, members>>

\* Where a skill can be set: in its row of the catalogue unless it is not installed, and out
\* of the catalogue it can only be taken away.
Settable(s, v) == Catalog[s] = "installed" \/ (s \in Orphans /\ v = "inherit")

\* setSkillTriState: the whole of what is authorised here, as this page has it.
SetSkill(s, v) ==
    /\ block.tier # NoTier /\ Settable(s, v) /\ v # seen.skills[block.tier][s] /\ Buys("skill")
    /\ calls' = Append(calls, Call("skills", block.tier,
                                   [seen.skills[block.tier] EXCEPT ![s] = v]))
    /\ UNCHANGED <<acct, packs, seen, fresh, missed, spoken, block, ask, members>>

PacksChange ==
    /\ Buys("packs")
    /\ \E m \in Machines, s \in Skills, k \in Known : packs' = [packs EXCEPT ![m][s] = k]
    /\ packs' # packs
    /\ UNCHANGED <<acct, seen, fresh, missed, calls, spoken, block, ask, members>>

-----------------------------------------------------------------------------
(* Reading again.                                                            *)

ChartServed ==
    /\ fresh.on /\ ~fresh.served
    /\ fresh' = [fresh EXCEPT !.served = TRUE, !.answer = <<acct>>]
    /\ UNCHANGED <<acct, packs, seen, missed, calls, spoken, block, ask, members, tleft>>

\* The block goes with its target; another machine is another catalogue.
ChartArrives ==
    /\ fresh.served
    /\ LET at == fresh.answer[1]
       IN  /\ seen' = at
           /\ IF block.tier \notin ToSet(at.tiers) THEN block' = Folded /\ ask' = Asleep
              ELSE /\ block' = block
                   /\ ask' = IF Key(block, at) = Key(block, seen) THEN ask ELSE Asking(block, at)
    /\ missed' = FALSE /\ fresh' = NoRead
    /\ UNCHANGED <<acct, packs, calls, spoken, members, tleft>>

ChartFails ==
    /\ fresh.on /\ Buys("fault")
    /\ missed' = TRUE /\ fresh' = NoRead
    /\ UNCHANGED <<acct, packs, seen, calls, spoken, block, ask, members>>

TargetNext ==
    \/ \E i \in DOMAIN seen.tiers, dir \in {-1, 1} : MoveButton(i, dir)
    \/ \E i, j \in DOMAIN seen.tiers : DragEnd(i, j)
    \/ \E t \in Tiers : AddTier(t) \/ RemoveTier(t) \/ Unfold(t)
    \/ \E k \in DOMAIN calls : CallServed(k) \/ CallDone(k) \/ CallFails(k)
    \/ Elsewhere \/ PacksChange
    \/ AskServed \/ AskAnswered \/ AskFails \/ RetryAsk
    \/ \E s \in Skills, v \in States : SetSkill(s, v)
    \/ ChartServed \/ ChartArrives \/ ChartFails

\* Requests are answered in the end.
TargetFairness ==
    /\ WF_targetVars(\E k \in DOMAIN calls : CallServed(k) \/ CallDone(k))
    /\ WF_targetVars(ChartServed \/ ChartArrives)
    /\ WF_targetVars(AskServed \/ AskAnswered)

TargetSpec == TargetInit /\ [][TargetNext]_targetVars /\ TargetFairness

-----------------------------------------------------------------------------
(* Properties.                                                               *)

\* The variables stay in their types, and a machine is asked only for a block that is
\* unfolded on a target that has one.
TargetsTypeOK ==
    /\ ToSet(acct.tiers) \cup ToSet(seen.tiers) \subseteq Tiers
    /\ acct.skills \in [Tiers -> [Skills -> States]] /\ seen.skills \in [Tiers -> [Skills -> States]]
    /\ packs \in [Machines -> [Skills -> Known]]
    /\ \A k \in DOMAIN calls : calls[k].what \in {"order", "add", "remove", "skills"}
    /\ spoken \in {"", "moved", "orderFailed"} /\ missed \in BOOLEAN
    /\ block.tier \in ToSet(seen.tiers) \cup {NoTier}
    /\ ask.on => Dialable(block, seen)

\* However far one is dragged, it alone moves: it takes the place it was dropped on, the
\* others keep their order, and those that may not be moved their places
\* (OrgExecTargetSection dragTier, execOrder reorderTargets).
DragMovesOne ==
    LET ts == seen.tiers IN
    \A i, j \in Movable(ts) :
        LET d == Dragged(ts, i, j)
        IN  /\ d.at = j /\ d.tiers[j] = ts[i]
            /\ Remove(SelectSeq(d.tiers, LAMBDA t : t \notin Pinned), ts[i])
                   = Remove(SelectSeq(ts, LAMBDA t : t \notin Pinned), ts[i])
            /\ \A p \in DOMAIN ts \ Movable(ts) : d.tiers[p] = ts[p]

\* Whatever orders pages send from lists that are no longer the account's, as long as no
\* target comes or goes the ones that may not be moved are where they were at first
\* (execOrder reorderTargets with the server's orderExecTargets).
PinnedStayPut ==
    members.steady => \A i \in DOMAIN members.first :
                          members.first[i] \in Pinned => acct.tiers[i] = members.first[i]

\* No order a page sends takes away a target that came meanwhile, or brings back or doubles
\* one (the server's orderExecTargets).
OrderLosesNone ==
    /\ ToSet(acct.tiers) = members.now
    /\ Len(acct.tiers) = Cardinality(members.now)

\* The catalogue on the page is the one its machine gave, also after the target was given
\* another machine while the block was unfolded or a request under way (useSkillCatalog).
CatalogOfItsMachine ==
    Status = "ok" => block.answer.key[2] = seen.machine[block.tier]

\* The list ends as the account has it, unless reading it failed (commit and its reload).
ListSettles == <>[](missed \/ seen.tiers = acct.tiers)

\* A catalogue that is asked for does not load for ever (useSkillCatalog).
CatalogEnds == (Status = "loading") ~> (Status # "loading")

(* The targets: dragging moves one row, and reordering loses none and leaves
   the pinned ones. *)
TargetsInv ==
    /\ TargetsTypeOK
    /\ DragMovesOne
    /\ PinnedStayPut
    /\ OrderLosesNone
    /\ CatalogOfItsMachine

-----------------------------------------------------------------------------
(* What the repository says, or a user would expect, and the code does not       *)
(* keep: TLC finds each of these violated (README, section 8).                   *)

\* What is authorised can always be taken away, also when its pack is gone from the machine
\* (SkillsEditor).
AuthorizedCanGo ==
    block.tier # NoTier => \A s \in Authorized : Settable(s, "inherit")
=============================================================================
