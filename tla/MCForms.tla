------------------------------- MODULE MCForms -------------------------------
(* Instances of the forms of the console: the board, forwarded ports, the draft
   of a conversation, signing in, the account, and what an agent waits for.
   They share no state, so that one run checks them side by side: part says which
   of them moves, among Parts.                                                 *)
EXTENDS Board, Forwarding, Draft, SignIn, AccountPage, Decisions

CONSTANT Parts

VARIABLE part

mcVars == <<part, boardVars, forwardVars, draftVars, signVars, accountVars, decisionVars>>

MCListed == <<"a","b","c">>
MCRank == [t \in Tasks |-> CASE t = "c" -> 1 [] t = "b" -> 2 [] t = "a" -> 3 [] OTHER -> 4]
BoardLeft(q,f,m,d,l,s,e,o,x) == [query |-> q, fault |-> f, move |-> m, delete |-> d,
      label |-> l, save |-> s, elsewhere |-> e, form |-> o, edit |-> x]
BoardOne == [t \in Tasks |-> "todo"]
BoardTwo == [t \in Tasks |-> IF t = "b" THEN "done" ELSE "todo"]
BoardStart(c, e, en, m) == [stage |-> c, exec |-> e, engines |-> en, moves |-> m]
MCBoardStarts == {BoardStart(BoardOne,"m","read",BoardLeft(0,0,2,0,0,0,0,0,0)),
  BoardStart(BoardOne,"m","read",BoardLeft(1,0,1,0,1,0,0,0,0)),
  BoardStart(BoardTwo,"m","read",BoardLeft(1,0,1,0,0,0,1,0,0)),
  BoardStart(BoardOne,"m","read",BoardLeft(2,1,0,0,1,0,0,0,0)),
  BoardStart(BoardTwo,"gone","unread",BoardLeft(0,1,0,0,0,1,0,1,1)),
  BoardStart(BoardOne,"m","unread",BoardLeft(0,1,0,0,0,1,0,2,1)),
  BoardStart(BoardOne,"m","read",BoardLeft(0,0,0,1,0,1,0,1,1))}

ForwardingLeft(f,e,r,p,c,o) == [fault |-> f, elsewhere |-> e, relay |-> r, presence |-> p,
      click |-> c, open |-> o]
ForwardingStart(d, off, re, m) == [declared |-> d, offline |-> off, reach |-> re, moves |-> m]
ForwardingD1 == [p \in Ports |-> IF p = 1 THEN "on" ELSE "none"]
ForwardingD2 == [p \in Ports |-> IF p = 1 THEN "off" ELSE "on"]
MCForwardStarts == {ForwardingStart(ForwardingD1, FALSE, TRUE, ForwardingLeft(1,0,0,0,3,0)),
  ForwardingStart(ForwardingD2, FALSE, TRUE, ForwardingLeft(0,1,0,0,1,2)),
  ForwardingStart(ForwardingD1, TRUE, TRUE, ForwardingLeft(0,0,2,2,2,0)),
  ForwardingStart(ForwardingD2, FALSE, FALSE, ForwardingLeft(1,1,1,1,1,1))}

DraftLeft(p,w,f,d,k,s,r,l) == [presence |-> p, wish |-> w, fault |-> f, drop |-> d,
      pick |-> k, send |-> s, refuse |-> r, leave |-> l]
MCDraftStarts == {[online |-> Carriers, left |-> DraftLeft(1,1,0,0,1,1,0,0)],
 [online |-> {"p"}, left |-> DraftLeft(0,0,1,0,1,1,1,1)],
 [online |-> {"p"}, left |-> DraftLeft(1,0,1,0,1,1,0,0)],
 [online |-> Carriers, left |-> DraftLeft(0,2,1,0,0,1,0,0)],
 [online |-> {"m"}, left |-> DraftLeft(1,0,2,1,0,2,1,0)],
 [online |-> {"p"}, left |-> DraftLeft(0,0,2,0,1,2,1,0)]}

SignInLeft(b,f,s,w,y,d,e) == [tab |-> b, fault |-> f, sign |-> s, switch |-> w, type |-> y,
      decide |-> d, expire |-> e]
MCSignInStarts == {[cookie |-> "A", left |-> SignInLeft(2,0,1,0,0,2,0)],
 [cookie |-> "none", left |-> SignInLeft(1,2,2,0,0,1,1)],
 [cookie |-> "A", left |-> SignInLeft(0,2,1,1,1,2,1)],
 [cookie |-> "A", left |-> SignInLeft(1,1,1,1,1,1,1)]}

AccountPageLeft(f,r,a,y,d,o,e) == [fault |-> f, retry |-> r, add |-> a, try |-> y,
      delete |-> d, out |-> o, elsewhere |-> e]
MCAccountStarts == {[keys |-> {1,2}, signIns |-> {"here","there"},
      left |-> AccountPageLeft(1,1,1,2,1,0,0)],
 [keys |-> {1}, signIns |-> {"here","there"}, left |-> AccountPageLeft(1,1,0,2,0,2,1)],
 [keys |-> {1}, signIns |-> {"here","there"}, left |-> AccountPageLeft(2,0,1,2,1,0,1)],
 [keys |-> {1,2,3}, signIns |-> {"here"}, left |-> AccountPageLeft(1,1,1,2,1,0,0)]}

DecisionsLeft(b,e,t,s,a,r,f) == [block |-> b, elsewhere |-> e, turn |-> t, switch |-> s,
      answer |-> a, retry |-> r, fault |-> f]
MCTalkOf == [r \in Requests |-> IF r = "z" THEN "B" ELSE "A"]
MCDecisionStarts == {[waiting |-> {"x"}, here |-> "A", cards |-> {},
      left |-> DecisionsLeft(1,1,0,0,1,1,1)],
 [waiting |-> {"x"}, here |-> "A", cards |-> {"x"}, left |-> DecisionsLeft(1,0,1,0,2,0,1)],
 [waiting |-> {"x","z"}, here |-> "A", cards |-> {}, left |-> DecisionsLeft(0,1,0,2,1,0,1)]}

In(p) == part = p /\ UNCHANGED part

Some(S) == CHOOSE s \in S : TRUE

\* The parts at rest stay in one initial state.
MCInit ==
    /\ part \in Parts
    /\ BoardInit
    /\ ForwardInit
    /\ DraftInit
    /\ SignInInit
    /\ AccountInit
    /\ DecisionInit
    /\ part # "board" => bmoves = Some(BoardStarts).moves
    /\ part # "forwards" => fmoves = Some(ForwardStarts).moves
    /\ part # "draft" => dleft = Some(DraftStarts).left
    /\ part # "signin" => sleft = Some(SignInStarts).left
    /\ part # "account" => aleft.add = 0
    /\ part # "decisions" => decLeft = Some(DecisionStarts).left

MCNext ==
    \/ In("board") /\ BoardNext /\ UNCHANGED <<forwardVars, draftVars, signVars, accountVars,
          decisionVars>>
    \/ In("forwards") /\ ForwardNext /\ UNCHANGED <<boardVars, draftVars, signVars,
          accountVars, decisionVars>>
    \/ In("draft") /\ DraftNext /\ UNCHANGED <<boardVars, forwardVars, signVars, accountVars,
          decisionVars>>
    \/ In("signin") /\ SignInNext /\ UNCHANGED <<boardVars, forwardVars, draftVars,
          accountVars, decisionVars>>
    \/ In("account") /\ AccountNext /\ UNCHANGED <<boardVars, forwardVars, draftVars,
          signVars, decisionVars>>
    \/ In("decisions") /\ DecisionNext /\ UNCHANGED <<boardVars, forwardVars, draftVars,
          signVars, accountVars>>

\* The fairness of the modules, for the part that moves.
MCFair ==
    /\ WF_boardVars(In("board") /\ \E a \in asks : Served(a) \/ BoardLands(a))
    /\ WF_forwardVars(In("forwards") /\ \E q \in asked : Heard(q) \/ Unheard(q))
    /\ WF_forwardVars(In("forwards") /\ \E q \in asked : LinkArrives(q) \/ LinkRefused(q))
    /\ WF_draftVars(In("draft") /\ PlanLands)
    /\ WF_draftVars(In("draft")
          /\ (TicketEnds \/ LeaseEnds \/ AskMachine \/ MachineServes \/ RunEnds \/ AbortEnds
          \/ SaveEnds \/ PinEnds \/ Started))
    /\ \A r \in Readers : WF_signVars(In("signin") /\ MeServed(r))
          /\ WF_signVars(In("signin") /\ MeArrives(r))
    /\ WF_signVars(In("signin") /\ Turned)
    /\ WF_signVars(In("signin") /\ SentToExpired)
    /\ WF_signVars(In("signin") /\ Expires)
    /\ WF_signVars(In("signin") /\ CallServed)
    /\ WF_signVars(In("signin") /\ (PendingArrives \/ CallFails \/ Decided))
    /\ \A k \in Slots : WF_accountVars(In("account") /\ ReadServed(k))
          /\ WF_accountVars(In("account") /\ SignInsArrive(k))
    /\ WF_accountVars(In("account") /\ KeysArrive)
    /\ WF_accountVars(In("account") /\ Authenticated)
    /\ WF_accountVars(In("account") /\ KeyRegistered)
    /\ WF_accountVars(In("account") /\ (AddLands \/ AddFails))
    /\ WF_accountVars(In("account") /\ DeleteServed)
    /\ WF_accountVars(In("account") /\ (DeleteLands \/ DeleteFails))
    /\ WF_accountVars(In("account") /\ OthersRevoked)
    /\ WF_accountVars(In("account") /\ SignedOut)
    /\ WF_decisionVars(In("decisions") /\ Links)
    /\ WF_decisionVars(In("decisions") /\ \E k \in DOMAIN listAsks : AskServed(k)
          \/ AskArrives(k))
    /\ \A r \in Requests :
       WF_decisionVars(In("decisions") /\ (SendServed(r) \/ SendFails(r)))
             /\ WF_decisionVars(In("decisions") /\ CardServed(r))

MCSpec == MCInit /\ [][MCNext]_mcVars /\ MCFair

-----------------------------------------------------------------------------
\* Whoever signs in and whoever looks after the account sees what holds for it: an
\* expired authorization is not reported as approved, and the passkeys listed are the
\* account's (two pages of one component).
AccessInv == SignInInv /\ AccountInv

(* The liveness properties, each where its part moves.                         *)

\* What the part that moves waits for, up to three things at a time: SearchEnds, BlankTabEnds,
\* StartEnds, PlanArrives, DecisionEnds, RevokedIsRead, DialogsEnd and AnswerIsNotLost in one
\* formula, as a formula for each of them multiplies TLC's work on the graph.
MCRequest == <<"x","y","z">>
Waits(k) == \/ part = "board" /\ k = 1 /\ loadedKey # query
            \/ part = "forwards" /\ k \in tabs
            \/ part = "draft" /\ ((k = 1 /\ starting) \/ (k = 2 /\ ~Settled))
            \/ part = "signin" /\ k = 1 /\ submitting
            \/ part = "account" /\ \/ k = 1 /\ out.busy = "done"
                                   \/ k = 2 /\ add.busy # "no"
                                   \/ k = 3 /\ del.busy # "no"
            \/ part = "decisions" /\ jobs[MCRequest[k]].stage # "idle"
Ended(k) == \/ part = "board" /\ loadedKey = query
            \/ part = "forwards" /\ k \notin tabs
            \/ part = "draft" /\ IF k = 1 THEN ~starting ELSE Settled \/ ~wish.there
            \/ part = "signin" /\ ~submitting
            \/ part = "account" /\ CASE k = 1 -> signError \/ out.failed \/ (reads["revoked"].on /\ out = Closed)
                                     [] k = 2 -> add.busy = "no"
                                     [] k = 3 -> del.busy = "no"
            \/ part = "decisions" /\ (MCRequest[k] \in settled \cup {x.what : x \in toasts} \/ mixedLists)
WaitingEnds == \A k \in 1..3 : Waits(k) ~> Ended(k)

\* A request that waits is shown.
MCWaitingIsSeen == part = "decisions" => WaitingIsSeen

(* Every search, start, plan, decision and dialog ends and no text, code or
   answer is lost on the way; the board never goes back, a failed start is
   aborted, and one joins whom the page showed. *)
FormsKeepOn ==
    /\ WaitingEnds
    /\ MCWaitingIsSeen
    /\ BoardNeverGoesBack
    /\ FailedPiIsAborted
    /\ TextComesBack
    /\ JoinsWhoWasShown
    /\ CodeSurvives
=============================================================================
