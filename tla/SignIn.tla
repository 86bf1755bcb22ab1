------------------------------- MODULE SignIn -------------------------------
(* Signing in and letting a machine in (frontend pages/Login, pages/Device, RequireAuth,
   useMe, DeviceApproval, lib/signOut). The session is a cookie of the browser, shared by
   its tabs; the token that a write must carry is of this tab and is taken from each answer
   of /v1/auth/me, of which the gate, the account line and the avatar ask one each. The
   person came with the code of a machine.                                      *)
EXTENDS Integers, FiniteSets

CONSTANTS People,       \* accounts
          SignInStarts  \* bound: who is signed in at first and what may happen in a run

VARIABLES cookie,   \* whose session the browser holds
          csrf,     \* csrfToken: of whose session
          place,    \* the page, with the code it carries on; err: what Login says
          me,       \* useMe of the three readers
          ceremony, \* passkeyPending and where it is
          grant,    \* (external) the machine's request: its state and the account it joined
          call,     \* pending, approve or deny in flight
          info, failure, submitting,  \* of pages/Device
          clock,    \* the countdown of DeviceApproval; over: the request has run out
          unheard,  \* (history) an answer of approve was lost, or left before it came
          sleft     \* what is left of the bounds

signVars == <<cookie, csrf, place, me, ceremony, grant, call, info, failure, submitting, clock,
              unheard, sleft>>
deviceState == <<call, info, failure, submitting, clock>>
pageState == <<place, me, ceremony, deviceState>>

Anyone == "none"
Give(b) == sleft[b] > 0 /\ sleft' = [sleft EXCEPT ![b] = @ - 1]

Readers == {"gate", "line", "avatar"}
Asleep == [r \in Readers |-> [at |-> "off", of |-> Anyone]]
NoCall == [what |-> "none", served |-> FALSE, ok |-> FALSE]
Guarded == {"code", "approval"}
Logins == {"login", "bare login"}   \* with and without the address to go back to

\* A page is opened or loaded anew: everything of the tab but its token starts over.
Goes(at, carries, err) ==
    /\ place' = [at |-> at, code |-> carries, err |-> err]
    /\ me' = [Asleep EXCEPT !["gate"].at = IF at \in Guarded THEN "asked" ELSE "off"]
    /\ ceremony' = "idle"
    /\ call' = NoCall /\ info' = FALSE /\ failure' = "none" /\ submitting' = FALSE
    /\ clock' = [shown |-> "off", over |-> clock.over]

SignInInit ==
    \E s \in SignInStarts :
        /\ cookie = s.cookie /\ csrf = Anyone
        /\ place = [at |-> "code", code |-> TRUE, err |-> "none"]
        /\ me = [Asleep EXCEPT !["gate"].at = "asked"]
        /\ ceremony = "idle"
        /\ grant = [state |-> "pending", of |-> Anyone]
        /\ call = NoCall /\ info = FALSE /\ failure = "none" /\ submitting = FALSE
        /\ clock = [shown |-> "off", over |-> FALSE]
        /\ unheard = FALSE /\ sleft = s.left

-----------------------------------------------------------------------------
(* Who is signed in.                                                         *)

\* Another tab signs out, or in as somebody else.
OtherTab(p) ==
    /\ p # cookie /\ Give("tab")
    /\ cookie' = p
    /\ UNCHANGED <<csrf, pageState, grant, unheard>>

MeServed(r) ==
    /\ me[r].at = "asked"
    /\ me' = [me EXCEPT ![r] = IF cookie = Anyone THEN [at |-> "failed", of |-> Anyone]
                               ELSE [at |-> "served", of |-> cookie]]
    /\ UNCHANGED <<cookie, csrf, place, ceremony, grant, deviceState, unheard, sleft>>

\* The token first, then who it is: what the page writes as soon as it is let in carries it.
MeArrivesBare(r) ==
    /\ me[r].at = "served"
    /\ me' = [me EXCEPT ![r].at = "shown"]
    /\ csrf' = csrf
    /\ UNCHANGED <<cookie, place, ceremony, grant, deviceState, unheard, sleft>>

MeArrives(r) ==
    /\ me[r].at = "served"
    /\ me' = [me EXCEPT ![r].at = "shown"]
    /\ csrf' = me[r].of
    /\ UNCHANGED <<cookie, place, ceremony, grant, deviceState, unheard, sleft>>

\* RequireAuth: whoever is not let in is sent to sign in, and back here afterwards.
Turned ==
    /\ me["gate"].at = "failed" /\ place.at \in Guarded
    /\ Goes("login", place.code, "none")
    /\ UNCHANGED <<cookie, csrf, grant, unheard, sleft>>

LetIn == me["gate"].at = "shown"

\* signOut: the page goes on to sign in whether or not the session ended. switchAccount.
SwitchAccount ==
    /\ place.at = "approval" /\ me["line"].at = "shown" /\ Give("switch")
    /\ cookie' = IF csrf = cookie THEN Anyone ELSE cookie
    /\ Goes("login", TRUE, "none")
    /\ unheard' = (unheard \/ call.what = "approve")
    /\ UNCHANGED <<csrf, grant>>

-----------------------------------------------------------------------------
(* Login.                                                                    *)

BackForgets(err) == Goes(place.at, FALSE, err)
BackToLogin(err) == Goes(place.at, place.code, err)
Onwards == Goes(IF place.at = "login" THEN "code" ELSE "home", place.code, "none")

\* The passkey, once the terms are agreed to: begin, the choice, finish; not twice at a time.
PasskeyBegins ==
    /\ place.at \in Logins /\ ceremony = "idle" /\ Give("sign")
    /\ ceremony' = "begin"
    /\ UNCHANGED <<cookie, csrf, place, me, grant, deviceState, unheard>>

PasskeySteps ==
    /\ ceremony \in {"begin", "choose"}
    /\ \/ /\ ceremony' = IF ceremony = "begin" THEN "choose" ELSE "finish"
          /\ UNCHANGED <<place, me, deviceState, sleft>>
       \/ Give("fault") /\ BackToLogin(IF ceremony = "choose" THEN "cancelled" ELSE "failed")
    /\ UNCHANGED <<cookie, csrf, grant, unheard>>

\* A local address is gone to, where the code is; the failure of a finish that was served
\* leaves the session there.
PasskeyFinishes ==
    /\ ceremony = "finish"
    /\ \/ /\ \E p \in People : cookie' = p
          /\ Onwards /\ UNCHANGED sleft
       \/ /\ Give("fault") /\ cookie' \in People \cup {cookie}
          /\ BackToLogin("failed")
    /\ UNCHANGED <<csrf, grant, unheard>>

\* The page goes to GitHub with the code and comes back signed in, or to a bare Login with an
\* error: the callback that fails sends on neither the code nor where to go back to.
GitHubReturns ==
    /\ place.at \in Logins /\ Give("sign")
    /\ \/ (\E p \in People : cookie' = p) /\ Onwards
       \/ UNCHANGED cookie /\ Goes("bare login", FALSE, "failed")
    /\ UNCHANGED <<csrf, grant, unheard>>

\* Signed in but sent nowhere, the person opens the page for a code by hand.
OpenDevice ==
    /\ place.at = "home"
    /\ Goes("code", FALSE, "none")
    /\ UNCHANGED <<cookie, csrf, grant, unheard, sleft>>

-----------------------------------------------------------------------------
(* The code and the approval.                                                *)

\* loadPending: from the address when the page opens, or typed.
AskPending ==
    /\ place.at = "code" /\ LetIn /\ call = NoCall /\ ~info /\ ~submitting
    /\ IF place.code THEN UNCHANGED sleft ELSE Give("type")
    /\ place' = [place EXCEPT !.code = FALSE]
    /\ call' = [NoCall EXCEPT !.what = "pending"] /\ submitting' = TRUE /\ failure' = "none"
    /\ UNCHANGED <<cookie, csrf, me, ceremony, grant, info, clock, unheard>>

CallServedUnguarded ==
    /\ call.what # "none" /\ ~call.served
    /\ LET good == grant.state = "pending" /\ ~clock.over
               /\ (call.what = "pending" \/ cookie # Anyone)
       IN  /\ call' = [call EXCEPT !.served = TRUE, !.ok = good /\ cookie # Anyone]
           /\ grant' = IF call.what = "pending" \/ ~good THEN grant
                       ELSE [state |-> IF call.what = "approve" THEN "approved" ELSE "denied",
                             of |-> IF call.what = "approve" THEN cookie ELSE Anyone]
    /\ UNCHANGED <<cookie, csrf, place, me, ceremony, info, failure, submitting, clock, unheard, sleft>>

\* The account server. A write needs the token of the session it comes with.
CallServed ==
    /\ call.what # "none" /\ ~call.served
    /\ LET good == grant.state = "pending" /\ ~clock.over
               /\ (call.what = "pending" \/ (cookie # Anyone /\ csrf = cookie))
       IN  /\ call' = [call EXCEPT !.served = TRUE, !.ok = good /\ cookie # Anyone]
           /\ grant' = IF call.what = "pending" \/ ~good THEN grant
                       ELSE [state |-> IF call.what = "approve" THEN "approved" ELSE "denied",
                             of |-> IF call.what = "approve" THEN cookie ELSE Anyone]
    /\ UNCHANGED <<cookie, csrf, place, me, ceremony, info, failure, submitting, clock, unheard, sleft>>

\* What was asked for is shown, with the account it would join and a countdown.
PendingArrives ==
    /\ call.what = "pending" /\ call.served /\ call.ok
    /\ info' = TRUE /\ submitting' = FALSE /\ call' = NoCall
    /\ place' = [place EXCEPT !.at = "approval"]
    /\ me' = [me EXCEPT !["line"].at = "asked", !["avatar"].at = "asked"]
    /\ clock' = [clock EXCEPT !.shown = "runs"]
    /\ UNCHANGED <<cookie, csrf, ceremony, grant, failure, unheard, sleft>>

\* An answer that does not come is a failure of the network to this page.
Said(what) == IF what = "run out" /\ clock.over THEN "expired" ELSE "other"
CallFailsSpinning ==
    /\ call.what # "none"
    /\ \/ call.served /\ ~call.ok /\ failure' = Said("run out") /\ UNCHANGED <<unheard, sleft>>
       \/ /\ Give("fault") /\ failure' = "other"
          /\ unheard' = (unheard \/ (call.what = "approve" /\ call.served /\ call.ok))
    /\ call' = NoCall /\ UNCHANGED submitting
    /\ UNCHANGED <<cookie, csrf, place, me, ceremony, grant, info, clock>>

CallFails ==
    /\ call.what # "none"
    /\ \/ call.served /\ ~call.ok /\ failure' = Said("run out") /\ UNCHANGED <<unheard, sleft>>
       \/ /\ Give("fault") /\ failure' = "other"
          /\ unheard' = (unheard \/ (call.what = "approve" /\ call.served /\ call.ok))
    /\ call' = NoCall /\ submitting' = FALSE
    /\ UNCHANGED <<cookie, csrf, place, me, ceremony, grant, info, clock>>

Decide(what) ==
    /\ place.at = "approval" /\ info /\ ~submitting /\ failure # "expired" /\ Give("decide")
    /\ call' = [NoCall EXCEPT !.what = what] /\ submitting' = TRUE
    /\ UNCHANGED <<cookie, csrf, place, me, ceremony, grant, info, failure, clock, unheard>>

Decided ==
    /\ call.what \in {"approve", "deny"} /\ call.served /\ call.ok
    /\ Goes(IF call.what = "approve" THEN "success" ELSE "denied", FALSE, "none")
    /\ UNCHANGED <<cookie, csrf, grant, unheard, sleft>>

\* The request runs out on the server; the countdown says so once, by the same clock.
RunsOut ==
    /\ ~clock.over /\ Give("expire")
    /\ clock' = [clock EXCEPT !.over = TRUE]
    /\ UNCHANGED <<cookie, csrf, place, me, ceremony, grant, call, info, failure, submitting, unheard>>

ExpiresAnyway ==
    /\ clock.shown = "runs" /\ clock.over /\ place.at = "approval"
    /\ Goes("expired", FALSE, "none")
    /\ UNCHANGED <<cookie, csrf, grant, unheard, sleft>>

\* Not while a decision is in flight: its answer says it.
Expires ==
    /\ clock.shown = "runs" /\ clock.over /\ place.at = "approval"
    /\ IF submitting
       THEN /\ clock' = [clock EXCEPT !.shown = "fired"]
            /\ UNCHANGED <<place, me, ceremony, call, info, failure, submitting>>
       ELSE Goes("expired", FALSE, "none")
    /\ UNCHANGED <<cookie, csrf, grant, unheard, sleft>>

\* isExpired(failure).
SentToExpired ==
    /\ failure = "expired" /\ place.at \in Guarded
    /\ Goes("expired", FALSE, "none")
    /\ UNCHANGED <<cookie, csrf, grant, unheard, sleft>>

SignInNext ==
    \/ \E p \in People \cup {Anyone} : OtherTab(p)
    \/ \E r \in Readers : MeServed(r) \/ MeArrives(r)
    \/ Turned \/ SwitchAccount \/ PasskeyBegins \/ PasskeySteps \/ PasskeyFinishes \/ GitHubReturns
    \/ OpenDevice
    \/ AskPending \/ CallServed \/ PendingArrives \/ CallFails
    \/ Decide("approve") \/ Decide("deny") \/ Decided
    \/ RunsOut \/ Expires \/ SentToExpired

\* Requests are answered and the page follows; no person, other tab or fault is fair.
SignInFair ==
    /\ \A r \in Readers : WF_signVars(MeServed(r)) /\ WF_signVars(MeArrives(r))
    /\ WF_signVars(Turned) /\ WF_signVars(SentToExpired) /\ WF_signVars(Expires)
    /\ WF_signVars(CallServed) /\ WF_signVars(PendingArrives \/ CallFails \/ Decided)

SignInSpec == SignInInit /\ [][SignInNext]_signVars /\ SignInFair

-----------------------------------------------------------------------------
(* Properties.                                                               *)

\* Every variable has its type, and a page that lets in has a token (useMe sets it before
\* it says who is there, so that no first write goes without).
SignInTypeOK ==
    /\ cookie \in People \cup {Anyone} /\ csrf \in People \cup {Anyone}
    /\ place.at \in Guarded \cup Logins \cup {"home", "success", "denied", "expired"}
    /\ ceremony \in {"idle", "begin", "choose", "finish"}
    /\ submitting = (call.what # "none")
    /\ (place.at = "approval") = info
    /\ \A r \in Readers : me[r].at = "shown" => csrf # Anyone

\* A machine joins the account of a person this page was told of, whoever the browser has
\* become meanwhile: a write with the token of another session is refused.
JoinsWhoWasShown ==
    [][grant.state = "pending" /\ grant'.state = "approved"
         => \E r \in Readers : me[r].at = "shown" /\ me[r].of = grant'.of]_signVars

\* The code a person came with is carried through the passkeys that fail, through being
\* turned away and through a change of account, until it was asked for (backToLogin,
\* RequireAuth, signOut(next)). Only a failed return from GitHub, to the bare Login, drops it.
CodeSurvives ==
    [][place'.at = "login" => place'.code = (place.code \/ place.at = "approval")]_signVars

\* The page of an expired request is not shown for a machine that was let in, unless its
\* answer was lost: the countdown gives way to a decision in flight.
ExpiredIsNotApproved == place.at = "expired" /\ grant.state = "approved" => unheard

\* A code asked for or decided on gets an answer on the page: the buttons come back.
DecisionEnds == submitting ~> ~submitting

-----------------------------------------------------------------------------
(* Not so.                                                                   *)

(* Signing in: an expired code is not shown as approved. *)
SignInInv == SignInTypeOK /\ ExpiredIsNotApproved

-----------------------------------------------------------------------------
(* What the repository says, or a user would expect, and the code does not       *)
(* keep: TLC finds each of these violated (README, section 8).                   *)

(* "失败后重试走的是同一件事：带着 next / user_code 重新发起 authorize": a sign-in that failed
   keeps the code. The callback of GitHub comes back without it.               *)
CodeOutlivesFailures ==
    [][place'.at \in Logins => place'.code = (place.code \/ place.at = "approval")]_signVars

\* The account named on the approval is the one the machine joins: the line and the avatar
\* ask separately, and the token is of whichever answer came last.
JoinsWhoIsNamed ==
    [][grant.state = "pending" /\ grant'.state = "approved"
         => me["line"].at # "shown" \/ me["line"].of = grant'.of]_signVars
=============================================================================
