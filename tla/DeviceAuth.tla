------------------------------ MODULE DeviceAuth ------------------------------
(***************************************************************************)
(* Pairing a machine with an account and keeping it signed in: device_svc  *)
(* over device_flow_repo, device_token_repo and device_repo.               *)
(*                                                                         *)
(* The shared state is MySQL: device codes, devices and token rows.  One   *)
(* machine (one fingerprint) is modelled; it has one device row for every  *)
(* account that approved it.  A worker is a request handler of any         *)
(* replica, and each of its statements is a step.  A token row stands for  *)
(* the access and the refresh token issued together.                       *)
(*                                                                         *)
(* A transaction of Exchange is read as three steps: the UPDATE that       *)
(* consumes the code and locks its row, the snapshot read of the device,   *)
(* and its remaining writes, which commit together.  Refresh's transaction *)
(* is decided by its first UPDATE and is one step.                         *)
(***************************************************************************)
EXTENDS Naturals, FiniteSets

CONSTANTS
    Users, Flows, Tokens, Workers,
    NoUser, NoFlow, NoToken,
    FlowTTL, AccessTTL, RefreshTTL,
    Gap,           \* PollInterval
    KeepFlows,     \* CleanupDeviceFlowCodes: one day after expiry
    KeepTokens,    \* CleanupDeviceTokens: thirty days
    MaxNow         \* bound: clock

ASSUME DeviceAuthAssumption ==
    /\ NoUser \notin Users /\ NoFlow \notin Flows \cup Tokens /\ NoToken \notin Tokens
    /\ Flows \cap Tokens = {}
    /\ {FlowTTL, AccessTTL, RefreshTTL, Gap, KeepFlows, KeepTokens, MaxNow} \subseteq Nat

VARIABLES
    flow,    \* device_flow_codes
    dev,     \* devices.status of the machine in each account
    tok,     \* device_tokens; a deleted row is kept as "gone"
    job,     \* each worker's request
    now

vars == <<flow, dev, tok, job, now>>

Statuses == {"none", "active", "revoked"}
Presence == {"none", "row", "gone"}
Steps    == {"idle", "approve", "poll", "consume", "previous", "grant",
             "device", "replay", "rotate", "chain", "disable"}

Flow == [st : Presence, by : Users \cup {NoUser}, exp : Nat, polled : Nat,
         consumed : BOOLEAN, denied : BOOLEAN]
Row  == [st : Presence, user : Users \cup {NoUser}, from : Flows \cup Tokens \cup {NoFlow},
         born : Nat, exp : Nat, revoked : Nat]
Job  == [step : Steps, flow : Flows \cup {NoFlow}, user : Users \cup {NoUser},
         token : Tokens \cup {NoToken}, prev : Statuses,
         revoked : BOOLEAN, exp : Nat, at : Nat]

Idle == [step |-> "idle", flow |-> NoFlow, user |-> NoUser, token |-> NoToken,
         prev |-> "none", revoked |-> FALSE, exp |-> 0, at |-> 0]

TypeOK ==
    /\ flow \in [Flows -> Flow]
    /\ dev \in [Users -> Statuses]
    /\ tok \in [Tokens -> Row]
    /\ job \in [Workers -> Job]
    /\ now \in Nat

Init ==
    /\ flow = [f \in Flows |-> [st |-> "none", by |-> NoUser, exp |-> 0, polled |-> 0,
                                consumed |-> FALSE, denied |-> FALSE]]
    /\ dev = [u \in Users |-> "none"]
    /\ tok = [k \in Tokens |-> [st |-> "none", user |-> NoUser, from |-> NoFlow,
                                born |-> 0, exp |-> 0, revoked |-> 0]]
    /\ job = [t \in Workers |-> Idle]
    /\ now = Gap + 1

-----------------------------------------------------------------------------
Become(t, j) == job' = [job EXCEPT ![t] = j]
Goto(t, s)   == Become(t, [job[t] EXCEPT !.step = s])
Finish(t)    == Become(t, Idle)

(* An uncommitted UPDATE of the code's row: every other UPDATE of it waits. *)
Locked(f) == \E t \in Workers : job[t].step \in {"previous", "grant"} /\ job[t].flow = f

Pending(f) == flow[f].st = "row" /\ ~flow[f].consumed /\ ~flow[f].denied

(* ResolveBearer: the row's own revoked_at plays no part in it. *)
Resolves(k) ==
    /\ tok[k].st = "row"
    /\ now < tok[k].born + AccessTTL
    /\ dev[tok[k].user] = "active"

Fresh(u, source, at) ==
    [st |-> "row", user |-> u, from |-> source, born |-> at,
     exp |-> at + RefreshTTL, revoked |-> 0]

(* RevokeChain: every row of the device that is not revoked yet. *)
Chain(u, at) ==
    [k \in Tokens |-> IF tok[k].st = "row" /\ tok[k].user = u /\ tok[k].revoked = 0
                        THEN [tok[k] EXCEPT !.revoked = at] ELSE tok[k]]

-----------------------------------------------------------------------------
(* The account owner's side. *)

Authorize(f) ==
    /\ flow[f].st = "none"
    /\ flow' = [flow EXCEPT ![f] = [flow[f] EXCEPT !.st = "row", !.exp = now + FlowTTL]]
    /\ UNCHANGED <<dev, tok, job, now>>

ApproveRead(t, u, f) ==
    /\ job[t] = Idle
    /\ Pending(f) /\ flow[f].exp >= now
    /\ Become(t, [Idle EXCEPT !.step = "approve", !.flow = f, !.user = u, !.at = now])
    /\ UNCHANGED <<flow, dev, tok, now>>

ApproveWrite(t) ==
    LET f == job[t].flow IN
    /\ job[t].step = "approve" /\ ~Locked(f)
    /\ flow' = IF Pending(f) /\ flow[f].exp > job[t].at
                 THEN [flow EXCEPT ![f].by = job[t].user] ELSE flow
    /\ Finish(t)
    /\ UNCHANGED <<dev, tok, now>>

Deny(f) ==
    /\ Pending(f) /\ ~Locked(f)
    /\ flow' = [flow EXCEPT ![f].denied = TRUE]
    /\ UNCHANGED <<dev, tok, job, now>>

-----------------------------------------------------------------------------
(* ExchangeToken. *)

ExchangeRead(t, f) ==
    /\ job[t] = Idle
    /\ Pending(f) /\ flow[f].exp >= now
    /\ Become(t, [Idle EXCEPT !.step = "poll", !.flow = f, !.user = flow[f].by, !.at = now])
    /\ UNCHANGED <<flow, dev, tok, now>>

(* UpdateLastPolledIfDue; authorization is judged on the row read before. *)
ExchangePoll(t) ==
    LET f == job[t].flow IN
    /\ job[t].step = "poll" /\ ~Locked(f)
    /\ IF flow[f].st = "row" /\ flow[f].polled + Gap <= job[t].at
         THEN /\ flow' = [flow EXCEPT ![f].polled = job[t].at]
              /\ IF job[t].user = NoUser THEN Finish(t) ELSE Goto(t, "consume")
         ELSE Finish(t) /\ UNCHANGED flow
    /\ UNCHANGED <<dev, tok, now>>

(* MarkConsumed: only one request gets the row. *)
ConsumableDenied(f) == flow[f].st = "row" /\ ~flow[f].consumed  \* mutant: no denied_at = 0
Consumable(f) == Pending(f)

ExchangeConsume(t) ==
    LET f == job[t].flow IN
    /\ job[t].step = "consume" /\ ~Locked(f)
    /\ IF Consumable(f) THEN Goto(t, "previous") ELSE Finish(t)
    /\ UNCHANGED <<flow, dev, tok, now>>

ExchangePrevious(t) ==
    /\ job[t].step = "previous"
    /\ Become(t, [job[t] EXCEPT !.step = "grant", !.prev = dev[job[t].user]])
    /\ UNCHANGED <<flow, dev, tok, now>>

(* DeleteByDevice when the device was found revoked. *)
KeepOld(t) == tok             \* mutant: the rows of before the revocation stay
DropOld(t) ==
    [k \in Tokens |-> IF job[t].prev = "revoked" /\ tok[k].st = "row" /\ tok[k].user = job[t].user
                        THEN [tok[k] EXCEPT !.st = "gone"] ELSE tok[k]]

ExchangeGrant(t, k) ==
    LET j == job[t] IN
    /\ j.step = "grant" /\ tok[k].st = "none"
    /\ flow' = [flow EXCEPT ![j.flow].consumed = TRUE]
    /\ dev' = [dev EXCEPT ![j.user] = "active"]
    /\ tok' = [DropOld(t) EXCEPT ![k] = Fresh(j.user, j.flow, j.at)]
    /\ Finish(t)
    /\ UNCHANGED now

-----------------------------------------------------------------------------
(* Refresh. *)

RefreshRow(t, k) ==
    /\ job[t] = Idle
    /\ tok[k].st = "row"
    /\ Become(t, [Idle EXCEPT !.step = "device", !.token = k, !.user = tok[k].user,
                              !.revoked = tok[k].revoked > 0, !.exp = tok[k].exp, !.at = now])
    /\ UNCHANGED <<flow, dev, tok, now>>

RefreshDevice(t) ==
    LET j == job[t] IN
    /\ j.step = "device"
    /\ IF dev[j.user] # "active" THEN Finish(t)
       ELSE IF j.revoked THEN Goto(t, "replay")
       ELSE IF j.exp < j.at THEN Finish(t)
       ELSE Goto(t, "rotate")
    /\ UNCHANGED <<flow, dev, tok, now>>

RefreshReplay(t) ==
    /\ job[t].step = "replay"
    /\ tok' = Chain(job[t].user, job[t].at)
    /\ Finish(t)
    /\ UNCHANGED <<flow, dev, now>>

(* Revoke: revoked_at = 0 lets only one rotation have the row. *)
RotatableAgain(k) == tok[k].st = "row"  \* mutant: no revoked_at = 0
Rotatable(k) == tok[k].st = "row" /\ tok[k].revoked = 0

RefreshRotate(t, k) ==
    LET j == job[t] IN
    /\ j.step = "rotate" /\ tok[k].st = "none" /\ Rotatable(j.token)
    /\ tok' = [tok EXCEPT ![j.token].revoked = j.at, ![k] = Fresh(j.user, j.token, j.at)]
    /\ Finish(t)
    /\ UNCHANGED <<flow, dev, now>>

RefreshLost(t) ==
    /\ job[t].step = "rotate" /\ ~Rotatable(job[t].token)
    /\ Finish(t)
    /\ UNCHANGED <<flow, dev, tok, now>>

-----------------------------------------------------------------------------
(* Revoke: the chain first, the device second, in no transaction. *)

RevokeBegin(t, u) ==
    /\ job[t] = Idle
    /\ dev[u] = "active"
    /\ Become(t, [Idle EXCEPT !.step = "chain", !.user = u, !.at = now])
    /\ UNCHANGED <<flow, dev, tok, now>>

RevokeChain(t) ==
    /\ job[t].step = "chain"
    /\ tok' = Chain(job[t].user, job[t].at)
    /\ Goto(t, "disable")
    /\ UNCHANGED <<flow, dev, now>>

RevokeDevice(t) ==
    /\ job[t].step = "disable"
    /\ dev' = [dev EXCEPT ![job[t].user] = "revoked"]
    /\ Finish(t)
    /\ UNCHANGED <<flow, tok, now>>

-----------------------------------------------------------------------------
(* An error, a lost connection or a crash; an open transaction rolls back. *)
Abort(t) ==
    /\ job[t] # Idle
    /\ Finish(t)
    /\ UNCHANGED <<flow, dev, tok, now>>

(* The cleanup cron jobs. *)
CleanFlow(f) ==
    /\ flow[f].st = "row" /\ flow[f].exp + KeepFlows < now /\ ~Locked(f)
    /\ flow' = [flow EXCEPT ![f].st = "gone"]
    /\ UNCHANGED <<dev, tok, job, now>>

CleanToken(k) ==
    /\ tok[k].st = "row"
    /\ \/ tok[k].revoked # 0 /\ tok[k].revoked + KeepTokens < now
       \/ tok[k].exp + KeepTokens < now
    /\ tok' = [tok EXCEPT ![k].st = "gone"]
    /\ UNCHANGED <<flow, dev, job, now>>

Tick == now < MaxNow /\ now' = now + 1 /\ UNCHANGED <<flow, dev, tok, job>>

WorkerStep(t) ==
    \/ \E u \in Users, f \in Flows : ApproveRead(t, u, f)
    \/ ApproveWrite(t)
    \/ \E f \in Flows : ExchangeRead(t, f)
    \/ ExchangePoll(t) \/ ExchangeConsume(t) \/ ExchangePrevious(t)
    \/ \E k \in Tokens : ExchangeGrant(t, k)
    \/ \E k \in Tokens : RefreshRow(t, k)
    \/ RefreshDevice(t) \/ RefreshReplay(t) \/ RefreshLost(t)
    \/ \E k \in Tokens : RefreshRotate(t, k)
    \/ \E u \in Users : RevokeBegin(t, u)
    \/ RevokeChain(t) \/ RevokeDevice(t)
    \/ Abort(t)

Next ==
    \/ \E f \in Flows : Authorize(f) \/ Deny(f) \/ CleanFlow(f)
    \/ \E k \in Tokens : CleanToken(k)
    \/ \E t \in Workers : WorkerStep(t)
    \/ Tick

Spec == Init /\ [][Next]_vars

-----------------------------------------------------------------------------
(* What became of each code and token, for the abstract specification. *)

SpentBy(c) == {k \in Tokens : tok[k].st # "none" /\ tok[k].from = c}

UseOfFlow(f) ==
    IF flow[f].consumed THEN "spent"
    ELSE IF flow[f].denied \/ flow[f].st = "gone" THEN "void"
    ELSE IF flow[f].by # NoUser THEN "live" ELSE "unissued"

UseOfToken(k) ==
    IF tok[k].st = "none" THEN "unissued"
    ELSE IF SpentBy(k) # {} THEN "spent"
    ELSE IF tok[k].st = "row" /\ tok[k].revoked = 0 THEN "live" ELSE "void"

Use == [c \in Flows \cup Tokens |-> IF c \in Flows THEN UseOfFlow(c) ELSE UseOfToken(c)]

Cred == INSTANCE Credential WITH Codes <- Flows, use <- Use

(* However requests interleave, retry, crash or race a denial, a revocation *)
(* or the cleanup, a device code and a refresh token each yield at most one *)
(* successor, and none once they are denied, revoked or rotated             *)
(* (MarkConsumed, device_token_repo.Revoke).                                *)
ImplementsCredential == Cred!Spec

(* What a request at each step has found out so far. *)
JobOK(j) ==
    /\ j.step # "idle" => j.at > 0
    /\ j.step \in {"approve", "chain", "disable"} => j.user \in Users
    /\ j.step \in {"approve", "poll", "consume", "previous", "grant"} => j.flow \in Flows
    /\ j.step = "poll" /\ j.user # NoUser => flow[j.flow].by # NoUser
    /\ j.step \in {"consume", "previous", "grant"} =>
          j.user \in Users /\ flow[j.flow].by # NoUser
    /\ j.step \in {"device", "replay", "rotate"} =>
          j.user \in Users /\ j.token \in Tokens /\ tok[j.token].st # "none"
JobInv == \A t \in Workers : JobOK(job[t])

(* Two requests never hold the same code's row; a code that is being        *)
(* exchanged is approved and unsettled.                                     *)
LockInv ==
    /\ \A t \in Workers : job[t].step \in {"previous", "grant"} =>
          Pending(job[t].flow)
    /\ \A s, t \in Workers : s # t /\ job[s].step \in {"previous", "grant"}
                               /\ job[t].step \in {"previous", "grant"}
                               => job[s].flow # job[t].flow

(* Every token row has one source of its own, and the source is spent. *)
SourceInv ==
    \A k \in Tokens : tok[k].st # "none" =>
        /\ tok[k].user # NoUser
        /\ tok[k].from \in Flows => flow[tok[k].from].consumed
        /\ tok[k].from \in Tokens => tok[tok[k].from].st # "none" /\ tok[tok[k].from].revoked # 0
        /\ tok[k].from # NoFlow
        /\ \A l \in Tokens : l # k /\ tok[l].st # "none" => tok[l].from # tok[k].from

(* A code is never both exchanged and denied: a denial that was answered    *)
(* with success is never followed by a token (device_flow.go, MarkConsumed).*)
DeniedNeverGranted ==
    \A f \in Flows : flow[f].denied => ~flow[f].consumed /\ SpentBy(f) = {}

Inv == TypeOK /\ now > 0 /\ JobInv /\ LockInv /\ SourceInv /\ DeniedNeverGranted

(* A token that stopped resolving because its device was revoked resolves   *)
(* again only through an exchange that read the device before the           *)
(* revocation was written (device.go:323).                                  *)
Reviving(u) == \E t \in Workers :
    job[t].step = "grant" /\ job[t].user = u /\ job[t].prev # "revoked"
RevocationSticks ==
    [][\A k \in Tokens :
          tok[k].st = "row" /\ dev[tok[k].user] = "revoked" /\ Resolves(k)'
             => Reviving(tok[k].user)]_vars

-----------------------------------------------------------------------------
(* What the repository says, or a user would expect, and the code does not       *)
(* keep: TLC finds each of these violated (README, section 8).                   *)

(* A revoked device's tokens stay dead when the machine is paired again:    *)
(* the rows of before the revocation are deleted first (device.go:323).     *)
RevokedTokensStayDead ==
    [][\A k \in Tokens :
          tok[k].st = "row" /\ dev[tok[k].user] = "revoked" => ~Resolves(k)']_vars

(* From the moment Revoke has marked the chain, a refresh is never taken    *)
(* for a replay: the answer is DeviceRevoked (device.go:440).               *)
RevokedIsNotReplay ==
    [][\A t, r \in Workers :
          job[t].step = "device" /\ job'[t].step = "replay" /\ job[r].step = "disable"
             => job[r].user # job[t].user]_vars
=============================================================================
