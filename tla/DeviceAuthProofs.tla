--------------------------- MODULE DeviceAuthProofs ---------------------------
(***************************************************************************)
(* Inv is inductive, and DeviceAuth implements Credential: for any number  *)
(* of codes, tokens and concurrent requests, a device code or a refresh    *)
(* token yields at most one successor.                                     *)
(***************************************************************************)
EXTENDS DeviceAuth, TLAPS

InTx == {"previous", "grant"}

LEMMA InitInv == Init => Inv
<1> SUFFICES ASSUME Init PROVE Inv
  OBVIOUS
<1> USE DeviceAuthAssumption
<1>1. TypeOK /\ now > 0
  BY DEF Init, TypeOK, Flow, Row, Job, Idle, Statuses, Presence, Steps
<1>2. JobInv /\ LockInv
  BY DEF Init, JobInv, JobOK, LockInv, Idle
<1>3. SourceInv /\ DeniedNeverGranted
  BY DEF Init, SourceInv, DeniedNeverGranted
<1> QED BY <1>1, <1>2, <1>3 DEF Inv

-----------------------------------------------------------------------------
(* A request that moves on and writes nothing. *)
LEMMA JobStep ==
    ASSUME Inv, NEW t \in Workers, NEW j \in Job, JobOK(j),
           j.step \in InTx => Pending(j.flow),
           j.step \in InTx => \A s \in Workers \ {t} :
                job[s].step \in InTx => job[s].flow # j.flow,
           job' = [job EXCEPT ![t] = j], UNCHANGED <<flow, dev, tok, now>>
    PROVE  Inv'
<1>1. TypeOK' /\ (now > 0)'
  BY DEF Inv, TypeOK
<1>2. \A s \in Workers : job'[s] = IF s = t THEN j ELSE job[s]
  BY DEF Inv, TypeOK
<1>3. JobInv'
  BY <1>2 DEF Inv, JobInv, JobOK
<1>4. LockInv'
  BY <1>2 DEF Inv, LockInv, InTx, Pending
<1>5. SourceInv' /\ DeniedNeverGranted'
  BY DEF Inv, SourceInv, DeniedNeverGranted, SpentBy
<1> QED BY <1>1, <1>3, <1>4, <1>5 DEF Inv

LEMMA IdleOK == Idle \in Job /\ JobOK(Idle) /\ Idle.step \notin InTx
  BY DEF Idle, Job, JobOK, InTx, Steps, Statuses

(* A request that ends without a write. *)
LEMMA FinishStep ==
    ASSUME Inv, NEW t \in Workers, Finish(t), UNCHANGED <<flow, dev, tok, now>>
    PROVE  Inv'
  BY IdleOK, JobStep DEF Finish, Become

-----------------------------------------------------------------------------
(* Each other request stands where it stood, or has just ended or moved to  *)
(* a step outside its transaction.                                          *)
Settles == /\ job' \in [Workers -> Job]
           /\ \A s \in Workers : (job'[s] = job[s]) \/ (JobOK(job[s])' /\ job'[s].step \notin InTx)

(* A code's row changes: no code that is locked loses its pending state, no *)
(* approval is taken back, and what was exchanged stays exchanged.          *)
LEMMA FlowStep ==
    ASSUME Inv, NEW f \in Flows, NEW r \in Flow,
           flow' = [flow EXCEPT ![f] = r],
           r.consumed = flow[f].consumed,
           r.denied => ~flow[f].consumed,
           flow[f].by # NoUser => r.by # NoUser,
           Locked(f) => r.st = "row" /\ ~r.denied,
           Settles, UNCHANGED <<dev, tok, now>>
    PROVE  Inv'
<1>1. TypeOK' /\ (now > 0)'
  BY DEF Inv, TypeOK, Settles
<1>2. \A g \in Flows : flow'[g] = IF g = f THEN r ELSE flow[g]
  BY DEF Inv, TypeOK
<1>3. JobInv'
  <2> SUFFICES ASSUME NEW s \in Workers PROVE JobOK(job[s])'
    BY DEF JobInv
  <2>1. CASE job'[s] = job[s]
    BY <2>1, <1>2 DEF Inv, JobInv, JobOK
  <2>2. CASE JobOK(job[s])'
    BY <2>2
  <2> QED BY <2>1, <2>2 DEF Settles
<1>4. LockInv'
  <2>1. ASSUME NEW t \in Workers, job'[t].step \in InTx
        PROVE  Pending(job[t].flow)'
    <3>0. job'[t] = job[t]
      BY <2>1 DEF Settles
    <3>1. job[t].step \in InTx /\ job[t].flow \in Flows /\ Pending(job[t].flow)
      BY <2>1, <3>0 DEF Inv, JobInv, JobOK, LockInv, InTx
    <3>2. CASE job[t].flow = f
      BY <3>0, <3>1, <3>2, <1>2 DEF Locked, Pending, InTx
    <3>3. CASE job[t].flow # f
      BY <3>0, <3>1, <3>3, <1>2 DEF Pending
    <3> QED BY <3>2, <3>3
  <2>2. ASSUME NEW s \in Workers, NEW t \in Workers, s # t,
               job'[s].step \in InTx, job'[t].step \in InTx
        PROVE  job'[s].flow # job'[t].flow
    BY <2>2 DEF Settles, Inv, LockInv, InTx
  <2> QED BY <2>1, <2>2 DEF LockInv, InTx
<1>5. SourceInv'
  BY <1>2 DEF Inv, SourceInv
<1>6. DeniedNeverGranted'
  <2>1. ASSUME NEW g \in Flows, flow'[g].denied
        PROVE  ~flow'[g].consumed /\ SpentBy(g) = {}
    <3>1. ~flow[g].consumed
      BY <2>1, <1>2 DEF Inv, DeniedNeverGranted
    <3>2. SpentBy(g) = {}
      BY <3>1 DEF Inv, SourceInv, SpentBy
    <3> QED BY <3>1, <3>2, <1>2
  <2> QED BY <2>1 DEF DeniedNeverGranted, SpentBy
<1> QED BY <1>1, <1>3, <1>4, <1>5, <1>6 DEF Inv

(* Token rows change: sources stay spent, and a row that appears has a      *)
(* spent source no other row has.                                           *)
NewRow(k) ==
    /\ tok'[k].user # NoUser
    /\ tok'[k].from # NoFlow
    /\ tok'[k].from \in Flows => flow[tok'[k].from].consumed
    /\ tok'[k].from \in Tokens => /\ tok'[tok'[k].from].st # "none"
                                  /\ tok'[tok'[k].from].revoked # 0
    /\ \A l \in Tokens : l # k /\ tok'[l].st # "none" => tok'[l].from # tok'[k].from

LEMMA TokenStep ==
    ASSUME Inv, tok' \in [Tokens -> Row],
           \A k \in Tokens : tok[k].st # "none" =>
              /\ tok'[k].st # "none"
              /\ tok'[k].user = tok[k].user
              /\ tok'[k].from = tok[k].from
              /\ tok[k].revoked # 0 => tok'[k].revoked # 0,
           \A k \in Tokens : tok[k].st = "none" /\ tok'[k].st # "none" => NewRow(k),
           Settles, UNCHANGED <<flow, dev, now>>
    PROVE  Inv'
<1>0. \A k \in Tokens : tok[k].st # "none" => /\ tok'[k].st # "none"
                                              /\ tok'[k].user = tok[k].user
                                              /\ tok'[k].from = tok[k].from
                                              /\ tok[k].revoked # 0 => tok'[k].revoked # 0
  OBVIOUS
<1>1. TypeOK' /\ (now > 0)'
  BY DEF Inv, TypeOK, Settles
<1>2. JobInv'
  <2> SUFFICES ASSUME NEW s \in Workers PROVE JobOK(job[s])'
    BY DEF JobInv
  <2>1. CASE job'[s] = job[s]
    <3>1. JobOK(job[s])
      BY DEF Inv, JobInv
    <3> QED BY <3>1, <2>1, <1>0 DEF JobOK
  <2>2. CASE JobOK(job[s])'
    BY <2>2
  <2> QED BY <2>1, <2>2 DEF Settles
<1>3. LockInv'
  <2>1. \A t \in Workers : job'[t].step \in InTx => Pending(job[t].flow)'
    BY DEF Settles, Inv, LockInv, InTx, Pending
  <2>2. \A s, t \in Workers : s # t /\ job'[s].step \in InTx /\ job'[t].step \in InTx
                            => job'[s].flow # job'[t].flow
    BY DEF Settles, Inv, LockInv, InTx
  <2> QED BY <2>1, <2>2 DEF LockInv, InTx
<1>4. SourceInv'
  <2> SUFFICES ASSUME NEW k \in Tokens, tok'[k].st # "none"
               PROVE  /\ tok'[k].user # NoUser
                      /\ tok'[k].from # NoFlow
                      /\ tok'[k].from \in Flows => flow'[tok'[k].from].consumed
                      /\ tok'[k].from \in Tokens => /\ tok'[tok'[k].from].st # "none"
                                                    /\ tok'[tok'[k].from].revoked # 0
                      /\ \A l \in Tokens : l # k /\ tok'[l].st # "none" => tok'[l].from # tok'[k].from
    BY DEF SourceInv
  <2>1. CASE tok[k].st = "none"
    BY <2>1 DEF NewRow
  <2>2. CASE tok[k].st # "none"
    <3>1. \A l \in Tokens : l # k /\ tok'[l].st # "none" => tok'[l].from # tok'[k].from
      <4> SUFFICES ASSUME NEW l \in Tokens, l # k, tok'[l].st # "none"
                   PROVE  tok'[l].from # tok'[k].from
        OBVIOUS
      <4>1. CASE tok[l].st = "none"
        BY <4>1 DEF NewRow
      <4>2. CASE tok[l].st # "none"
        <5>1. tok[l].from # tok[k].from
          BY <4>2, <2>2 DEF Inv, SourceInv
        <5> QED BY <5>1, <4>2, <2>2, <1>0
      <4> QED BY <4>1, <4>2
    <3>2. /\ tok[k].user # NoUser /\ tok[k].from # NoFlow
          /\ tok[k].from \in Flows => flow[tok[k].from].consumed
          /\ tok[k].from \in Tokens => tok[tok[k].from].st # "none" /\ tok[tok[k].from].revoked # 0
      BY <2>2 DEF Inv, SourceInv
    <3>3. tok'[k].user = tok[k].user /\ tok'[k].from = tok[k].from
      BY <2>2, <1>0
    <3>4. tok[k].from \in Tokens => tok'[tok[k].from].st # "none" /\ tok'[tok[k].from].revoked # 0
      BY <3>2, <1>0
    <3> QED BY <3>1, <3>2, <3>3, <3>4
  <2> QED BY <2>1, <2>2
<1>5. DeniedNeverGranted'
  <2> SUFFICES ASSUME NEW f \in Flows, flow'[f].denied
               PROVE  ~flow'[f].consumed /\ SpentBy(f)' = {}
    BY DEF DeniedNeverGranted
  <2>1. ~flow'[f].consumed
    BY DEF Inv, DeniedNeverGranted
  <2>2. ASSUME NEW k \in Tokens, tok'[k].st # "none" PROVE tok'[k].from # f
    BY <2>1, <2>2, <1>4 DEF SourceInv
  <2> QED BY <2>1, <2>2 DEF SpentBy
<1> QED BY <1>1, <1>2, <1>3, <1>4, <1>5 DEF Inv
-----------------------------------------------------------------------------
LEMMA FreshType ==
    ASSUME NEW u \in Users, NEW c \in Flows \cup Tokens, NEW n \in Nat
    PROVE  /\ Fresh(u, c, n) \in Row
           /\ Fresh(u, c, n).st = "row" /\ Fresh(u, c, n).revoked = 0
           /\ Fresh(u, c, n).user = u /\ Fresh(u, c, n).from = c
  BY DeviceAuthAssumption DEF Fresh, Row, Presence

LEMMA ChainStep ==
    ASSUME Inv, NEW u, NEW n \in Nat \ {0}, tok' = Chain(u, n), Settles,
           UNCHANGED <<flow, dev, now>>
    PROVE  Inv'
<1>1. tok' \in [Tokens -> Row]
  BY DEF Chain, Inv, TypeOK, Row
<1>0. \A k \in Tokens : /\ tok'[k].st = tok[k].st /\ tok'[k].user = tok[k].user
                        /\ tok'[k].from = tok[k].from
                        /\ tok[k].revoked # 0 => tok'[k].revoked # 0
  BY DEF Chain, Inv, TypeOK, Row
<1>2. \A k \in Tokens : tok[k].st # "none" =>
              /\ tok'[k].st # "none"
              /\ tok'[k].user = tok[k].user
              /\ tok'[k].from = tok[k].from
              /\ tok[k].revoked # 0 => tok'[k].revoked # 0
  BY <1>0
<1>3. \A k \in Tokens : tok[k].st = "none" /\ tok'[k].st # "none" => NewRow(k)
  BY <1>0
<1> QED BY <1>1, <1>2, <1>3, TokenStep

LEMMA GrantStep ==
    ASSUME Inv, NEW t \in Workers, NEW k \in Tokens, ExchangeGrant(t, k)
    PROVE  Inv'
<1> USE DeviceAuthAssumption
<1> DEFINE j == job[t]
           f == j.flow
<1>1. /\ f \in Flows /\ j.user \in Users /\ j.at \in Nat /\ j.step \in InTx
      /\ Pending(f) /\ tok[k].st = "none"
  BY DEF ExchangeGrant, Inv, JobInv, JobOK, LockInv, TypeOK, Job, InTx
<1>2. /\ \A s \in Workers : job'[s] = IF s = t THEN Idle ELSE job[s]
      /\ job' \in [Workers -> Job]
  BY IdleOK DEF ExchangeGrant, Finish, Become, Inv, TypeOK
<1>3. /\ flow' \in [Flows -> Flow]
      /\ \A g \in Flows : /\ flow'[g].consumed = (g = f \/ flow[g].consumed)
                           /\ flow'[g].denied = flow[g].denied
                           /\ flow'[g].by = flow[g].by
                           /\ flow'[g].st = flow[g].st
  BY <1>1, ZenonT(60) DEF ExchangeGrant, Inv, TypeOK, Flow
<1>4a. DropOld(t) \in [Tokens -> Row]
  BY DEF DropOld, Inv, TypeOK, Row, Presence
<1>4. \A l \in Tokens : /\ (DropOld(t)[l].st = "none") <=> (tok[l].st = "none")
                        /\ DropOld(t)[l].user = tok[l].user
                        /\ DropOld(t)[l].from = tok[l].from
                        /\ DropOld(t)[l].revoked = tok[l].revoked
  BY DEF DropOld, Inv, TypeOK, Row, Presence
<1>5. /\ tok' \in [Tokens -> Row]
      /\ tok'[k].st = "row" /\ tok'[k].user = j.user /\ tok'[k].from = f
      /\ \A l \in Tokens : l # k =>
            /\ (tok'[l].st = "none") <=> (tok[l].st = "none")
            /\ tok'[l].user = tok[l].user
            /\ tok'[l].from = tok[l].from
            /\ tok'[l].revoked = tok[l].revoked
  <2>1. tok' = [DropOld(t) EXCEPT ![k] = Fresh(j.user, f, j.at)]
    BY DEF ExchangeGrant
  <2>2. /\ Fresh(j.user, f, j.at) \in Row /\ Fresh(j.user, f, j.at).st = "row"
        /\ Fresh(j.user, f, j.at).user = j.user /\ Fresh(j.user, f, j.at).from = f
    BY <1>1, FreshType
  <2>3. tok' \in [Tokens -> Row] /\ tok'[k] = Fresh(j.user, f, j.at)
        /\ \A l \in Tokens : l # k => tok'[l] = DropOld(t)[l]
    BY <2>1, <2>2, <1>4a
  <2>4. tok \in [Tokens -> Row]
    BY DEF Inv, TypeOK
  <2> HIDE DEF j, f
  <2> QED BY <2>2, <2>3, <2>4, <1>4a, <1>4
<1>6. dev' \in [Users -> Statuses] /\ now' = now
  BY <1>1 DEF ExchangeGrant, Inv, TypeOK, Statuses
<1>7. TypeOK' /\ (now > 0)'
  BY <1>2, <1>3, <1>5, <1>6 DEF Inv, TypeOK
<1>8. JobInv'
  <2> SUFFICES ASSUME NEW s \in Workers PROVE JobOK(job[s])'
    BY DEF JobInv
  <2>1. CASE s = t
    <3>1. job'[s] = Idle
      BY <2>1, <1>2
    <3> QED BY <3>1 DEF JobOK, Idle
  <2>2. CASE s # t
    <3>1. job'[s] = job[s] /\ JobOK(job[s])
      BY <2>2, <1>2 DEF Inv, JobInv
    <3>2. \A l \in Tokens : tok[l].st # "none" => tok'[l].st # "none"
      BY <1>1, <1>5
    <3>3. \A g \in Flows : flow'[g].by = flow[g].by
      BY <1>3
    <3> HIDE DEF j, f
    <3> QED BY <3>1, <3>2, <3>3 DEF JobOK
  <2> QED BY <2>1, <2>2
<1>9. LockInv'
  <2>1. ASSUME NEW s \in Workers, job'[s].step \in InTx
        PROVE  Pending(job[s].flow)' /\ s # t /\ job'[s] = job[s]
    <3>1. s # t /\ job'[s] = job[s]
      BY <2>1, <1>2 DEF Idle, InTx
    <3>2. Pending(job[s].flow) /\ job[s].flow \in Flows /\ job[s].flow # f
      BY <2>1, <3>1, <1>1 DEF Inv, LockInv, InTx, JobInv, JobOK
    <3> QED BY <3>1, <3>2, <1>3 DEF Pending
  <2>2. ASSUME NEW s \in Workers, NEW r \in Workers, s # r,
               job'[s].step \in InTx, job'[r].step \in InTx
        PROVE  job'[s].flow # job'[r].flow
    BY <2>1, <2>2 DEF Inv, LockInv, InTx
  <2> QED BY <2>1, <2>2 DEF LockInv, InTx
<1>10. SourceInv'
  <2>1. \A l \in Tokens : tok[l].st # "none" => tok[l].from # f
    BY <1>1 DEF Inv, SourceInv, Pending
  <2> SUFFICES ASSUME NEW l \in Tokens, tok'[l].st # "none"
               PROVE  /\ tok'[l].user # NoUser
                      /\ tok'[l].from # NoFlow
                      /\ tok'[l].from \in Flows => flow'[tok'[l].from].consumed
                      /\ tok'[l].from \in Tokens => /\ tok'[tok'[l].from].st # "none"
                                                    /\ tok'[tok'[l].from].revoked # 0
                      /\ \A m \in Tokens : m # l /\ tok'[m].st # "none" => tok'[m].from # tok'[l].from
    BY DEF SourceInv
  <2>2. CASE l = k
    <3>1. /\ tok'[l].user = j.user /\ tok'[l].from = f /\ f \in Flows /\ f \notin Tokens
          /\ j.user # NoUser /\ f # NoFlow /\ flow'[f].consumed
      BY <2>2, <1>1, <1>3, <1>5
    <3>2. \A m \in Tokens : m # l /\ tok'[m].st # "none" => tok'[m].from # f
      BY <2>1, <2>2, <1>5
    <3> HIDE DEF j, f
    <3> QED BY <3>1, <3>2
  <2>3. CASE l # k
    <3>1. /\ tok[l].st # "none" /\ tok'[l].user = tok[l].user /\ tok'[l].from = tok[l].from
      BY <2>3, <1>5
    <3>2. /\ tok[l].user # NoUser /\ tok[l].from # NoFlow
          /\ tok[l].from \in Flows => flow[tok[l].from].consumed
          /\ tok[l].from \in Tokens => tok[tok[l].from].st # "none" /\ tok[tok[l].from].revoked # 0
          /\ \A m \in Tokens : m # l /\ tok[m].st # "none" => tok[m].from # tok[l].from
      BY <3>1 DEF Inv, SourceInv
    <3>3. tok[l].from \in Tokens => tok'[tok[l].from].st # "none" /\ tok'[tok[l].from].revoked # 0
      BY <3>2, <1>1, <1>5
    <3>4. tok[l].from \in Flows => flow'[tok[l].from].consumed
      BY <3>2, <1>3
    <3>5. \A m \in Tokens : m # l /\ tok'[m].st # "none" => tok'[m].from # tok[l].from
      BY <3>1, <3>2, <2>1, <1>5
    <3> HIDE DEF j, f
    <3> QED BY <3>1, <3>2, <3>3, <3>4, <3>5
  <2> QED BY <2>2, <2>3
<1>11. DeniedNeverGranted'
  <2> SUFFICES ASSUME NEW g \in Flows, flow'[g].denied
               PROVE  ~flow'[g].consumed /\ SpentBy(g)' = {}
    BY DEF DeniedNeverGranted
  <2>1. ~flow'[g].consumed
    BY <1>1, <1>3 DEF Inv, DeniedNeverGranted, Pending
  <2>2. ASSUME NEW l \in Tokens, tok'[l].st # "none" PROVE tok'[l].from # g
    BY <2>1, <2>2, <1>10 DEF SourceInv
  <2> QED BY <2>1, <2>2 DEF SpentBy
<1> QED BY <1>7, <1>8, <1>9, <1>10, <1>11 DEF Inv
-----------------------------------------------------------------------------
LEMMA IdleSettles ==
    ASSUME Inv, NEW t \in Workers, Finish(t)
    PROVE  Settles
<1>1. \A s \in Workers : job'[s] = IF s = t THEN Idle ELSE job[s]
  BY DEF Finish, Become, Inv, TypeOK
<1>2. job' \in [Workers -> Job]
  BY IdleOK DEF Finish, Become, Inv, TypeOK
<1>3. ASSUME NEW s \in Workers, s = t PROVE JobOK(job[s])' /\ job'[s].step \notin InTx
  BY <1>1, <1>3 DEF JobOK, Idle, InTx
<1>4. \A s \in Workers : s # t => job'[s] = job[s]
  BY <1>1
<1>5. \A s \in Workers : (job'[s] = job[s]) \/ (JobOK(job[s])' /\ job'[s].step \notin InTx)
  BY <1>3, <1>4
<1> QED BY <1>2, <1>5 DEF Settles

LEMMA Unchanged == ASSUME Inv, UNCHANGED job PROVE Settles
<1>1. job' \in [Workers -> Job]
  BY DEF Inv, TypeOK
<1>2. \A s \in Workers : (job'[s] = job[s]) \/ (JobOK(job[s])' /\ job'[s].step \notin InTx)
  OBVIOUS
<1> QED BY <1>1, <1>2 DEF Settles

LEMMA WorkerInv ==
    ASSUME Inv, NEW t \in Workers, WorkerStep(t)
    PROVE  Inv'
<1> USE DeviceAuthAssumption
<1> DEFINE j == job[t]
<1>0. /\ j \in Job /\ JobOK(j) /\ now \in Nat /\ now > 0
      /\ flow \in [Flows -> Flow] /\ tok \in [Tokens -> Row] /\ dev \in [Users -> Statuses]
  BY DEF Inv, TypeOK, JobInv
<1>1. ASSUME NEW u \in Users, NEW f \in Flows, ApproveRead(t, u, f) PROVE Inv'
  <2> DEFINE r == [Idle EXCEPT !.step = "approve", !.flow = f, !.user = u, !.at = now]
  <2>1. r \in Job /\ JobOK(r) /\ r.step \notin InTx
    BY <1>0 DEF Idle, Job, JobOK, InTx, Steps, Statuses
  <2>2. job' = [job EXCEPT ![t] = r] /\ UNCHANGED <<flow, dev, tok, now>>
    BY <1>1 DEF ApproveRead, Become
  <2> HIDE DEF r
  <2> QED BY <2>1, <2>2, JobStep
<1>2. CASE ApproveWrite(t)
  <2> DEFINE f == j.flow
             r == IF Pending(f) /\ flow[f].exp > j.at
                    THEN [flow[f] EXCEPT !.by = j.user] ELSE flow[f]
  <2>1. f \in Flows /\ j.user \in Users /\ ~Locked(f) /\ Settles /\ UNCHANGED <<dev, tok, now>>
    BY <1>0, <1>2, IdleSettles DEF ApproveWrite, JobOK
  <2>2. r \in Flow /\ flow' = [flow EXCEPT ![f] = r]
    BY <1>0, <1>2, <2>1, ZenonT(60) DEF ApproveWrite, Flow
  <2>3. /\ r.consumed = flow[f].consumed /\ r.denied = flow[f].denied
        /\ flow[f].by # NoUser => r.by # NoUser
    BY <1>0, <2>1 DEF Flow
  <2>4. flow[f].denied => ~flow[f].consumed
    BY <2>1 DEF Inv, DeniedNeverGranted
  <2> HIDE DEF f, r
  <2> QED BY <2>1, <2>2, <2>3, <2>4, FlowStep
<1>3. ASSUME NEW f \in Flows, ExchangeRead(t, f) PROVE Inv'
  <2> DEFINE r == [Idle EXCEPT !.step = "poll", !.flow = f, !.user = flow[f].by, !.at = now]
  <2>1. r \in Job /\ JobOK(r) /\ r.step \notin InTx
    BY <1>0 DEF Idle, Job, JobOK, InTx, Steps, Statuses, Flow
  <2>2. job' = [job EXCEPT ![t] = r] /\ UNCHANGED <<flow, dev, tok, now>>
    BY <1>3 DEF ExchangeRead, Become
  <2> HIDE DEF r
  <2> QED BY <2>1, <2>2, JobStep
<1>4. CASE ExchangePoll(t)
  <2> DEFINE f == j.flow
  <2>1. f \in Flows /\ ~Locked(f) /\ UNCHANGED <<dev, tok, now>>
    BY <1>0, <1>4 DEF ExchangePoll, JobOK
  <2>2. CASE flow[f].st = "row" /\ flow[f].polled + Gap <= j.at
    <3> DEFINE r == [flow[f] EXCEPT !.polled = j.at]
    <3>1. r \in Flow /\ flow' = [flow EXCEPT ![f] = r]
      BY <1>0, <1>4, <2>1, <2>2 DEF ExchangePoll, Flow, Job
    <3>2. /\ r.consumed = flow[f].consumed /\ r.denied = flow[f].denied /\ r.by = flow[f].by
      BY <1>0, <2>1 DEF Flow
    <3>3. r.denied => ~flow[f].consumed
      BY <2>1, <3>2 DEF Inv, DeniedNeverGranted
    <3>4. Settles
      <4>1. CASE j.user = NoUser
        <5>1. Finish(t)
          BY <1>4, <2>2, <4>1 DEF ExchangePoll
        <5> QED BY <5>1, IdleSettles
      <4>2. CASE j.user # NoUser
        <5> DEFINE q == [j EXCEPT !.step = "consume"]
        <5>1. job' = [job EXCEPT ![t] = q]
          BY <1>4, <2>2, <4>2 DEF ExchangePoll, Goto, Become
        <5>2. q \in Job /\ q.user \in Users /\ q.flow = f /\ q.step = "consume" /\ q.at > 0
          BY <1>0, <1>4, <4>2 DEF Job, Steps, JobOK, ExchangePoll
        <5>3. flow'[f].by # NoUser
          BY <1>0, <1>4, <2>1, <3>1, <3>2, <4>2 DEF JobOK, ExchangePoll
        <5>4. /\ job' \in [Workers -> Job] /\ job'[t] = q
              /\ \A s \in Workers : s # t => job'[s] = job[s]
          BY <5>1, <5>2 DEF Inv, TypeOK
        <5>5. ASSUME NEW s \in Workers, s = t
              PROVE  JobOK(job[s])' /\ job'[s].step \notin InTx
          <6> HIDE DEF q, f, r
          <6> QED BY <2>1, <5>2, <5>3, <5>4, <5>5 DEF JobOK, InTx
        <5>6. \A s \in Workers : (job'[s] = job[s]) \/ (JobOK(job[s])' /\ job'[s].step \notin InTx)
          <6> HIDE DEF q
          <6> QED BY <5>4, <5>5
        <5> QED BY <5>4, <5>6 DEF Settles
      <4> QED BY <4>1, <4>2
    <3> HIDE DEF r, f
    <3> QED BY <2>1, <3>1, <3>2, <3>3, <3>4, FlowStep
  <2>3. CASE ~(flow[f].st = "row" /\ flow[f].polled + Gap <= j.at)
    BY <1>4, <2>3, FinishStep DEF ExchangePoll
  <2> QED BY <2>2, <2>3
<1>5. CASE ExchangeConsume(t)
  <2> DEFINE f == j.flow
             r == [j EXCEPT !.step = "previous"]
  <2>1. /\ r \in Job /\ JobOK(r) /\ r.flow = f /\ r.step = "previous"
        /\ f \in Flows /\ ~Locked(f) /\ UNCHANGED <<flow, dev, tok, now>>
    BY <1>0, <1>5 DEF ExchangeConsume, Job, JobOK, Steps
  <2>2. \A s \in Workers : job[s].step \in InTx => job[s].flow # f
    BY <2>1 DEF Locked, InTx
  <2>3. CASE Consumable(f)
    <3>1. job' = [job EXCEPT ![t] = r] /\ Pending(f)
      BY <1>5, <2>3 DEF ExchangeConsume, Goto, Become, Consumable
    <3> HIDE DEF r, f
    <3> QED BY <2>1, <2>2, <3>1, JobStep
  <2>4. CASE ~Consumable(f)
    <3>1. Finish(t)
      BY <1>5, <2>4 DEF ExchangeConsume
    <3> QED BY <2>1, <3>1, FinishStep
  <2> QED BY <2>3, <2>4
<1>6. CASE ExchangePrevious(t)
  <2> DEFINE r == [j EXCEPT !.step = "grant", !.prev = dev[j.user]]
  <2>1. /\ r \in Job /\ JobOK(r) /\ r.flow = j.flow /\ r.step = "grant" /\ j.step \in InTx
        /\ UNCHANGED <<flow, dev, tok, now>>
    BY <1>0, <1>6 DEF ExchangePrevious, Job, JobOK, Steps, InTx
  <2>2. /\ Pending(r.flow)
        /\ \A s \in Workers \ {t} : job[s].step \in InTx => job[s].flow # r.flow
    BY <2>1 DEF Inv, LockInv, InTx
  <2>3. job' = [job EXCEPT ![t] = r]
    BY <1>6 DEF ExchangePrevious, Become
  <2> HIDE DEF r
  <2> QED BY <2>1, <2>2, <2>3, JobStep
<1>7. ASSUME NEW k \in Tokens, ExchangeGrant(t, k) PROVE Inv'
  BY <1>7, GrantStep
<1>8. ASSUME NEW k \in Tokens, RefreshRow(t, k) PROVE Inv'
  <2> DEFINE r == [Idle EXCEPT !.step = "device", !.token = k, !.user = tok[k].user,
                               !.revoked = tok[k].revoked > 0, !.exp = tok[k].exp, !.at = now]
  <2>0. tok[k].user \in Users /\ tok[k].exp \in Nat /\ tok[k].st # "none"
    BY <1>0, <1>8 DEF RefreshRow, Inv, SourceInv, Row
  <2>1. r \in Job /\ r.step = "device" /\ r.user \in Users /\ r.token = k /\ r.at > 0
    <3>1. (tok[k].revoked > 0) \in BOOLEAN
      OBVIOUS
    <3> QED BY <1>0, <2>0, <3>1 DEF Idle, Job, Steps, Statuses
  <2>2. job' = [job EXCEPT ![t] = r] /\ UNCHANGED <<flow, dev, tok, now>>
    BY <1>8 DEF RefreshRow, Become
  <2> HIDE DEF r
  <2>3. JobOK(r) /\ r.step \notin InTx
    BY <2>0, <2>1 DEF JobOK, InTx
  <2> QED BY <2>1, <2>2, <2>3, JobStep
<1>9. CASE RefreshDevice(t)
  <2>1. ASSUME NEW s \in {"replay", "rotate"}, Goto(t, s) PROVE Inv'
    <3> DEFINE r == [j EXCEPT !.step = s]
    <3>1. r \in Job /\ JobOK(r) /\ r.step \notin InTx
      BY <1>0, <1>9 DEF RefreshDevice, Job, JobOK, Steps, InTx
    <3>2. job' = [job EXCEPT ![t] = r] /\ UNCHANGED <<flow, dev, tok, now>>
      BY <1>9, <2>1 DEF RefreshDevice, Goto, Become
    <3> HIDE DEF r
    <3> QED BY <3>1, <3>2, JobStep
  <2>2. Finish(t) \/ Goto(t, "replay") \/ Goto(t, "rotate")
    BY <1>9 DEF RefreshDevice
  <2>3. UNCHANGED <<flow, dev, tok, now>>
    BY <1>9 DEF RefreshDevice
  <2> QED BY <2>1, <2>2, <2>3, FinishStep
<1>10. CASE RefreshReplay(t)
  <2>1. tok' = Chain(j.user, j.at) /\ j.at \in Nat \ {0} /\ UNCHANGED <<flow, dev, now>>
    BY <1>0, <1>10 DEF RefreshReplay, Job, JobOK
  <2>2. Settles
    BY <1>10, IdleSettles DEF RefreshReplay
  <2> QED BY <2>1, <2>2, ChainStep
<1>11. CASE RefreshLost(t)
  BY <1>11, FinishStep DEF RefreshLost
<1>12. ASSUME NEW k \in Tokens, RefreshRotate(t, k) PROVE Inv'
  <2> DEFINE o == j.token
  <2>1. /\ o \in Tokens /\ j.user \in Users /\ j.at \in Nat \ {0} /\ tok[k].st = "none"
        /\ tok[o].st = "row" /\ tok[o].revoked = 0 /\ UNCHANGED <<flow, dev, now>>
    BY <1>0, <1>12 DEF RefreshRotate, Rotatable, JobOK, Job
  <2>2. Settles
    BY <1>12, IdleSettles DEF RefreshRotate
  <2>3. /\ Fresh(j.user, o, j.at) \in Row /\ Fresh(j.user, o, j.at).st = "row"
        /\ Fresh(j.user, o, j.at).user = j.user /\ Fresh(j.user, o, j.at).from = o
    BY <2>1, FreshType
  <2>4. tok' = [tok EXCEPT ![o].revoked = j.at, ![k] = Fresh(j.user, o, j.at)]
    BY <1>12 DEF RefreshRotate
  <2>5. o # k
    BY <2>1
  <2>6. /\ tok' \in [Tokens -> Row] /\ tok'[k] = Fresh(j.user, o, j.at)
        /\ tok'[o] = [tok[o] EXCEPT !.revoked = j.at]
        /\ \A l \in Tokens : l # k /\ l # o => tok'[l] = tok[l]
    BY <1>0, <2>1, <2>3, <2>4, <2>5 DEF Row
  <2>7. tok'[o].st = "row" /\ tok'[o].revoked # 0 /\ tok'[o].user = tok[o].user /\ tok'[o].from = tok[o].from
    BY <1>0, <2>1, <2>6 DEF Row
  <2>8. \A l \in Tokens : tok[l].st # "none" =>
              /\ tok'[l].st # "none"
              /\ tok'[l].user = tok[l].user
              /\ tok'[l].from = tok[l].from
              /\ tok[l].revoked # 0 => tok'[l].revoked # 0
    BY <1>0, <2>1, <2>6, <2>7
  <2>9. ASSUME NEW l \in Tokens, tok[l].st = "none", tok'[l].st # "none" PROVE NewRow(l)
    <3>1. l = k
      BY <2>1, <2>6, <2>9
    <3>2. tok'[k].user = j.user /\ tok'[k].from = o /\ j.user # NoUser /\ o # NoFlow /\ o \notin Flows
      <4>1. tok'[k].user = j.user /\ tok'[k].from = o
        BY <2>3, <2>6
      <4> QED BY <4>1, <2>1, <2>3
    <3>3. ASSUME NEW m \in Tokens, m # k, tok'[m].st # "none" PROVE tok'[m].from # o
      <4>1. tok[m].st # "none"
        BY <1>0, <2>1, <2>6, <2>7, <3>3
      <4>2. tok[m].from # o
        BY <4>1, <2>1 DEF Inv, SourceInv
      <4> QED BY <4>1, <4>2, <2>8
    <3> HIDE DEF o, j
    <3> QED BY <3>1, <3>2, <3>3, <2>7 DEF NewRow
  <2> QED BY <2>1, <2>2, <2>6, <2>8, <2>9, TokenStep
<1>13. ASSUME NEW u \in Users, RevokeBegin(t, u) PROVE Inv'
  <2> DEFINE r == [Idle EXCEPT !.step = "chain", !.user = u, !.at = now]
  <2>1. r \in Job /\ JobOK(r) /\ r.step \notin InTx
    BY <1>0 DEF Idle, Job, JobOK, InTx, Steps, Statuses
  <2>2. job' = [job EXCEPT ![t] = r] /\ UNCHANGED <<flow, dev, tok, now>>
    BY <1>13 DEF RevokeBegin, Become
  <2> HIDE DEF r
  <2> QED BY <2>1, <2>2, JobStep
<1>14. CASE RevokeChain(t)
  <2> DEFINE r == [j EXCEPT !.step = "disable"]
  <2>1. tok' = Chain(j.user, j.at) /\ j.at \in Nat \ {0} /\ UNCHANGED <<flow, dev, now>>
    BY <1>0, <1>14 DEF RevokeChain, Job, JobOK
  <2>2. job' = [job EXCEPT ![t] = r]
    BY <1>14 DEF RevokeChain, Goto, Become
  <2>3. r \in Job /\ r.step = "disable" /\ r.user \in Users /\ r.at > 0
    BY <1>0, <1>14 DEF RevokeChain, Job, JobOK, Steps
  <2>4. /\ job' \in [Workers -> Job] /\ job'[t] = r
        /\ \A s \in Workers : s # t => job'[s] = job[s]
    BY <2>2, <2>3 DEF Inv, TypeOK
  <2> HIDE DEF r
  <2>5. ASSUME NEW s \in Workers, s = t
        PROVE  JobOK(job[s])' /\ job'[s].step \notin InTx
    BY <2>3, <2>4, <2>5 DEF JobOK, InTx
  <2>6a. \A s \in Workers : (job'[s] = job[s]) \/ (JobOK(job[s])' /\ job'[s].step \notin InTx)
    BY <2>4, <2>5
  <2>6. Settles
    BY <2>4, <2>6a DEF Settles
  <2> QED BY <2>1, <2>6, ChainStep
<1>15. CASE RevokeDevice(t)
  <2>1. Settles /\ UNCHANGED <<flow, tok, now>>
    BY <1>15, IdleSettles DEF RevokeDevice
  <2>2. dev' \in [Users -> Statuses]
    BY <1>0, <1>15 DEF RevokeDevice, Statuses
  <2>3. TypeOK' /\ (now > 0)'
    BY <2>1, <2>2 DEF Inv, TypeOK, Settles
  <2>4. JobInv'
    <3> SUFFICES ASSUME NEW s \in Workers PROVE JobOK(job[s])'
      BY DEF JobInv
    <3>1. CASE job'[s] = job[s]
      BY <2>1, <3>1 DEF Inv, JobInv, JobOK
    <3>2. CASE JobOK(job[s])'
      BY <3>2
    <3> QED BY <3>1, <3>2, <2>1 DEF Settles
  <2>5. LockInv'
    BY <2>1 DEF Settles, Inv, LockInv, InTx, Pending
  <2>6. SourceInv' /\ DeniedNeverGranted'
    BY <2>1 DEF Inv, SourceInv, DeniedNeverGranted, SpentBy
  <2> QED BY <2>3, <2>4, <2>5, <2>6 DEF Inv
<1>16. CASE Abort(t)
  BY <1>16, FinishStep DEF Abort
<1> QED BY <1>1, <1>2, <1>3, <1>4, <1>5, <1>6, <1>7, <1>8, <1>9, <1>10, <1>11, <1>12,
           <1>13, <1>14, <1>15, <1>16 DEF WorkerStep
-----------------------------------------------------------------------------
LEMMA CleanTokenInv ==
    ASSUME Inv, NEW k \in Tokens, CleanToken(k)
    PROVE  Inv'
<1>1. tok' \in [Tokens -> Row]
  BY DEF CleanToken, Inv, TypeOK, Row, Presence
<1>2. \A l \in Tokens : /\ (tok'[l].st = "none") <=> (tok[l].st = "none")
                        /\ tok'[l].user = tok[l].user
                        /\ tok'[l].from = tok[l].from
                        /\ tok'[l].revoked = tok[l].revoked
  BY DEF CleanToken, Inv, TypeOK, Row
<1>3. Settles /\ UNCHANGED <<flow, dev, now>>
  BY Unchanged DEF CleanToken
<1>4. \A l \in Tokens : tok[l].st # "none" =>
              /\ tok'[l].st # "none"
              /\ tok'[l].user = tok[l].user
              /\ tok'[l].from = tok[l].from
              /\ tok[l].revoked # 0 => tok'[l].revoked # 0
  BY <1>2
<1>5. \A l \in Tokens : tok[l].st = "none" /\ tok'[l].st # "none" => NewRow(l)
  BY <1>2
<1> QED BY <1>1, <1>3, <1>4, <1>5, TokenStep

LEMMA NextInv == Inv /\ [Next]_vars => Inv'
<1> SUFFICES ASSUME Inv, [Next]_vars PROVE Inv'
  OBVIOUS
<1> USE DeviceAuthAssumption
<1>0. flow \in [Flows -> Flow] /\ now \in Nat
  BY DEF Inv, TypeOK
<1>1. ASSUME NEW f \in Flows, Authorize(f) PROVE Inv'
  <2> DEFINE r == [flow[f] EXCEPT !.st = "row", !.exp = now + FlowTTL]
  <2>0. FlowTTL \in Nat
    OBVIOUS
  <2>1. r \in Flow /\ flow' = [flow EXCEPT ![f] = r]
    <3>1. flow' = [flow EXCEPT ![f] = r]
      BY <1>1 DEF Authorize
    <3>2. now + FlowTTL \in Nat /\ flow[f] \in Flow
      BY <1>0, <2>0
    <3>3. r \in Flow
      BY <3>2 DEF Flow, Presence
    <3> QED BY <3>1, <3>3
  <2>2. r.st = "row" /\ r.consumed = flow[f].consumed /\ r.denied = flow[f].denied /\ r.by = flow[f].by
    BY <1>0 DEF Flow
  <2>3. ~Locked(f)
    BY <1>1 DEF Authorize, Locked, Inv, LockInv, Pending
  <2>4. flow[f].denied => ~flow[f].consumed
    BY DEF Inv, DeniedNeverGranted
  <2>5. Settles /\ UNCHANGED <<dev, tok, now>>
    BY <1>1, Unchanged DEF Authorize
  <2> HIDE DEF r
  <2> QED BY <2>1, <2>2, <2>3, <2>4, <2>5, FlowStep
<1>2. ASSUME NEW f \in Flows, Deny(f) PROVE Inv'
  <2> DEFINE r == [flow[f] EXCEPT !.denied = TRUE]
  <2>1. r \in Flow /\ flow' = [flow EXCEPT ![f] = r]
    <3>1. flow' = [flow EXCEPT ![f] = r]
      BY <1>0, <1>2 DEF Deny
    <3>2. r \in Flow
      BY <1>0 DEF Flow
    <3> QED BY <3>1, <3>2
  <2>2. r.consumed = flow[f].consumed /\ r.by = flow[f].by
    BY <1>0 DEF Flow
  <2>3. ~Locked(f) /\ ~flow[f].consumed
    BY <1>2 DEF Deny, Pending
  <2>5. Settles /\ UNCHANGED <<dev, tok, now>>
    BY <1>2, Unchanged DEF Deny
  <2> HIDE DEF r
  <2> QED BY <2>1, <2>2, <2>3, <2>5, FlowStep
<1>3. ASSUME NEW f \in Flows, CleanFlow(f) PROVE Inv'
  <2> DEFINE r == [flow[f] EXCEPT !.st = "gone"]
  <2>1. r \in Flow /\ flow' = [flow EXCEPT ![f] = r]
    BY <1>0, <1>3 DEF CleanFlow, Flow, Presence
  <2>2. r.consumed = flow[f].consumed /\ r.denied = flow[f].denied /\ r.by = flow[f].by
    BY <1>0 DEF Flow
  <2>3. ~Locked(f)
    BY <1>3 DEF CleanFlow
  <2>4. flow[f].denied => ~flow[f].consumed
    BY DEF Inv, DeniedNeverGranted
  <2>5. Settles /\ UNCHANGED <<dev, tok, now>>
    BY <1>3, Unchanged DEF CleanFlow
  <2> HIDE DEF r
  <2> QED BY <2>1, <2>2, <2>3, <2>4, <2>5, FlowStep
<1>4. ASSUME NEW k \in Tokens, CleanToken(k) PROVE Inv'
  BY <1>4, CleanTokenInv
<1>5. ASSUME NEW t \in Workers, WorkerStep(t) PROVE Inv'
  BY <1>5, WorkerInv
<1>6. CASE Tick
  <2>1. now' \in Nat /\ now' > 0 /\ UNCHANGED <<flow, dev, tok, job>>
    BY <1>0, <1>6 DEF Tick, Inv
  <2>2. TypeOK'
    BY <2>1 DEF Inv, TypeOK
  <2>3. JobInv' /\ LockInv'
    BY <2>1 DEF Inv, JobInv, JobOK, LockInv, Pending
  <2>4. SourceInv' /\ DeniedNeverGranted'
    BY <2>1 DEF Inv, SourceInv, DeniedNeverGranted, SpentBy
  <2> QED BY <2>1, <2>2, <2>3, <2>4 DEF Inv
<1>7. CASE UNCHANGED vars
  <2>1. TypeOK' /\ (now > 0)'
    BY <1>7 DEF Inv, TypeOK, vars
  <2>2. JobInv' /\ LockInv'
    BY <1>7 DEF Inv, JobInv, JobOK, LockInv, Pending, vars
  <2>3. SourceInv' /\ DeniedNeverGranted'
    BY <1>7 DEF Inv, SourceInv, DeniedNeverGranted, SpentBy, vars
  <2> QED BY <2>1, <2>2, <2>3 DEF Inv
<1> QED BY <1>1, <1>2, <1>3, <1>4, <1>5, <1>6, <1>7 DEF Next

(* In every reachable state the codes and tokens are accounted for: each    *)
(* token row has a spent source of its own, only one request holds a code's *)
(* row, and no code is both denied and exchanged (device_svc.ExchangeToken, *)
(* Refresh).                                                                *)
THEOREM InvHolds == Spec => []Inv
  BY InitInv, NextInv, PTL DEF Spec

(* A denied code never yields a token, however the denial and the exchange  *)
(* interleave (device_flow_repo.MarkConsumed).                              *)
THEOREM DenialHolds == Spec => []DeniedNeverGranted
<1>1. Inv => DeniedNeverGranted
  BY DEF Inv
<1> QED BY InvHolds, <1>1, PTL
-----------------------------------------------------------------------------
(* The refinement. *)

LEMMA UseIs ==
    /\ Use = [c \in Flows \cup Tokens |-> Use[c]]
    /\ \A f \in Flows : Use[f] = UseOfFlow(f)
    /\ \A k \in Tokens : Use[k] = UseOfToken(k)
  BY DeviceAuthAssumption DEF Use

LEMMA UseNext ==
    /\ Use' = [c \in Flows \cup Tokens |-> Use'[c]]
    /\ \A f \in Flows : Use'[f] = UseOfFlow(f)'
    /\ \A k \in Tokens : Use'[k] = UseOfToken(k)'
  BY DeviceAuthAssumption DEF Use

LEMMA WithdrawStep ==
    ASSUME NEW V \in SUBSET {c \in Flows \cup Tokens : Use[c] \in {"unissued", "live"}},
           \A c \in Flows \cup Tokens : Use'[c] = IF c \in V THEN "void" ELSE Use[c]
    PROVE  Cred!Next
<1>1. Cred!Withdraw(V)
  BY UseNext DEF Cred!Withdraw, Cred!Items
<1>2. V \in SUBSET Cred!Unspent
  BY DEF Cred!Unspent, Cred!Items
<1> QED BY <1>1, <1>2 DEF Cred!Next

LEMMA SpendStep ==
    ASSUME NEW c \in Flows \cup Tokens, NEW k \in Tokens, c # k,
           Use[c] = "live", Use[k] = "unissued", Use'[c] = "spent", Use'[k] = "live",
           NEW V \in SUBSET {x \in Flows \cup Tokens : Use[x] \in {"unissued", "live"}},
           \A x \in Flows \cup Tokens : x # c /\ x # k =>
               Use'[x] = IF x \in V THEN "void" ELSE Use[x]
    PROVE  Cred!Next
<1>1. Cred!Spend(c, k, V)
  BY UseNext DEF Cred!Spend, Cred!Items
<1>2. V \in SUBSET Cred!Unspent /\ c \in Cred!Items
  BY DEF Cred!Unspent, Cred!Items
<1> QED BY <1>1, <1>2 DEF Cred!Next

LEMMA SameUse ==
    ASSUME \A c \in Flows \cup Tokens : Use'[c] = Use[c]
    PROVE  UNCHANGED Use
  BY UseIs, UseNext

(* An unrevoked row has yielded nothing. *)
LEMMA LiveUse ==
    ASSUME Inv, NEW k \in Tokens, tok[k].st = "row", tok[k].revoked = 0
    PROVE  UseOfToken(k) = "live"
<1>1. SpentBy(k) = {}
  BY DEF Inv, SourceInv, SpentBy
<1> QED BY <1>1 DEF UseOfToken

LEMMA UnissuedUse ==
    ASSUME Inv, NEW k \in Tokens, tok[k].st = "none"
    PROVE  UseOfToken(k) = "unissued" /\ SpentBy(k) = {}
  BY DEF Inv, SourceInv, SpentBy, UseOfToken

(* Without a new code state, tokens decide; and the other way round. *)
LEMMA FlowKeeps ==
    ASSUME UNCHANGED flow, NEW f \in Flows
    PROVE  Use'[f] = Use[f]
  BY UseIs, UseNext DEF UseOfFlow

LEMMA TokenKeeps ==
    ASSUME UNCHANGED tok, NEW k \in Tokens
    PROVE  Use'[k] = Use[k]
  BY UseIs, UseNext DEF UseOfToken, SpentBy
(* Rows are revoked or deleted and none appears: some live tokens are void. *)
LEMMA VoidTokens ==
    ASSUME Inv, UNCHANGED flow,
           \A k \in Tokens : /\ (tok'[k].st = "none") <=> (tok[k].st = "none")
                             /\ tok'[k].from = tok[k].from
                             /\ (tok'[k].st = "row" /\ tok'[k].revoked = 0)
                                   => (tok[k].st = "row" /\ tok[k].revoked = 0)
    PROVE  Cred!Next
<1> DEFINE V == {k \in Tokens : /\ tok[k].st = "row" /\ tok[k].revoked = 0
                               /\ ~(tok'[k].st = "row" /\ tok'[k].revoked = 0)}
<1>1. \A k \in V : Use[k] = "live"
  BY LiveUse, UseIs
<1>2. \A k \in Tokens : SpentBy(k)' = SpentBy(k)
  BY DEF SpentBy
<1>3. ASSUME NEW k \in Tokens PROVE Use'[k] = IF k \in V THEN "void" ELSE Use[k]
  <2>1. Use[k] = UseOfToken(k) /\ Use'[k] = UseOfToken(k)'
    BY UseIs, UseNext
  <2>2. CASE k \in V
    <3>1. SpentBy(k)' = {}
      BY <1>2, <2>2 DEF Inv, SourceInv, SpentBy
    <3>2. tok'[k].st # "none"
      BY <2>2
    <3> QED BY <2>1, <2>2, <3>1, <3>2 DEF UseOfToken
  <2>3. CASE k \notin V
    <3>1. (tok'[k].st = "row" /\ tok'[k].revoked = 0) <=> (tok[k].st = "row" /\ tok[k].revoked = 0)
      BY <2>3
    <3> QED BY <2>1, <2>3, <3>1, <1>2 DEF UseOfToken
  <2> QED BY <2>2, <2>3
<1>4. ASSUME NEW f \in Flows PROVE f \notin V /\ Use'[f] = Use[f]
  BY FlowKeeps, DeviceAuthAssumption
<1>5. V \in SUBSET {c \in Flows \cup Tokens : Use[c] \in {"unissued", "live"}}
  BY <1>1
<1>6. \A c \in Flows \cup Tokens : Use'[c] = IF c \in V THEN "void" ELSE Use[c]
  BY <1>3, <1>4
<1> HIDE DEF V
<1> QED BY <1>5, <1>6, WithdrawStep

LEMMA ChainVoids ==
    ASSUME Inv, UNCHANGED flow, NEW u, NEW n \in Nat \ {0}, tok' = Chain(u, n)
    PROVE  Cred!Next
<1>1. \A k \in Tokens : /\ (tok'[k].st = "none") <=> (tok[k].st = "none")
                        /\ tok'[k].from = tok[k].from
                        /\ (tok'[k].st = "row" /\ tok'[k].revoked = 0)
                              => (tok[k].st = "row" /\ tok[k].revoked = 0)
  BY DEF Chain, Inv, TypeOK, Row
<1> QED BY <1>1, VoidTokens

(* A code's row changes on its own. *)
LEMMA FlowUse ==
    ASSUME UNCHANGED tok, NEW f \in Flows,
           Use[f] \in {"unissued", "live"}, UseOfFlow(f)' = "void",
           \A g \in Flows : g # f => flow'[g] = flow[g]
    PROVE  Cred!Next
<1>1. \A c \in Flows \cup Tokens : Use'[c] = IF c \in {f} THEN "void" ELSE Use[c]
  <2>1. \A g \in Flows : g # f => Use'[g] = Use[g]
    BY UseIs, UseNext DEF UseOfFlow
  <2>2. Use'[f] = "void"
    BY UseNext
  <2>3. \A k \in Tokens : k # f /\ Use'[k] = Use[k]
    BY TokenKeeps, DeviceAuthAssumption
  <2> QED BY <2>1, <2>2, <2>3
<1> QED BY <1>1, WithdrawStep

LEMMA GrantSpends ==
    ASSUME Inv, NEW t \in Workers, NEW k \in Tokens, ExchangeGrant(t, k)
    PROVE  Cred!Next
<1> USE DeviceAuthAssumption
<1> DEFINE j == job[t]
           f == j.flow
<1>1. /\ f \in Flows /\ j.user \in Users /\ j.at \in Nat /\ Pending(f)
      /\ flow[f].by # NoUser /\ tok[k].st = "none" /\ f # k
  BY DEF ExchangeGrant, Inv, JobInv, JobOK, LockInv, TypeOK, Job
<1>2. flow'[f].consumed /\ \A g \in Flows : g # f => flow'[g] = flow[g]
  BY <1>1 DEF ExchangeGrant, Inv, TypeOK, Flow
<1>3. /\ DropOld(t) \in [Tokens -> Row]
      /\ tok' = [DropOld(t) EXCEPT ![k] = Fresh(j.user, f, j.at)]
  BY DEF ExchangeGrant, DropOld, Inv, TypeOK, Row, Presence
<1>4. \A l \in Tokens : l # k =>
          /\ tok'[l] = DropOld(t)[l]
          /\ tok'[l].from = tok[l].from
          /\ tok'[l].revoked = tok[l].revoked
          /\ (tok'[l].st = "none") <=> (tok[l].st = "none")
          /\ tok'[l].st = "row" => tok[l].st = "row"
  BY <1>3 DEF DropOld, Inv, TypeOK, Row, Presence
<1>5. tok'[k].st = "row" /\ tok'[k].revoked = 0 /\ tok'[k].from = f
  <2>1. tok'[k] = Fresh(j.user, f, j.at)
    BY <1>3
  <2> QED BY <1>1, <2>1, FreshType
<1>6. Inv'
  BY GrantStep
<1>7. Use[f] = "live" /\ Use'[f] = "spent"
  BY <1>1, <1>2, UseIs, UseNext DEF UseOfFlow, Pending
<1>8. Use[k] = "unissued"
  BY <1>1, UseIs, UnissuedUse
<1>9. \A l \in Tokens : SpentBy(l)' = SpentBy(l)
  <2>1. f \notin Tokens
    BY <1>1
  <2> QED BY <1>1, <1>4, <1>5, <2>1 DEF SpentBy
<1>10. Use'[k] = "live"
  <2>1. SpentBy(k)' = {}
    BY <1>1, <1>9, UnissuedUse
  <2> QED BY <2>1, <1>5, UseNext DEF UseOfToken
<1> DEFINE V == {l \in Tokens : l # k /\ tok[l].st = "row" /\ tok[l].revoked = 0 /\ tok'[l].st # "row"}
<1>11. \A l \in V : Use[l] = "live"
  BY LiveUse, UseIs
<1>12. ASSUME NEW l \in Tokens, l # k PROVE Use'[l] = IF l \in V THEN "void" ELSE Use[l]
  <2>1. Use[l] = UseOfToken(l) /\ Use'[l] = UseOfToken(l)'
    BY UseIs, UseNext
  <2>2. CASE l \in V
    <3>1. SpentBy(l)' = {}
      BY <1>9, <2>2 DEF Inv, SourceInv, SpentBy
    <3>2. tok'[l].st # "none" /\ tok'[l].st # "row"
      BY <1>4, <2>2
    <3> QED BY <2>1, <2>2, <3>1, <3>2 DEF UseOfToken
  <2>3. CASE l \notin V
    <3>1. (tok'[l].st = "row" /\ tok'[l].revoked = 0) <=> (tok[l].st = "row" /\ tok[l].revoked = 0)
      BY <1>4, <1>12, <2>3
    <3>2. (tok'[l].st = "none") <=> (tok[l].st = "none")
      BY <1>4, <1>12
    <3> QED BY <2>1, <2>3, <3>1, <3>2, <1>9 DEF UseOfToken
  <2> QED BY <2>2, <2>3
<1>13. ASSUME NEW g \in Flows, g # f PROVE Use'[g] = IF g \in V THEN "void" ELSE Use[g]
  <2>1. g \notin V
    OBVIOUS
  <2>2. Use'[g] = Use[g]
    BY <1>2, <1>13, UseIs, UseNext DEF UseOfFlow
  <2> QED BY <2>1, <2>2
<1>14. V \in SUBSET {x \in Flows \cup Tokens : Use[x] \in {"unissued", "live"}}
  BY <1>11
<1>15. \A x \in Flows \cup Tokens : x # f /\ x # k => Use'[x] = IF x \in V THEN "void" ELSE Use[x]
  BY <1>12, <1>13
<1> HIDE DEF V, f, j
<1> QED BY <1>1, <1>7, <1>8, <1>10, <1>14, <1>15, SpendStep

LEMMA RotateSpends ==
    ASSUME Inv, NEW t \in Workers, NEW k \in Tokens, RefreshRotate(t, k)
    PROVE  Cred!Next
<1> USE DeviceAuthAssumption
<1> DEFINE j == job[t]
<1>0. PICK o \in Tokens : o = j.token
  BY DEF RefreshRotate, Inv, JobInv, JobOK
<1>1. /\ j.user \in Users /\ j.at \in Nat \ {0} /\ tok[k].st = "none" /\ o # k
      /\ tok[o].st = "row" /\ tok[o].revoked = 0 /\ UNCHANGED flow
  BY <1>0 DEF RefreshRotate, Rotatable, Inv, JobInv, JobOK, TypeOK, Job
<1>2. tok' = [tok EXCEPT ![o].revoked = j.at, ![k] = Fresh(j.user, o, j.at)]
  BY <1>0 DEF RefreshRotate
<1>3. \A l \in Tokens : l # k /\ l # o => tok'[l] = tok[l]
  BY <1>1, <1>2 DEF Inv, TypeOK
<1>4. tok'[k].st = "row" /\ tok'[k].revoked = 0 /\ tok'[k].from = o
  <2>1. tok'[k] = Fresh(j.user, o, j.at)
    BY <1>2 DEF Inv, TypeOK
  <2> QED BY <1>1, <2>1, FreshType
<1>5. tok'[o].st = "row" /\ tok'[o].from = tok[o].from
  BY <1>1, <1>2 DEF Inv, TypeOK, Row
<1>6. Use[o] = "live" /\ Use[k] = "unissued" /\ SpentBy(k) = {}
  BY <1>1, UseIs, UnissuedUse, LiveUse
<1>7. k \in SpentBy(o)' /\ \A l \in Tokens : l # o => SpentBy(l)' = SpentBy(l)
  <2>1. k \in SpentBy(o)'
    BY <1>1, <1>4 DEF SpentBy
  <2>2. ASSUME NEW l \in Tokens, l # o PROVE SpentBy(l)' = SpentBy(l)
    <3>1. ASSUME NEW m \in Tokens
          PROVE  (tok'[m].st # "none" /\ tok'[m].from = l) <=> (tok[m].st # "none" /\ tok[m].from = l)
      <4>1. CASE m = k
        BY <2>2, <4>1, <1>1, <1>4
      <4>2. CASE m = o
        BY <4>2, <1>1, <1>5
      <4>3. CASE m # k /\ m # o
        BY <4>3, <1>3
      <4> QED BY <4>1, <4>2, <4>3
    <3> QED BY <3>1 DEF SpentBy
  <2> QED BY <2>1, <2>2
<1>8. Use'[o] = "spent"
  <2>1. SpentBy(o)' # {} /\ tok'[o].st # "none"
    BY <1>5, <1>7
  <2>2. UseOfToken(o)' = "spent"
    BY <2>1 DEF UseOfToken
  <2> QED BY <1>1, <2>2, UseNext
<1>9. Use'[k] = "live"
  BY <1>1, <1>4, <1>6, <1>7, UseNext DEF UseOfToken
<1>10. \A l \in Tokens : l # o /\ l # k => Use'[l] = Use[l]
  BY <1>3, <1>7, UseIs, UseNext DEF UseOfToken
<1>11. \A x \in Flows \cup Tokens : x # o /\ x # k => Use'[x] = IF x \in {} THEN "void" ELSE Use[x]
  BY <1>1, <1>10, FlowKeeps
<1> HIDE DEF j
<1> QED BY <1>1, <1>6, <1>8, <1>9, <1>11, SpendStep
LEMMA RefinesNext == Inv /\ [Next]_vars => [Cred!Next]_Use
<1> SUFFICES ASSUME Inv, [Next]_vars PROVE Cred!Next \/ UNCHANGED Use
  OBVIOUS
<1> USE DeviceAuthAssumption
<1>0. flow \in [Flows -> Flow]
  BY DEF Inv, TypeOK
<1>1. ASSUME UNCHANGED <<flow, tok>> PROVE UNCHANGED Use
  BY <1>1, FlowKeeps, TokenKeeps, SameUse
(* A code's row changes without settling it. *)
<1>2. ASSUME NEW f \in Flows, UNCHANGED tok, UseOfFlow(f)' = UseOfFlow(f),
             \A g \in Flows : g # f => flow'[g] = flow[g]
      PROVE  UNCHANGED Use
  <2>1. ASSUME NEW g \in Flows PROVE Use'[g] = Use[g]
    <3>1. CASE g = f
      BY <1>2, <3>1, UseIs, UseNext
    <3>2. CASE g # f
      BY <1>2, <3>2, UseIs, UseNext DEF UseOfFlow
    <3> QED BY <3>1, <3>2
  <2> QED BY <1>2, <2>1, TokenKeeps, SameUse
<1>3. ASSUME NEW f \in Flows, Authorize(f) PROVE UNCHANGED Use
  <2>1. /\ UNCHANGED tok /\ \A g \in Flows : g # f => flow'[g] = flow[g]
        /\ flow[f].st = "none" /\ flow'[f].st = "row" /\ flow'[f].by = flow[f].by
        /\ flow'[f].consumed = flow[f].consumed /\ flow'[f].denied = flow[f].denied
    BY <1>0, <1>3 DEF Authorize, Flow
  <2>2. UseOfFlow(f)' = UseOfFlow(f)
    BY <2>1 DEF UseOfFlow
  <2> QED BY <1>2, <2>1, <2>2
<1>4. ASSUME NEW f \in Flows, Deny(f) PROVE Cred!Next
  <2>1. /\ UNCHANGED tok /\ \A g \in Flows : g # f => flow'[g] = flow[g]
        /\ flow'[f].denied /\ ~flow'[f].consumed
        /\ flow[f].st = "row" /\ ~flow[f].consumed /\ ~flow[f].denied
    BY <1>0, <1>4 DEF Deny, Pending, Flow
  <2>2. Use[f] \in {"unissued", "live"} /\ UseOfFlow(f)' = "void"
    BY <2>1, UseIs DEF UseOfFlow
  <2> QED BY <2>1, <2>2, FlowUse
<1>5. ASSUME NEW f \in Flows, CleanFlow(f) PROVE Cred!Next \/ UNCHANGED Use
  <2>1. /\ UNCHANGED tok /\ \A g \in Flows : g # f => flow'[g] = flow[g]
        /\ flow[f].st = "row" /\ flow'[f].st = "gone" /\ flow'[f].by = flow[f].by
        /\ flow'[f].consumed = flow[f].consumed /\ flow'[f].denied = flow[f].denied
    BY <1>0, <1>5 DEF CleanFlow, Flow
  <2>2. CASE flow[f].consumed \/ flow[f].denied
    <3>1. UseOfFlow(f)' = UseOfFlow(f)
      BY <2>1, <2>2 DEF UseOfFlow
    <3> QED BY <1>2, <2>1, <3>1
  <2>3. CASE ~flow[f].consumed /\ ~flow[f].denied
    <3>1. Use[f] \in {"unissued", "live"} /\ UseOfFlow(f)' = "void"
      BY <2>1, <2>3, UseIs DEF UseOfFlow
    <3> QED BY <2>1, <3>1, FlowUse
  <2> QED BY <2>2, <2>3
<1>6. ASSUME NEW k \in Tokens, CleanToken(k) PROVE Cred!Next
  <2>1. UNCHANGED flow
    BY <1>6 DEF CleanToken
  <2>2. \A l \in Tokens : /\ (tok'[l].st = "none") <=> (tok[l].st = "none")
                          /\ tok'[l].from = tok[l].from
                          /\ (tok'[l].st = "row" /\ tok'[l].revoked = 0)
                                => (tok[l].st = "row" /\ tok[l].revoked = 0)
    BY <1>6 DEF CleanToken, Inv, TypeOK, Row
  <2> QED BY <2>1, <2>2, VoidTokens
<1>7. ASSUME NEW t \in Workers, ApproveWrite(t) PROVE Cred!Next \/ UNCHANGED Use
  <2>0. PICK f \in Flows : f = job[t].flow
    BY <1>7 DEF ApproveWrite, Inv, JobInv, JobOK
  <2>1. job[t].user \in Users /\ job[t].user # NoUser /\ UNCHANGED tok
    BY <1>7 DEF ApproveWrite, Inv, JobInv, JobOK
  <2>2. CASE Pending(f) /\ flow[f].exp > job[t].at
    <3>1. /\ \A g \in Flows : g # f => flow'[g] = flow[g]
          /\ flow'[f].by # NoUser /\ flow'[f].st = flow[f].st
          /\ flow'[f].consumed = flow[f].consumed /\ flow'[f].denied = flow[f].denied
      BY <1>0, <1>7, <2>0, <2>1, <2>2 DEF ApproveWrite, Flow
    <3>2. CASE flow[f].by # NoUser
      <4>1. UseOfFlow(f)' = UseOfFlow(f)
        BY <3>1, <3>2 DEF UseOfFlow
      <4> QED BY <1>2, <2>1, <3>1, <4>1
    <3>3. CASE flow[f].by = NoUser
      <4>1. Use[f] = "unissued" /\ Use'[f] = "live"
        BY <2>1, <2>2, <3>1, <3>3, UseIs, UseNext DEF UseOfFlow, Pending
      <4>2. \A c \in Flows \cup Tokens : c # f => Use'[c] = Use[c]
        <5>1. \A g \in Flows : g # f => Use'[g] = Use[g]
          BY <3>1, UseIs, UseNext DEF UseOfFlow
        <5> QED BY <2>1, <5>1, TokenKeeps
      <4>3. Use' = [Use EXCEPT ![f] = "live"]
        <5> QED BY <2>1, <4>1, <4>2, UseIs, UseNext
      <4>4. Cred!Issue(f)
        BY <4>1, <4>3 DEF Cred!Issue
      <4> QED BY <2>1, <4>4 DEF Cred!Next
    <3> QED BY <3>2, <3>3
  <2>3. CASE ~(Pending(f) /\ flow[f].exp > job[t].at)
    BY <1>1, <1>7, <2>0, <2>1, <2>3 DEF ApproveWrite
  <2> QED BY <2>2, <2>3
<1>8. ASSUME NEW t \in Workers, ExchangePoll(t) PROVE UNCHANGED Use
  <2>0. PICK f \in Flows : f = job[t].flow
    BY <1>8 DEF ExchangePoll, Inv, JobInv, JobOK
  <2>1. /\ UNCHANGED tok
        /\ (flow' = flow) \/ (flow' = [flow EXCEPT ![f].polled = job[t].at])
    BY <1>8, <2>0 DEF ExchangePoll, Inv, JobInv, JobOK
  <2>2. /\ \A g \in Flows : g # f => flow'[g] = flow[g]
        /\ flow'[f].by = flow[f].by /\ flow'[f].st = flow[f].st
        /\ flow'[f].consumed = flow[f].consumed /\ flow'[f].denied = flow[f].denied
    BY <1>0, <2>1 DEF Flow
  <2>3. UseOfFlow(f)' = UseOfFlow(f)
    BY <2>2 DEF UseOfFlow
  <2> QED BY <1>2, <2>1, <2>2, <2>3
<1>9. ASSUME NEW t \in Workers, WorkerStep(t) PROVE Cred!Next \/ UNCHANGED Use
  <2>1. ASSUME NEW k \in Tokens, ExchangeGrant(t, k) PROVE Cred!Next
    BY <2>1, GrantSpends
  <2>2. ASSUME NEW k \in Tokens, RefreshRotate(t, k) PROVE Cred!Next
    BY <2>2, RotateSpends
  <2>3. ASSUME RefreshReplay(t) \/ RevokeChain(t) PROVE Cred!Next
    <3>1. /\ tok' = Chain(job[t].user, job[t].at) /\ UNCHANGED flow
          /\ job[t].at \in Nat \ {0}
      BY <2>3 DEF RefreshReplay, RevokeChain, Inv, JobInv, JobOK, TypeOK, Job
    <3> QED BY <3>1, ChainVoids
  <2>4. CASE \E u \in Users, f \in Flows : ApproveRead(t, u, f)
    BY <1>1, <2>4 DEF ApproveRead
  <2>5. CASE \E f \in Flows : ExchangeRead(t, f)
    BY <1>1, <2>5 DEF ExchangeRead
  <2>6. CASE ExchangeConsume(t) \/ ExchangePrevious(t)
    BY <1>1, <2>6 DEF ExchangeConsume, ExchangePrevious
  <2>7. CASE \E k \in Tokens : RefreshRow(t, k)
    BY <1>1, <2>7 DEF RefreshRow
  <2>8. CASE RefreshDevice(t) \/ RefreshLost(t)
    BY <1>1, <2>8 DEF RefreshDevice, RefreshLost
  <2>9. CASE \E u \in Users : RevokeBegin(t, u)
    BY <1>1, <2>9 DEF RevokeBegin
  <2>10. CASE RevokeDevice(t) \/ Abort(t)
    BY <1>1, <2>10 DEF RevokeDevice, Abort
  <2> QED BY <1>7, <1>8, <1>9, <2>1, <2>2, <2>3, <2>4, <2>5, <2>6, <2>7, <2>8, <2>9, <2>10
          DEF WorkerStep
<1>10. CASE Tick \/ UNCHANGED vars
  BY <1>1, <1>10 DEF Tick, vars
<1> QED BY <1>3, <1>4, <1>5, <1>6, <1>9, <1>10 DEF Next

LEMMA RefinesInit == Init => Cred!Init
<1> SUFFICES ASSUME Init PROVE Cred!Init
  OBVIOUS
<1>1. \A f \in Flows : Use[f] = "unissued"
  BY UseIs DEF Init, UseOfFlow
<1>2. \A k \in Tokens : Use[k] = "unissued"
  BY UseIs DEF Init, UseOfToken
<1> QED BY <1>1, <1>2, UseIs DEF Cred!Init, Cred!Items

(* Device authorization implements one-time credentials: for any number of  *)
(* requests, retries, crashes, denials, revocations and cleanups, a device  *)
(* code and a refresh token yield at most one successor, and none once they *)
(* are spent or withdrawn.                                                  *)
THEOREM Implements == Spec => ImplementsCredential
<1>1. Init => Cred!Init
  BY RefinesInit
<1>2. Inv /\ [Next]_vars => [Cred!Next]_Use
  BY RefinesNext
<1> QED BY InvHolds, <1>1, <1>2, PTL DEF Spec, ImplementsCredential, Cred!Spec

-----------------------------------------------------------------------------
(* What a revocation leaves behind. *)

\* A token row belongs to one account for good.
LEMMA OwnerKept ==
    ASSUME Inv, [Next]_vars, NEW k \in Tokens, tok[k].st = "row", tok'[k].st = "row"
    PROVE  tok'[k].user = tok[k].user
<1> USE DEF Inv, TypeOK
<1>1. ASSUME NEW t \in Workers, NEW l \in Tokens, ExchangeGrant(t, l)
      PROVE  tok'[k].user = tok[k].user
  <2>1. k # l /\ tok'[k] = DropOld(t)[k]
    BY <1>1 DEF ExchangeGrant, DropOld
  <2>2. DropOld(t)[k] = tok[k] \/ DropOld(t)[k] = [tok[k] EXCEPT !.st = "gone"]
    BY DEF DropOld
  <2> QED BY <2>1, <2>2 DEF Row
<1>2. ASSUME NEW u, NEW at, tok' = Chain(u, at)
      PROVE  tok'[k].user = tok[k].user
  <2>1. tok'[k] = tok[k] \/ tok'[k] = [tok[k] EXCEPT !.revoked = at]
    BY <1>2 DEF Chain
  <2> QED BY <2>1 DEF Row
<1>3. ASSUME NEW t \in Workers, NEW l \in Tokens, RefreshRotate(t, l)
      PROVE  tok'[k].user = tok[k].user
  <2>1. k # l
    BY <1>3 DEF RefreshRotate
  <2>2. tok'[k] = tok[k] \/ tok'[k] = [tok[k] EXCEPT !.revoked = job[t].at]
    BY <1>3, <2>1 DEF RefreshRotate
  <2> QED BY <2>2 DEF Row
<1>4. ASSUME NEW t \in Workers, WorkerStep(t) PROVE tok'[k].user = tok[k].user
  BY <1>1, <1>2, <1>3, <1>4 DEF WorkerStep, ApproveRead, ApproveWrite, ExchangeRead, ExchangePoll,
     ExchangeConsume, ExchangePrevious, RefreshRow, RefreshDevice, RefreshReplay, RefreshLost,
     RevokeBegin, RevokeChain, RevokeDevice, Abort
<1>5. ASSUME NEW l \in Tokens, CleanToken(l) PROVE tok'[k].user = tok[k].user
  <2>1. tok'[k] = tok[k] \/ tok'[k] = [tok[k] EXCEPT !.st = "gone"]
    BY <1>5 DEF CleanToken
  <2> QED BY <2>1 DEF Row
<1> QED BY <1>4, <1>5 DEF Next, Authorize, Deny, CleanFlow, Tick, vars

\* A revoked device becomes active only by an exchange.
LEMMA RevivedByGrant ==
    ASSUME Inv, [Next]_vars, NEW u \in Users, dev[u] = "revoked", dev'[u] = "active"
    PROVE  \E t \in Workers, l \in Tokens : ExchangeGrant(t, l) /\ job[t].user = u
<1> USE DEF Inv, TypeOK
<1>1. ASSUME NEW t \in Workers, NEW l \in Tokens, ExchangeGrant(t, l) PROVE job[t].user = u
  BY <1>1 DEF ExchangeGrant
<1>2. ASSUME NEW t \in Workers, RevokeDevice(t) PROVE FALSE
  BY <1>2 DEF RevokeDevice
<1>3. ASSUME NEW t \in Workers, WorkerStep(t), ~\E l \in Tokens : ExchangeGrant(t, l) PROVE FALSE
  BY <1>2, <1>3 DEF WorkerStep, ApproveRead, ApproveWrite, ExchangeRead, ExchangePoll,
     ExchangeConsume, ExchangePrevious, RefreshRow, RefreshDevice, RefreshReplay, RefreshRotate,
     RefreshLost, RevokeBegin, RevokeChain, Abort
<1> QED BY <1>1, <1>3 DEF Next, Authorize, Deny, CleanFlow, CleanToken, Tick, vars

(* A token that died with its device resolves again only through an exchange *)
(* that read the device before the revocation was written (DeleteByDevice,   *)
(* ExchangeToken): any other exchange deletes the rows of before.            *)
THEOREM RevocationHolds == Spec => RevocationSticks
<1>1. Inv /\ [Next]_vars =>
        [\A k \in Tokens : tok[k].st = "row" /\ dev[tok[k].user] = "revoked" /\ Resolves(k)'
             => Reviving(tok[k].user)]_vars
  <2> SUFFICES ASSUME Inv, [Next]_vars, NEW k \in Tokens, tok[k].st = "row",
                      dev[tok[k].user] = "revoked", Resolves(k)'
               PROVE  Reviving(tok[k].user)
    OBVIOUS
  <2> DEFINE u == tok[k].user
  <2>1. tok'[k].st = "row" /\ dev'[tok'[k].user] = "active"
    BY DEF Resolves
  <2>2. u \in Users /\ tok'[k].user = u
    BY <2>1, OwnerKept DEF Inv, TypeOK, Row, SourceInv
  <2> HIDE DEF u
  <2>3. PICK t \in Workers, l \in Tokens : ExchangeGrant(t, l) /\ job[t].user = u
    BY <2>1, <2>2, RevivedByGrant DEF u
  <2>4. job[t].step = "grant"
    BY <2>3 DEF ExchangeGrant
  <2>5. job[t].prev # "revoked"
    <3> SUFFICES ASSUME job[t].prev = "revoked" PROVE FALSE
      OBVIOUS
    <3>1. k # l
      BY <2>3 DEF ExchangeGrant
    <3>2. tok'[k] = DropOld(t)[k]
      BY <2>3, <3>1 DEF ExchangeGrant, Inv, TypeOK, DropOld
    <3>3. DropOld(t)[k] = [tok[k] EXCEPT !.st = "gone"]
      BY <2>3 DEF DropOld, u
    <3> QED BY <2>1, <3>2, <3>3 DEF Inv, TypeOK, Row
  <2> QED BY <2>3, <2>4, <2>5 DEF Reviving, u
<1> QED BY <1>1, InvHolds, PTL DEF Spec, RevocationSticks
=============================================================================
