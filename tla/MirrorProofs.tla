---------------------------- MODULE MirrorProofs ----------------------------
(***************************************************************************)
(* Proofs about Mirror, for any replicas, conversations and bounds: one     *)
(* follower per machine while its lease lasts, no deletion forgotten, no     *)
(* summary that promises frames which are not there, and nothing kept of    *)
(* what a user did not save.                                                *)
(*                                                                         *)
(* MirrorInv is not inductive: a todo may be struck off only because the    *)
(* machine has deleted the conversation or it was saved again, which the    *)
(* replay learnt some steps before; and a step is well typed only because   *)
(* the follower has a conversation in hand. IInv says both.                 *)
(*                                                                         *)
(* A stored cursor is written from the follower's object, from the list it  *)
(* has read, or by a write that has been on its way for a while; and a row   *)
(* may be written by whoever has not heard yet that it is not saved. So     *)
(* StoreInv says of each cursor that may still be stored that frames stand  *)
(* under it, and of each who may still write that they are about to be told.*)
(***************************************************************************)
EXTENDS Mirror, SequenceTheorems, TLAPS

Awake(f) == f.pc \notin {"off", "claim", "tell"}

\* A follower with work in hand knows of which conversation, and which frame.
Well(f) ==
    /\ f \in Follower
    /\ f.pc \in {"wipe", "rewrite", "pull", "write", "save", "frame", "touch", "clear", "clearRow"}
         => f.cur \in Convs
    /\ f.pc = "tell" => f.ask \in Convs
    /\ f.pc = "frame" => f.page > 0

MachineOK ==
    /\ log \in [Convs -> 0 .. MaxLog] /\ asleep \subseteq Convs /\ gone \subseteq Convs
    /\ link \in [id : 0 .. MaxLinks, on : BOOLEAN]

SavesOK == saves \subseteq Convs /\ todos \subseteq Convs

CopyOK == frames \in [Convs -> SUBSET Seqs] /\ row \in [Convs -> 0 .. MaxLog \cup {NoRow}]

FolOK == fol \in [Replicas -> Follower] /\ \A r \in Replicas : Well(fol[r])

ObjOK == obj \in [Replicas -> [Convs -> Tracked]]

QueuesOK == notes \in [Replicas -> Seq(Note)] /\ hints \in [Replicas -> Seq(Hint)]

LeaseOK == lease \in Replicas \cup {NoReplica} /\ lost \subseteq Replicas /\ LeaseIsKept

\* A replay strikes off what was saved again or is gone.
PassOK ==
    /\ pass \in Pass
    /\ pass.step # "none" => pass.at \in Replicas
    /\ pass.step = "clear" => pass.c \in Convs /\ pass.c \in pass.again \cup gone

\* A request that has come to the machine has taken the conversation off the saved ones.
ReqOK ==
    /\ req \in Request
    /\ req.step # "none" => req.at \in Replicas /\ req.c \in Convs
    /\ req.step = "machine" => req.c \notin saves

DeletedOK ==
    /\ deleted \subseteq Convs /\ crossed \subseteq Convs
    /\ DeletionReaches /\ saves \cap deleted = {}

BudgetOK == left \in Budget

IInv ==
    /\ MachineOK /\ SavesOK /\ CopyOK /\ FolOK /\ ObjOK /\ QueuesOK
    /\ LeaseOK /\ PassOK /\ ReqOK /\ DeletedOK /\ BudgetOK

-----------------------------------------------------------------------------
(* What the operators keep.                                                *)

LEMMA FaultKeeps ==
    ASSUME BudgetOK, NEW k, NoFault \/ Fault(k)
    PROVE  BudgetOK'
<1>1. CASE NoFault BY <1>1 DEF BudgetOK, NoFault
<1>2. CASE Fault(k) BY <1>2 DEF BudgetOK, Fault, Budget
<1> QED BY <1>1, <1>2

\* A step of a follower changes nothing of the machine, the saves, the cron job and the
\* request; a mark only excepts more.
LEMMA CalmKeeps ==
    ASSUME IInv, Calm
    PROVE  MachineOK' /\ SavesOK' /\ PassOK' /\ ReqOK'
BY DEF IInv, Calm, machine, MachineOK, SavesOK, PassOK, ReqOK

LEMMA CalmLedger ==
    ASSUME IInv, Calm, deleted' = deleted, crossed \subseteq crossed', crossed' \subseteq Convs
    PROVE  DeletedOK'
BY DEF IInv, Calm, machine, DeletedOK, DeletionReaches

LEMMA MarkKeeps ==
    ASSUME IInv, Calm, NEW S \in SUBSET Convs, Mark(S)
    PROVE  DeletedOK' /\ lost' = lost
<1>1. deleted' = deleted /\ lost' = lost /\ crossed' = crossed \cup S BY DEF Mark
<1>2. crossed \subseteq crossed' /\ crossed' \subseteq Convs BY <1>1 DEF IInv, DeletedOK
<1> QED BY <1>1, <1>2, CalmLedger

\* A follower that is not woken by its step keeps what its lease says.
LEMMA PutKeeps ==
    ASSUME IInv, NEW r \in Replicas, NEW f, Put(r, f), Well(f), Awake(f) => Awake(fol[r])
    PROVE  /\ FolOK'
           /\ lease' = lease /\ lost' = lost => LeaseOK'
<1>1. fol' = [fol EXCEPT ![r] = f] BY DEF Put
<1>2. fol \in [Replicas -> Follower] BY DEF IInv, FolOK
<1>3. f \in Follower BY DEF Well
<1>4. fol' \in [Replicas -> Follower] BY <1>1, <1>2, <1>3
<1>5. fol'[r] = f /\ \A q \in Replicas \ {r} : fol'[q] = fol[q] BY <1>1, <1>2
<1>6. \A q \in Replicas : Well(fol'[q]) BY <1>5 DEF IInv, FolOK
<1>7. ASSUME lease' = lease, lost' = lost
      PROVE  LeaseOK'
  <2>1. ASSUME NEW q \in Replicas \ lost', fol'[q].pc \notin {"off", "claim", "tell"}
        PROVE  lease' = q
    BY <1>7, <1>5, <2>1 DEF IInv, LeaseOK, LeaseIsKept, Awake
  <2> QED BY <2>1, <1>7 DEF IInv, LeaseOK, LeaseIsKept
<1> QED BY <1>4, <1>6, <1>7 DEF FolOK

LEMMA PutFollower ==
    ASSUME IInv, NEW r \in Replicas, NEW f, Put(r, f), Well(f)
    PROVE  FolOK'
<1>1. fol \in [Replicas -> Follower] BY DEF IInv, FolOK
<1>2. f \in Follower BY DEF Well
<1>3. fol' \in [Replicas -> Follower] /\ fol'[r] = f BY <1>1, <1>2 DEF Put
<1>4. \A q \in Replicas \ {r} : fol'[q] = fol[q] BY <1>1 DEF Put
<1> QED BY <1>3, <1>4 DEF IInv, FolOK

LEMMA PutObjKeeps ==
    ASSUME IInv, NEW r \in Replicas, NEW c \in Convs, NEW o \in Tracked, PutObj(r, c, o)
    PROVE  ObjOK'
<1>1. obj \in [Replicas -> [Convs -> Tracked]] BY DEF IInv, ObjOK
<1>2. obj' = [obj EXCEPT ![r] = [obj[r] EXCEPT ![c] = o]] BY DEF PutObj
<1>3. [obj[r] EXCEPT ![c] = o] \in [Convs -> Tracked] BY <1>1
<1> QED BY <1>1, <1>2, <1>3 DEF ObjOK

LEMMA ResyncWell ==
    ASSUME NEW f, Well(f)
    PROVE  Well([f EXCEPT !.resync = TRUE]) /\ [f EXCEPT !.resync = TRUE].pc = f.pc
BY DEF Well, Follower

\* Followers of next that are asked for a Sync besides.
LEMMA AskedKeep ==
    ASSUME IInv, NEW next \in [Replicas -> Follower],
           \A r \in Replicas : Well(next[r]) /\ (Awake(next[r]) => Awake(fol[r])),
           fol' = [r \in Replicas |-> fol'[r]],
           \A r \in Replicas : fol'[r] = next[r] \/ fol'[r] = [next[r] EXCEPT !.resync = TRUE],
           lease' = lease, lost' = lost
    PROVE  FolOK' /\ LeaseOK'
<1>1. \A r \in Replicas : Well(fol'[r]) /\ fol'[r].pc = next[r].pc BY ResyncWell
<1>2. fol' \in [Replicas -> Follower] BY <1>1 DEF Well
<1>3. LeaseIsKept' BY <1>1 DEF IInv, LeaseOK, LeaseIsKept, Awake
<1> QED BY <1>1, <1>2, <1>3 DEF IInv, FolOK, LeaseOK

LEMMA NotifyKeeps ==
    ASSUME IInv, NEW c \in Convs, NEW n \in 0 .. MaxLog, NEW b \in Budget, Notify(c, n, b),
           lease' = lease, lost' = lost, hints' = hints
    PROVE  FolOK' /\ LeaseOK' /\ QueuesOK' /\ BudgetOK'
<1> USE DEF IInv
<1>1. fol \in [Replicas -> Follower] /\ \A r \in Replicas : Well(fol[r]) BY DEF FolOK
<1>2. notes \in [Replicas -> Seq(Note)] BY DEF QueuesOK
<1>3. CASE Fault("lost") /\ UNCHANGED <<notes, fol>>
  <2>1. BudgetOK' BY <1>3, FaultKeeps
  <2> QED BY <1>3, <2>1 DEF FolOK, LeaseOK, LeaseIsKept, QueuesOK
<1>4. ASSUME left' = b,
             notes' = [r \in Replicas |->
                         IF r \in Hearing(c) /\ Len(notes[r]) < NoteBuffer
                           THEN Append(notes[r], [c |-> c, seq |-> n]) ELSE notes[r]],
             fol' = [r \in Replicas |->
                         IF r \in Hearing(c) /\ Len(notes[r]) >= NoteBuffer
                           THEN [fol[r] EXCEPT !.resync = TRUE] ELSE fol[r]]
      PROVE  FolOK' /\ LeaseOK' /\ QueuesOK' /\ BudgetOK'
  <2>1. BudgetOK' BY <1>4 DEF BudgetOK
  <2>2. [c |-> c, seq |-> n] \in Note BY DEF Note
  <2>3. \A r \in Replicas : Append(notes[r], [c |-> c, seq |-> n]) \in Seq(Note) BY <1>2, <2>2
  <2>4. QueuesOK' BY <1>2, <1>4, <2>3 DEF QueuesOK
  <2>5. \A r \in Replicas : fol'[r] = fol[r] \/ fol'[r] = [fol[r] EXCEPT !.resync = TRUE] BY <1>4
  <2>6. fol' = [r \in Replicas |-> fol'[r]] BY <1>4
  <2>7. FolOK' /\ LeaseOK' BY <1>1, <2>5, <2>6, AskedKeep
  <2> QED BY <2>1, <2>4, <2>7
<1> QED BY <1>3, <1>4 DEF Notify

LEMMA PublishKeeps ==
    ASSUME IInv, NEW kind \in {"saved", "deleted"}, NEW c \in Convs,
           NEW next \in [Replicas -> Follower],
           \A r \in Replicas : Well(next[r]) /\ (Awake(next[r]) => Awake(fol[r])),
           Publish(kind, c, next), lease' = lease, lost' = lost, notes' = notes
    PROVE  FolOK' /\ LeaseOK' /\ QueuesOK'
<1> USE DEF IInv
<1>1. hints \in [Replicas -> Seq(Hint)] BY DEF QueuesOK
<1>2. CASE fol' = next /\ UNCHANGED hints
  <2>1. fol' = [r \in Replicas |-> fol'[r]] BY <1>2
  <2>2. FolOK' /\ LeaseOK' BY <1>2, <2>1, AskedKeep
  <2> QED BY <1>2, <2>2 DEF QueuesOK
<1>3. ASSUME hints' = [r \in Replicas |->
                         IF Hears(r) /\ Len(hints[r]) < HintBuffer
                           THEN Append(hints[r], [kind |-> kind, c |-> c]) ELSE hints[r]],
             fol' = [r \in Replicas |->
                         IF Hears(r) /\ Len(hints[r]) >= HintBuffer
                           THEN [next[r] EXCEPT !.resync = TRUE] ELSE next[r]]
      PROVE  FolOK' /\ LeaseOK' /\ QueuesOK'
  <2>1. [kind |-> kind, c |-> c] \in Hint BY DEF Hint
  <2>2. \A r \in Replicas : Append(hints[r], [kind |-> kind, c |-> c]) \in Seq(Hint) BY <1>1, <2>1
  <2>3. QueuesOK' BY <1>1, <1>3, <2>2 DEF QueuesOK
  <2>4. \A r \in Replicas : fol'[r] = next[r] \/ fol'[r] = [next[r] EXCEPT !.resync = TRUE] BY <1>3
  <2>5. fol' = [r \in Replicas |-> fol'[r]] BY <1>3
  <2>6. FolOK' /\ LeaseOK' BY <2>4, <2>5, AskedKeep
  <2> QED BY <2>3, <2>6
<1> QED BY <1>2, <1>3 DEF Publish

-----------------------------------------------------------------------------
(* The machine.                                                            *)

LEMMA EmitKeeps ==
    ASSUME IInv, NEW c \in Convs, Emit(c)
    PROVE  IInv'
<1>1. log[c] \in 0 .. MaxLog /\ left.log \in 0 .. MaxLog /\ left \in Budget
  BY DEF IInv, MachineOK, BudgetOK, Budget
<1>2. log[c] + 1 \in 0 .. MaxLog BY <1>1, MirrorAssumption DEF Emit
<1>3. Notify(c, log[c] + 1, left) BY DEF Emit
<1>4. FolOK' /\ LeaseOK' /\ QueuesOK' /\ BudgetOK'
  BY <1>1, <1>2, <1>3, NotifyKeeps DEF Emit, ledger
<1>5. MachineOK' BY <1>2 DEF IInv, MachineOK, Emit
<1>6. SavesOK' /\ CopyOK' /\ ObjOK' /\ PassOK' /\ ReqOK' /\ DeletedOK'
  BY DEF IInv, Emit, copy, ledger, SavesOK, CopyOK, ObjOK, PassOK, ReqOK, DeletedOK, DeletionReaches
<1> QED BY <1>4, <1>5, <1>6 DEF IInv

LEMMA BoundaryKeeps ==
    ASSUME IInv, NEW c \in Convs, Boundary(c)
    PROVE  IInv'
<1>1. left \in Budget /\ left.turns > 0 BY DEF IInv, BudgetOK, Boundary
<1>2. [left EXCEPT !.turns = left.turns - 1] \in Budget BY <1>1 DEF Budget
<1>3. Notify(c, 0, [left EXCEPT !.turns = left.turns - 1]) BY DEF Boundary
<1>4. 0 \in 0 .. MaxLog BY MirrorAssumption
<1>5. FolOK' /\ LeaseOK' /\ QueuesOK' /\ BudgetOK'
  BY <1>2, <1>3, <1>4, NotifyKeeps DEF Boundary, ledger
<1>6. MachineOK' /\ SavesOK' /\ CopyOK' /\ ObjOK' /\ PassOK' /\ ReqOK' /\ DeletedOK'
  BY DEF IInv, Boundary, machine, copy, ledger, MachineOK, SavesOK, CopyOK, ObjOK, PassOK, ReqOK,
         DeletedOK, DeletionReaches
<1> QED BY <1>5, <1>6 DEF IInv

\* What leaves everything but the machine's own state alone keeps the rest.
LEMMA AlonesKeep ==
    ASSUME IInv, UNCHANGED <<gone, saves, todos, copy, lease, memory, pass, req, ledger>>
    PROVE  /\ SavesOK' /\ CopyOK' /\ FolOK' /\ ObjOK' /\ QueuesOK'
           /\ LeaseOK' /\ PassOK' /\ ReqOK' /\ DeletedOK'
BY DEF IInv, copy, memory, ledger, SavesOK, CopyOK, FolOK, ObjOK, QueuesOK, LeaseOK, LeaseIsKept,
       PassOK, ReqOK, DeletedOK, DeletionReaches

LEMMA GoOfflineKeeps == ASSUME IInv, GoOffline PROVE IInv'
<1>1. MachineOK' /\ BudgetOK' BY DEF IInv, MachineOK, BudgetOK, GoOffline
<1> QED BY <1>1, AlonesKeep DEF IInv, GoOffline

LEMMA WakeKeeps == ASSUME IInv, NEW c \in Convs, Wake(c) PROVE IInv'
<1>1. MachineOK' /\ BudgetOK' BY DEF IInv, MachineOK, BudgetOK, Wake
<1> QED BY <1>1, AlonesKeep DEF IInv, Wake

LEMMA ReturnKeeps == ASSUME IInv, NEW S \in SUBSET Convs, Return(S) PROVE IInv'
<1>1. left \in Budget /\ left.links > 0 BY DEF IInv, BudgetOK, Return
<1>2. [left EXCEPT !.links = left.links - 1] \in Budget BY <1>1 DEF Budget
<1>3. [left EXCEPT !.links = left.links - 1, !.faults = left.faults \ {"rewind"}] \in Budget
  <2>1. left.links - 1 \in Nat /\ left.faults \ {"rewind"} \in SUBSET Faults BY <1>1 DEF Budget
  <2> QED BY <1>1, <2>1, Zenon DEF Budget
<1>4. BudgetOK' BY <1>2, <1>3 DEF Return, BudgetOK
<1>5. link' \in [id : 0 .. MaxLinks, on : BOOLEAN]
  BY MirrorAssumption DEF IInv, MachineOK, Return
<1>6. log' \in [Convs -> 0 .. MaxLog] BY DEF IInv, MachineOK, Return
<1>7. MachineOK' BY <1>5, <1>6 DEF IInv, MachineOK, Return
<1> QED BY <1>4, <1>7, AlonesKeep DEF IInv, Return

LEMMA MachineKeeps == ASSUME IInv, MachineNext PROVE IInv'
BY EmitKeeps, BoundaryKeeps, WakeKeeps, GoOfflineKeeps, ReturnKeeps DEF MachineNext

-----------------------------------------------------------------------------
(* Saving and deleting.                                                    *)

LEMMA OffWell == Off \in Follower /\ Well(Off) /\ ~Awake(Off)
<1>1. 0 \in 0 .. MaxLog /\ 0 \in 0 .. MaxLinks BY MirrorAssumption
<1>2. [c \in Convs |-> 0] \in [Convs -> 0 .. MaxLog] BY <1>1
<1>3. Off \in Follower BY <1>1, <1>2 DEF Off, Follower
<1> QED BY <1>3 DEF Off, Well, Awake

LEMMA FollowKeeps ==
    ASSUME IInv, NEW r \in Replicas, NEW list \in SUBSET Convs, NEW c \in Convs \cup {NoConv},
           Follow(r, list, c), lease' = lease, lost' = lost
    PROVE  FolOK' /\ LeaseOK'
<1>1. ASSUME NEW f, Well(f)
      PROVE  LET g == [f EXCEPT !.resync = f.resync \/ f.saved # list, !.saved = list]
             IN Well(g) /\ g.pc = f.pc
  <2>1. (f.resync \/ (f.saved # list)) \in BOOLEAN OBVIOUS
  <2> QED BY <1>1, <2>1, ZenonT(60) DEF Well, Follower
<1>2. CASE Put(r, [fol[r] EXCEPT !.resync = fol[r].resync \/ fol[r].saved # list, !.saved = list])
  <2>1. Well(fol[r]) BY DEF IInv, FolOK
  <2> QED BY <1>1, <1>2, <2>1, PutKeeps DEF Awake
<1>3. CASE Put(r, [Off EXCEPT !.pc = "claim", !.job = "start", !.saved = list, !.ask = c])
  <2> DEFINE g == [Off EXCEPT !.pc = "claim", !.job = "start", !.saved = list, !.ask = c]
  <2>1. g \in Follower BY OffWell DEF Follower
  <2>2. g.pc = "claim" BY OffWell DEF Follower
  <2>3. Well(g) /\ ~Awake(g) BY <2>1, <2>2 DEF Well, Awake
  <2> QED BY <1>3, <2>3, PutKeeps
<1> QED BY <1>2, <1>3 DEF Follow

LEMMA SaveKeeps == ASSUME IInv, NEW r \in Replicas, NEW c \in Convs, Save(r, c) PROVE IInv'
<1> USE DEF IInv
<1>1. BudgetOK'
  <2>1. left \in Budget /\ left.requests > 0 BY DEF BudgetOK, Save
  <2>2. [left EXCEPT !.requests = left.requests - 1] \in Budget BY <2>1 DEF Budget
  <2> QED BY <2>2 DEF BudgetOK, Save
<1>2. ReqOK' BY DEF ReqOK, Request, Save
<1>3. DeletedOK' BY DEF DeletedOK, DeletionReaches, Save, machine
<1>4. SavesOK' BY DEF SavesOK, Save
<1>5. MachineOK' /\ CopyOK' /\ FolOK' /\ ObjOK' /\ QueuesOK' /\ LeaseOK' /\ PassOK'
  BY DEF Save, machine, copy, memory, MachineOK, CopyOK, FolOK, ObjOK, QueuesOK, LeaseOK,
         LeaseIsKept, PassOK
<1> QED BY <1>1, <1>2, <1>3, <1>4, <1>5

LEMMA BeginListsKeeps == ASSUME IInv, BeginLists PROVE IInv'
<1> USE DEF IInv
<1>1. ReqOK' BY DEF ReqOK, Request, BeginLists, SavesOK
<1>2. MachineOK' /\ SavesOK' /\ CopyOK' /\ FolOK' /\ ObjOK' /\ QueuesOK' /\ LeaseOK' /\ PassOK'
      /\ DeletedOK' /\ BudgetOK'
  BY DEF BeginLists, machine, copy, memory, ledger, MachineOK, SavesOK, CopyOK, FolOK, ObjOK,
         QueuesOK, LeaseOK, LeaseIsKept, PassOK, DeletedOK, DeletionReaches, BudgetOK
<1> QED BY <1>1, <1>2

LEMMA BeginFollowsKeeps == ASSUME IInv, BeginFollows PROVE IInv'
<1> USE DEF IInv
<1>1. req.at \in Replicas /\ req.list \in SUBSET Convs /\ req.c \in Convs
  BY DEF ReqOK, Request, BeginFollows
<1>2. FolOK' /\ LeaseOK' BY <1>1, FollowKeeps DEF BeginFollows, ledger
<1>3. ReqOK' BY DEF ReqOK, Request, NoReq, BeginFollows
<1>4. MachineOK' /\ SavesOK' /\ CopyOK' /\ ObjOK' /\ QueuesOK' /\ PassOK' /\ DeletedOK' /\ BudgetOK'
  BY DEF BeginFollows, machine, copy, ledger, MachineOK, SavesOK, CopyOK, ObjOK, QueuesOK, PassOK,
         DeletedOK, DeletionReaches, BudgetOK
<1> QED BY <1>2, <1>3, <1>4

LEMMA ForgottenTracked == ASSUME NEW o \in Tracked PROVE Forgotten(o) \in Tracked
BY DEF Forgotten, Tracked

LEMMA DeleteKeeps == ASSUME IInv, NEW r \in Replicas, NEW c \in Convs, Delete(r, c) PROVE IInv'
<1> USE DEF IInv
<1>1. BudgetOK'
  <2>1. left \in Budget /\ left.requests > 0 BY DEF BudgetOK, Delete
  <2>2. [left EXCEPT !.requests = left.requests - 1] \in Budget BY <2>1 DEF Budget
  <2> QED BY <2>2 DEF BudgetOK, Delete
<1>2. ReqOK' BY DEF ReqOK, Request, Delete
<1>3. lease' = lease /\ lost' = lost /\ notes' = notes BY DEF Delete, ledger
<1>4. FolOK' /\ ObjOK' /\ QueuesOK' /\ LeaseOK'
  <2>1. CASE Put(r, [fol[r] EXCEPT !.saved = fol[r].saved \ {c}])
             /\ PutObj(r, c, Forgotten(obj[r][c])) /\ UNCHANGED hints
    <3>1. Well(fol[r]) BY DEF FolOK
    <3>2. Well([fol[r] EXCEPT !.saved = fol[r].saved \ {c}])
          /\ [fol[r] EXCEPT !.saved = fol[r].saved \ {c}].pc = fol[r].pc
      BY <3>1 DEF Well, Follower
    <3>3. FolOK' /\ LeaseOK' BY <2>1, <3>2, <1>3, PutKeeps DEF Awake
    <3>4. obj[r][c] \in Tracked BY DEF ObjOK
    <3>5. ObjOK' BY <2>1, <3>4, ForgottenTracked, PutObjKeeps
    <3> QED BY <2>1, <3>3, <3>5, <1>3 DEF QueuesOK
  <2>2. CASE Publish("deleted", c, fol) /\ UNCHANGED obj
    <3>1. fol \in [Replicas -> Follower] /\ \A q \in Replicas : Well(fol[q]) BY DEF FolOK
    <3>2. FolOK' /\ LeaseOK' /\ QueuesOK' BY <2>2, <3>1, <1>3, PublishKeeps
    <3> QED BY <2>2, <3>2 DEF ObjOK
  <2> QED BY <2>1, <2>2 DEF Delete
<1>5. MachineOK' /\ SavesOK' /\ CopyOK' /\ PassOK' /\ DeletedOK'
  BY DEF Delete, machine, copy, ledger, MachineOK, SavesOK, CopyOK, PassOK, DeletedOK, DeletionReaches
<1> QED BY <1>1, <1>2, <1>4, <1>5

LEMMA PurgeKeeps == ASSUME IInv, Purge PROVE IInv'
<1> USE DEF IInv
<1>1. req.c \in Convs BY DEF ReqOK, Purge
<1>2. CopyOK' BY <1>1 DEF CopyOK, Purge
<1>3. ReqOK' BY DEF ReqOK, Request, Purge
<1>4. deleted' = deleted /\ lost' = lost /\ crossed \subseteq crossed' /\ crossed' \subseteq Convs
  BY <1>1 DEF Purge, Mark, If, DeletedOK
<1>5. DeletedOK' BY <1>4 DEF DeletedOK, DeletionReaches, Purge, machine
<1>6. MachineOK' /\ SavesOK' /\ FolOK' /\ ObjOK' /\ QueuesOK' /\ LeaseOK' /\ PassOK' /\ BudgetOK'
  BY <1>4 DEF Purge, machine, memory, MachineOK, SavesOK, FolOK, ObjOK, QueuesOK, LeaseOK, LeaseIsKept,
         PassOK, BudgetOK
<1> QED BY <1>2, <1>3, <1>5, <1>6

LEMMA UnsaveKeeps == ASSUME IInv, Unsave PROVE IInv'
<1> USE DEF IInv
<1>1. ReqOK' BY DEF ReqOK, Request, Unsave
<1>2. MachineOK' /\ SavesOK' /\ CopyOK' /\ FolOK' /\ ObjOK' /\ QueuesOK' /\ LeaseOK' /\ PassOK'
      /\ DeletedOK' /\ BudgetOK'
  BY DEF Unsave, machine, copy, memory, ledger, MachineOK, SavesOK, CopyOK, FolOK, ObjOK, QueuesOK,
         LeaseOK, LeaseIsKept, PassOK, DeletedOK, DeletionReaches, BudgetOK
<1> QED BY <1>1, <1>2

LEMMA RequestFailsKeeps == ASSUME IInv, RequestFails PROVE IInv'
<1> USE DEF IInv
<1>1. BudgetOK' BY FaultKeeps DEF RequestFails
<1>2. ReqOK' BY DEF ReqOK, Request, NoReq, RequestFails
<1>3. req.step # "none" => req.c \in Convs BY DEF ReqOK
<1>4. CopyOK' BY <1>3 DEF CopyOK, RequestFails, copy
<1>5. deleted' = deleted /\ lost' = lost /\ crossed \subseteq crossed' /\ crossed' \subseteq Convs
      /\ saves' \subseteq saves
  BY <1>3 DEF RequestFails, Mark, ledger, DeletedOK
<1>6. DeletedOK' BY <1>5 DEF DeletedOK, DeletionReaches, RequestFails, machine
<1>7. MachineOK' /\ SavesOK' /\ FolOK' /\ ObjOK' /\ QueuesOK' /\ LeaseOK' /\ PassOK'
  BY <1>5 DEF RequestFails, machine, memory, MachineOK, SavesOK, FolOK, ObjOK, QueuesOK, LeaseOK,
         LeaseIsKept, PassOK
<1> QED BY <1>1, <1>2, <1>4, <1>6, <1>7

LEMMA DeleteOnMachineKeeps == ASSUME IInv, DeleteOnMachine PROVE IInv'
<1> USE DEF IInv
<1>1. req.c \in Convs /\ req.c \notin saves BY DEF ReqOK, DeleteOnMachine
<1>2. BudgetOK' BY FaultKeeps DEF DeleteOnMachine
<1>3. ReqOK' BY DEF ReqOK, Request, NoReq, DeleteOnMachine
<1>4. gone \subseteq gone' /\ todos \subseteq todos' /\ gone' \subseteq Convs /\ todos' \subseteq Convs
  BY <1>1 DEF DeleteOnMachine, AddDeleteTodo, MachineOK, SavesOK
<1>5. \/ deleted' = deleted
      \/ deleted' = deleted \cup {req.c} /\ req.c \in gone' \cup todos'
  BY DEF DeleteOnMachine, AddDeleteTodo
<1>6. DeletedOK' BY <1>1, <1>4, <1>5 DEF DeletedOK, DeletionReaches, DeleteOnMachine
<1>7. PassOK' BY <1>4 DEF PassOK, DeleteOnMachine
<1>8. MachineOK' /\ SavesOK' BY <1>4 DEF MachineOK, SavesOK, DeleteOnMachine
<1>9. CopyOK' /\ FolOK' /\ ObjOK' /\ QueuesOK' /\ LeaseOK'
  BY DEF DeleteOnMachine, copy, memory, CopyOK, FolOK, ObjOK, QueuesOK, LeaseOK, LeaseIsKept
<1> QED BY <1>2, <1>3, <1>6, <1>7, <1>8, <1>9

LEMMA RequestKeeps == ASSUME IInv, RequestNext PROVE IInv'
BY SaveKeeps, DeleteKeeps, BeginListsKeeps, BeginFollowsKeeps, PurgeKeeps, UnsaveKeeps,
   RequestFailsKeeps, DeleteOnMachineKeeps DEF RequestNext

-----------------------------------------------------------------------------
(* Cron jobs.                                                              *)

LEMMA ReconcileListsKeeps ==
    ASSUME IInv, NEW r \in Replicas, ReconcileLists(r) \/ FindEmpty(r) \/ ReplayLists(r)
    PROVE  IInv'
<1> USE DEF IInv
<1>1. NoPass \in Pass BY DEF NoPass, Pass
<1>2. PassOK'
  BY <1>1 DEF PassOK, Pass, NoPass, ReconcileLists, FindEmpty, ReplayLists, SavesOK, machine
<1>3. MachineOK' /\ SavesOK' /\ CopyOK' /\ FolOK' /\ ObjOK' /\ QueuesOK' /\ LeaseOK' /\ ReqOK'
      /\ DeletedOK' /\ BudgetOK'
  BY DEF ReconcileLists, FindEmpty, ReplayLists, machine, copy, memory, ledger, MachineOK, SavesOK,
         CopyOK, FolOK, ObjOK, QueuesOK, LeaseOK, LeaseIsKept, ReqOK, DeletedOK, DeletionReaches,
         BudgetOK
<1> QED BY <1>2, <1>3

LEMMA ReconcileFollowsKeeps == ASSUME IInv, ReconcileFollows PROVE IInv'
<1> USE DEF IInv
<1>1. pass.at \in Replicas /\ pass.list \in SUBSET Convs BY DEF PassOK, Pass, ReconcileFollows
<1>2. Outdated(pass.list) \in SUBSET Convs BY <1>1 DEF Outdated
<1>3. deleted' = deleted /\ lost' = lost /\ crossed \subseteq crossed' /\ crossed' \subseteq Convs
  BY <1>2 DEF ReconcileFollows, Mark, DeletedOK
<1>4. FolOK' /\ LeaseOK' BY <1>1, <1>3, FollowKeeps DEF ReconcileFollows
<1>5. DeletedOK' BY <1>3 DEF DeletedOK, DeletionReaches, ReconcileFollows, machine
<1>6. PassOK' BY DEF PassOK, Pass, NoPass, ReconcileFollows
<1>7. MachineOK' /\ SavesOK' /\ CopyOK' /\ ObjOK' /\ QueuesOK' /\ ReqOK' /\ BudgetOK'
  BY DEF ReconcileFollows, machine, copy, MachineOK, SavesOK, CopyOK, ObjOK, QueuesOK, ReqOK, BudgetOK
<1> QED BY <1>4, <1>5, <1>6, <1>7

LEMMA ClosedWell ==
    ASSUME NEW f, Well(f)
    PROVE  Well([f EXCEPT !.closed = TRUE]) /\ [f EXCEPT !.closed = TRUE].pc = f.pc
BY DEF Well, Follower

LEMMA UnfollowKeeps == ASSUME IInv, Unfollow PROVE IInv'
<1> USE DEF IInv
<1>1. pass.at \in Replicas BY DEF PassOK, Unfollow
<1>2. Well(fol[pass.at]) BY <1>1 DEF FolOK
<1>3. lease' = lease /\ lost' = lost BY DEF Unfollow, ledger
<1>4. \/ Put(pass.at, fol[pass.at])
      \/ Put(pass.at, [fol[pass.at] EXCEPT !.closed = TRUE])
  BY DEF Unfollow
<1>5. FolOK' /\ LeaseOK' BY <1>1, <1>2, <1>3, <1>4, ClosedWell, PutKeeps DEF Awake
<1>6. PassOK' BY DEF PassOK, Pass, NoPass, Unfollow
<1>7. MachineOK' /\ SavesOK' /\ CopyOK' /\ ObjOK' /\ QueuesOK' /\ ReqOK' /\ DeletedOK' /\ BudgetOK'
  BY DEF Unfollow, machine, copy, ledger, MachineOK, SavesOK, CopyOK, ObjOK, QueuesOK, ReqOK,
         DeletedOK, DeletionReaches, BudgetOK
<1> QED BY <1>5, <1>6, <1>7

\* A conversation comes up for being struck off when it is saved again or gone.
LEMMA ReplayKeeps == ASSUME IInv, NEW c \in Convs, Replay(c) PROVE IInv'
<1> USE DEF IInv
<1>1. BudgetOK' BY FaultKeeps DEF Replay
<1>2. gone \subseteq gone' /\ gone' \subseteq Convs BY DEF Replay, MachineOK
<1>3. \/ pass' = [pass EXCEPT !.step = "clear", !.c = c] /\ c \in pass.again \cup gone'
      \/ pass' = [pass EXCEPT !.list = pass.list \ {c}] /\ pass.step = "replay"
  BY DEF Replay
<1>4. pass \in Pass /\ pass.step = "replay" /\ pass.at \in Replicas BY DEF PassOK, Replay
<1>5. PassOK'
  <2>1. CASE pass' = [pass EXCEPT !.step = "clear", !.c = c] /\ c \in pass.again \cup gone'
    BY <2>1, <1>4 DEF PassOK, Pass
  <2>2. CASE pass' = [pass EXCEPT !.list = pass.list \ {c}]
    BY <2>2, <1>4 DEF PassOK, Pass
  <2> QED BY <1>3, <2>1, <2>2
<1>6. MachineOK' BY <1>2 DEF MachineOK, Replay
<1>7. DeletedOK' BY <1>2 DEF DeletedOK, DeletionReaches, Replay, ledger
<1>8. SavesOK' /\ CopyOK' /\ FolOK' /\ ObjOK' /\ QueuesOK' /\ LeaseOK' /\ ReqOK'
  BY DEF Replay, copy, memory, ledger, SavesOK, CopyOK, FolOK, ObjOK, QueuesOK, LeaseOK, LeaseIsKept, ReqOK
<1> QED BY <1>1, <1>5, <1>6, <1>7, <1>8

\* What is struck off was saved again, and is then not deleted, or is gone.
LEMMA ReplayClearsKeeps == ASSUME IInv, ReplayClears PROVE IInv'
<1> USE DEF IInv
<1>1. pass \in Pass /\ pass.at \in Replicas /\ pass.c \in Convs /\ pass.c \in pass.again \cup gone
  BY DEF PassOK, ReplayClears
<1>2. BudgetOK' BY FaultKeeps DEF ReplayClears
<1>3. deleted' = deleted /\ lost' = lost /\ crossed' \subseteq Convs
      /\ crossed' = crossed \cup If(pass.c \in pass.again /\ pass.c \notin saves, pass.c)
  BY <1>1 DEF ReplayClears, Mark, If, DeletedOK
<1>4. todos \ {pass.c} \subseteq todos' /\ todos' \subseteq todos BY DEF ReplayClears
<1>5. deleted' \ crossed' \subseteq gone' \cup todos'
  <2>1. pass.c \in gone \/ pass.c \in saves \/ pass.c \in crossed' BY <1>1, <1>3 DEF If
  <2>2. pass.c \in gone \/ pass.c \notin deleted \/ pass.c \in crossed' BY <2>1 DEF DeletedOK
  <2> QED BY <2>2, <1>3, <1>4 DEF DeletedOK, DeletionReaches, ReplayClears, machine
<1>6. DeletedOK' BY <1>3, <1>5 DEF DeletedOK, DeletionReaches, ReplayClears
<1>7. PassOK' BY <1>1 DEF PassOK, Pass, ReplayClears
<1>8. MachineOK' /\ SavesOK' /\ CopyOK' /\ FolOK' /\ ObjOK' /\ QueuesOK' /\ LeaseOK' /\ ReqOK'
  BY <1>3, <1>4 DEF ReplayClears, machine, copy, memory, MachineOK, SavesOK, CopyOK, FolOK, ObjOK,
         QueuesOK, LeaseOK, LeaseIsKept, ReqOK
<1> QED BY <1>2, <1>6, <1>7, <1>8

LEMMA ReplayEndsKeeps == ASSUME IInv, ReplayEnds PROVE IInv'
<1> USE DEF IInv
<1>1. PassOK' BY DEF PassOK, Pass, NoPass, ReplayEnds
<1>2. MachineOK' /\ SavesOK' /\ CopyOK' /\ FolOK' /\ ObjOK' /\ QueuesOK' /\ LeaseOK' /\ ReqOK'
      /\ DeletedOK' /\ BudgetOK'
  BY DEF ReplayEnds, machine, copy, memory, ledger, MachineOK, SavesOK, CopyOK, FolOK, ObjOK, QueuesOK,
         LeaseOK, LeaseIsKept, ReqOK, DeletedOK, DeletionReaches, BudgetOK
<1> QED BY <1>1, <1>2

LEMMA CronKeeps == ASSUME IInv, CronNext PROVE IInv'
BY ReconcileListsKeeps, ReconcileFollowsKeeps, UnfollowKeeps, ReplayKeeps, ReplayClearsKeeps,
   ReplayEndsKeeps DEF CronNext

-----------------------------------------------------------------------------
(* The follower.                                                           *)

\* A step of a follower that holds on to its lease.
LEMMA StepKeeps ==
    ASSUME IInv, NEW r \in Replicas, NEW f, Put(r, f), Well(f), Awake(f) => Awake(fol[r]),
           Calm, lease' = lease, lost' = lost
    PROVE  MachineOK' /\ SavesOK' /\ FolOK' /\ LeaseOK' /\ PassOK' /\ ReqOK'
BY CalmKeeps, PutKeeps

LEMMA UnchangedLedger ==
    ASSUME IInv, Calm, UNCHANGED <<crossed, deleted>>
    PROVE  DeletedOK'
BY CalmLedger DEF IInv, DeletedOK

\* A replica that may not claim the machine, or lets it go, tells whoever it was to.
LEMMA RefusedWell ==
    ASSUME NEW f \in Follower
    PROVE  LET g == [Off EXCEPT !.pc = IF f.ask = NoConv THEN "off" ELSE "tell", !.ask = f.ask]
           IN Well(g) /\ ~Awake(g)
<1>1. f.ask \in Convs \cup {NoConv} BY DEF Follower
<1>2. ASSUME NEW p \in {"off", "tell"}, NEW a \in Convs \cup {NoConv}, p = "tell" => a \in Convs
      PROVE  Well([Off EXCEPT !.pc = p, !.ask = a]) /\ ~Awake([Off EXCEPT !.pc = p, !.ask = a])
  <2>1. [Off EXCEPT !.pc = p, !.ask = a] \in Follower BY OffWell, <1>2 DEF Follower
  <2>2. [Off EXCEPT !.pc = p, !.ask = a].pc = p /\ [Off EXCEPT !.pc = p, !.ask = a].ask = a
    BY OffWell DEF Follower
  <2> HIDE DEF Off
  <2> QED BY <2>1, <2>2, <1>2 DEF Well, Awake
<1>3. CASE f.ask = NoConv BY <1>1, <1>2, <1>3
<1>4. CASE f.ask # NoConv
  <2>1. f.ask \in Convs BY <1>1, <1>4
  <2> QED BY <2>1, <1>2, <1>4
<1> QED BY <1>3, <1>4

LEMMA ClaimKeeps == ASSUME IInv, NEW r \in Replicas, Claim(r) PROVE IInv'
<1> USE DEF IInv
<1>1. Well(fol[r]) /\ fol[r] \in Follower /\ fol[r].pc = "claim" BY DEF FolOK, Claim
<1>2. BudgetOK' BY FaultKeeps DEF Claim
<1>3. Calm /\ deleted' = deleted /\ crossed' = crossed BY DEF Claim
<1>4. MachineOK' /\ SavesOK' /\ PassOK' /\ ReqOK' /\ DeletedOK' BY <1>3, CalmKeeps, UnchangedLedger
<1>5. CopyOK' /\ ObjOK' /\ QueuesOK' BY DEF Claim, copy, CopyOK, ObjOK, QueuesOK
<1>6. PICK f : /\ Put(r, f) /\ Well(f)
               /\ \/ lease = NoReplica /\ lease' = r /\ lost' = lost \ {r}
                  \/ ~Awake(f) /\ lost' = lost /\ lease' \in {lease, IF lease = NoReplica THEN r ELSE lease}
  <2>1. CASE lease = NoReplica /\ lease' = r /\ lost' = lost \ {r}
             /\ Put(r, [fol[r] EXCEPT !.pc = "subscribe"])
    <3>1. Well([fol[r] EXCEPT !.pc = "subscribe"]) BY <1>1 DEF Well, Follower
    <3> QED BY <2>1, <3>1
  <2>2. CASE /\ UNCHANGED <<lease, lost>>
             /\ Put(r, [Off EXCEPT !.pc = IF fol[r].ask = NoConv THEN "off" ELSE "tell", !.ask = fol[r].ask])
    BY <2>2, <1>1, RefusedWell
  <2>3. CASE Put(r, Off) /\ UNCHANGED lost /\ lease' \in {lease, IF lease = NoReplica THEN r ELSE lease}
    BY <2>3, OffWell
  <2> QED BY <2>1, <2>2, <2>3 DEF Claim
<1>7. FolOK' BY <1>6, <1>1, PutFollower
<1>8. LeaseOK'
  <2>1. fol' = [fol EXCEPT ![r] = f] /\ fol \in [Replicas -> Follower] BY <1>6 DEF Put, FolOK
  <2>2. ASSUME NEW q \in Replicas \ lost', fol'[q].pc \notin {"off", "claim", "tell"}
        PROVE  lease' = q
    <3>1. CASE q = r BY <3>1, <1>6, <2>1, <2>2 DEF Awake
    <3>2. CASE q # r
      <4>1. fol'[q] = fol[q] /\ q \notin lost BY <3>2, <2>1, <1>6
      <4>2. lease = q BY <4>1, <2>2 DEF LeaseOK, LeaseIsKept
      <4>3. lease # NoReplica BY <4>2, MirrorAssumption
      <4> QED BY <4>2, <4>3, <1>6
    <3> QED BY <3>1, <3>2
  <2>3. lease' \in Replicas \cup {NoReplica} /\ lost' \subseteq Replicas BY <1>6 DEF LeaseOK
  <2> QED BY <2>2, <2>3 DEF LeaseOK, LeaseIsKept
<1> QED BY <1>2, <1>4, <1>5, <1>7, <1>8

LEMMA TellKeeps == ASSUME IInv, NEW r \in Replicas, Tell(r) PROVE IInv'
<1> USE DEF IInv
<1> DEFINE next == [fol EXCEPT ![r] = Off]
<1>1. fol \in [Replicas -> Follower] /\ \A q \in Replicas : Well(fol[q]) BY DEF FolOK
<1>2. fol[r].ask \in Convs BY <1>1 DEF Well, Tell
<1>3. next \in [Replicas -> Follower] BY <1>1, OffWell
<1>4. \A q \in Replicas : Well(next[q]) /\ (Awake(next[q]) => Awake(fol[q])) BY <1>1, OffWell
<1>5. /\ Publish("saved", fol[r].ask, next) /\ Calm /\ lease' = lease /\ lost' = lost
      /\ notes' = notes /\ UNCHANGED <<crossed, deleted>>
  BY DEF Tell, ledger
<1>6. FolOK' /\ LeaseOK' /\ QueuesOK'
  <2> HIDE DEF next
  <2> QED BY <1>2, <1>3, <1>4, <1>5, PublishKeeps
<1>7. MachineOK' /\ SavesOK' /\ PassOK' /\ ReqOK' /\ DeletedOK' BY <1>5, CalmKeeps, UnchangedLedger
<1>8. CopyOK' /\ ObjOK' /\ BudgetOK' BY DEF Tell, copy, CopyOK, ObjOK, BudgetOK
<1> QED BY <1>6, <1>7, <1>8

\* A step of a follower that changes nothing but what the follower knows.
LEMMA MindKeeps ==
    ASSUME IInv, NEW r \in Replicas, NEW f, Put(r, f), Well(f), Awake(f) => Awake(fol[r]),
           Calm, UNCHANGED <<copy, lease, obj, notes, hints, ledger>>, BudgetOK'
    PROVE  IInv'
<1>1. MachineOK' /\ SavesOK' /\ FolOK' /\ LeaseOK' /\ PassOK' /\ ReqOK'
  BY StepKeeps DEF ledger
<1>2. DeletedOK' BY UnchangedLedger DEF ledger
<1>3. CopyOK' /\ ObjOK' /\ QueuesOK' BY DEF IInv, copy, CopyOK, ObjOK, QueuesOK
<1> QED BY <1>1, <1>2, <1>3 DEF IInv

LEMMA PrepareKeeps == ASSUME IInv, NEW r \in Replicas, Prepare(r) PROVE IInv'
<1> DEFINE f == fol[r]
<1>1. f \in Follower /\ link.id \in 0 .. MaxLinks BY DEF IInv, FolOK, MachineOK
<1>2. Calm /\ UNCHANGED <<copy, lease, obj, notes, hints, ledger>> /\ BudgetOK'
  BY DEF Prepare, IInv, BudgetOK
<1>3. CASE f.pc = "subscribe" /\ Put(r, [f EXCEPT !.pc = "conn"])
  <2>1. Well([f EXCEPT !.pc = "conn"]) BY <1>1 DEF Well, Follower
  <2> QED BY <2>1, <1>2, <1>3, MindKeeps DEF Awake
<1>4. CASE f.pc = "conn" /\ Put(r, [f EXCEPT !.pc = "dial", !.conn = link.id])
  <2>1. [f EXCEPT !.pc = "dial", !.conn = link.id] \in Follower
        /\ [f EXCEPT !.pc = "dial", !.conn = link.id].pc = "dial"
    BY <1>1 DEF Follower
  <2>2. Well([f EXCEPT !.pc = "dial", !.conn = link.id]) BY <2>1 DEF Well
  <2> QED BY <2>2, <1>2, <1>4, MindKeeps DEF Awake
<1>5. CASE /\ f.pc = "dial"
           /\ Put(r, [f EXCEPT !.pc = IF f.saved = {} THEN "each" ELSE "list",
                                !.link = link.id, !.todo = f.saved])
  <2>1. ASSUME NEW p \in {"each", "list"}
        PROVE  Well([f EXCEPT !.pc = p, !.link = link.id, !.todo = f.saved])
    <3>1. [f EXCEPT !.pc = p, !.link = link.id, !.todo = f.saved] \in Follower
          /\ [f EXCEPT !.pc = p, !.link = link.id, !.todo = f.saved].pc = p
      BY <1>1 DEF Follower
    <3> QED BY <3>1 DEF Well
  <2>2. Well([f EXCEPT !.pc = IF f.saved = {} THEN "each" ELSE "list",
                       !.link = link.id, !.todo = f.saved])
    BY <2>1
  <2>3. Awake(f) BY <1>5 DEF Awake
  <2> QED BY <2>2, <2>3, <1>2, <1>5, MindKeeps
<1> QED BY <1>3, <1>4, <1>5 DEF Prepare

LEMMA EndedWell ==
    ASSUME NEW r \in Replicas, fol[r] \in Follower, NEW ask \in Convs \cup {NoConv}
    PROVE  Well(Ended(r, ask))
<1>1. fol[r].closed \in BOOLEAN BY DEF Follower
<1>2. Ended(r, ask) \in Follower BY <1>1, OffWell DEF Ended, Follower
<1>3. Ended(r, ask).pc = "release" BY OffWell DEF Ended, Follower
<1> QED BY <1>2, <1>3 DEF Well

LEMMA PrepareFailsKeeps ==
    ASSUME IInv, NEW r \in Replicas, PrepareFails(r) \/ Leave(r)
    PROVE  IInv'
<1>1. fol[r] \in Follower BY DEF IInv, FolOK
<1>2. Well(Ended(r, NoConv)) BY <1>1, EndedWell
<1>3. Put(r, Ended(r, NoConv)) /\ Awake(fol[r]) /\ Calm
      /\ UNCHANGED <<copy, lease, obj, notes, hints, ledger>>
  BY DEF PrepareFails, Leave, Awake
<1>4. NoFault \/ Fault("call") BY DEF PrepareFails, Leave
<1>5. BudgetOK' BY <1>4, FaultKeeps DEF IInv
<1> QED BY <1>2, <1>3, <1>5, MindKeeps

LEMMA ListKeeps == ASSUME IInv, NEW r \in Replicas, List(r) PROVE IInv'
<1> USE DEF IInv
<1> DEFINE f == fol[r]
           listed == f.todo \ gone
           todo == IF f.job = "revive" THEN listed \ asleep ELSE listed
           stored == [c \in Convs |-> IF row[c] = NoRow THEN 0 ELSE row[c]]
           g == [f EXCEPT !.pc = "each", !.naps = asleep, !.high = log, !.todo = todo, !.stored = stored]
<1>1. f \in Follower BY DEF FolOK
<1>2. stored \in [Convs -> 0 .. MaxLog] BY MirrorAssumption DEF CopyOK
<1>3. todo \in SUBSET Convs /\ asleep \in SUBSET Convs /\ log \in [Convs -> 0 .. MaxLog]
  BY <1>1 DEF Follower, MachineOK
<1>4. g \in Follower /\ g.pc = "each"
  <2> HIDE DEF todo, stored, f
  <2> QED BY <1>1, <1>2, <1>3 DEF Follower
<1>5. Well(g)
  <2> HIDE DEF g
  <2> QED BY <1>4 DEF Well
<1>6. Put(r, g) /\ Calm /\ UNCHANGED <<copy, lease, notes, hints, ledger, left>> /\ Awake(f)
  BY DEF List, Awake
<1>7. MachineOK' /\ SavesOK' /\ FolOK' /\ LeaseOK' /\ PassOK' /\ ReqOK' /\ DeletedOK'
  <2> HIDE DEF g
  <2> QED BY <1>5, <1>6, StepKeeps, UnchangedLedger DEF ledger
<1>8. ObjOK'
  <2>1. \A c \in Convs : obj[r][c] \in Tracked /\ Forgotten(obj[r][c]) \in Tracked
    BY ForgottenTracked DEF ObjOK
  <2>2. obj' = [obj EXCEPT ![r] = [c \in Convs |-> IF f.job = "revive" \/ c \in f.todo
                                                     THEN obj[r][c] ELSE Forgotten(obj[r][c])]]
    BY DEF List
  <2>3. [c \in Convs |-> IF f.job = "revive" \/ c \in f.todo THEN obj[r][c] ELSE Forgotten(obj[r][c])]
          \in [Convs -> Tracked]
    BY <2>1
  <2> QED BY <2>2, <2>3 DEF ObjOK
<1>9. CopyOK' /\ QueuesOK' /\ BudgetOK' BY <1>6 DEF copy, CopyOK, QueuesOK, BudgetOK
<1> QED BY <1>7, <1>8, <1>9

LEMMA ListFailsKeeps == ASSUME IInv, NEW r \in Replicas, ListFails(r) PROVE IInv'
<1>1. fol[r] \in Follower BY DEF IInv, FolOK
<1> DEFINE g == [fol[r] EXCEPT !.pc = "each", !.todo = {}, !.bad = TRUE]
<1>2. g \in Follower /\ g.pc = "each" BY <1>1 DEF Follower
<1>3. NoFault \/ Fault("call") BY DEF ListFails
<1>4. BudgetOK' BY <1>3, FaultKeeps DEF IInv
<1>5. Put(r, g) /\ Awake(fol[r]) /\ Calm /\ UNCHANGED <<copy, lease, obj, notes, hints, ledger>>
  BY DEF ListFails, Awake
<1> HIDE DEF g
<1>6. Well(g) BY <1>2 DEF Well
<1> QED BY <1>4, <1>5, <1>6, MindKeeps

LEMMA CursorTracked ==
    ASSUME NEW o \in Tracked, NEW n \in 0 .. MaxLog
    PROVE  [o EXCEPT !.cursor = n] \in Tracked
BY DEF Tracked

LEMMA BegunTracked ==
    ASSUME IInv, NEW r \in Replicas, NEW c \in Convs
    PROVE  Begun(r, c) \in Tracked
<1>1. obj[r][c] \in Tracked /\ fol[r].stored[c] \in 0 .. MaxLog BY DEF IInv, ObjOK, FolOK, Follower
<1>2. 0 \in 0 .. MaxLog BY MirrorAssumption
<1>3. Untracked \in Tracked BY <1>2 DEF Untracked, Tracked
<1>4. [Untracked EXCEPT !.tail = obj[r][c].tail] \in Tracked BY <1>1, <1>3 DEF Tracked
<1>5. ASSUME NEW o \in Tracked, NEW s \in 0 .. MaxLog
      PROVE  [o EXCEPT !.known = TRUE, !.cursor = IF s > o.cursor THEN s ELSE o.cursor] \in Tracked
  BY <1>5 DEF Tracked
<1> QED BY <1>1, <1>4, <1>5 DEF Begun

LEMMA CatchUpKeeps == ASSUME IInv, NEW r \in Replicas, NEW c \in Convs, CatchUp(r, c) PROVE IInv'
<1> USE DEF IInv
<1>1. fol[r] \in Follower /\ Awake(fol[r]) BY DEF FolOK, CatchUp, Awake
<1>2. Begun(r, c) \in Tracked BY BegunTracked
<1>3. BudgetOK' BY FaultKeeps DEF CatchUp
<1>4. Calm /\ UNCHANGED <<copy, lease, notes, hints, ledger>> BY DEF CatchUp
<1>5. PICK o \in Tracked, p \in {"wipe", "pull"} :
        /\ PutObj(r, c, o)
        /\ Put(r, [fol[r] EXCEPT !.pc = p, !.cur = c, !.todo = fol[r].todo \ {c}])
  <2>1. ASSUME NEW a \in BOOLEAN, NEW h,
               PutObj(r, c, [Begun(r, c) EXCEPT !.attached = a,
                               !.cursor = IF Begun(r, c).cursor > h THEN 0 ELSE Begun(r, c).cursor]),
               Put(r, [fol[r] EXCEPT !.pc = IF Begun(r, c).cursor > h THEN "wipe" ELSE "pull",
                                     !.cur = c, !.todo = fol[r].todo \ {c}])
        PROVE  \E o \in Tracked, p \in {"wipe", "pull"} :
                 /\ PutObj(r, c, o)
                 /\ Put(r, [fol[r] EXCEPT !.pc = p, !.cur = c, !.todo = fol[r].todo \ {c}])
    <3> DEFINE n == IF Begun(r, c).cursor > h THEN 0 ELSE Begun(r, c).cursor
               q == IF Begun(r, c).cursor > h THEN "wipe" ELSE "pull"
    <3>1. n \in 0 .. MaxLog BY <1>2, MirrorAssumption DEF Tracked
    <3>2. ASSUME NEW o \in Tracked, NEW m \in 0 .. MaxLog
          PROVE  [o EXCEPT !.attached = a, !.cursor = m] \in Tracked
      BY <2>1, <3>2 DEF Tracked
    <3>3. [Begun(r, c) EXCEPT !.attached = a, !.cursor = n] \in Tracked
      <4> HIDE DEF n
      <4> QED BY <1>2, <3>1, <3>2
    <3>4. q \in {"wipe", "pull"} OBVIOUS
    <3> HIDE DEF n, q
    <3>5. /\ PutObj(r, c, [Begun(r, c) EXCEPT !.attached = a, !.cursor = n])
          /\ Put(r, [fol[r] EXCEPT !.pc = q, !.cur = c, !.todo = fol[r].todo \ {c}])
      BY <2>1 DEF n, q
    <3> QED BY <3>3, <3>4, <3>5
  <2> QED BY <2>1 DEF CatchUp
<1> DEFINE g == [fol[r] EXCEPT !.pc = p, !.cur = c, !.todo = fol[r].todo \ {c}]
<1>6. g \in Follower /\ g.pc = p /\ g.cur = c BY <1>1 DEF Follower
<1>7. Well(g)
  <2> HIDE DEF g
  <2> QED BY <1>6 DEF Well
<1>8. MachineOK' /\ SavesOK' /\ FolOK' /\ LeaseOK' /\ PassOK' /\ ReqOK' /\ DeletedOK'
  <2>1. Put(r, g) BY <1>5
  <2> HIDE DEF g
  <2> QED BY <1>1, <1>4, <1>7, <2>1, StepKeeps, UnchangedLedger DEF ledger
<1>9. ObjOK' BY <1>5, PutObjKeeps
<1>10. CopyOK' /\ QueuesOK' BY <1>4 DEF copy, CopyOK, QueuesOK
<1> QED BY <1>3, <1>8, <1>9, <1>10

LEMMA ResumedWell ==
    ASSUME NEW f \in Follower, NEW failed \in BOOLEAN
    PROVE  Well(Resumed(f, failed)) /\ Awake(Resumed(f, failed))
<1>1. 0 \in 0 .. MaxLog BY MirrorAssumption
<1>2. (f.resync \/ failed) \in BOOLEAN /\ (f.bad \/ failed) \in BOOLEAN BY DEF Follower
<1>3. Resumed(f, failed) \in Follower /\ Resumed(f, failed).pc \in {"idle", "each"}
  BY <1>1, <1>2, ZenonT(60) DEF Resumed, Follower
<1> QED BY <1>3 DEF Well, Awake

LEMMA WipeKeeps == ASSUME IInv, NEW r \in Replicas, Wipe(r) PROVE IInv'
<1> USE DEF IInv
<1>1. fol[r] \in Follower /\ Awake(fol[r]) /\ fol[r].cur \in Convs /\ Well(fol[r])
  BY DEF FolOK, Wipe, Awake, Well
<1>2. PICK p \in {"rewrite", "pull"} : Put(r, [fol[r] EXCEPT !.pc = p]) BY DEF Wipe
<1>3. Well([fol[r] EXCEPT !.pc = p]) BY <1>1 DEF Well, Follower
<1>4. Calm /\ UNCHANGED <<lease, obj, notes, hints, left>> BY DEF Wipe
<1>5. PICK S \in SUBSET Convs : Mark(S) BY <1>1 DEF Wipe, If
<1>6. DeletedOK' /\ lost' = lost BY <1>4, <1>5, MarkKeeps
<1>7. MachineOK' /\ SavesOK' /\ FolOK' /\ LeaseOK' /\ PassOK' /\ ReqOK'
  BY <1>1, <1>2, <1>3, <1>4, <1>6, StepKeeps
<1>8. CopyOK'
  <2>1. obj[r][fol[r].cur].cursor \in 0 .. MaxLog BY <1>1 DEF ObjOK, Tracked
  <2> QED BY <1>1, <2>1 DEF CopyOK, Wipe
<1>9. ObjOK' /\ QueuesOK' /\ BudgetOK' BY <1>4 DEF ObjOK, QueuesOK, BudgetOK
<1> QED BY <1>6, <1>7, <1>8, <1>9

LEMMA PullKeeps == ASSUME IInv, NEW r \in Replicas, Pull(r) PROVE IInv'
<1>1. fol[r] \in Follower /\ Awake(fol[r]) /\ fol[r].cur \in Convs /\ Well(fol[r])
  BY DEF IInv, FolOK, Pull, Awake, Well
<1> DEFINE c == fol[r].cur
           from == obj[r][c].cursor
           last == IF from + PageSize < log[c] THEN from + PageSize ELSE log[c]
<1>2. from \in 0 .. MaxLog /\ log[c] \in 0 .. MaxLog BY <1>1 DEF IInv, ObjOK, Tracked, MachineOK
<1>3. last \in 0 .. MaxLog BY <1>2, MirrorAssumption
<1>4. Calm /\ UNCHANGED <<copy, lease, obj, notes, hints, ledger>> /\ BudgetOK'
  BY DEF Pull, IInv, BudgetOK
<1>5. CASE Put(r, [fol[r] EXCEPT !.pc = "write", !.page = last, !.more = last < log[c]])
  <2>1. ASSUME NEW n \in 0 .. MaxLog, NEW m \in BOOLEAN
        PROVE  Well([fol[r] EXCEPT !.pc = "write", !.page = n, !.more = m])
    <3>1. /\ [fol[r] EXCEPT !.pc = "write", !.page = n, !.more = m] \in Follower
          /\ [fol[r] EXCEPT !.pc = "write", !.page = n, !.more = m].pc = "write"
          /\ [fol[r] EXCEPT !.pc = "write", !.page = n, !.more = m].cur = fol[r].cur
      BY <1>1 DEF Follower
    <3> QED BY <3>1, <1>1 DEF Well
  <2>2. (last < log[c]) \in BOOLEAN OBVIOUS
  <2>3. Well([fol[r] EXCEPT !.pc = "write", !.page = last, !.more = last < log[c]])
    <3> HIDE DEF last
    <3> QED BY <2>1, <2>2, <1>3
  <2> HIDE DEF last
  <2> QED BY <1>1, <1>4, <1>5, <2>3, MindKeeps
<1>6. CASE Put(r, [fol[r] EXCEPT !.pc = "save"])
  <2>1. Well([fol[r] EXCEPT !.pc = "save"]) BY <1>1 DEF Well, Follower
  <2> QED BY <1>1, <1>4, <1>6, <2>1, MindKeeps
<1> QED BY <1>5, <1>6 DEF Pull

LEMMA WrittenTyped ==
    ASSUME IInv, NEW r \in Replicas, fol[r].pc \in {"write", "frame"}
    PROVE  Written(r) \in [Convs -> SUBSET Seqs]
<1>1. fol[r] \in Follower /\ fol[r].cur \in Convs /\ (fol[r].pc = "frame" => fol[r].page > 0)
  BY DEF IInv, FolOK, Well
<1>2. obj[r][fol[r].cur].cursor \in 0 .. MaxLog BY <1>1 DEF IInv, ObjOK, Tracked
<1>3. fol[r].page \in 0 .. MaxLog BY <1>1 DEF Follower
<1>4. frames \in [Convs -> SUBSET Seqs] BY DEF IInv, CopyOK
<1>5. (IF fol[r].pc = "write" THEN obj[r][fol[r].cur].cursor + 1 .. fol[r].page ELSE {fol[r].page})
        \in SUBSET Seqs
  BY <1>1, <1>2, <1>3, MirrorAssumption DEF Seqs
<1> QED BY <1>1, <1>4, <1>5 DEF Written

LEMMA WritePageKeeps == ASSUME IInv, NEW r \in Replicas, WritePage(r) PROVE IInv'
<1> USE DEF IInv
<1>1. fol[r] \in Follower /\ Awake(fol[r]) /\ fol[r].cur \in Convs /\ Well(fol[r])
  BY DEF FolOK, WritePage, Awake, Well
<1>2. 0 \in 0 .. MaxLog BY MirrorAssumption
<1>3. ASSUME NEW p \in {"pull", "save"}
      PROVE  Well([fol[r] EXCEPT !.page = 0, !.more = FALSE, !.pc = p])
  <2>1. /\ [fol[r] EXCEPT !.page = 0, !.more = FALSE, !.pc = p] \in Follower
        /\ [fol[r] EXCEPT !.page = 0, !.more = FALSE, !.pc = p].pc = p
        /\ [fol[r] EXCEPT !.page = 0, !.more = FALSE, !.pc = p].cur = fol[r].cur
    BY <1>1, <1>2 DEF Follower
  <2> QED BY <2>1, <1>1 DEF Well
<1>4. PICK f : Put(r, f) /\ Well(f)
  <2>1. (IF fol[r].more THEN "pull" ELSE "save") \in {"pull", "save"} OBVIOUS
  <2>2. Put(r, [fol[r] EXCEPT !.page = 0, !.more = FALSE, !.pc = IF fol[r].more THEN "pull" ELSE "save"])
    BY DEF WritePage
  <2> QED BY <1>3, <2>1, <2>2
<1>5. Calm /\ UNCHANGED <<row, lease, notes, hints, ledger, left>> BY DEF WritePage
<1>6. MachineOK' /\ SavesOK' /\ FolOK' /\ LeaseOK' /\ PassOK' /\ ReqOK' /\ DeletedOK'
  BY <1>1, <1>4, <1>5, StepKeeps, UnchangedLedger DEF ledger
<1>7. ObjOK'
  <2>1. obj[r][fol[r].cur] \in Tracked /\ fol[r].page \in 0 .. MaxLog BY <1>1 DEF ObjOK, Follower
  <2>2. [obj[r][fol[r].cur] EXCEPT !.cursor = fol[r].page] \in Tracked BY <2>1, CursorTracked
  <2> QED BY <1>1, <2>2, PutObjKeeps DEF WritePage
<1>8. CopyOK'
  <2>1. frames' = Written(r) /\ fol[r].pc = "write" BY DEF WritePage
  <2> QED BY <1>5, <2>1, WrittenTyped DEF CopyOK
<1>9. QueuesOK' /\ BudgetOK' BY <1>5 DEF QueuesOK, BudgetOK
<1> QED BY <1>6, <1>7, <1>8, <1>9

LEMMA WriteFrameKeeps == ASSUME IInv, NEW r \in Replicas, WriteFrame(r) PROVE IInv'
<1> USE DEF IInv
<1> DEFINE c == fol[r].cur
           o == obj[r][c]
           first == o.known /\ ~o.open
<1>1. fol[r] \in Follower /\ Awake(fol[r]) /\ c \in Convs BY DEF FolOK, WriteFrame, Awake, Well
<1>2. 0 \in 0 .. MaxLog BY MirrorAssumption
<1>3. PICK f : Put(r, f) /\ Well(f)
  <2>1. [fol[r] EXCEPT !.pc = "touch", !.page = 0] \in Follower
        /\ [fol[r] EXCEPT !.pc = "touch", !.page = 0].pc = "touch"
        /\ [fol[r] EXCEPT !.pc = "touch", !.page = 0].cur = c
    BY <1>1, <1>2 DEF Follower
  <2>2. [fol[r] EXCEPT !.pc = "idle", !.job = "none", !.cur = NoConv, !.page = 0] \in Follower
        /\ [fol[r] EXCEPT !.pc = "idle", !.job = "none", !.cur = NoConv, !.page = 0].pc = "idle"
    BY <1>1, <1>2 DEF Follower
  <2>3. Well([fol[r] EXCEPT !.pc = "touch", !.page = 0]) BY <2>1, <1>1 DEF Well
  <2>4. Well([fol[r] EXCEPT !.pc = "idle", !.job = "none", !.cur = NoConv, !.page = 0])
    BY <2>2 DEF Well
  <2>5. \/ Put(r, [fol[r] EXCEPT !.pc = "touch", !.page = 0])
        \/ Put(r, [fol[r] EXCEPT !.pc = "idle", !.job = "none", !.cur = NoConv, !.page = 0])
    BY DEF WriteFrame
  <2> QED BY <2>3, <2>4, <2>5
<1>4. Calm /\ UNCHANGED <<row, lease, notes, hints, ledger, left>> BY DEF WriteFrame
<1>5. MachineOK' /\ SavesOK' /\ FolOK' /\ LeaseOK' /\ PassOK' /\ ReqOK' /\ DeletedOK'
  BY <1>1, <1>3, <1>4, StepKeeps, UnchangedLedger DEF ledger
<1>6. ObjOK'
  <2>1. o \in Tracked /\ fol[r].page \in 0 .. MaxLog BY <1>1 DEF ObjOK, Follower
  <2>2. (o.open \/ first) \in BOOLEAN /\ (o.dirty \/ (o.known /\ o.open)) \in BOOLEAN
    BY <2>1 DEF Tracked
  <2>3. ASSUME NEW x \in Tracked, NEW a \in BOOLEAN, NEW d \in BOOLEAN, NEW n \in 0 .. MaxLog
        PROVE  [x EXCEPT !.cursor = n, !.open = a, !.dirty = d] \in Tracked
    BY <2>3 DEF Tracked
  <2>4. [o EXCEPT !.cursor = fol[r].page, !.open = o.open \/ first,
                  !.dirty = o.dirty \/ (o.known /\ o.open)] \in Tracked
    <3> HIDE DEF first
    <3> QED BY <2>1, <2>2, <2>3
  <2> QED BY <1>1, <2>4, PutObjKeeps DEF WriteFrame
<1>7. CopyOK'
  <2>1. frames' = Written(r) /\ fol[r].pc = "frame" BY DEF WriteFrame
  <2> QED BY <1>4, <2>1, WrittenTyped DEF CopyOK
<1>8. QueuesOK' /\ BudgetOK' BY <1>4 DEF QueuesOK, BudgetOK
<1> QED BY <1>5, <1>6, <1>7, <1>8

\* The row a follower writes: of the conversation it has in hand, with its cursor.
LEMMA RowTyped ==
    ASSUME IInv, NEW r \in Replicas, NEW c \in Convs, NEW n \in 0 .. MaxLog \cup {NoRow}
    PROVE  [row EXCEPT ![c] = n] \in [Convs -> 0 .. MaxLog \cup {NoRow}]
BY DEF IInv, CopyOK

LEMMA SaveSummaryKeeps == ASSUME IInv, NEW r \in Replicas, SaveSummary(r) PROVE IInv'
<1> USE DEF IInv
<1>1. fol[r] \in Follower /\ Awake(fol[r]) /\ fol[r].cur \in Convs
  BY DEF FolOK, SaveSummary, Awake, Well
<1>2. Well(Resumed(fol[r], FALSE)) BY <1>1, ResumedWell
<1>3. Put(r, Resumed(fol[r], FALSE)) /\ Calm /\ UNCHANGED <<frames, lease, obj, notes, hints, ledger, left>>
  BY DEF SaveSummary
<1>4. MachineOK' /\ SavesOK' /\ FolOK' /\ LeaseOK' /\ PassOK' /\ ReqOK' /\ DeletedOK'
  BY <1>1, <1>2, <1>3, StepKeeps, UnchangedLedger DEF ledger
<1>5. CopyOK'
  <2>1. obj[r][fol[r].cur].cursor \in 0 .. MaxLog BY <1>1 DEF ObjOK, Tracked
  <2> QED BY <1>1, <1>3, <2>1 DEF CopyOK, SaveSummary
<1>6. ObjOK' /\ QueuesOK' /\ BudgetOK' BY <1>3 DEF ObjOK, QueuesOK, BudgetOK
<1> QED BY <1>4, <1>5, <1>6

\* A statement on frames or summaries that fails or not leaves them typed, and at most
\* marks the conversation in hand.
LEMMA StepFailsKeeps == ASSUME IInv, NEW r \in Replicas, StepFails(r) PROVE IInv'
<1> USE DEF IInv
<1> DEFINE c == fol[r].cur
<1>1. fol[r] \in Follower /\ Awake(fol[r]) /\ c \in Convs BY DEF FolOK, StepFails, Awake, Well
<1>2. Well(Resumed(fol[r], TRUE)) BY <1>1, ResumedWell
<1>3. Put(r, Resumed(fol[r], TRUE)) /\ Calm /\ UNCHANGED <<lease, obj, notes, hints>>
  BY DEF StepFails
<1>4. NoFault \/ Fault("call") BY DEF StepFails
<1>5. BudgetOK' BY <1>4, FaultKeeps
<1>6. UNCHANGED ledger \/ \E S \in SUBSET Convs : Mark(S) BY <1>1 DEF StepFails, If
<1>7. DeletedOK' /\ lost' = lost
  <2>1. CASE UNCHANGED ledger BY <1>3, <2>1, UnchangedLedger DEF ledger
  <2>2. CASE \E S \in SUBSET Convs : Mark(S) BY <1>3, <2>2, MarkKeeps
  <2> QED BY <1>6, <2>1, <2>2
<1>8. MachineOK' /\ SavesOK' /\ FolOK' /\ LeaseOK' /\ PassOK' /\ ReqOK'
  BY <1>1, <1>2, <1>3, <1>7, StepKeeps
<1>9. CopyOK'
  <2>1. obj[r][c].cursor \in 0 .. MaxLog BY <1>1 DEF ObjOK, Tracked
  <2>2. [row EXCEPT ![c] = obj[r][c].cursor] \in [Convs -> 0 .. MaxLog \cup {NoRow}]
    BY <1>1, <2>1, RowTyped
  <2>3. \A S \in SUBSET frames[c] : [frames EXCEPT ![c] = S] \in [Convs -> SUBSET Seqs]
    BY <1>1 DEF CopyOK
  <2>4. \/ frames' = frames
        \/ frames' = Written(r) /\ fol[r].pc \in {"write", "frame"}
        \/ \E S \in SUBSET frames[c] : frames' = [frames EXCEPT ![c] = S]
    BY DEF StepFails, copy
  <2>5. row' = row \/ row' = [row EXCEPT ![c] = obj[r][c].cursor] BY DEF StepFails, copy
  <2>6. frames' \in [Convs -> SUBSET Seqs] BY <2>3, <2>4, WrittenTyped DEF CopyOK
  <2>7. row' \in [Convs -> 0 .. MaxLog \cup {NoRow}] BY <2>2, <2>5 DEF CopyOK
  <2> QED BY <2>6, <2>7 DEF CopyOK
<1>10. ObjOK' /\ QueuesOK' BY <1>3 DEF ObjOK, QueuesOK
<1> QED BY <1>5, <1>7, <1>8, <1>9, <1>10

LEMMA SettleKeeps == ASSUME IInv, NEW r \in Replicas, Settle(r) PROVE IInv'
<1>1. fol[r] \in Follower /\ Awake(fol[r]) BY DEF IInv, FolOK, Settle, Awake
<1>2. Calm /\ UNCHANGED <<copy, lease, obj, notes, hints, ledger>> /\ BudgetOK'
  BY DEF Settle, IInv, BudgetOK
<1>3. PICK f : Put(r, f) /\ Well(f)
  <2> DEFINE g == [Off EXCEPT !.pc = "idle", !.saved = fol[r].saved, !.conn = fol[r].conn,
                        !.link = fol[r].link, !.resync = fol[r].resync, !.closed = fol[r].closed]
  <2>1. g \in Follower /\ g.pc = "idle" BY <1>1, OffWell DEF Follower
  <2>2. Well(g)
    <3> HIDE DEF g
    <3> QED BY <2>1 DEF Well
  <2>3. fol[r].ask \in Convs \cup {NoConv} BY <1>1 DEF Follower
  <2>4. Well(Ended(r, NoConv)) /\ Well(Ended(r, fol[r].ask)) BY <1>1, <2>3, EndedWell
  <2>5. Put(r, Ended(r, NoConv)) \/ Put(r, Ended(r, fol[r].ask)) \/ Put(r, g) BY DEF Settle
  <2> HIDE DEF g
  <2> QED BY <2>2, <2>4, <2>5
<1> QED BY <1>1, <1>2, <1>3, MindKeeps

LEMMA TakeNoteKeeps == ASSUME IInv, NEW r \in Replicas, TakeNote(r) PROVE IInv'
<1> USE DEF IInv
<1> DEFINE n == Head(notes[r])
           g(pc) == [fol[r] EXCEPT !.pc = pc, !.job = "apply", !.cur = n.c,
                                   !.page = IF pc = "frame" THEN n.seq ELSE 0]
<1>1. fol \in [Replicas -> Follower] /\ fol[r] \in Follower /\ Awake(fol[r]) /\ Well(fol[r])
  BY DEF FolOK, TakeNote, Awake
<1>2. notes \in [Replicas -> Seq(Note)] /\ notes[r] # <<>> BY DEF QueuesOK, TakeNote
<1>3. n \in Note /\ Tail(notes[r]) \in Seq(Note) BY <1>2
<1>4. n.c \in Convs /\ n.seq \in 0 .. MaxLog /\ 0 \in 0 .. MaxLog BY <1>3, MirrorAssumption DEF Note
<1>5. obj[r][n.c].cursor \in 0 .. MaxLog BY <1>4 DEF ObjOK, Tracked
<1>6. ASSUME NEW pc \in {"save", "pull", "frame"}, NEW m \in 0 .. MaxLog, pc = "frame" => m > 0
      PROVE  Well([fol[r] EXCEPT !.pc = pc, !.job = "apply", !.cur = n.c, !.page = m])
  <2> DEFINE h == [fol[r] EXCEPT !.pc = pc, !.job = "apply", !.cur = n.c, !.page = m]
  <2> HIDE DEF n
  <2>1. h \in Follower /\ h.pc = pc /\ h.cur = n.c /\ h.page = m BY <1>1, <1>4 DEF Follower
  <2> HIDE DEF h
  <2>2. Well(h) BY <2>1, <1>4, <1>6 DEF Well
  <2> QED BY <2>2 DEF h
<1>7. PICK f : Put(r, f) /\ Well(f)
  <2>1. \/ UNCHANGED fol \/ Put(r, g("save")) \/ Put(r, g("pull"))
        \/ Put(r, g("frame")) /\ n.seq > obj[r][n.c].cursor
    BY DEF TakeNote
  <2>2. CASE UNCHANGED fol
    <3>1. Put(r, fol[r]) BY <1>1, <2>2 DEF Put
    <3> QED BY <3>1, <1>1
  <2>3. Well(g("save")) /\ Well(g("pull"))
    <3> HIDE DEF n
    <3> QED BY <1>4, <1>6
  <2>4. CASE Put(r, g("frame")) /\ n.seq > obj[r][n.c].cursor
    <3>1. n.seq > 0 BY <2>4, <1>4, <1>5
    <3>2. Well(g("frame"))
      <4> HIDE DEF n
      <4> QED BY <1>4, <1>6, <3>1
    <3> HIDE DEF g
    <3> QED BY <2>4, <3>2
  <2> HIDE DEF g
  <2> QED BY <2>1, <2>2, <2>3, <2>4
<1>8. Calm /\ UNCHANGED <<copy, lease, obj, hints, ledger, left>> BY DEF TakeNote
<1>9. MachineOK' /\ SavesOK' /\ FolOK' /\ LeaseOK' /\ PassOK' /\ ReqOK' /\ DeletedOK'
  BY <1>1, <1>7, <1>8, StepKeeps, UnchangedLedger DEF ledger
<1>10. QueuesOK' BY <1>2, <1>3, <1>8 DEF QueuesOK, TakeNote
<1>11. CopyOK' /\ ObjOK' /\ BudgetOK' BY <1>8 DEF copy, CopyOK, ObjOK, BudgetOK
<1> QED BY <1>9, <1>10, <1>11

LEMMA TakeHintKeeps == ASSUME IInv, NEW r \in Replicas, TakeHint(r) PROVE IInv'
<1> USE DEF IInv
<1> DEFINE h == Head(hints[r])
<1>1. fol \in [Replicas -> Follower] /\ fol[r] \in Follower /\ Awake(fol[r]) /\ Well(fol[r])
      /\ fol[r].pc = "idle"
  BY DEF FolOK, TakeHint, Awake
<1>2. hints \in [Replicas -> Seq(Hint)] /\ hints[r] # <<>> BY DEF QueuesOK, TakeHint
<1>3. h \in Hint /\ Tail(hints[r]) \in Seq(Hint) BY <1>2
<1>4. h.c \in Convs BY <1>3 DEF Hint
<1>5. Calm /\ UNCHANGED <<copy, lease, notes>> BY DEF TakeHint
<1>6. PICK f : Put(r, f) /\ Well(f)
  <2> HIDE DEF h
  <2>1. ASSUME NEW b \in BOOLEAN
        PROVE  Well([fol[r] EXCEPT !.resync = b, !.saved = saves])
    <3>1. /\ [fol[r] EXCEPT !.resync = b, !.saved = saves] \in Follower
          /\ [fol[r] EXCEPT !.resync = b, !.saved = saves].pc = "idle"
      BY <1>1 DEF Follower, SavesOK
    <3> QED BY <3>1 DEF Well
  <2>2. (fol[r].resync \/ (fol[r].saved # saves)) \in BOOLEAN OBVIOUS
  <2>3. Well([fol[r] EXCEPT !.resync = fol[r].resync \/ fol[r].saved # saves, !.saved = saves])
    BY <2>1, <2>2
  <2>4. Well(Dropping(fol[r], h.c))
    <3>1. /\ Dropping(fol[r], h.c) \in Follower
          /\ Dropping(fol[r], h.c).pc = "clear" /\ Dropping(fol[r], h.c).cur = h.c
      BY <1>1, <1>4 DEF Dropping, Follower
    <3> QED BY <3>1, <1>4 DEF Well
  <2>5. \/ Put(r, [fol[r] EXCEPT !.resync = fol[r].resync \/ fol[r].saved # saves, !.saved = saves])
        \/ UNCHANGED fol \/ Put(r, Dropping(fol[r], h.c))
    BY DEF TakeHint, h
  <2>6. CASE UNCHANGED fol
    <3>1. Put(r, fol[r]) BY <1>1, <2>6 DEF Put
    <3> QED BY <3>1, <1>1
  <2> QED BY <2>3, <2>4, <2>5, <2>6
<1>7. UNCHANGED ledger \/ Mark(Outdated(saves)) BY DEF TakeHint
<1>8. DeletedOK' /\ lost' = lost
  <2>1. CASE UNCHANGED ledger BY <1>5, <2>1, UnchangedLedger DEF ledger
  <2>2. CASE Mark(Outdated(saves))
    <3>1. Outdated(saves) \in SUBSET Convs BY DEF Outdated, SavesOK
    <3> QED BY <1>5, <2>2, <3>1, MarkKeeps
  <2> QED BY <1>7, <2>1, <2>2
<1>9. MachineOK' /\ SavesOK' /\ FolOK' /\ LeaseOK' /\ PassOK' /\ ReqOK'
  BY <1>1, <1>5, <1>6, <1>8, StepKeeps
<1>10. ObjOK'
  <2> HIDE DEF h
  <2>1. UNCHANGED obj \/ PutObj(r, h.c, Forgotten(obj[r][h.c])) BY DEF TakeHint, h
  <2>2. Forgotten(obj[r][h.c]) \in Tracked BY <1>4, ForgottenTracked DEF ObjOK
  <2>3. CASE UNCHANGED obj BY <2>3 DEF ObjOK
  <2>4. CASE PutObj(r, h.c, Forgotten(obj[r][h.c])) BY <1>4, <2>2, <2>4, PutObjKeeps
  <2> QED BY <2>1, <2>3, <2>4
<1>11. QueuesOK' BY <1>2, <1>3, <1>5 DEF QueuesOK, TakeHint
<1>12. NoFault \/ Fault("call") BY DEF TakeHint
<1>13. CopyOK' /\ BudgetOK' BY <1>5, <1>12, FaultKeeps DEF copy, CopyOK
<1> QED BY <1>8, <1>9, <1>10, <1>11, <1>13

LEMMA MeetTyped == ASSUME NEW b, NEW c \in Convs PROVE If(b, c) \in SUBSET Convs
BY DEF If

LEMMA ClearStoredKeeps == ASSUME IInv, NEW r \in Replicas, ClearStored(r) PROVE IInv'
<1> USE DEF IInv
<1> DEFINE c == fol[r].cur
<1>1. fol[r] \in Follower /\ Awake(fol[r]) /\ c \in Convs BY DEF FolOK, ClearStored, Awake, Well
<1>2. PICK f : Put(r, f) /\ Well(f)
  <2>1. Well([fol[r] EXCEPT !.pc = "clearRow"]) BY <1>1 DEF Well, Follower
  <2>2. Well([fol[r] EXCEPT !.pc = "idle", !.cur = NoConv])
    <3>1. /\ [fol[r] EXCEPT !.pc = "idle", !.cur = NoConv] \in Follower
          /\ [fol[r] EXCEPT !.pc = "idle", !.cur = NoConv].pc = "idle"
      BY <1>1 DEF Follower
    <3> QED BY <3>1 DEF Well
  <2> QED BY <2>1, <2>2 DEF ClearStored
<1>3. Calm /\ UNCHANGED <<lease, obj, notes, hints, left>> /\ Mark(If(Meets(c), c)) BY DEF ClearStored
<1>4. If(Meets(c), c) \in SUBSET Convs BY <1>1, MeetTyped
<1>5. DeletedOK' /\ lost' = lost BY <1>3, <1>4, MarkKeeps
<1>6. MachineOK' /\ SavesOK' /\ FolOK' /\ LeaseOK' /\ PassOK' /\ ReqOK'
  BY <1>1, <1>2, <1>3, <1>5, StepKeeps
<1>7. CopyOK' BY <1>1 DEF CopyOK, ClearStored
<1>8. ObjOK' /\ QueuesOK' /\ BudgetOK' BY <1>3 DEF ObjOK, QueuesOK, BudgetOK
<1> QED BY <1>5, <1>6, <1>7, <1>8

LEMMA ClearFailsKeeps == ASSUME IInv, NEW r \in Replicas, ClearFails(r) PROVE IInv'
<1> USE DEF IInv
<1> DEFINE c == fol[r].cur
<1>1. fol[r] \in Follower /\ Awake(fol[r]) /\ c \in Convs BY DEF FolOK, ClearFails, Awake, Well
<1>2. /\ [fol[r] EXCEPT !.pc = "idle", !.cur = NoConv] \in Follower
      /\ [fol[r] EXCEPT !.pc = "idle", !.cur = NoConv].pc = "idle"
  BY <1>1 DEF Follower
<1>3. Well([fol[r] EXCEPT !.pc = "idle", !.cur = NoConv]) BY <1>2 DEF Well
<1>4. Put(r, [fol[r] EXCEPT !.pc = "idle", !.cur = NoConv]) /\ Calm
      /\ UNCHANGED <<lease, obj, notes, hints>> /\ Mark({c}) /\ Fault("call")
  BY DEF ClearFails
<1>5. DeletedOK' /\ lost' = lost BY <1>1, <1>4, MarkKeeps
<1>6. MachineOK' /\ SavesOK' /\ FolOK' /\ LeaseOK' /\ PassOK' /\ ReqOK'
  BY <1>1, <1>3, <1>4, <1>5, StepKeeps
<1>7. CopyOK' BY <1>1 DEF CopyOK, ClearFails
<1>8. ObjOK' /\ QueuesOK' BY <1>4 DEF ObjOK, QueuesOK
<1>9. BudgetOK' BY <1>4, FaultKeeps
<1> QED BY <1>5, <1>6, <1>7, <1>8, <1>9

LEMMA TakeResyncKeeps == ASSUME IInv, NEW r \in Replicas, TakeResync(r) PROVE IInv'
<1>1. fol[r] \in Follower /\ Awake(fol[r]) /\ fol[r].pc = "idle" BY DEF IInv, FolOK, TakeResync, Awake
<1>2. Calm /\ UNCHANGED <<copy, lease, obj, notes, hints, ledger>> /\ BudgetOK'
  BY DEF TakeResync, IInv, BudgetOK
<1>3. PICK f : Put(r, f) /\ Well(f)
  <2> DEFINE g == [fol[r] EXCEPT !.resync = FALSE, !.pc = "list", !.job = "sync", !.todo = fol[r].saved]
             i == [fol[r] EXCEPT !.resync = FALSE]
  <2>1. g \in Follower /\ g.pc = "list" /\ i \in Follower /\ i.pc = "idle" BY <1>1 DEF Follower
  <2>2. Put(r, i) \/ Put(r, g) BY DEF TakeResync
  <2> HIDE DEF g, i
  <2>3. Well(g) /\ Well(i) BY <2>1 DEF Well
  <2> QED BY <2>2, <2>3
<1> QED BY <1>1, <1>2, <1>3, MindKeeps

LEMMA ReviveKeeps == ASSUME IInv, NEW r \in Replicas, Revive(r) PROVE IInv'
<1> DEFINE stale == {c \in Convs : obj[r][c].known /\ ~obj[r][c].attached}
           g == [fol[r] EXCEPT !.pc = "list", !.job = "revive", !.todo = stale]
<1>1. fol[r] \in Follower /\ Awake(fol[r]) BY DEF IInv, FolOK, Revive, Awake
<1>2. Calm /\ UNCHANGED <<copy, lease, obj, notes, hints, ledger>> /\ BudgetOK' /\ Put(r, g)
  BY DEF Revive, IInv, BudgetOK
<1>3. stale \in SUBSET Convs OBVIOUS
<1>4. g \in Follower /\ g.pc = "list"
  <2> HIDE DEF stale
  <2> QED BY <1>1, <1>3 DEF Follower
<1> HIDE DEF g
<1>5. Well(g) BY <1>4 DEF Well
<1> QED BY <1>1, <1>2, <1>5, MindKeeps

\* The lease is given back only by who holds it.
LEMMA ReleaseKeeps == ASSUME IInv, NEW r \in Replicas, Release(r) PROVE IInv'
<1> USE DEF IInv
<1> DEFINE f == [Off EXCEPT !.pc = IF fol[r].ask = NoConv THEN "off" ELSE "tell", !.ask = fol[r].ask]
<1>1. fol[r] \in Follower /\ fol \in [Replicas -> Follower] BY DEF FolOK
<1>2. Well(f) /\ ~Awake(f) BY <1>1, RefusedWell
<1>3. Put(r, f) /\ Calm /\ UNCHANGED copy /\ Mark(Cut(r)) BY DEF Release
<1>4. Cut(r) \in SUBSET Convs BY DEF Cut
<1>5. DeletedOK' /\ lost' = lost BY <1>3, <1>4, MarkKeeps
<1> HIDE DEF f
<1>6. FolOK' BY <1>2, <1>3, PutFollower
<1>7. LeaseOK'
  <2>1. lease' = Released(r) \/ lease' = lease BY DEF Release
  <2>2. ASSUME NEW q \in Replicas \ lost', fol'[q].pc \notin {"off", "claim", "tell"}
        PROVE  lease' = q
    <3>1. fol' = [fol EXCEPT ![r] = f] BY <1>3 DEF Put
    <3>2. q # r BY <1>1, <1>2, <2>2, <3>1 DEF Awake
    <3>3. fol'[q] = fol[q] BY <1>1, <3>1, <3>2
    <3>4. lease = q BY <3>3, <2>2, <1>5 DEF LeaseOK, LeaseIsKept
    <3> QED BY <3>2, <3>4, <2>1 DEF Released
  <2>3. lease' \in Replicas \cup {NoReplica} BY <2>1 DEF LeaseOK, Released
  <2> QED BY <2>2, <2>3, <1>5 DEF LeaseOK, LeaseIsKept
<1>8. ObjOK'
  <2>1. \A c \in Convs : [obj[r][c] EXCEPT !.known = FALSE, !.attached = FALSE] \in Tracked
    <3>1. ASSUME NEW o \in Tracked PROVE [o EXCEPT !.known = FALSE, !.attached = FALSE] \in Tracked
      BY DEF Tracked
    <3> QED BY <3>1 DEF ObjOK
  <2>2. obj' = [obj EXCEPT ![r] = [c \in Convs |-> [obj[r][c] EXCEPT !.known = FALSE, !.attached = FALSE]]]
    BY DEF Release
  <2>3. [c \in Convs |-> [obj[r][c] EXCEPT !.known = FALSE, !.attached = FALSE]] \in [Convs -> Tracked]
    BY <2>1
  <2> QED BY <2>2, <2>3 DEF ObjOK
<1>9. QueuesOK'
  <2>1. <<>> \in Seq(Note) /\ <<>> \in Seq(Hint) OBVIOUS
  <2>2. notes' = [notes EXCEPT ![r] = <<>>] /\ hints' = [hints EXCEPT ![r] = <<>>] BY DEF Release
  <2> QED BY <2>1, <2>2 DEF QueuesOK
<1>10. NoFault \/ Fault("call") BY DEF Release
<1>11. BudgetOK' BY <1>10, FaultKeeps
<1>12. CopyOK' BY <1>3 DEF copy, CopyOK
<1>13. MachineOK' /\ SavesOK' /\ PassOK' /\ ReqOK' BY <1>3, CalmKeeps
<1> QED BY <1>5, <1>6, <1>7, <1>8, <1>9, <1>11, <1>12, <1>13

\* What touches neither follower nor lease.
LEMMA StillKeeps ==
    ASSUME IInv, Calm, UNCHANGED <<lease, fol, notes, hints, ledger>>
    PROVE  /\ MachineOK' /\ SavesOK' /\ FolOK' /\ QueuesOK' /\ LeaseOK'
           /\ PassOK' /\ ReqOK' /\ DeletedOK'
<1>1. MachineOK' /\ SavesOK' /\ PassOK' /\ ReqOK' BY CalmKeeps
<1>2. DeletedOK' BY UnchangedLedger DEF ledger
<1> QED BY <1>1, <1>2 DEF IInv, FolOK, QueuesOK, LeaseOK, LeaseIsKept, ledger

LEMMA ElapsedKeeps == ASSUME IInv, NEW r \in Replicas, NEW c \in Convs, Elapsed(r, c) PROVE IInv'
<1> USE DEF IInv
<1> DEFINE o == obj[r][c]
<1>1. Calm /\ UNCHANGED <<copy, lease, fol, notes, hints, ledger, left>> BY DEF Elapsed
<1>2. o \in Tracked BY DEF ObjOK
<1>3. [o EXCEPT !.dirty = FALSE, !.tail = o.cursor] \in Tracked /\ [o EXCEPT !.open = FALSE] \in Tracked
  BY <1>2 DEF Tracked
<1>4. PICK x \in Tracked : PutObj(r, c, x)
  <2>1. PutObj(r, c, [o EXCEPT !.dirty = FALSE, !.tail = o.cursor]) \/ PutObj(r, c, [o EXCEPT !.open = FALSE])
    BY DEF Elapsed
  <2> QED BY <1>3, <2>1
<1>5. ObjOK' BY <1>4, PutObjKeeps
<1>6. CopyOK' /\ BudgetOK' BY <1>1 DEF copy, CopyOK, BudgetOK
<1> QED BY <1>1, <1>5, <1>6, StillKeeps

LEMMA TailWritesKeeps == ASSUME IInv, NEW r \in Replicas, NEW c \in Convs, TailWrites(r, c) PROVE IInv'
<1> USE DEF IInv
<1>1. Calm /\ UNCHANGED <<frames, lease, fol, notes, hints, ledger>> BY DEF TailWrites
<1>2. obj[r][c] \in Tracked BY DEF ObjOK
<1>3. [obj[r][c] EXCEPT !.tail = NoRow] \in Tracked /\ obj[r][c].tail \in 0 .. MaxLog \cup {NoRow}
  BY <1>2 DEF Tracked
<1>4. ObjOK' BY <1>3, PutObjKeeps DEF TailWrites
<1>5. CopyOK' BY <1>1, <1>3, RowTyped DEF CopyOK, TailWrites
<1>6. NoFault \/ Fault("call") BY DEF TailWrites
<1>7. BudgetOK' BY <1>6, FaultKeeps
<1> QED BY <1>1, <1>4, <1>5, <1>7, StillKeeps

LEMMA FollowerKeeps == ASSUME IInv, NEW r \in Replicas, FollowerNext(r) PROVE IInv'
BY ClaimKeeps, TellKeeps, PrepareKeeps, PrepareFailsKeeps, ListKeeps, ListFailsKeeps, WipeKeeps,
   PullKeeps, WritePageKeeps, WriteFrameKeeps, SaveSummaryKeeps, StepFailsKeeps, SettleKeeps,
   TakeNoteKeeps, TakeHintKeeps, ClearStoredKeeps, ClearFailsKeeps, TakeResyncKeeps, ReviveKeeps,
   ReleaseKeeps, CatchUpKeeps, ElapsedKeeps, TailWritesKeeps DEF FollowerNext

-----------------------------------------------------------------------------
(* Crashes and time.                                                       *)

\* A replica that crashes leaves its lease behind, and its cron job and request undone.
LEMMA CrashKeeps == ASSUME IInv, NEW r \in Replicas, Crash(r) PROVE IInv'
<1> USE DEF IInv
<1> DEFINE S == Cut(r) \cup If(req.at = r /\ req.step = "summary", req.c)
<1>1. Put(r, Off) /\ Mark(S) /\ UNCHANGED <<machine, saves, todos, copy, lease>> /\ Fault("crash")
  BY DEF Crash
<1>2. S \in SUBSET Convs
  <2>1. If(req.at = r /\ req.step = "summary", req.c) \in SUBSET Convs BY DEF If, ReqOK
  <2>2. Cut(r) \in SUBSET Convs BY DEF Cut
  <2> QED BY <2>1, <2>2
<1>3. deleted' = deleted /\ lost' = lost /\ crossed' = crossed \cup S BY <1>1 DEF Mark
<1> HIDE DEF S
<1>4. FolOK' /\ LeaseOK' BY <1>1, <1>3, OffWell, PutKeeps
<1>5. DeletedOK' BY <1>1, <1>2, <1>3 DEF DeletedOK, DeletionReaches, machine
<1>6. BudgetOK' BY <1>1, FaultKeeps
<1>7. ObjOK'
  <2>1. Untracked \in Tracked BY MirrorAssumption DEF Untracked, Tracked
  <2>2. [c \in Convs |-> Untracked] \in [Convs -> Tracked] BY <2>1
  <2> QED BY <2>2 DEF ObjOK, Crash
<1>8. QueuesOK'
  <2>1. <<>> \in Seq(Note) /\ <<>> \in Seq(Hint) OBVIOUS
  <2>2. notes' = [notes EXCEPT ![r] = <<>>] /\ hints' = [hints EXCEPT ![r] = <<>>] BY DEF Crash
  <2> QED BY <2>1, <2>2 DEF QueuesOK
<1>9. PassOK'
  <2>1. pass' = NoPass \/ pass' = pass BY DEF Crash
  <2>2. CASE pass' = NoPass BY <2>2 DEF PassOK, Pass, NoPass
  <2>3. CASE pass' = pass BY <2>3, <1>1 DEF PassOK, machine
  <2> QED BY <2>1, <2>2, <2>3
<1>10. ReqOK'
  <2>1. req' = NoReq \/ req' = req BY DEF Crash
  <2>2. CASE req' = NoReq BY <2>2 DEF ReqOK, Request, NoReq
  <2>3. CASE req' = req BY <2>3, <1>1 DEF ReqOK
  <2> QED BY <2>1, <2>2, <2>3
<1>11. MachineOK' /\ SavesOK' /\ CopyOK' BY <1>1 DEF machine, copy, MachineOK, SavesOK, CopyOK
<1> QED BY <1>4, <1>5, <1>6, <1>7, <1>8, <1>9, <1>10, <1>11

\* Who loses the lease is the only one who was to hold it.
LEMMA ExpireKeeps == ASSUME IInv, Expire PROVE IInv'
<1> USE DEF IInv
<1>1. lease \in Replicas /\ lease' = NoReplica /\ lost' = lost \cup {lease} BY DEF LeaseOK, Expire
<1>2. UNCHANGED <<machine, saves, todos, copy, memory, pass, req, deleted, crossed>> BY DEF Expire
<1>3. ASSUME NEW q \in Replicas \ lost', fol'[q].pc \notin {"off", "claim", "tell"}
      PROVE  FALSE
  <2>1. fol' = fol BY <1>2 DEF memory
  <2>2. lease = q BY <1>1, <1>3, <2>1 DEF LeaseOK, LeaseIsKept
  <2> QED BY <1>1, <1>3, <2>2
<1>4. LeaseOK' BY <1>1, <1>3 DEF LeaseOK, LeaseIsKept
<1>5. NoFault \/ Fault("expire") BY DEF Expire
<1>6. BudgetOK' BY <1>5, FaultKeeps
<1>7. MachineOK' /\ SavesOK' /\ CopyOK' /\ FolOK' /\ ObjOK' /\ QueuesOK' /\ PassOK' /\ ReqOK' /\ DeletedOK'
  BY <1>2 DEF machine, copy, memory, MachineOK, SavesOK, CopyOK, FolOK, ObjOK, QueuesOK, PassOK,
              ReqOK, DeletedOK, DeletionReaches
<1> QED BY <1>4, <1>6, <1>7

-----------------------------------------------------------------------------
(* The invariant.                                                          *)

LEMMA InitHolds == ASSUME Init PROVE IInv
<1>1. 0 \in 0 .. MaxLog /\ 0 \in 0 .. MaxLinks /\ 1 \in 0 .. MaxLinks BY MirrorAssumption
<1>2. MachineOK BY <1>1 DEF Init, MachineOK
<1>3. CopyOK BY DEF Init, CopyOK
<1>4. FolOK BY OffWell DEF Init, FolOK
<1>5. ObjOK
  <2>1. Untracked \in Tracked BY <1>1 DEF Untracked, Tracked
  <2> QED BY <2>1 DEF Init, ObjOK
<1>6. QueuesOK BY DEF Init, QueuesOK
<1>7. LeaseOK BY OffWell DEF Init, LeaseOK, LeaseIsKept, Off
<1>8. PassOK /\ ReqOK BY DEF Init, PassOK, ReqOK, Pass, Request, NoPass, NoReq
<1>9. SavesOK /\ DeletedOK BY DEF Init, SavesOK, DeletedOK, DeletionReaches
<1>10. BudgetOK BY MirrorAssumption DEF Init, BudgetOK
<1> QED BY <1>2, <1>3, <1>4, <1>5, <1>6, <1>7, <1>8, <1>9, <1>10 DEF IInv

LEMMA NextKeeps == ASSUME IInv, [MirrorNext]_vars PROVE IInv'
<1>1. CASE UNCHANGED vars
  BY <1>1 DEF IInv, vars, machine, copy, memory, ledger, MachineOK, SavesOK, CopyOK, FolOK, ObjOK,
              QueuesOK, LeaseOK, LeaseIsKept, PassOK, ReqOK, DeletedOK, DeletionReaches, BudgetOK
<1>2. CASE MirrorNext
  BY <1>2, MachineKeeps, RequestKeeps, CronKeeps, ExpireKeeps, FollowerKeeps, CrashKeeps
     DEF MirrorNext
<1> QED BY <1>1, <1>2

\* One replica at a time follows a machine while its lease lasts (lease.go), and what a
\* user deleted is deleted on the machine or waits in a todo for it, whatever crashes,
\* fails, is saved again or is replayed (sessions.go, DeleteOnMachine and
\* ReplayPendingDeletes).
THEOREM OneFollowerNoDeletionForgotten == MirrorSpec => []MirrorInv
<1>1. IInv => MirrorInv
  BY DEF IInv, MirrorInv, TypeOK, MachineOK, SavesOK, CopyOK, FolOK, ObjOK, QueuesOK, LeaseOK,
         PassOK, ReqOK, DeletedOK, BudgetOK
<1>2. Init => IInv BY InitHolds
<1>3. IInv /\ [MirrorNext]_vars => IInv' BY NextKeeps
<1> QED BY <1>1, <1>2, <1>3, PTL DEF MirrorSpec

(***************************************************************************)
(* The stored copy.                                                        *)
(***************************************************************************)
\* A follower has a conversation in hand it writes of.
InHand == {"wipe", "rewrite", "pull", "write", "save", "frame", "touch"}

\* What the follower's steps agree on: it starts a log again from its beginning, a frame
\* heard is the next one, and what is left to catch up is what Sync or Revive left.
Steady(f, o) ==
    /\ f.pc \in {"wipe", "rewrite"} => o[f.cur].cursor = 0
    /\ f.pc = "frame" => f.page = o[f.cur].cursor + 1
    /\ f.cur \notin f.todo
    /\ f.todo # {} => f.pc \in {"list", "each"} \/ (f.pc \in InHand /\ f.job # "apply")
    /\ f.pc \in {"frame", "touch"} => f.job = "apply"
    /\ f.pc \notin InHand => f.job # "apply"
    /\ f.pc \in {"claim", "subscribe", "conn", "dial"} => f.job = "start"
    /\ f.pc \notin InHand \cup {"clear", "clearRow"} => f.cur = NoConv

\* Every cursor that follower f may yet store of c, from its object o, its list or a write
\* on its way, stands on frames of S.
Keeps(f, o, c, S) ==
    /\ o.known \/ o.dirty => 1 .. o.cursor \subseteq S
    /\ o.tail # NoRow => 1 .. o.tail \subseteq S
    /\ f.cur = c /\ f.pc \in InHand => 1 .. o.cursor \subseteq S
    /\ c \in f.todo => IF f.job = "revive" THEN 1 .. o.cursor \subseteq S
                       ELSE f.pc = "list" \/ 1 .. f.stored[c] \subseteq S

Promises(c) ==
    /\ 1 .. row[c] \subseteq frames[c]
    /\ \A r \in Replicas : Keeps(fol[r], obj[r][c], c, frames[c])

HonestAt(c) == Underway(c) \/ Promises(c)

Unheard(r, c) == Told(r, c) \/ (fol[r].pc = "clear" /\ fol[r].cur = c)

\* Of a conversation that is not saved any more only those may write who are about to be
\* told, and what they wrote they will clear.
UnsavedAt(c) ==
    /\ c \notin saves \/ (req.c = c /\ req.step \in {"summary", "unsave"}) =>
         /\ \A q \in Replicas : Holds(q, c) => Unheard(q, c)
         /\ frames[c] # {} => \E q \in Replicas : Unheard(q, c)
    /\ c \notin saves \/ (req.c = c /\ req.step = "unsave") =>
         (row[c] # NoRow => \E q \in Replicas : Told(q, c) \/ Clearing(q, c))

SteadyInv  == \A r \in Replicas : Steady(fol[r], obj[r])
HonestInv  == \A c \in Convs \ crossed : HonestAt(c)
UnsavedInv == (req.step = "follow" => req.list \subseteq saves) /\ \A c \in Convs \ crossed : UnsavedAt(c)

StoreInv == IInv /\ SteadyInv /\ HonestInv /\ UnsavedInv

\* Follower g is where f was, asked for a Sync or to leave a conversation out at most.
Alike(f, g) ==
    /\ g.pc = f.pc /\ g.cur = f.cur /\ g.job = f.job /\ g.todo = f.todo /\ g.page = f.page
    /\ g.stored = f.stored /\ g.saved \subseteq f.saved

Others(r) ==
    \A q \in Replicas \ {r} :
        Alike(fol[q], fol'[q]) /\ obj'[q] = obj[q] /\ \A c \in Convs : Told(q, c) => Told(q, c)'

\* The request goes on, or ends where no purge is left half done.
Requested ==
    /\ saves' = saves /\ crossed \subseteq crossed'
    /\ req' = req \/ (req' = NoReq /\ (req.step = "summary" => req.c \in crossed'))

\* A step of r that leaves what is said of c as true as it was.
Mild(r, c) ==
    /\ Told(r, c) => Unheard(r, c)'
    /\ fol[r].cur = c /\ fol[r].pc \in {"clear", "clearRow", "rewrite"} =>
         fol'[r].cur = c /\ fol'[r].pc = fol[r].pc
    /\ Holds(r, c)' => Holds(r, c) \/ (c \in saves /\ ~Deleting(c))
    /\ frames'[c] = frames[c] \/ (frames[c] \subseteq frames'[c] /\ Holds(r, c))
    /\ \/ row'[c] = row[c]
       \/ Holds(r, c) /\ (Promises(c) => 1 .. row'[c] \subseteq frames'[c])
    /\ Promises(c) => Keeps(fol'[r], obj'[r][c], c, frames'[c])

LEMMA KeepsMore ==
    ASSUME NEW f, NEW o, NEW c, NEW S, NEW T, S \subseteq T, Keeps(f, o, c, S)
    PROVE  Keeps(f, o, c, T)
BY DEF Keeps

LEMMA KeepsAlike ==
    ASSUME NEW f, NEW g, NEW o, NEW c, NEW S, Alike(f, g), Keeps(f, o, c, S)
    PROVE  Keeps(g, o, c, S)
BY DEF Keeps, Alike

LEMMA MildHonest ==
    ASSUME HonestInv, NEW r \in Replicas, NEW c \in Convs \ crossed', Requested, Others(r), Mild(r, c)
    PROVE  HonestAt(c)'
<1>1. HonestAt(c) BY DEF HonestInv, Requested
<1>2. ASSUME NEW q \in Replicas \ {r}
      PROVE  /\ Alike(fol[q], fol'[q]) /\ obj'[q][c] = obj[q][c]
             /\ Told(q, c) => Told(q, c)'
  BY DEF Others
<1>3. CASE Underway(c)
  <2>1. CASE req.c = c /\ req.step = "summary" BY <2>1 DEF HonestAt, Underway, Requested
  <2>2. ASSUME NEW q \in Replicas, Told(q, c) \/ Clearing(q, c) \/ (fol[q].pc = "rewrite" /\ fol[q].cur = c)
        PROVE  Told(q, c)' \/ Clearing(q, c)' \/ (fol'[q].pc = "rewrite" /\ fol'[q].cur = c)
    <3>1. CASE q = r BY <2>2, <3>1 DEF Mild, Clearing, Unheard
    <3>2. CASE q # r BY <1>2, <2>2, <3>2 DEF Clearing, Alike
    <3> QED BY <3>1, <3>2
  <2> QED BY <1>3, <2>1, <2>2 DEF HonestAt, Underway
<1>4. CASE Promises(c)
  <2>1. frames[c] \subseteq frames'[c] BY DEF Mild
  <2>2. 1 .. row'[c] \subseteq frames'[c] BY <1>4, <2>1 DEF Mild, Promises
  <2>3. ASSUME NEW q \in Replicas PROVE Keeps(fol'[q], obj'[q][c], c, frames'[c])
    <3>1. Keeps(fol[q], obj[q][c], c, frames[c]) BY <1>4 DEF Promises
    <3>2. CASE q = r BY <1>4, <3>2 DEF Mild
    <3>3. CASE q # r
      <4>1. Keeps(fol[q], obj[q][c], c, frames'[c]) BY <3>1, <2>1, KeepsMore
      <4> QED BY <3>3, <4>1, <1>2, KeepsAlike
    <3> QED BY <3>2, <3>3
  <2> QED BY <2>2, <2>3 DEF HonestAt, Promises
<1> QED BY <1>1, <1>3, <1>4 DEF HonestAt

LEMMA MildUnsaved ==
    ASSUME UnsavedInv, NEW r \in Replicas, NEW c \in Convs \ crossed', Requested, Others(r), Mild(r, c)
    PROVE  UnsavedAt(c)'
<1>1. UnsavedAt(c) BY DEF UnsavedInv, Requested
<1>2. ASSUME NEW q \in Replicas \ {r}
      PROVE  /\ Holds(q, c)' => Holds(q, c)
             /\ Unheard(q, c) => Unheard(q, c)'
             /\ Told(q, c) \/ Clearing(q, c) => Told(q, c)' \/ Clearing(q, c)'
  <2>1. Alike(fol[q], fol'[q]) /\ obj'[q] = obj[q] /\ (Told(q, c) => Told(q, c)') BY DEF Others
  <2> QED BY <2>1 DEF Clearing, Holds, Unheard, Alike
<1>3. /\ Unheard(r, c) => Unheard(r, c)'
      /\ Told(r, c) \/ Clearing(r, c) => Told(r, c)' \/ Clearing(r, c)'
      /\ Unheard(r, c) => Told(r, c) \/ Clearing(r, c)
  BY DEF Mild, Unheard, Clearing
<1>4. /\ c \notin saves' => c \notin saves
      /\ req'.c = c /\ req'.step \in {"summary", "unsave"} => req' = req
  BY DEF Requested, NoReq, Deleting
<1>5. ASSUME c \notin saves \/ Deleting(c),
             \A q \in Replicas : Holds(q, c) => Unheard(q, c),
             frames[c] # {} => \E q \in Replicas : Unheard(q, c)
      PROVE  /\ \A q \in Replicas : Holds(q, c)' => Unheard(q, c)'
             /\ frames'[c] # {} => \E q \in Replicas : Unheard(q, c)'
  <2>1. \A q \in Replicas : Unheard(q, c) => Unheard(q, c)' BY <1>2, <1>3
  <2>2. Holds(r, c)' => Holds(r, c) BY <1>5 DEF Mild
  <2>3. \A q \in Replicas : Holds(q, c)' => Unheard(q, c)' BY <1>2, <2>1, <2>2, <1>5
  <2>4. frames'[c] # {} => frames[c] # {} \/ Holds(r, c) BY DEF Mild
  <2> QED BY <1>5, <2>1, <2>3, <2>4
<1>6. ASSUME \A q \in Replicas : Holds(q, c) => Unheard(q, c),
             row[c] # NoRow => \E q \in Replicas : Told(q, c) \/ Clearing(q, c)
      PROVE  row'[c] # NoRow => \E q \in Replicas : Told(q, c)' \/ Clearing(q, c)'
  <2>1. \A q \in Replicas : Told(q, c) \/ Clearing(q, c) => Told(q, c)' \/ Clearing(q, c)' BY <1>2, <1>3
  <2>2. row'[c] # NoRow => row[c] # NoRow \/ Holds(r, c) BY DEF Mild
  <2>3. Holds(r, c) => Told(r, c) \/ Clearing(r, c) BY <1>3, <1>6
  <2> QED BY <1>6, <2>1, <2>2, <2>3
<1>7. c \notin saves' \/ (req'.c = c /\ req'.step \in {"summary", "unsave"}) =>
         c \notin saves \/ (req.c = c /\ req.step \in {"summary", "unsave"} /\ Deleting(c))
  BY <1>4 DEF Requested, Deleting
<1>8. c \notin saves' \/ (req'.c = c /\ req'.step = "unsave") =>
         c \notin saves \/ (req.c = c /\ req.step = "unsave")
  BY <1>4
<1> QED BY <1>1, <1>5, <1>6, <1>7, <1>8 DEF UnsavedAt

LEMMA MildKeeps ==
    ASSUME StoreInv, NEW r \in Replicas, Requested, Others(r), Steady(fol'[r], obj'[r]),
           \A c \in Convs \ crossed' : Mild(r, c) \/ (HonestAt(c)' /\ UnsavedAt(c)')
    PROVE  SteadyInv' /\ HonestInv' /\ UnsavedInv'
<1>1. SteadyInv'
  <2>1. ASSUME NEW q \in Replicas \ {r} PROVE Steady(fol'[q], obj'[q])
    <3>1. Alike(fol[q], fol'[q]) /\ obj'[q] = obj[q] BY DEF Others
    <3>2. Steady(fol[q], obj[q]) BY DEF StoreInv, SteadyInv
    <3> QED BY <3>1, <3>2 DEF Steady, Alike
  <2> QED BY <2>1 DEF SteadyInv
<1>2. HonestInv' BY MildHonest DEF StoreInv, HonestInv
<1>3. UnsavedInv'
  <2>1. \A c \in Convs \ crossed' : UnsavedAt(c)' BY MildUnsaved DEF StoreInv
  <2> QED BY <2>1 DEF StoreInv, UnsavedInv, Requested, NoReq
<1> QED BY <1>1, <1>2, <1>3

-----------------------------------------------------------------------------
(* What the steps of a follower have in common.                            *)

LEMMA PutOthers ==
    ASSUME IInv, NEW r \in Replicas, NEW f, Put(r, f),
           \A q \in Replicas \ {r} : obj'[q] = obj[q] /\ hints'[q] = hints[q]
    PROVE  Others(r) /\ fol'[r] = f
<1>1. fol \in [Replicas -> Follower] BY DEF IInv, FolOK
<1>2. fol'[r] = f /\ \A q \in Replicas \ {r} : fol'[q] = fol[q] BY <1>1 DEF Put
<1> QED BY <1>2 DEF Others, Alike, Told

LEMMA PutObjHere ==
    ASSUME IInv, NEW r \in Replicas, NEW c \in Convs, NEW o, PutObj(r, c, o)
    PROVE  /\ \A q \in Replicas \ {r} : obj'[q] = obj[q]
           /\ obj'[r][c] = o /\ \A d \in Convs \ {c} : obj'[r][d] = obj[r][d]
<1>1. obj \in [Replicas -> [Convs -> Tracked]] BY DEF IInv, ObjOK
<1> QED BY <1>1 DEF PutObj

LEMMA KeepsLess ==
    ASSUME NEW f, NEW g, NEW o, NEW c, NEW S, Keeps(f, o, c, S), g.todo = {},
           g.cur # c \/ g.pc \notin InHand
    PROVE  Keeps(g, o, c, S)
BY DEF Keeps

\* The follower moves from f to g and touches nothing else of what is stored.
LEMMA MovesStore ==
    ASSUME StoreInv, NEW r \in Replicas, NEW g, Put(r, g), Calm, UNCHANGED <<copy, obj, hints>>,
           crossed \subseteq crossed', fol[r].pc \notin {"clear", "clearRow", "rewrite"},
           Steady(g, obj[r]),
           \A c \in Convs \ crossed' :
              /\ c \in g.saved \cup g.todo \/ (g.cur = c /\ g.pc \notin {"clear", "clearRow"}) =>
                   Holds(r, c) \/ (c \in saves /\ ~Deleting(c))
              /\ Keeps(fol[r], obj[r][c], c, frames[c]) => Keeps(g, obj[r][c], c, frames[c])
    PROVE  SteadyInv' /\ HonestInv' /\ UnsavedInv'
<1>1. Others(r) /\ fol'[r] = g BY PutOthers DEF StoreInv
<1>2. Requested BY DEF Requested, Calm
<1>3. frames' = frames /\ row' = row /\ obj' = obj /\ hints' = hints BY DEF copy
<1>4. ASSUME NEW c \in Convs \ crossed' PROVE Mild(r, c)
  <2>1. Holds(r, c)' => Holds(r, c) \/ (c \in saves /\ ~Deleting(c))
    BY <1>1, <1>3 DEF Holds, Clearing
  <2>2. Told(r, c) => Told(r, c)' BY <1>3 DEF Told
  <2> QED BY <1>1, <1>3, <2>1, <2>2 DEF Mild, Unheard, Promises
<1> QED BY <1>1, <1>2, <1>3, <1>4, MildKeeps

\* One that ends holds nothing any more.
LEMMA EndsStore ==
    ASSUME StoreInv, NEW r \in Replicas, NEW g, Put(r, g), Calm, UNCHANGED <<copy, obj, hints>>,
           crossed \subseteq crossed', fol[r].pc \notin {"clear", "clearRow", "rewrite"},
           g.pc \in {"off", "tell", "release"}, g.saved = {}, g.todo = {}, g.cur = NoConv, g.job = "none"
    PROVE  SteadyInv' /\ HonestInv' /\ UnsavedInv'
<1>1. Steady(g, obj[r]) BY DEF Steady, InHand
<1>2. \A c \in Convs : g.cur # c BY MirrorAssumption
<1>3. \A c \in Convs : Keeps(fol[r], obj[r][c], c, frames[c]) => Keeps(g, obj[r][c], c, frames[c])
  BY <1>2, KeepsLess
<1> QED BY <1>1, <1>2, <1>3, MovesStore

LEMMA OffNothing ==
    /\ Off.pc = "off" /\ Off.saved = {} /\ Off.todo = {} /\ Off.cur = NoConv /\ Off.job = "none"
    /\ \A p, a : LET g == [Off EXCEPT !.pc = p, !.ask = a]
                 IN g.pc = p /\ g.saved = {} /\ g.todo = {} /\ g.cur = NoConv /\ g.job = "none"
    /\ \A r \in Replicas : \A a :
                              /\ Ended(r, a).pc = "release" /\ Ended(r, a).saved = {} /\ Ended(r, a).todo = {}
                              /\ Ended(r, a).cur = NoConv /\ Ended(r, a).job = "none"
BY DEF Off, Ended

LEMMA ClaimStores ==
    ASSUME StoreInv, NEW r \in Replicas, Claim(r)
    PROVE  SteadyInv' /\ HonestInv' /\ UnsavedInv'
<1>1. Calm /\ UNCHANGED <<copy, obj, hints, crossed>> /\ fol[r].pc = "claim" BY DEF Claim
<1>2. fol[r] \in Follower BY DEF StoreInv, IInv, FolOK
<1> DEFINE g == [fol[r] EXCEPT !.pc = "subscribe"]
           refused == [Off EXCEPT !.pc = IF fol[r].ask = NoConv THEN "off" ELSE "tell", !.ask = fol[r].ask]
<1>3. CASE Put(r, g)
  <2>1. /\ g.pc = "subscribe" /\ g.todo = fol[r].todo /\ g.cur = fol[r].cur /\ g.job = fol[r].job
        /\ g.saved = fol[r].saved /\ g.stored = fol[r].stored
    BY <1>2 DEF Follower
  <2> HIDE DEF g
  <2>2. Steady(fol[r], obj[r]) BY DEF StoreInv, SteadyInv
  <2>3. Steady(g, obj[r]) BY <1>1, <2>1, <2>2 DEF Steady, InHand
  <2>4. fol[r].todo = {} BY <1>1, <2>2 DEF Steady, InHand
  <2>5. \A c \in Convs : Keeps(fol[r], obj[r][c], c, frames[c]) => Keeps(g, obj[r][c], c, frames[c])
    BY <2>1, <2>4, KeepsLess DEF InHand
  <2>6. \A c \in Convs : c \in g.saved \cup g.todo \/ (g.cur = c /\ g.pc \notin {"clear", "clearRow"}) => Holds(r, c)
    BY <1>1, <2>1 DEF Holds, Clearing
  <2> QED BY <1>1, <1>3, <2>3, <2>5, <2>6, MovesStore
<1>4. CASE Put(r, refused)
  <2>1. refused.pc \in {"off", "tell"} /\ refused.saved = {} /\ refused.todo = {} /\ refused.cur = NoConv
        /\ refused.job = "none"
    BY OffNothing
  <2> QED BY <1>1, <1>4, <2>1, EndsStore
<1>5. CASE Put(r, Off) BY <1>1, <1>5, OffNothing, EndsStore
<1> QED BY <1>3, <1>4, <1>5 DEF Claim

LEMMA ToldGrows ==
    ASSUME NEW q \in Replicas, hints[q] \in Seq(Hint), NEW h \in Hint,
           hints'[q] = hints[q] \/ hints'[q] = Append(hints[q], h)
    PROVE  \A c \in Convs : Told(q, c) => Told(q, c)'
<1>1. CASE hints'[q] = hints[q] BY <1>1 DEF Told
<1>2. CASE hints'[q] = Append(hints[q], h)
  <2>1. \A i \in DOMAIN hints[q] : i \in DOMAIN hints'[q] /\ hints'[q][i] = hints[q][i] BY <1>2
  <2> QED BY <2>1 DEF Told
<1> QED BY <1>1, <1>2

LEMMA PublishTells ==
    ASSUME IInv, NEW kind \in {"saved", "deleted"}, NEW c \in Convs, NEW next, Publish(kind, c, next),
           fol' \in [Replicas -> Follower], next \in [Replicas -> Follower], NEW q \in Replicas
    PROVE  /\ fol'[q] = next[q] \/ fol'[q] = [next[q] EXCEPT !.resync = TRUE]
           /\ \A d \in Convs : Told(q, d) => Told(q, d)'
<1>1. hints \in [Replicas -> Seq(Hint)] BY DEF IInv, QueuesOK
<1>2. fol'[q] = next[q] \/ fol'[q] = [next[q] EXCEPT !.resync = TRUE] BY DEF Publish
<1>3. [kind |-> kind, c |-> c] \in Hint BY DEF Hint
<1>4. hints'[q] = hints[q] \/ hints'[q] = Append(hints[q], [kind |-> kind, c |-> c]) BY DEF Publish
<1> QED BY <1>1, <1>2, <1>3, <1>4, ToldGrows

LEMMA ResyncAlike ==
    ASSUME NEW f \in Follower
    PROVE  Alike(f, [f EXCEPT !.resync = TRUE]) /\ Alike(f, f)
BY DEF Alike, Follower

LEMMA TellStores ==
    ASSUME StoreInv, IInv', NEW r \in Replicas, Tell(r)
    PROVE  SteadyInv' /\ HonestInv' /\ UnsavedInv'
<1> DEFINE next == [fol EXCEPT ![r] = Off]
<1>1. /\ Calm /\ UNCHANGED <<copy, obj, ledger>> /\ fol[r].pc = "tell"
      /\ Publish("saved", fol[r].ask, next)
  BY DEF Tell
<1>2. fol \in [Replicas -> Follower] /\ fol[r].ask \in Convs /\ fol' \in [Replicas -> Follower]
  BY <1>1 DEF StoreInv, IInv, FolOK, Well
<1>3. next \in [Replicas -> Follower] BY <1>2, OffWell
<1>4. next[r] = Off /\ \A q \in Replicas \ {r} : next[q] = fol[q] BY <1>2
<1> HIDE DEF next
<1>5. ASSUME NEW q \in Replicas
      PROVE  /\ fol'[q] = next[q] \/ fol'[q] = [next[q] EXCEPT !.resync = TRUE]
             /\ \A d \in Convs : Told(q, d) => Told(q, d)'
  BY <1>1, <1>2, <1>3, PublishTells DEF StoreInv
<1>6. frames' = frames /\ row' = row /\ obj' = obj /\ crossed' = crossed BY <1>1 DEF copy, ledger
<1>7. Others(r)
  <2>1. ASSUME NEW q \in Replicas \ {r} PROVE Alike(fol[q], fol'[q])
    <3>1. fol'[q] = fol[q] \/ fol'[q] = [fol[q] EXCEPT !.resync = TRUE] BY <1>4, <1>5
    <3> QED BY <1>2, <3>1, ResyncAlike
  <2> QED BY <1>5, <1>6, <2>1 DEF Others
<1>8. /\ fol'[r].pc = "off" /\ fol'[r].saved = {} /\ fol'[r].todo = {} /\ fol'[r].cur = NoConv
      /\ fol'[r].job = "none"
  <2>1. fol'[r] = Off \/ fol'[r] = [Off EXCEPT !.resync = TRUE] BY <1>4, <1>5
  <2> QED BY <2>1 DEF Off
<1>9. Steady(fol'[r], obj'[r]) BY <1>8 DEF Steady, InHand
<1>10. ASSUME NEW c \in Convs \ crossed' PROVE Mild(r, c)
  <2>1. NoConv # c BY MirrorAssumption
  <2>2. Holds(r, c)' => Holds(r, c) BY <1>6, <1>8, <2>1 DEF Holds, Clearing
  <2>3. Told(r, c) => Told(r, c)' BY <1>5
  <2>4. Keeps(fol[r], obj[r][c], c, frames[c]) => Keeps(fol'[r], obj[r][c], c, frames[c])
    BY <1>8, <2>1, KeepsLess
  <2> QED BY <1>1, <1>6, <2>2, <2>3, <2>4 DEF Mild, Unheard, Promises
<1>11. Requested BY <1>1, <1>6 DEF Requested, Calm
<1> QED BY <1>7, <1>9, <1>10, <1>11, MildKeeps

LEMMA PrepareStores ==
    ASSUME StoreInv, NEW r \in Replicas, Prepare(r)
    PROVE  SteadyInv' /\ HonestInv' /\ UnsavedInv'
<1>1. Calm /\ UNCHANGED <<copy, obj, hints>> /\ crossed' = crossed
      /\ fol[r].pc \in {"subscribe", "conn", "dial"}
  BY DEF Prepare, ledger
<1>2. fol[r] \in Follower BY DEF StoreInv, IInv, FolOK
<1>3. Steady(fol[r], obj[r]) BY DEF StoreInv, SteadyInv
<1>4. fol[r].todo = {} /\ fol[r].job = "start" /\ fol[r].cur = NoConv BY <1>1, <1>3 DEF Steady, InHand
<1>5. PICK g : /\ Put(r, g) /\ g.cur = NoConv /\ g.job = "start" /\ g.saved = fol[r].saved
               /\ g.pc \in {"conn", "dial", "each", "list"} /\ g.todo \subseteq fol[r].saved
               /\ g.pc = "list" \/ g.todo = {}
  <2> DEFINE x == [fol[r] EXCEPT !.pc = "conn"]
             y == [fol[r] EXCEPT !.pc = "dial", !.conn = link.id]
             z == [fol[r] EXCEPT !.pc = IF fol[r].saved = {} THEN "each" ELSE "list",
                                 !.link = link.id, !.todo = fol[r].saved]
  <2>1. x.cur = NoConv /\ x.job = "start" /\ x.saved = fol[r].saved /\ x.pc = "conn" /\ x.todo = {}
    BY <1>2, <1>4 DEF Follower
  <2>2. y.cur = NoConv /\ y.job = "start" /\ y.saved = fol[r].saved /\ y.pc = "dial" /\ y.todo = {}
    BY <1>2, <1>4 DEF Follower
  <2>3. /\ z.cur = NoConv /\ z.job = "start" /\ z.saved = fol[r].saved /\ z.pc \in {"each", "list"}
        /\ z.todo = fol[r].saved /\ (z.pc = "list" \/ z.todo = {})
    BY <1>2, <1>4 DEF Follower
  <2>4. Put(r, x) \/ Put(r, y) \/ Put(r, z) BY DEF Prepare
  <2> HIDE DEF x, y, z
  <2> QED BY <2>1, <2>2, <2>3, <2>4
<1>6. NoConv \notin g.todo BY <1>2, <1>5, MirrorAssumption DEF Follower
<1>7. Steady(g, obj[r]) BY <1>5, <1>6 DEF Steady, InHand
<1>8. \A c \in Convs : c # NoConv BY MirrorAssumption
<1>9. \A c \in Convs : Keeps(fol[r], obj[r][c], c, frames[c]) => Keeps(g, obj[r][c], c, frames[c])
  BY <1>5, <1>8 DEF Keeps
<1>10. \A c \in Convs : c \in g.saved \cup g.todo \/ g.cur = c => Holds(r, c) BY <1>5, <1>8 DEF Holds
<1> QED BY <1>1, <1>5, <1>7, <1>9, <1>10, MovesStore

LEMMA PrepareFailsStores ==
    ASSUME StoreInv, NEW r \in Replicas, PrepareFails(r)
    PROVE  SteadyInv' /\ HonestInv' /\ UnsavedInv'
<1>1. Calm /\ UNCHANGED <<copy, obj, hints>> /\ crossed' = crossed
      /\ fol[r].pc \notin {"clear", "clearRow", "rewrite"} /\ Put(r, Ended(r, NoConv))
  BY DEF PrepareFails, ledger
<1> QED BY <1>1, OffNothing, EndsStore

LEMMA LeaveStores ==
    ASSUME StoreInv, NEW r \in Replicas, Leave(r)
    PROVE  SteadyInv' /\ HonestInv' /\ UnsavedInv'
<1>1. Calm /\ UNCHANGED <<copy, obj, hints>> /\ crossed' = crossed
      /\ fol[r].pc \notin {"clear", "clearRow", "rewrite"} /\ Put(r, Ended(r, NoConv))
  BY DEF Leave, ledger
<1> QED BY <1>1, OffNothing, EndsStore

LEMMA ListFailsStores ==
    ASSUME StoreInv, NEW r \in Replicas, ListFails(r)
    PROVE  SteadyInv' /\ HonestInv' /\ UnsavedInv'
<1> DEFINE g == [fol[r] EXCEPT !.pc = "each", !.todo = {}, !.bad = TRUE]
<1>1. Calm /\ UNCHANGED <<copy, obj, hints>> /\ crossed' = crossed /\ fol[r].pc = "list" /\ Put(r, g)
  BY DEF ListFails, ledger
<1>2. fol[r] \in Follower /\ Steady(fol[r], obj[r]) BY DEF StoreInv, IInv, FolOK, SteadyInv
<1>3. g.pc = "each" /\ g.todo = {} /\ g.cur = fol[r].cur /\ g.job = fol[r].job /\ g.saved = fol[r].saved
  BY <1>2 DEF Follower
<1> HIDE DEF g
<1>4. g.cur = NoConv /\ g.job # "apply" BY <1>1, <1>2, <1>3 DEF Steady, InHand
<1>5. Steady(g, obj[r]) BY <1>3, <1>4 DEF Steady, InHand
<1>6. \A c \in Convs : c # NoConv BY MirrorAssumption
<1>7. \A c \in Convs : Keeps(fol[r], obj[r][c], c, frames[c]) => Keeps(g, obj[r][c], c, frames[c])
  BY <1>3, <1>4, <1>6, KeepsLess
<1>8. \A c \in Convs : c \in g.saved \cup g.todo \/ g.cur = c => Holds(r, c) BY <1>3, <1>4, <1>6 DEF Holds
<1> QED BY <1>1, <1>5, <1>7, <1>8, MovesStore

LEMMA SettleStores ==
    ASSUME StoreInv, NEW r \in Replicas, Settle(r)
    PROVE  SteadyInv' /\ HonestInv' /\ UnsavedInv'
<1> DEFINE g == [Off EXCEPT !.pc = "idle", !.saved = fol[r].saved, !.conn = fol[r].conn,
                        !.link = fol[r].link, !.resync = fol[r].resync, !.closed = fol[r].closed]
<1>1. Calm /\ UNCHANGED <<copy, obj, hints>> /\ crossed' = crossed /\ fol[r].pc = "each"
  BY DEF Settle, ledger
<1>2. CASE Put(r, Ended(r, NoConv)) BY <1>1, <1>2, OffNothing, EndsStore
<1>3. CASE Put(r, Ended(r, fol[r].ask)) BY <1>1, <1>3, OffNothing, EndsStore
<1>4. CASE Put(r, g)
  <2>1. g.pc = "idle" /\ g.todo = {} /\ g.cur = NoConv /\ g.job = "none" /\ g.saved = fol[r].saved
    BY DEF Off
  <2> HIDE DEF g
  <2>2. Steady(g, obj[r]) BY <2>1 DEF Steady, InHand
  <2>3. \A c \in Convs : c # NoConv BY MirrorAssumption
  <2>4. \A c \in Convs : Keeps(fol[r], obj[r][c], c, frames[c]) => Keeps(g, obj[r][c], c, frames[c])
    BY <2>1, <2>3, KeepsLess
  <2>5. \A c \in Convs : c \in g.saved \cup g.todo \/ g.cur = c => Holds(r, c) BY <2>1, <2>3 DEF Holds
  <2> QED BY <1>1, <1>4, <2>2, <2>4, <2>5, MovesStore
<1> QED BY <1>2, <1>3, <1>4 DEF Settle

LEMMA TakeResyncStores ==
    ASSUME StoreInv, NEW r \in Replicas, TakeResync(r)
    PROVE  SteadyInv' /\ HonestInv' /\ UnsavedInv'
<1>1. Calm /\ UNCHANGED <<copy, obj, hints>> /\ crossed' = crossed /\ fol[r].pc = "idle"
  BY DEF TakeResync, ledger
<1>2. fol[r] \in Follower /\ Steady(fol[r], obj[r]) BY DEF StoreInv, IInv, FolOK, SteadyInv
<1>3. fol[r].cur = NoConv /\ fol[r].job # "apply" /\ fol[r].todo = {} BY <1>1, <1>2 DEF Steady, InHand
<1>4. PICK g : /\ Put(r, g) /\ g.cur = NoConv /\ g.saved = fol[r].saved /\ g.job # "apply"
               /\ \/ g.pc = "idle" /\ g.todo = {}
                  \/ g.pc = "list" /\ g.job = "sync" /\ g.todo = fol[r].saved
  <2> DEFINE x == [fol[r] EXCEPT !.resync = FALSE]
             y == [fol[r] EXCEPT !.resync = FALSE, !.pc = "list", !.job = "sync", !.todo = fol[r].saved]
  <2>1. x.cur = NoConv /\ x.saved = fol[r].saved /\ x.job # "apply" /\ x.pc = "idle" /\ x.todo = {}
    BY <1>1, <1>2, <1>3 DEF Follower
  <2>2. y.cur = NoConv /\ y.saved = fol[r].saved /\ y.job = "sync" /\ y.pc = "list" /\ y.todo = fol[r].saved
    BY <1>2, <1>3 DEF Follower
  <2>3. Put(r, x) \/ Put(r, y) BY DEF TakeResync
  <2> HIDE DEF x, y
  <2> QED BY <2>1, <2>2, <2>3
<1>5. \A c \in Convs : c # NoConv BY MirrorAssumption
<1>6. NoConv \notin g.todo BY <1>2, <1>4, MirrorAssumption DEF Follower
<1>7. Steady(g, obj[r]) BY <1>4, <1>6 DEF Steady, InHand
<1>8. \A c \in Convs : Keeps(fol[r], obj[r][c], c, frames[c]) => Keeps(g, obj[r][c], c, frames[c])
  BY <1>4, <1>5 DEF Keeps
<1>9. \A c \in Convs : c \in g.saved \cup g.todo \/ g.cur = c => Holds(r, c) BY <1>4, <1>5 DEF Holds
<1> QED BY <1>1, <1>4, <1>7, <1>8, <1>9, MovesStore

LEMMA ReviveStores ==
    ASSUME StoreInv, NEW r \in Replicas, Revive(r)
    PROVE  SteadyInv' /\ HonestInv' /\ UnsavedInv'
<1> DEFINE stale == {c \in Convs : obj[r][c].known /\ ~obj[r][c].attached}
           g == [fol[r] EXCEPT !.pc = "list", !.job = "revive", !.todo = stale]
<1>1. Calm /\ UNCHANGED <<copy, obj, hints>> /\ crossed' = crossed /\ fol[r].pc = "idle" /\ Put(r, g)
  BY DEF Revive, ledger
<1>2. fol[r] \in Follower /\ Steady(fol[r], obj[r]) BY DEF StoreInv, IInv, FolOK, SteadyInv
<1>3. stale \subseteq Convs /\ \A c \in stale : obj[r][c].known OBVIOUS
<1> HIDE DEF stale
<1>4. g.pc = "list" /\ g.job = "revive" /\ g.todo = stale /\ g.cur = fol[r].cur /\ g.saved = fol[r].saved
  BY <1>2 DEF Follower
<1> HIDE DEF g
<1>5. g.cur = NoConv BY <1>1, <1>2, <1>4 DEF Steady, InHand
<1>6. \A c \in Convs : c # NoConv BY MirrorAssumption
<1>7. Steady(g, obj[r]) BY <1>3, <1>4, <1>5, MirrorAssumption DEF Steady, InHand
<1>8. \A c \in Convs : Keeps(fol[r], obj[r][c], c, frames[c]) => Keeps(g, obj[r][c], c, frames[c])
  BY <1>3, <1>4, <1>5, <1>6 DEF Keeps
<1>9. \A c \in Convs : c \in g.saved \cup g.todo \/ g.cur = c => Holds(r, c)
  BY <1>3, <1>4, <1>5, <1>6 DEF Holds
<1> QED BY <1>1, <1>7, <1>8, <1>9, MovesStore

LEMMA PullStores ==
    ASSUME StoreInv, NEW r \in Replicas, Pull(r)
    PROVE  SteadyInv' /\ HonestInv' /\ UnsavedInv'
<1>1. Calm /\ UNCHANGED <<copy, obj, hints>> /\ crossed' = crossed /\ fol[r].pc = "pull"
  BY DEF Pull, ledger
<1>2. fol[r] \in Follower /\ Steady(fol[r], obj[r]) BY DEF StoreInv, IInv, FolOK, SteadyInv
<1>3. PICK g : /\ Put(r, g) /\ g.cur = fol[r].cur /\ g.saved = fol[r].saved /\ g.job = fol[r].job
               /\ g.todo = fol[r].todo /\ g.stored = fol[r].stored /\ g.pc \in {"write", "save"}
  <2> DEFINE c == fol[r].cur
             from == obj[r][c].cursor
             last == IF from + PageSize < log[c] THEN from + PageSize ELSE log[c]
             x == [fol[r] EXCEPT !.pc = "write", !.page = last, !.more = last < log[c]]
             y == [fol[r] EXCEPT !.pc = "save"]
  <2>1. Put(r, x) \/ Put(r, y) BY DEF Pull
  <2>2. /\ x.cur = fol[r].cur /\ x.saved = fol[r].saved /\ x.job = fol[r].job
        /\ x.todo = fol[r].todo /\ x.stored = fol[r].stored /\ x.pc = "write"
    BY <1>2 DEF Follower
  <2>3. /\ y.cur = fol[r].cur /\ y.saved = fol[r].saved /\ y.job = fol[r].job
        /\ y.todo = fol[r].todo /\ y.stored = fol[r].stored /\ y.pc = "save"
    BY <1>2 DEF Follower
  <2> HIDE DEF x, y
  <2> QED BY <2>1, <2>2, <2>3
<1>4. Steady(g, obj[r]) BY <1>1, <1>2, <1>3 DEF Steady, InHand
<1>5. \A c \in Convs : Keeps(fol[r], obj[r][c], c, frames[c]) => Keeps(g, obj[r][c], c, frames[c])
  BY <1>1, <1>3 DEF Keeps, InHand
<1>6. \A c \in Convs : c \in g.saved \cup g.todo \/ g.cur = c => Holds(r, c)
  BY <1>1, <1>3 DEF Holds, Clearing
<1> QED BY <1>1, <1>3, <1>4, <1>5, <1>6, MovesStore

LEMMA ListStores ==
    ASSUME StoreInv, NEW r \in Replicas, List(r)
    PROVE  SteadyInv' /\ HonestInv' /\ UnsavedInv'
<1> DEFINE listed == fol[r].todo \ gone
           left1 == IF fol[r].job = "revive" THEN listed \ asleep ELSE listed
           stored1 == [c \in Convs |-> IF row[c] = NoRow THEN 0 ELSE row[c]]
           g == [fol[r] EXCEPT !.pc = "each", !.naps = asleep, !.high = log, !.todo = left1, !.stored = stored1]
<1>1. /\ Calm /\ UNCHANGED <<copy, hints>> /\ crossed' = crossed /\ fol[r].pc = "list" /\ Put(r, g)
      /\ obj' = [obj EXCEPT ![r] = [c \in Convs |-> IF fol[r].job = "revive" \/ c \in fol[r].todo
                                                      THEN obj[r][c] ELSE Forgotten(obj[r][c])]]
  BY DEF List, ledger
<1>2. fol[r] \in Follower /\ Steady(fol[r], obj[r]) /\ obj \in [Replicas -> [Convs -> Tracked]]
  BY DEF StoreInv, IInv, FolOK, ObjOK, SteadyInv
<1>3. left1 \subseteq fol[r].todo OBVIOUS
<1>4. \A c \in Convs : stored1[c] = IF row[c] = NoRow THEN 0 ELSE row[c] OBVIOUS
<1> HIDE DEF left1, stored1
<1>5. /\ g.pc = "each" /\ g.cur = fol[r].cur /\ g.job = fol[r].job /\ g.saved = fol[r].saved
      /\ g.todo = left1 /\ g.stored = stored1
  BY <1>2 DEF Follower
<1> HIDE DEF g
<1>6. g.cur = NoConv /\ g.job # "apply" /\ NoConv \notin g.todo
  BY <1>1, <1>2, <1>3, <1>5, MirrorAssumption DEF Steady, InHand, Follower
<1>7. \A q \in Replicas \ {r} : obj'[q] = obj[q] /\ hints'[q] = hints[q] BY <1>1, <1>2
<1>8. Others(r) /\ fol'[r] = g BY <1>1, <1>7, PutOthers DEF StoreInv
<1>9. ASSUME NEW c \in Convs
      PROVE  /\ obj'[r][c].cursor = obj[r][c].cursor /\ obj'[r][c].tail = obj[r][c].tail
             /\ obj'[r][c].known => obj[r][c].known
             /\ obj'[r][c].dirty => obj[r][c].dirty
  <2>1. obj'[r][c] = obj[r][c] \/ obj'[r][c] = Forgotten(obj[r][c]) BY <1>1, <1>2
  <2>2. obj[r][c] \in Tracked BY <1>2
  <2> QED BY <2>1, <2>2 DEF Forgotten, Tracked
<1>10. Steady(g, obj'[r]) BY <1>5, <1>6 DEF Steady, InHand
<1>11. frames' = frames /\ row' = row /\ hints' = hints BY <1>1 DEF copy
<1>12. ASSUME NEW c \in Convs \ crossed' PROVE Mild(r, c)
  <2>1. c # NoConv BY MirrorAssumption
  <2>2. Holds(r, c)' => Holds(r, c)
    BY <1>3, <1>5, <1>6, <1>8, <1>9, <2>1 DEF Holds, Clearing
  <2>3. Told(r, c) => Told(r, c)' BY <1>11 DEF Told
  <2>4. ASSUME Promises(c) PROVE Keeps(g, obj'[r][c], c, frames[c])
    <3>1. Keeps(fol[r], obj[r][c], c, frames[c]) /\ 1 .. row[c] \subseteq frames[c] BY <2>4 DEF Promises
    <3>2. 1 .. stored1[c] \subseteq frames[c] BY <1>4, <3>1
    <3>3. c \in g.todo /\ g.job = "revive" => 1 .. obj[r][c].cursor \subseteq frames[c]
      BY <1>3, <1>5, <3>1 DEF Keeps
    <3> QED BY <1>5, <1>6, <1>9, <2>1, <3>1, <3>2, <3>3 DEF Keeps
  <2> QED BY <1>1, <1>8, <1>11, <2>2, <2>3, <2>4 DEF Mild, Unheard
<1>13. Requested BY <1>1 DEF Requested, Calm
<1> QED BY <1>8, <1>10, <1>12, <1>13, MildKeeps

\* Where an object's cursor starts from stands on frames.
LEMMA BegunKeeps ==
    ASSUME NEW r \in Replicas, NEW c \in Convs, obj[r][c] \in Tracked, NEW S,
           Keeps(fol[r], obj[r][c], c, S), c \in fol[r].todo, fol[r].pc = "each"
    PROVE  1 .. Begun(r, c).cursor \subseteq S /\ Begun(r, c).tail = obj[r][c].tail
<1> DEFINE o == IF obj[r][c].known THEN obj[r][c] ELSE [Untracked EXCEPT !.tail = obj[r][c].tail]
           s == fol[r].stored[c]
           b == [o EXCEPT !.known = TRUE, !.cursor = IF s > o.cursor THEN s ELSE o.cursor]
<1>1. CASE fol[r].job = "revive" BY <1>1 DEF Begun, Keeps
<1>2. CASE fol[r].job # "revive"
  <2> DEFINE u == [Untracked EXCEPT !.tail = obj[r][c].tail]
  <2>0. u.tail = obj[r][c].tail /\ u.cursor = 0 /\ u \in Tracked
    <3>1. Untracked \in Tracked /\ Untracked.cursor = 0 BY MirrorAssumption DEF Untracked, Tracked
    <3> QED BY <3>1 DEF Tracked
  <2>1. o \in Tracked /\ o.tail = obj[r][c].tail
        /\ (o.cursor = 0 \/ (obj[r][c].known /\ o.cursor = obj[r][c].cursor))
    <3> HIDE DEF u
    <3>1. o = IF obj[r][c].known THEN obj[r][c] ELSE u BY DEF u
    <3> HIDE DEF o
    <3> QED BY <2>0, <3>1
  <2>2. 1 .. s \subseteq S BY <1>2 DEF Keeps
  <2>3. 1 .. o.cursor \subseteq S BY <2>1 DEF Keeps
  <2> HIDE DEF o, s
  <2>4. b.tail = o.tail /\ (b.cursor = s \/ b.cursor = o.cursor) BY <2>1 DEF Tracked
  <2>5. Begun(r, c) = b BY <1>2 DEF Begun, o, s
  <2> HIDE DEF b
  <2> QED BY <2>1, <2>2, <2>3, <2>4, <2>5
<1> QED BY <1>1, <1>2

LEMMA CatchUpStores ==
    ASSUME StoreInv, NEW r \in Replicas, NEW c \in Convs, CatchUp(r, c)
    PROVE  SteadyInv' /\ HonestInv' /\ UnsavedInv'
<1> DEFINE o == Begun(r, c)
<1>1. /\ Calm /\ UNCHANGED <<copy, hints>> /\ crossed' = crossed
      /\ fol[r].pc = "each" /\ c \in fol[r].todo
  BY DEF CatchUp, ledger
<1>2. fol[r] \in Follower /\ Steady(fol[r], obj[r]) /\ obj \in [Replicas -> [Convs -> Tracked]]
      /\ log \in [Convs -> 0 .. MaxLog]
  BY DEF StoreInv, IInv, FolOK, ObjOK, SteadyInv, MachineOK
<1>3. o \in Tracked BY BegunTracked DEF StoreInv
<1>4. PICK high, att :
         /\ PutObj(r, c, [o EXCEPT !.attached = att, !.cursor = IF o.cursor > high THEN 0 ELSE o.cursor])
         /\ Put(r, [fol[r] EXCEPT !.pc = IF o.cursor > high THEN "wipe" ELSE "pull",
                                  !.cur = c, !.todo = fol[r].todo \ {c}])
  BY DEF CatchUp
<1> DEFINE x == [o EXCEPT !.attached = att, !.cursor = IF o.cursor > high THEN 0 ELSE o.cursor]
           g == [fol[r] EXCEPT !.pc = IF o.cursor > high THEN "wipe" ELSE "pull",
                               !.cur = c, !.todo = fol[r].todo \ {c}]
<1>5. /\ x.tail = o.tail /\ (x.cursor = 0 \/ x.cursor = o.cursor)
      /\ g.pc = "wipe" => x.cursor = 0
  <2> HIDE DEF o
  <2> QED BY <1>2, <1>3 DEF Tracked, Follower
<1>6. /\ g.pc \in {"wipe", "pull"} /\ g.cur = c /\ g.job = fol[r].job /\ g.saved = fol[r].saved
      /\ g.todo = fol[r].todo \ {c} /\ g.stored = fol[r].stored
  BY <1>2 DEF Follower
<1>7. PutObj(r, c, x) /\ Put(r, g) BY <1>4
<1> HIDE DEF o, x, g
<1>8. /\ \A q \in Replicas \ {r} : obj'[q] = obj[q]
      /\ obj'[r][c] = x /\ \A d \in Convs \ {c} : obj'[r][d] = obj[r][d]
  BY <1>7, PutObjHere DEF StoreInv
<1>9. frames' = frames /\ row' = row /\ hints' = hints BY <1>1 DEF copy
<1>10. Others(r) /\ fol'[r] = g BY <1>7, <1>8, <1>9, PutOthers DEF StoreInv
<1>11. Steady(g, obj'[r]) BY <1>1, <1>2, <1>5, <1>6, <1>8 DEF Steady, InHand
<1>12. ASSUME NEW d \in Convs \ crossed' PROVE Mild(r, d)
  <2>1. d # NoConv BY MirrorAssumption
  <2>2. Holds(r, d)' => Holds(r, d)
    <3>1. CASE d = c BY <1>1, <3>1 DEF Holds
    <3>2. CASE d # c BY <1>6, <1>8, <1>10, <3>2 DEF Holds, Clearing
    <3> QED BY <3>1, <3>2
  <2>3. Told(r, d) => Told(r, d)' BY <1>9 DEF Told
  <2>4. ASSUME Promises(d) PROVE Keeps(g, obj'[r][d], d, frames[d])
    <3>1. Keeps(fol[r], obj[r][d], d, frames[d]) BY <2>4 DEF Promises
    <3>2. CASE d = c
      <4>1. 1 .. o.cursor \subseteq frames[d] /\ o.tail = obj[r][d].tail
        <5>1. obj[r][c] \in Tracked /\ Keeps(fol[r], obj[r][c], c, frames[c]) BY <1>2, <3>1, <3>2
        <5>2. 1 .. Begun(r, c).cursor \subseteq frames[c] /\ Begun(r, c).tail = obj[r][c].tail
          BY ONLY <1>1, <5>1, r \in Replicas, c \in Convs, BegunKeeps
        <5> QED BY <3>2, <5>2 DEF o
      <4>2. 1 .. x.cursor \subseteq frames[d] BY <1>5, <4>1
      <4>3. x.tail # NoRow => 1 .. x.tail \subseteq frames[d] BY <1>5, <3>1, <4>1 DEF Keeps
      <4> QED BY <1>6, <1>8, <3>2, <4>2, <4>3 DEF Keeps
    <3>3. CASE d # c BY <1>1, <1>6, <1>8, <3>1, <3>3 DEF Keeps
    <3> QED BY <3>2, <3>3
  <2> QED BY <1>1, <1>9, <1>10, <2>2, <2>3, <2>4 DEF Mild, Unheard
<1>13. Requested BY <1>1 DEF Requested, Calm
<1> QED BY <1>10, <1>11, <1>12, <1>13, MildKeeps

\* A frame of the page in hand, or a frame heard, is written and the cursor follows it.
LEMMA WritesStore ==
    ASSUME StoreInv, NEW r \in Replicas, NEW g, NEW o, NEW page \in Nat, NEW from \in Nat,
           Put(r, g), PutObj(r, fol[r].cur, o), Calm, row' = row, hints' = hints, crossed' = crossed,
           fol[r].cur \in Convs, fol[r].pc \in {"write", "frame"}, from = obj[r][fol[r].cur].cursor,
           frames' = [frames EXCEPT ![fol[r].cur] = frames[fol[r].cur] \cup from + 1 .. page],
           o.cursor = page, o.tail = obj[r][fol[r].cur].tail,
           g.saved = fol[r].saved, g.todo = fol[r].todo, g.job = "none" \/ g.job = fol[r].job,
           g.stored = fol[r].stored, fol[r].pc = "write" => g.job = fol[r].job /\ g.cur = fol[r].cur,
           g.pc = "touch" => g.job = "apply",
           \/ g.pc \in {"pull", "save", "touch"} /\ g.cur = fol[r].cur
           \/ g.pc = "idle" /\ g.cur = NoConv /\ g.job = "none" /\ fol[r].pc = "frame"
    PROVE  SteadyInv' /\ HonestInv' /\ UnsavedInv'
<1> DEFINE c == fol[r].cur
<1>1. fol[r] \in Follower /\ Steady(fol[r], obj[r]) /\ obj \in [Replicas -> [Convs -> Tracked]]
      /\ frames \in [Convs -> SUBSET Seqs]
  BY DEF StoreInv, IInv, FolOK, ObjOK, SteadyInv, CopyOK
<1>2. /\ \A q \in Replicas \ {r} : obj'[q] = obj[q]
      /\ obj'[r][c] = o /\ \A d \in Convs \ {c} : obj'[r][d] = obj[r][d]
  BY PutObjHere DEF StoreInv
<1>3. Others(r) /\ fol'[r] = g BY <1>2, PutOthers DEF StoreInv
<1>4. frames'[c] = frames[c] \cup from + 1 .. page /\ \A d \in Convs \ {c} : frames'[d] = frames[d]
  BY <1>1
<1>5. Steady(g, obj'[r]) BY <1>1, MirrorAssumption DEF Steady, InHand, Follower
<1>6. c \notin fol[r].todo BY <1>1 DEF Steady
<1>7. ASSUME NEW d \in Convs \ crossed' PROVE Mild(r, d)
  <2>1. d # NoConv BY MirrorAssumption
  <2>2. Holds(r, c) BY DEF Holds, Clearing
  <2>3. Holds(r, d)' => Holds(r, d)
    <3>1. CASE d = c BY <2>2, <3>1
    <3>2. CASE d # c BY <1>2, <1>3, <2>1, <3>2 DEF Holds, Clearing
    <3> QED BY <3>1, <3>2
  <2>4. Told(r, d) => Told(r, d)' BY DEF Told
  <2>5. ASSUME Promises(d) PROVE Keeps(g, obj'[r][d], d, frames'[d])
    <3>1. Keeps(fol[r], obj[r][d], d, frames[d]) BY <2>5 DEF Promises
    <3>2. CASE d = c
      <4>1. 1 .. from \subseteq frames[d] BY <3>1, <3>2 DEF Keeps, InHand
      <4>2. 1 .. page \subseteq 1 .. from \cup from + 1 .. page OBVIOUS
      <4>3. 1 .. page \subseteq frames'[d] BY <1>4, <3>2, <4>1, <4>2
      <4>4. o.tail # NoRow => 1 .. o.tail \subseteq frames'[d] BY <1>4, <3>1, <3>2 DEF Keeps
      <4> QED BY <1>2, <1>6, <3>2, <4>3, <4>4 DEF Keeps
    <3>3. CASE d # c
      <4>1. obj'[r][d] = obj[r][d] /\ frames'[d] = frames[d] BY <1>2, <1>4, <3>3
      <4>2. g.cur # d BY <2>1, <3>3
      <4>3. d \in g.todo => g.job = fol[r].job /\ fol[r].pc # "list"
        BY <1>1 DEF Steady, InHand
      <4> QED BY <3>1, <4>1, <4>2, <4>3 DEF Keeps
    <3> QED BY <3>2, <3>3
  <2>6. frames'[d] = frames[d] \/ (frames[d] \subseteq frames'[d] /\ Holds(r, d)) BY <1>4, <2>2
  <2> QED BY <1>3, <2>3, <2>4, <2>5, <2>6 DEF Mild, Unheard
<1>8. Requested BY DEF Requested, Calm
<1> QED BY <1>3, <1>5, <1>7, <1>8, MildKeeps

LEMMA WritePageStores ==
    ASSUME StoreInv, NEW r \in Replicas, WritePage(r)
    PROVE  SteadyInv' /\ HonestInv' /\ UnsavedInv'
<1> DEFINE c == fol[r].cur
           o == [obj[r][c] EXCEPT !.cursor = fol[r].page]
           g == [fol[r] EXCEPT !.page = 0, !.more = FALSE, !.pc = IF fol[r].more THEN "pull" ELSE "save"]
<1>1. /\ Put(r, g) /\ PutObj(r, c, o) /\ Calm /\ row' = row /\ hints' = hints /\ crossed' = crossed
      /\ fol[r].pc = "write" /\ frames' = Written(r)
  BY DEF WritePage, ledger
<1>2. fol[r] \in Follower /\ c \in Convs
  BY <1>1 DEF StoreInv, IInv, FolOK, Well
<1>3. obj[r][c] \in Tracked BY <1>2 DEF StoreInv, IInv, ObjOK
<1>4. frames' = [frames EXCEPT ![c] = frames[c] \cup obj[r][c].cursor + 1 .. fol[r].page]
  BY <1>1 DEF Written
<1>5. o.cursor = fol[r].page /\ o.tail = obj[r][c].tail /\ fol[r].page \in Nat /\ obj[r][c].cursor \in Nat
  BY <1>2, <1>3, MirrorAssumption DEF Tracked, Follower
<1>6. /\ g.pc \in {"pull", "save"} /\ g.saved = fol[r].saved /\ g.todo = fol[r].todo /\ g.job = fol[r].job
      /\ g.stored = fol[r].stored /\ g.cur = fol[r].cur
  BY <1>2 DEF Follower
<1> HIDE DEF g, o
<1> QED BY <1>1, <1>2, <1>4, <1>5, <1>6, WritesStore

LEMMA WriteFrameStores ==
    ASSUME StoreInv, NEW r \in Replicas, WriteFrame(r)
    PROVE  SteadyInv' /\ HonestInv' /\ UnsavedInv'
<1> DEFINE c == fol[r].cur
           first == obj[r][c].known /\ ~obj[r][c].open
           p == [obj[r][c] EXCEPT !.cursor = fol[r].page, !.open = obj[r][c].open \/ first,
                                  !.dirty = obj[r][c].dirty \/ (obj[r][c].known /\ obj[r][c].open)]
           touch == [fol[r] EXCEPT !.pc = "touch", !.page = 0]
           idle == [fol[r] EXCEPT !.pc = "idle", !.job = "none", !.cur = NoConv, !.page = 0]
<1>1. /\ PutObj(r, c, p) /\ Calm /\ row' = row /\ hints' = hints /\ crossed' = crossed
      /\ fol[r].pc = "frame" /\ frames' = Written(r) /\ (Put(r, touch) \/ Put(r, idle))
  BY DEF WriteFrame, ledger
<1>2. fol[r] \in Follower /\ c \in Convs
  BY <1>1 DEF StoreInv, IInv, FolOK, Well
<1>3. obj[r][c] \in Tracked /\ Steady(fol[r], obj[r]) BY <1>2 DEF StoreInv, IInv, ObjOK, SteadyInv
<1>4. p.cursor = fol[r].page /\ p.tail = obj[r][c].tail /\ fol[r].page \in Nat /\ obj[r][c].cursor \in Nat
  BY <1>2, <1>3, MirrorAssumption DEF Tracked, Follower
<1>5. fol[r].page = obj[r][c].cursor + 1 /\ fol[r].job = "apply" BY <1>1, <1>3 DEF Steady
<1>6. {fol[r].page} = obj[r][c].cursor + 1 .. fol[r].page BY <1>4, <1>5
<1>7. frames' = [frames EXCEPT ![c] = frames[c] \cup obj[r][c].cursor + 1 .. fol[r].page]
  BY <1>1, <1>6 DEF Written
<1>8. /\ touch.pc = "touch" /\ touch.saved = fol[r].saved /\ touch.todo = fol[r].todo
      /\ touch.job = fol[r].job /\ touch.stored = fol[r].stored /\ touch.cur = fol[r].cur
  BY <1>2 DEF Follower
<1>9. /\ idle.pc = "idle" /\ idle.saved = fol[r].saved /\ idle.todo = fol[r].todo
      /\ idle.job = "none" /\ idle.stored = fol[r].stored /\ idle.cur = NoConv
  BY <1>2 DEF Follower
<1> HIDE DEF touch, idle, p
<1>10. CASE Put(r, touch) BY <1>1, <1>2, <1>4, <1>5, <1>7, <1>8, <1>10, WritesStore
<1>11. CASE Put(r, idle) BY <1>1, <1>2, <1>4, <1>5, <1>7, <1>9, <1>11, WritesStore
<1> QED BY <1>1, <1>10, <1>11

\* A follower done with a conversation has none in hand.
LEMMA ResumedPlace ==
    ASSUME NEW f \in Follower, NEW b \in BOOLEAN, NEW o, Steady(f, o), f.pc \in InHand
    PROVE  LET g == Resumed(f, b) IN
           /\ g.pc \in {"idle", "each"} /\ g.cur = NoConv /\ g.saved = f.saved /\ g.todo = f.todo
           /\ g.stored = f.stored /\ g.job # "apply" /\ (g.todo # {} => g.job = f.job)
           /\ Steady(g, o)
<1> DEFINE g == Resumed(f, b)
<1>1. CASE f.job = "apply"
  <2>1. f.todo = {} BY <1>1 DEF Steady, InHand
  <2>2. g.pc = "idle" /\ g.cur = NoConv /\ g.saved = f.saved /\ g.todo = f.todo /\ g.stored = f.stored
        /\ g.job = "none"
    BY <1>1 DEF Resumed, Follower
  <2> HIDE DEF g
  <2>3. Steady(g, o) BY <2>1, <2>2 DEF Steady, InHand
  <2> QED BY <2>1, <2>2, <2>3 DEF g
<1>2. CASE f.job # "apply"
  <2>1. g.pc = "each" /\ g.cur = NoConv /\ g.saved = f.saved /\ g.todo = f.todo /\ g.stored = f.stored
        /\ g.job = f.job
    BY <1>2 DEF Resumed, Follower
  <2> HIDE DEF g
  <2>2. NoConv \notin g.todo BY <2>1, MirrorAssumption DEF Follower
  <2>3. Steady(g, o) BY <1>2, <2>1, <2>2 DEF Steady, InHand
  <2> QED BY <1>2, <2>1, <2>3 DEF g
<1> QED BY <1>1, <1>2

\* The follower leaves the conversation in hand, its statement carried out or not.
LEMMA LeavesStore ==
    ASSUME StoreInv, NEW r \in Replicas, NEW b \in BOOLEAN, Put(r, Resumed(fol[r], b)), Calm,
           obj' = obj, hints' = hints, crossed \subseteq crossed', fol[r].pc \in InHand,
           fol[r].cur \in Convs, fol[r].pc = "rewrite" => fol[r].cur \in crossed',
           \A c \in Convs \ crossed' :
              /\ frames'[c] = frames[c] \/ (frames[c] \subseteq frames'[c] /\ c = fol[r].cur)
              /\ row'[c] = row[c] \/ (c = fol[r].cur /\ row'[c] = obj[r][c].cursor)
    PROVE  SteadyInv' /\ HonestInv' /\ UnsavedInv'
<1> DEFINE g == Resumed(fol[r], b)
<1>1. fol[r] \in Follower /\ Steady(fol[r], obj[r]) BY DEF StoreInv, IInv, FolOK, SteadyInv
<1>2. /\ g.pc \in {"idle", "each"} /\ g.cur = NoConv /\ g.saved = fol[r].saved /\ g.todo = fol[r].todo
      /\ g.stored = fol[r].stored /\ g.job # "apply" /\ (g.todo # {} => g.job = fol[r].job)
      /\ Steady(g, obj[r])
  BY <1>1, ResumedPlace
<1>3. Others(r) /\ fol'[r] = g BY PutOthers DEF StoreInv
<1> HIDE DEF g
<1>4. ASSUME NEW c \in Convs \ crossed' PROVE Mild(r, c)
  <2>1. c # NoConv BY MirrorAssumption
  <2>2. c = fol[r].cur => Holds(r, c) BY DEF Holds, Clearing, InHand
  <2>3. Holds(r, c)' => Holds(r, c) BY <1>2, <1>3, <2>1 DEF Holds, Clearing
  <2>4. Told(r, c) => Told(r, c)' BY DEF Told
  <2>5. frames[c] \subseteq frames'[c] OBVIOUS
  <2>6. ASSUME Promises(c) PROVE Keeps(g, obj[r][c], c, frames'[c])
    <3>1. Keeps(fol[r], obj[r][c], c, frames[c]) BY <2>6 DEF Promises
    <3>2. Keeps(fol[r], obj[r][c], c, frames'[c]) BY <2>5, <3>1, KeepsMore
    <3>3. c \in g.todo => g.job = fol[r].job /\ fol[r].pc # "list" BY <1>2 DEF InHand
    <3> QED BY <1>2, <2>1, <3>2, <3>3 DEF Keeps
  <2>7. ASSUME Promises(c), c = fol[r].cur PROVE 1 .. obj[r][c].cursor \subseteq frames'[c]
    <3>1. Keeps(fol[r], obj[r][c], c, frames[c]) BY <2>7 DEF Promises
    <3> QED BY <2>5, <2>7, <3>1 DEF Keeps
  <2>8. fol[r].cur = c => fol[r].pc \notin {"clear", "clearRow", "rewrite"} BY DEF InHand
  <2> QED BY <1>3, <2>2, <2>3, <2>4, <2>5, <2>6, <2>7, <2>8 DEF Mild, Unheard
<1>5. Requested BY DEF Requested, Calm
<1> QED BY <1>2, <1>3, <1>4, <1>5, MildKeeps

LEMMA SaveSummaryStores ==
    ASSUME StoreInv, NEW r \in Replicas, SaveSummary(r)
    PROVE  SteadyInv' /\ HonestInv' /\ UnsavedInv'
<1>1. /\ fol[r].pc \in {"save", "touch"} /\ row' = [row EXCEPT ![fol[r].cur] = obj[r][fol[r].cur].cursor]
      /\ Put(r, Resumed(fol[r], FALSE)) /\ Calm /\ frames' = frames /\ obj' = obj /\ hints' = hints
      /\ crossed' = crossed
  BY DEF SaveSummary, ledger
<1>2. fol[r].cur \in Convs /\ row \in [Convs -> 0 .. MaxLog \cup {NoRow}]
  BY <1>1 DEF StoreInv, IInv, FolOK, Well, CopyOK
<1>3. \A c \in Convs : row'[c] = row[c] \/ (c = fol[r].cur /\ row'[c] = obj[r][c].cursor) BY <1>1, <1>2
<1> QED BY <1>1, <1>2, <1>3, LeavesStore DEF InHand

LEMMA StepFailsStores ==
    ASSUME StoreInv, NEW r \in Replicas, StepFails(r)
    PROVE  SteadyInv' /\ HonestInv' /\ UnsavedInv'
<1> DEFINE c == fol[r].cur
<1>1. /\ Put(r, Resumed(fol[r], TRUE)) /\ Calm /\ obj' = obj /\ hints' = hints /\ fol[r].pc \in InHand
  BY DEF StepFails, InHand
<1>2. /\ c \in Convs /\ row \in [Convs -> 0 .. MaxLog \cup {NoRow}]
      /\ frames \in [Convs -> SUBSET Seqs]
  BY <1>1 DEF StoreInv, IInv, FolOK, Well, CopyOK, InHand
<1>3. /\ crossed \subseteq crossed'
      /\ fol[r].pc = "rewrite" => c \in crossed'
      /\ \A d \in Convs \ crossed' :
              /\ frames'[d] = frames[d] \/ (frames[d] \subseteq frames'[d] /\ d = c)
              /\ row'[d] = row[d] \/ (d = c /\ row'[d] = obj[r][d].cursor)
  <2>1. CASE fol[r].pc = "pull" /\ UNCHANGED <<copy, ledger>> BY <2>1 DEF copy, ledger
  <2>2. CASE fol[r].pc = "wipe" /\ UNCHANGED row /\ Mark({c}) /\ \E S \in SUBSET frames[c] : frames' = [frames EXCEPT ![c] = S]
    BY <1>2, <2>2 DEF Mark
  <2>3. CASE fol[r].pc \in {"write", "frame"} /\ frames' \in {frames, Written(r)} /\ UNCHANGED <<row, ledger>>
    BY <1>2, <2>3 DEF ledger, Written
  <2>4. CASE fol[r].pc \in {"rewrite", "save", "touch"} /\ row' \in {row, [row EXCEPT ![c] = obj[r][c].cursor]}
             /\ Mark(If(fol[r].pc = "rewrite", c)) /\ UNCHANGED frames
    BY <1>2, <2>4 DEF Mark, If
  <2> QED BY <2>1, <2>2, <2>3, <2>4 DEF StepFails
<1> QED BY <1>1, <1>2, <1>3, LeavesStore

LEMMA TakeNoteStores ==
    ASSUME StoreInv, NEW r \in Replicas, TakeNote(r)
    PROVE  SteadyInv' /\ HonestInv' /\ UnsavedInv'
<1> DEFINE n == Head(notes[r])
           o == obj[r][n.c]
           G(pc) == [fol[r] EXCEPT !.pc = pc, !.job = "apply", !.cur = n.c,
                                   !.page = IF pc = "frame" THEN n.seq ELSE 0]
<1>1. Calm /\ UNCHANGED <<copy, obj, hints>> /\ crossed' = crossed /\ fol[r].pc = "idle" /\ notes[r] # <<>>
  BY DEF TakeNote, ledger
<1>2. fol[r] \in Follower /\ Steady(fol[r], obj[r]) /\ fol \in [Replicas -> Follower]
  BY DEF StoreInv, IInv, FolOK, SteadyInv
<1>3. fol[r].cur = NoConv /\ fol[r].todo = {} /\ fol[r].job # "apply" BY <1>1, <1>2 DEF Steady, InHand
<1>4. n \in Note
  <2>1. notes[r] \in Seq(Note) BY DEF StoreInv, IInv, QueuesOK
  <2> QED BY <1>1, <2>1
<1>5. n.c \in Convs /\ n.seq \in Nat /\ o \in Tracked /\ o.cursor \in Nat
  BY <1>4, MirrorAssumption DEF StoreInv, IInv, ObjOK, Note, Tracked
<1>6. \A c \in Convs : c # NoConv BY MirrorAssumption
<1> HIDE DEF n
<1>7. ASSUME NEW g, Put(r, g), o.known, g.pc \in {"save", "pull", "frame"}, g.job = "apply", g.cur = n.c,
             g.todo = {}, g.saved = fol[r].saved, g.pc = "frame" => g.page = o.cursor + 1
      PROVE  SteadyInv' /\ HonestInv' /\ UnsavedInv'
  <2>1. Steady(g, obj[r]) BY <1>7 DEF Steady, InHand
  <2>2. \A c \in Convs : Keeps(fol[r], obj[r][c], c, frames[c]) => Keeps(g, obj[r][c], c, frames[c])
    BY <1>7 DEF Keeps
  <2>3. \A c \in Convs : c \in g.saved \cup g.todo \/ g.cur = c => Holds(r, c) BY <1>7 DEF Holds
  <2> QED BY <1>1, <1>7, <2>1, <2>2, <2>3, MovesStore
<1>8. CASE UNCHANGED fol
  <2>1. Put(r, fol[r]) BY <1>2, <1>8 DEF Put
  <2>2. \A c \in Convs : c \in fol[r].saved \cup fol[r].todo \/ fol[r].cur = c => Holds(r, c)
    BY <1>3, <1>6 DEF Holds
  <2> QED BY <1>1, <1>2, <2>1, <2>2, MovesStore
<1>9. ASSUME NEW pc \in {"save", "pull", "frame"}
      PROVE  /\ G(pc).pc = pc /\ G(pc).job = "apply" /\ G(pc).cur = n.c /\ G(pc).todo = {}
             /\ G(pc).saved = fol[r].saved /\ (pc = "frame" => G(pc).page = n.seq)
  BY <1>2, <1>3 DEF Follower
<1>10. CASE o.known /\ n.seq = 0 /\ Put(r, G("save"))
  <2> HIDE DEF G
  <2> QED BY <1>7, <1>9, <1>10
<1>11. CASE o.known /\ n.seq > o.cursor /\ Gap(o, n) /\ Put(r, G("pull"))
  <2> HIDE DEF G
  <2> QED BY <1>7, <1>9, <1>11
<1>12. CASE o.known /\ n.seq > o.cursor /\ ~Gap(o, n) /\ Put(r, G("frame"))
  <2>1. n.seq = o.cursor + 1 BY <1>5, <1>12 DEF Gap
  <2> HIDE DEF G
  <2> QED BY <1>7, <1>9, <1>12, <2>1
<1> QED BY <1>8, <1>10, <1>11, <1>12 DEF TakeNote, n

\* Told of a deletion, the follower stops writing and clears what it wrote; told of a
\* conversation saved, it learns the list, of which only what is still saved is new.
LEMMA TakeHintStores ==
    ASSUME StoreInv, NEW r \in Replicas, TakeHint(r)
    PROVE  SteadyInv' /\ HonestInv' /\ UnsavedInv'
<1> DEFINE h == Head(hints[r])
<1>1. /\ Calm /\ UNCHANGED copy /\ fol[r].pc = "idle" /\ hints[r] # <<>>
      /\ hints' = [hints EXCEPT ![r] = Tail(hints[r])]
  BY DEF TakeHint
<1>2. fol[r] \in Follower /\ Steady(fol[r], obj[r]) /\ fol \in [Replicas -> Follower]
      /\ hints \in [Replicas -> Seq(Hint)] /\ obj \in [Replicas -> [Convs -> Tracked]]
  BY DEF StoreInv, IInv, FolOK, SteadyInv, QueuesOK, ObjOK
<1>3. fol[r].cur = NoConv /\ fol[r].todo = {} /\ fol[r].job # "apply" BY <1>1, <1>2 DEF Steady, InHand
<1>4. hints[r] \in Seq(Hint) /\ h \in Hint /\ h.c \in Convs
  <2>1. hints[r] \in Seq(Hint) BY <1>2
  <2>2. h \in Hint BY <1>1, <2>1
  <2> QED BY <2>1, <2>2 DEF Hint
<1>5. \A c \in Convs : Told(r, c) => Told(r, c)' \/ h = [kind |-> "deleted", c |-> c]
  <2>1. hints'[r] = Tail(hints[r]) BY <1>1, <1>2
  <2>2. \A i \in DOMAIN hints[r] : i = 1 \/ (i - 1 \in DOMAIN Tail(hints[r]) /\ Tail(hints[r])[i - 1] = hints[r][i])
    BY <1>1, <1>4
  <2>3. h = hints[r][1] BY <1>1, <1>4
  <2> QED BY <2>1, <2>2, <2>3 DEF Told
<1>6. \A q \in Replicas \ {r} : hints'[q] = hints[q] BY <1>1, <1>2
<1>7. frames' = frames /\ row' = row BY <1>1 DEF copy
<1>8. \A c \in Convs : c # NoConv BY MirrorAssumption
<1> HIDE DEF h
<1>9. CASE h.kind = "saved"
  <2>1. \A c \in Convs : Told(r, c) => Told(r, c)' BY <1>5, <1>9
  <2> DEFINE g == [fol[r] EXCEPT !.resync = fol[r].resync \/ fol[r].saved # saves, !.saved = saves]
  <2>2. obj' = obj /\ crossed \subseteq crossed'
        /\ ((Put(r, g) /\ crossed' = crossed \cup Outdated(saves)) \/ Put(r, fol[r]))
    BY <1>2, <1>9 DEF TakeHint, ledger, Mark, Put, h
  <2>3. /\ g.pc = "idle" /\ g.cur = NoConv /\ g.todo = {} /\ g.job # "apply" /\ g.saved = saves
    BY <1>1, <1>2, <1>3 DEF Follower
  <2> HIDE DEF g
  <2>4. PICK k : /\ Put(r, k) /\ k.pc = "idle" /\ k.cur = NoConv /\ k.todo = {} /\ k.job # "apply"
                 /\ k.saved = fol[r].saved \/ (k.saved = saves /\ crossed' = crossed \cup Outdated(saves))
    BY <1>1, <1>3, <2>2, <2>3
  <2>5. Others(r) /\ fol'[r] = k BY <1>6, <2>2, <2>4, PutOthers DEF StoreInv
  <2>6. Steady(k, obj[r]) BY <2>4 DEF Steady, InHand
  <2>7. ASSUME NEW c \in Convs \ crossed' PROVE Mild(r, c)
    <3>1. c \in k.saved => c \in fol[r].saved \/ (c \in saves /\ ~Deleting(c)) BY <2>4 DEF Outdated
    <3>2. Holds(r, c)' => Holds(r, c) \/ (c \in saves /\ ~Deleting(c))
      BY <1>8, <2>2, <2>4, <2>5, <3>1 DEF Holds, Clearing
    <3>3. Keeps(fol[r], obj[r][c], c, frames[c]) => Keeps(k, obj[r][c], c, frames[c])
      BY <1>8, <2>4, KeepsLess
    <3> QED BY <1>1, <1>7, <2>1, <2>2, <2>5, <3>2, <3>3 DEF Mild, Unheard, Promises
  <2>8. Requested BY <1>1, <2>2 DEF Requested, Calm
  <2> QED BY <2>2, <2>5, <2>6, <2>7, <2>8, MildKeeps
<1>10. CASE h.kind = "deleted"
  <2> DEFINE d == h.c
             k == Dropping(fol[r], d)
             o == Forgotten(obj[r][d])
  <2>1. PutObj(r, d, o) /\ Put(r, k) /\ crossed' = crossed
    BY <1>10 DEF TakeHint, ledger, h
  <2>2. /\ k.pc = "clear" /\ k.cur = d /\ k.todo = {} /\ k.job # "apply" /\ k.saved \subseteq fol[r].saved
    BY <1>2, <1>3 DEF Follower, Dropping
  <2>3. ~o.known /\ ~o.dirty /\ o.tail = obj[r][d].tail BY <1>2, <1>4 DEF Forgotten, Tracked
  <2> HIDE DEF k, o
  <2>4. /\ \A q \in Replicas \ {r} : obj'[q] = obj[q]
        /\ obj'[r][d] = o /\ \A c \in Convs \ {d} : obj'[r][c] = obj[r][c]
    BY <1>4, <2>1, PutObjHere DEF StoreInv
  <2>5. Others(r) /\ fol'[r] = k BY <1>6, <2>1, <2>4, PutOthers DEF StoreInv
  <2>6. Steady(k, obj'[r]) BY <2>2 DEF Steady, InHand
  <2>7. ASSUME NEW c \in Convs \ crossed' PROVE Mild(r, c)
    <3>1. Told(r, c) => Unheard(r, c)' BY <1>5, <2>2, <2>5 DEF Unheard
    <3>2. Holds(r, c)' => Holds(r, c)
      BY <1>8, <2>2, <2>3, <2>4, <2>5 DEF Holds, Clearing
    <3>3. Keeps(fol[r], obj[r][c], c, frames[c]) => Keeps(k, obj'[r][c], c, frames[c])
      BY <2>2, <2>3, <2>4 DEF Keeps, InHand
    <3> QED BY <1>1, <1>7, <2>5, <3>1, <3>2, <3>3 DEF Mild, Promises
  <2>8. Requested BY <1>1, <2>1 DEF Requested, Calm
  <2> QED BY <2>5, <2>6, <2>7, <2>8, MildKeeps
<1> QED BY <1>4, <1>9, <1>10 DEF Hint

LEMMA ElapsedStores ==
    ASSUME StoreInv, NEW r \in Replicas, NEW c \in Convs, Elapsed(r, c)
    PROVE  SteadyInv' /\ HonestInv' /\ UnsavedInv'
<1> DEFINE o == obj[r][c]
           x == [o EXCEPT !.dirty = FALSE, !.tail = o.cursor]
           y == [o EXCEPT !.open = FALSE]
<1>1. /\ Calm /\ frames' = frames /\ row' = row /\ fol' = fol /\ hints' = hints /\ crossed' = crossed
      /\ o.tail = NoRow
      /\ (o.dirty /\ PutObj(r, c, x)) \/ PutObj(r, c, y)
  BY DEF Elapsed, copy, ledger
<1>2. o \in Tracked /\ Steady(fol[r], obj[r]) BY DEF StoreInv, IInv, ObjOK, SteadyInv
<1>3. /\ x.cursor = o.cursor /\ x.known = o.known /\ ~x.dirty /\ x.tail = o.cursor
      /\ y.cursor = o.cursor /\ y.known = o.known /\ y.dirty = o.dirty /\ y.tail = o.tail
  BY <1>2 DEF Tracked
<1>4. PICK z : /\ PutObj(r, c, z) /\ z.cursor = o.cursor /\ z.known = o.known
               /\ z.dirty => o.dirty
               /\ z.tail = NoRow \/ (z.tail = o.cursor /\ o.dirty)
  <2> HIDE DEF o, x, y
  <2> QED BY <1>1, <1>3
<1> HIDE DEF o
<1>5. /\ \A q \in Replicas \ {r} : obj'[q] = obj[q]
      /\ obj'[r][c] = z /\ \A d \in Convs \ {c} : obj'[r][d] = obj[r][d]
  BY <1>4, PutObjHere DEF StoreInv
<1>6. Others(r) BY <1>1, <1>5 DEF Others, Alike, Told
<1>7. \A d \in Convs : obj'[r][d].cursor = obj[r][d].cursor BY <1>4, <1>5 DEF o
<1>8. Steady(fol'[r], obj'[r])
  <2>1. fol[r].pc \in {"wipe", "rewrite", "frame"} => fol[r].cur \in Convs
    BY DEF StoreInv, IInv, FolOK, Well
  <2> QED BY <1>1, <1>2, <1>7, <2>1 DEF Steady
<1>9. ASSUME NEW d \in Convs \ crossed' PROVE Mild(r, d)
  <2>1. Told(r, d) => Told(r, d)' BY <1>1 DEF Told
  <2>2. Holds(r, d)' => Holds(r, d)
    <3>1. CASE d = c BY <1>1, <1>4, <1>5, <3>1 DEF Holds, Clearing, o
    <3>2. CASE d # c BY <1>1, <1>5, <3>2 DEF Holds, Clearing
    <3> QED BY <3>1, <3>2
  <2>3. Keeps(fol[r], obj[r][d], d, frames[d]) => Keeps(fol[r], obj'[r][d], d, frames[d])
    <3>1. CASE d = c BY <1>4, <1>5, <3>1 DEF Keeps, o
    <3>2. CASE d # c BY <1>5, <3>2
    <3> QED BY <3>1, <3>2
  <2> QED BY <1>1, <2>1, <2>2, <2>3 DEF Mild, Unheard, Promises
<1>10. Requested BY <1>1 DEF Requested, Calm
<1> QED BY <1>6, <1>8, <1>9, <1>10, MildKeeps

LEMMA TailWritesStores ==
    ASSUME StoreInv, NEW r \in Replicas, NEW c \in Convs, TailWrites(r, c)
    PROVE  SteadyInv' /\ HonestInv' /\ UnsavedInv'
<1> DEFINE o == obj[r][c]
           z == [o EXCEPT !.tail = NoRow]
<1>1. /\ Calm /\ frames' = frames /\ fol' = fol /\ hints' = hints /\ crossed' = crossed
      /\ o.tail # NoRow /\ PutObj(r, c, z)
      /\ row' = row \/ row' = [row EXCEPT ![c] = o.tail]
  BY DEF TailWrites, ledger
<1>2. o \in Tracked /\ Steady(fol[r], obj[r]) /\ row \in [Convs -> 0 .. MaxLog \cup {NoRow}]
  BY DEF StoreInv, IInv, ObjOK, SteadyInv, CopyOK
<1>3. z.cursor = o.cursor /\ z.known = o.known /\ z.dirty = o.dirty /\ z.tail = NoRow BY <1>2 DEF Tracked
<1> HIDE DEF z, o
<1>4. /\ \A q \in Replicas \ {r} : obj'[q] = obj[q]
      /\ obj'[r][c] = z /\ \A d \in Convs \ {c} : obj'[r][d] = obj[r][d]
  BY <1>1, PutObjHere DEF StoreInv
<1>5. Others(r) BY <1>1, <1>4 DEF Others, Alike, Told
<1>6. \A d \in Convs : obj'[r][d].cursor = obj[r][d].cursor BY <1>3, <1>4 DEF o
<1>7. Steady(fol'[r], obj'[r])
  <2>1. fol[r].pc \in {"wipe", "rewrite", "frame"} => fol[r].cur \in Convs
    BY DEF StoreInv, IInv, FolOK, Well
  <2> QED BY <1>1, <1>2, <1>6, <2>1 DEF Steady
<1>8. ASSUME NEW d \in Convs \ crossed' PROVE Mild(r, d)
  <2>1. Told(r, d) => Told(r, d)' BY <1>1 DEF Told
  <2>2. Holds(r, d)' => Holds(r, d)
    <3>1. CASE d = c BY <1>1, <3>1 DEF Holds, o
    <3>2. CASE d # c BY <1>1, <1>4, <3>2 DEF Holds, Clearing
    <3> QED BY <3>1, <3>2
  <2>3. Keeps(fol[r], obj[r][d], d, frames[d]) => Keeps(fol[r], obj'[r][d], d, frames[d])
    <3>1. CASE d = c BY <1>3, <1>4, <3>1 DEF Keeps, o
    <3>2. CASE d # c BY <1>4, <3>2
    <3> QED BY <3>1, <3>2
  <2>4. \/ row'[d] = row[d]
        \/ Holds(r, d) /\ (Promises(d) => 1 .. row'[d] \subseteq frames[d])
    <3>1. CASE d = c /\ row' = [row EXCEPT ![c] = o.tail]
      <4>1. row'[d] = obj[r][d].tail /\ Holds(r, d) BY <1>1, <1>2, <3>1 DEF o, Holds
      <4> QED BY <1>1, <3>1, <4>1 DEF Promises, Keeps, o
    <3>2. CASE d # c \/ row' = row BY <1>1, <1>2, <3>2
    <3> QED BY <1>1, <3>1, <3>2
  <2> QED BY <1>1, <2>1, <2>2, <2>3, <2>4 DEF Mild, Unheard, Promises
<1>9. Requested BY <1>1 DEF Requested, Calm
<1> QED BY <1>5, <1>7, <1>8, <1>9, MildKeeps

\* The marks of a follower that ends here: what it was about to purge or rewrite.
LEMMA CutStore ==
    ASSUME StoreInv, NEW r \in Replicas, Requested, fol' = [fol EXCEPT ![r] = fol'[r]],
           \A q \in Replicas \ {r} : obj'[q] = obj[q] /\ hints'[q] = hints[q],
           frames' = frames, row' = row, Cut(r) \subseteq crossed',
           fol'[r].pc \in {"off", "tell"}, fol'[r].saved = {}, fol'[r].todo = {},
           fol'[r].cur = NoConv, fol'[r].job = "none",
           \A c \in Convs : \/ obj'[r][c] = Untracked
                            \/ /\ ~obj'[r][c].known /\ obj'[r][c].dirty = obj[r][c].dirty
                               /\ obj'[r][c].cursor = obj[r][c].cursor /\ obj'[r][c].tail = obj[r][c].tail
    PROVE  SteadyInv' /\ HonestInv' /\ UnsavedInv'
<1>1. Others(r) BY PutOthers DEF StoreInv, Put
<1>2. Steady(fol'[r], obj'[r]) BY DEF Steady, InHand
<1>3. ASSUME NEW c \in Convs \ crossed' PROVE Mild(r, c)
  <2>1. c # NoConv BY MirrorAssumption
  <2>2. ~Told(r, c) /\ ~Clearing(r, c) /\ ~(fol[r].pc = "rewrite" /\ fol[r].cur = c) BY DEF Cut
  <2>3. ~Untracked.known /\ ~Untracked.dirty /\ Untracked.tail = NoRow BY DEF Untracked
  <2>4. Holds(r, c)' => Holds(r, c) BY <2>1, <2>3 DEF Holds, Clearing
  <2>5. Keeps(fol[r], obj[r][c], c, frames[c]) => Keeps(fol'[r], obj'[r][c], c, frames[c])
    BY <2>1, <2>3 DEF Keeps
  <2> QED BY <2>2, <2>4, <2>5 DEF Mild, Promises, Clearing
<1> QED BY <1>1, <1>2, <1>3, MildKeeps

LEMMA ReleaseStores ==
    ASSUME StoreInv, NEW r \in Replicas, Release(r)
    PROVE  SteadyInv' /\ HonestInv' /\ UnsavedInv'
<1> DEFINE f == [Off EXCEPT !.pc = IF fol[r].ask = NoConv THEN "off" ELSE "tell", !.ask = fol[r].ask]
<1>1. /\ Put(r, f) /\ Calm /\ frames' = frames /\ row' = row
      /\ crossed' = crossed \cup Cut(r) /\ hints' = [hints EXCEPT ![r] = <<>>]
      /\ obj' = [obj EXCEPT ![r] = [c \in Convs |-> [obj[r][c] EXCEPT !.known = FALSE, !.attached = FALSE]]]
  BY DEF Release, Mark, copy
<1>2. fol \in [Replicas -> Follower] /\ obj \in [Replicas -> [Convs -> Tracked]]
      /\ hints \in [Replicas -> Seq(Hint)]
  BY DEF StoreInv, IInv, FolOK, ObjOK, QueuesOK
<1>3. f.pc \in {"off", "tell"} /\ f.saved = {} /\ f.todo = {} /\ f.cur = NoConv /\ f.job = "none"
  BY OffNothing
<1> HIDE DEF f
<1>4. fol'[r] = f /\ fol' = [fol EXCEPT ![r] = fol'[r]] BY <1>1, <1>2 DEF Put
<1>5. \A q \in Replicas \ {r} : obj'[q] = obj[q] /\ hints'[q] = hints[q] BY <1>1, <1>2
<1>6. ASSUME NEW c \in Convs
      PROVE  /\ ~obj'[r][c].known /\ obj'[r][c].dirty = obj[r][c].dirty
             /\ obj'[r][c].cursor = obj[r][c].cursor /\ obj'[r][c].tail = obj[r][c].tail
  <2>1. obj[r][c] \in Tracked BY <1>2
  <2>2. obj'[r][c] = [obj[r][c] EXCEPT !.known = FALSE, !.attached = FALSE] BY <1>1, <1>2
  <2> QED BY <2>1, <2>2 DEF Tracked
<1>7. Requested BY <1>1 DEF Requested, Calm
<1> QED BY <1>1, <1>3, <1>4, <1>5, <1>6, <1>7, CutStore

LEMMA CrashStores ==
    ASSUME StoreInv, NEW r \in Replicas, Crash(r)
    PROVE  SteadyInv' /\ HonestInv' /\ UnsavedInv'
<1>1. /\ fol' = [fol EXCEPT ![r] = Off] /\ frames' = frames /\ row' = row /\ saves' = saves
      /\ crossed' = crossed \cup (Cut(r) \cup If(req.at = r /\ req.step = "summary", req.c))
      /\ hints' = [hints EXCEPT ![r] = <<>>]
      /\ obj' = [obj EXCEPT ![r] = [c \in Convs |-> Untracked]]
      /\ req' = IF req.at = r THEN NoReq ELSE req
  BY DEF Crash, Mark, copy, Put
<1>2. fol \in [Replicas -> Follower] /\ obj \in [Replicas -> [Convs -> Tracked]]
      /\ hints \in [Replicas -> Seq(Hint)]
  BY DEF StoreInv, IInv, FolOK, ObjOK, QueuesOK
<1>3. fol'[r] = Off BY <1>1, <1>2
<1>4. \A q \in Replicas \ {r} : obj'[q] = obj[q] /\ hints'[q] = hints[q] BY <1>1, <1>2
<1>5. \A c \in Convs : obj'[r][c] = Untracked BY <1>1, <1>2
<1>6. Requested BY <1>1 DEF Requested, If
<1>7. fol' = [fol EXCEPT ![r] = fol'[r]] /\ Cut(r) \subseteq crossed' BY <1>1, <1>3
<1> QED BY <1>1, <1>3, <1>4, <1>5, <1>6, <1>7, OffNothing, CutStore

\* Who does not write of a conversation has nothing to say of its frames.
LEMMA IdleKeeps ==
    ASSUME NEW q \in Replicas, NEW c \in Convs, ~Holds(q, c), NEW S
    PROVE  Keeps(fol[q], obj[q][c], c, S)
BY DEF Holds, Keeps, Clearing, InHand

LEMMA WipeStores ==
    ASSUME StoreInv, NEW r \in Replicas, Wipe(r)
    PROVE  SteadyInv' /\ HonestInv' /\ UnsavedInv'
<1> DEFINE c == fol[r].cur
           x == [fol[r] EXCEPT !.pc = "rewrite"]
           y == [fol[r] EXCEPT !.pc = "pull"]
<1>1. /\ Calm /\ obj' = obj /\ hints' = hints
      /\ crossed' = crossed \cup If((\E q \in Replicas \ {r} : Holds(q, c)) \/ obj[r][c].tail > 0, c)
      /\ \/ fol[r].pc = "wipe" /\ Put(r, x) /\ frames' = [frames EXCEPT ![c] = {}] /\ row' = row
         \/ fol[r].pc = "rewrite" /\ Put(r, y) /\ row' = [row EXCEPT ![c] = obj[r][c].cursor] /\ frames' = frames
  BY DEF Wipe, Mark
<1>2. /\ fol[r] \in Follower /\ Steady(fol[r], obj[r]) /\ fol \in [Replicas -> Follower]
      /\ frames \in [Convs -> SUBSET Seqs] /\ row \in [Convs -> 0 .. MaxLog \cup {NoRow}]
  BY DEF StoreInv, IInv, FolOK, SteadyInv, CopyOK
<1>3. c \in Convs /\ obj[r][c] \in Tracked BY <1>1 DEF StoreInv, IInv, FolOK, Well, ObjOK
<1>4. obj[r][c].cursor = 0 /\ c \notin fol[r].todo BY <1>1, <1>2 DEF Steady
<1>5. PICK g : /\ Put(r, g) /\ g.cur = c /\ g.job = fol[r].job /\ g.todo = fol[r].todo
               /\ g.saved = fol[r].saved /\ g.stored = fol[r].stored
               /\ \/ fol[r].pc = "wipe" /\ g.pc = "rewrite" /\ row' = row /\ frames' = [frames EXCEPT ![c] = {}]
                  \/ /\ fol[r].pc = "rewrite" /\ g.pc = "pull" /\ frames' = frames
                     /\ row' = [row EXCEPT ![c] = obj[r][c].cursor]
  <2>1. x.cur = c /\ x.job = fol[r].job /\ x.todo = fol[r].todo /\ x.saved = fol[r].saved
        /\ x.stored = fol[r].stored /\ x.pc = "rewrite"
    BY <1>2 DEF Follower
  <2>2. y.cur = c /\ y.job = fol[r].job /\ y.todo = fol[r].todo /\ y.saved = fol[r].saved
        /\ y.stored = fol[r].stored /\ y.pc = "pull"
    BY <1>2 DEF Follower
  <2> HIDE DEF x, y
  <2> QED BY <1>1, <2>1, <2>2
<1>6. Others(r) /\ fol'[r] = g BY <1>1, <1>5, PutOthers DEF StoreInv
<1>7. Steady(g, obj'[r]) BY <1>1, <1>2, <1>4, <1>5 DEF Steady, InHand
<1>8. \A q \in Replicas, d \in Convs :
         /\ Told(q, d)' = Told(q, d)
         /\ Holds(q, d)' => Holds(q, d)
         /\ Clearing(q, d)' = Clearing(q, d)
         /\ Unheard(q, d) => Unheard(q, d)'
  <2>1. \A q \in Replicas, d \in Convs : Told(q, d)' = Told(q, d) BY <1>1 DEF Told
  <2>2. ASSUME NEW q \in Replicas \ {r}, NEW d \in Convs
        PROVE  /\ Holds(q, d)' => Holds(q, d)
               /\ Clearing(q, d)' = Clearing(q, d)
    <3>1. Alike(fol[q], fol'[q]) BY <1>6 DEF Others
    <3> QED BY <1>1, <3>1 DEF Alike, Holds, Clearing
  <2>3. ASSUME NEW d \in Convs
        PROVE  /\ Holds(r, d)' => Holds(r, d)
               /\ Clearing(r, d)' = Clearing(r, d)
    BY <1>1, <1>5, <1>6 DEF Holds, Clearing
  <2>4. \A q \in Replicas, d \in Convs : Unheard(q, d) => Unheard(q, d)'
    <3>1. ASSUME NEW q \in Replicas \ {r} PROVE Alike(fol[q], fol'[q]) BY <1>6 DEF Others
    <3> QED BY <1>1, <2>1, <3>1 DEF Unheard, Alike
  <2> QED BY <2>1, <2>2, <2>3, <2>4
<1>9. Requested BY <1>1 DEF Requested, Calm
<1>10. ASSUME NEW d \in Convs \ crossed', d # c PROVE Mild(r, d)
  <2>1. frames'[d] = frames[d] /\ row'[d] = row[d] BY <1>2, <1>5, <1>10
  <2>2. Keeps(fol[r], obj[r][d], d, frames[d]) => Keeps(g, obj[r][d], d, frames[d])
    BY <1>5, <1>10 DEF Keeps
  <2> QED BY <1>1, <1>6, <1>8, <1>10, <2>1, <2>2 DEF Mild, Unheard, Promises
<1>11. ASSUME NEW d \in Convs \ crossed', d = c PROVE HonestAt(d)' /\ UnsavedAt(d)'
  <2>1. (\A q \in Replicas \ {r} : ~Holds(q, d)) /\ ~(obj[r][d].tail > 0) BY <1>1, <1>11 DEF If
  <2>2. d \in Convs \ crossed /\ d = fol[r].cur BY <1>9, <1>11 DEF Requested
  <2>3. HonestAt(d)'
    <3>1. CASE g.pc = "rewrite" BY <1>5, <1>6, <1>11, <3>1 DEF HonestAt, Underway
    <3>2. CASE g.pc # "rewrite"
      <4>1. g.pc = "pull" /\ frames' = frames /\ row'[d] = 0 BY <1>2, <1>4, <1>5, <1>11, <3>2
      <4>2. 1 .. row'[d] \subseteq frames'[d] BY <4>1
      <4>3. ASSUME NEW q \in Replicas \ {r} PROVE Keeps(fol'[q], obj'[q][d], d, frames'[d])
        <5>1. Keeps(fol[q], obj[q][d], d, frames[d]) BY <2>1, IdleKeeps
        <5>2. Alike(fol[q], fol'[q]) BY <1>6 DEF Others
        <5> QED BY <1>1, <4>1, <5>1, <5>2, KeepsAlike
      <4>4. Keeps(g, obj[r][d], d, frames[d])
        <5>1. obj[r][d].tail # NoRow => obj[r][d].tail = 0
          BY <1>3, <1>11, <2>1, MirrorAssumption DEF Tracked, NoRow
        <5>2. 1 .. 0 = {} OBVIOUS
        <5> QED BY <1>4, <1>5, <1>11, <5>1, <5>2 DEF Keeps
      <4> QED BY <1>1, <1>6, <4>1, <4>2, <4>3, <4>4 DEF HonestAt, Promises
    <3> QED BY <3>1, <3>2
  <2>4. UnsavedAt(d)'
    <3>1. UnsavedAt(d) BY <2>2 DEF StoreInv, UnsavedInv
    <3>2. saves' = saves /\ req' = req BY <1>1 DEF Calm
    <3>3. Holds(r, d) /\ ~Clearing(r, d) /\ (Unheard(r, d) => Told(r, d))
      BY <1>1, <2>2 DEF Holds, Clearing, Unheard
    <3>4. frames'[d] # {} => frames[d] # {} BY <1>2, <1>5, <1>11
    <3>5. c = d BY <1>11
    <3> HIDE DEF c
    <3>6. c \notin saves \/ (req.c = c /\ req.step \in {"summary", "unsave"}) => Told(r, d)
      BY <3>1, <3>3, <3>5 DEF UnsavedAt
    <3>7. d \notin saves \/ (req.c = d /\ req.step = "unsave") => Told(r, d)' BY <1>8, <3>5, <3>6
    <3>8. d \notin saves \/ (req.c = d /\ req.step \in {"summary", "unsave"}) =>
            /\ \A q \in Replicas : Holds(q, d)' => Unheard(q, d)'
            /\ frames'[d] # {} => \E q \in Replicas : Unheard(q, d)'
      BY <1>8, <3>1, <3>4 DEF UnsavedAt
    <3> QED BY <3>2, <3>7, <3>8 DEF UnsavedAt
  <2> QED BY <2>3, <2>4
<1>12. \A d \in Convs \ crossed' : Mild(r, d) \/ (HonestAt(d)' /\ UnsavedAt(d)') BY <1>10, <1>11
<1> QED BY <1>6, <1>7, <1>9, <1>12, MildKeeps

LEMMA ClearStoredStores ==
    ASSUME StoreInv, NEW r \in Replicas, ClearStored(r)
    PROVE  SteadyInv' /\ HonestInv' /\ UnsavedInv'
<1> DEFINE c == fol[r].cur
           x == [fol[r] EXCEPT !.pc = "clearRow"]
           y == [fol[r] EXCEPT !.pc = "idle", !.cur = NoConv]
<1>1. /\ Calm /\ obj' = obj /\ hints' = hints /\ crossed' = crossed \cup If(Meets(c), c)
      /\ \/ fol[r].pc = "clear" /\ Put(r, x) /\ frames' = [frames EXCEPT ![c] = {}] /\ row' = row
         \/ fol[r].pc = "clearRow" /\ Put(r, y) /\ row' = [row EXCEPT ![c] = NoRow] /\ frames' = frames
  BY DEF ClearStored, Mark
<1>2. /\ fol[r] \in Follower /\ Steady(fol[r], obj[r]) /\ fol \in [Replicas -> Follower]
      /\ frames \in [Convs -> SUBSET Seqs] /\ row \in [Convs -> 0 .. MaxLog \cup {NoRow}]
  BY DEF StoreInv, IInv, FolOK, SteadyInv, CopyOK
<1>3. c \in Convs /\ fol[r].todo = {} /\ fol[r].job # "apply"
  BY <1>1, <1>2 DEF StoreInv, IInv, FolOK, Well, Steady, InHand
<1>4. PICK g : /\ Put(r, g) /\ g.job = fol[r].job /\ g.todo = {} /\ g.saved = fol[r].saved
               /\ \/ /\ fol[r].pc = "clear" /\ g.pc = "clearRow" /\ g.cur = c /\ row' = row
                     /\ frames' = [frames EXCEPT ![c] = {}]
                  \/ /\ fol[r].pc = "clearRow" /\ g.pc = "idle" /\ g.cur = NoConv /\ frames' = frames
                     /\ row' = [row EXCEPT ![c] = NoRow]
  <2>1. x.cur = c /\ x.job = fol[r].job /\ x.todo = {} /\ x.saved = fol[r].saved /\ x.pc = "clearRow"
    BY <1>2, <1>3 DEF Follower
  <2>2. y.cur = NoConv /\ y.job = fol[r].job /\ y.todo = {} /\ y.saved = fol[r].saved /\ y.pc = "idle"
    BY <1>2, <1>3 DEF Follower
  <2> HIDE DEF x, y
  <2> QED BY <1>1, <2>1, <2>2
<1>5. Others(r) /\ fol'[r] = g BY <1>1, <1>4, PutOthers DEF StoreInv
<1>6. Steady(g, obj'[r]) BY <1>3, <1>4 DEF Steady, InHand
<1>7. \A d \in Convs : d # NoConv BY MirrorAssumption
<1>8. \A q \in Replicas, d \in Convs : Told(q, d)' = Told(q, d) /\ (Holds(q, d)' => Holds(q, d))
  <2>1. \A q \in Replicas, d \in Convs : Told(q, d)' = Told(q, d) BY <1>1 DEF Told
  <2>2. ASSUME NEW q \in Replicas \ {r}, NEW d \in Convs PROVE Holds(q, d)' => Holds(q, d)
    <3>1. Alike(fol[q], fol'[q]) BY <1>5 DEF Others
    <3> QED BY <1>1, <3>1 DEF Alike, Holds, Clearing
  <2>3. ASSUME NEW d \in Convs PROVE Holds(r, d)' => Holds(r, d)
    BY <1>1, <1>4, <1>5, <1>7 DEF Holds, Clearing
  <2> QED BY <2>1, <2>2, <2>3
<1>9. Requested BY <1>1 DEF Requested, Calm
<1>10. ASSUME NEW d \in Convs \ crossed', d # c PROVE Mild(r, d)
  <2>1. frames'[d] = frames[d] /\ row'[d] = row[d] BY <1>2, <1>4, <1>10
  <2>2. Keeps(fol[r], obj[r][d], d, frames[d]) => Keeps(g, obj[r][d], d, frames[d])
    BY <1>4, <1>10, <1>7, KeepsLess
  <2> QED BY <1>1, <1>5, <1>8, <1>10, <2>1, <2>2 DEF Mild, Unheard, Promises
<1>11. ASSUME NEW d \in Convs \ crossed', d = c PROVE HonestAt(d)' /\ UnsavedAt(d)'
  <2>1. \A q \in Replicas : Holds(q, d) => Told(q, d) BY <1>1, <1>11 DEF If, Meets
  <2>2. d \in Convs \ crossed BY <1>9, <1>11 DEF Requested
  <2>3. \A q \in Replicas : Holds(q, d)' => Told(q, d)' BY <1>8, <2>1
  <2>4. saves' = saves /\ req' = req BY <1>1 DEF Calm
  <2>5. CASE fol[r].pc = "clear"
    <3>1. Clearing(r, d)' BY <1>4, <1>5, <1>11, <2>5 DEF Clearing
    <3>2. frames'[d] = {} BY <1>2, <1>4, <1>11, <2>5
    <3>3. HonestAt(d)' BY <3>1 DEF HonestAt, Underway
    <3>4. UnsavedAt(d)' BY <2>3, <3>1, <3>2 DEF UnsavedAt, Unheard
    <3> QED BY <3>3, <3>4
  <2>6. CASE fol[r].pc = "clearRow"
    <3>1. frames' = frames /\ row'[d] = NoRow BY <1>2, <1>4, <1>11, <2>6
    <3>2. HonestAt(d)'
      <4>1. ASSUME ~Underway(d)' PROVE Promises(d)'
        <5>1. \A q \in Replicas : ~Told(q, d) BY <1>8, <4>1 DEF Underway
        <5>2. ASSUME NEW q \in Replicas \ {r} PROVE Keeps(fol'[q], obj'[q][d], d, frames'[d])
          <6>1. Keeps(fol[q], obj[q][d], d, frames[d]) BY <2>1, <5>1, IdleKeeps
          <6>2. Alike(fol[q], fol'[q]) BY <1>5 DEF Others
          <6> QED BY <1>1, <3>1, <6>1, <6>2, KeepsAlike
        <5>3. Keeps(g, obj[r][d], d, frames[d])
          <6>1. Keeps(fol[r], obj[r][d], d, frames[d]) BY <2>1, <5>1, IdleKeeps
          <6> QED BY <1>4, <1>7, <2>6, <6>1, KeepsLess
        <5>4. 1 .. row'[d] = {} BY <3>1 DEF NoRow
        <5> QED BY <1>1, <1>5, <3>1, <5>2, <5>3, <5>4 DEF Promises
      <4> QED BY <4>1 DEF HonestAt
    <3>3. UnsavedAt(d)'
      <4>1. UnsavedAt(d) BY <2>2 DEF StoreInv, UnsavedInv
      <4>2. \A q \in Replicas : Unheard(q, d) => Unheard(q, d)'
        <5>1. ASSUME NEW q \in Replicas \ {r} PROVE Alike(fol[q], fol'[q]) BY <1>5 DEF Others
        <5> QED BY <1>8, <2>6, <5>1 DEF Unheard, Alike
      <4> QED BY <2>3, <2>4, <3>1, <4>1, <4>2 DEF UnsavedAt, Unheard
    <3> QED BY <3>2, <3>3
  <2> QED BY <1>1, <2>5, <2>6
<1>12. \A d \in Convs \ crossed' : Mild(r, d) \/ (HonestAt(d)' /\ UnsavedAt(d)') BY <1>10, <1>11
<1> QED BY <1>5, <1>6, <1>9, <1>12, MildKeeps

LEMMA ClearFailsStores ==
    ASSUME StoreInv, NEW r \in Replicas, ClearFails(r)
    PROVE  SteadyInv' /\ HonestInv' /\ UnsavedInv'
<1> DEFINE c == fol[r].cur
           g == [fol[r] EXCEPT !.pc = "idle", !.cur = NoConv]
<1>1. /\ Calm /\ obj' = obj /\ hints' = hints /\ crossed' = crossed \cup {c} /\ Put(r, g)
      /\ fol[r].pc \in {"clear", "clearRow"}
      /\ \A d \in Convs \ {c} : frames'[d] = frames[d] /\ row'[d] = row[d]
  BY DEF ClearFails, Mark, StoreInv, IInv, CopyOK
<1>2. fol[r] \in Follower /\ Steady(fol[r], obj[r]) BY DEF StoreInv, IInv, FolOK, SteadyInv
<1>3. fol[r].todo = {} /\ fol[r].job # "apply" BY <1>1, <1>2 DEF Steady, InHand
<1>4. g.pc = "idle" /\ g.cur = NoConv /\ g.todo = {} /\ g.job # "apply" /\ g.saved = fol[r].saved
  BY <1>2, <1>3 DEF Follower
<1> HIDE DEF g
<1>5. Others(r) /\ fol'[r] = g BY <1>1, PutOthers DEF StoreInv
<1>6. Steady(g, obj'[r]) BY <1>4 DEF Steady, InHand
<1>7. ASSUME NEW d \in Convs \ crossed' PROVE Mild(r, d)
  <2>1. d # c /\ d # NoConv BY <1>1, MirrorAssumption
  <2>2. Holds(r, d)' => Holds(r, d) BY <1>1, <1>4, <1>5, <2>1 DEF Holds, Clearing
  <2>3. Told(r, d) => Told(r, d)' BY <1>1 DEF Told
  <2>4. Keeps(fol[r], obj[r][d], d, frames[d]) => Keeps(g, obj[r][d], d, frames[d])
    BY <1>4, <2>1, KeepsLess
  <2> QED BY <1>1, <1>5, <2>1, <2>2, <2>3, <2>4 DEF Mild, Unheard, Promises
<1>8. Requested BY <1>1 DEF Requested, Calm
<1> QED BY <1>5, <1>6, <1>7, <1>8, MildKeeps

LEMMA FollowerStores ==
    ASSUME StoreInv, IInv', NEW r \in Replicas, FollowerNext(r)
    PROVE  SteadyInv' /\ HonestInv' /\ UnsavedInv'
BY ClaimStores, TellStores, PrepareStores, PrepareFailsStores, ListStores, ListFailsStores, WipeStores,
   PullStores, WritePageStores, WriteFrameStores, SaveSummaryStores, StepFailsStores, SettleStores,
   TakeNoteStores, TakeHintStores, ClearStoredStores, ClearFailsStores, TakeResyncStores, ReviveStores,
   LeaveStores, ReleaseStores, CatchUpStores, ElapsedStores, TailWritesStores DEF FollowerNext

-----------------------------------------------------------------------------
(* Machine, requests and cron jobs.                                        *)

LEMMA ForgottenSame ==
    ASSUME NEW o \in Tracked, NEW x, x = o \/ x = Forgotten(o)
    PROVE  x.cursor = o.cursor /\ x.tail = o.tail /\ (x.known => o.known) /\ (x.dirty => o.dirty)
BY DEF Forgotten, Tracked

\* Steps that leave every follower where it is, the copy as it is where it is not marked,
\* and no purge half done.
LEMMA HushedKeeps ==
    ASSUME StoreInv, crossed \subseteq crossed',
           \A q \in Replicas : Alike(fol[q], fol'[q]),
           \A q \in Replicas, c \in Convs :
              /\ obj'[q][c] = obj[q][c] \/ obj'[q][c] = Forgotten(obj[q][c])
              /\ Told(q, c) => Told(q, c)',
           \A c \in Convs \ crossed' :
              /\ frames'[c] = frames[c] /\ row'[c] = row[c]
              /\ req.c = c /\ req.step = "summary" => req'.c = c /\ req'.step = "summary"
              /\ c \notin saves' \/ (req'.c = c /\ req'.step \in {"summary", "unsave"}) =>
                   c \notin saves \/ (req.c = c /\ req.step \in {"summary", "unsave"})
              /\ c \notin saves' \/ (req'.c = c /\ req'.step = "unsave") =>
                   c \notin saves \/ (req.c = c /\ req.step = "unsave"),
           req'.step = "follow" => req'.list \subseteq saves'
    PROVE  SteadyInv' /\ HonestInv' /\ UnsavedInv'
<1>1. \A q \in Replicas, c \in Convs : obj[q][c] \in Tracked BY DEF StoreInv, IInv, ObjOK
<1>2. ASSUME NEW q \in Replicas, NEW c \in Convs
      PROVE  /\ obj'[q][c].cursor = obj[q][c].cursor /\ obj'[q][c].tail = obj[q][c].tail
             /\ obj'[q][c].known => obj[q][c].known
             /\ obj'[q][c].dirty => obj[q][c].dirty
  <2>1. obj[q][c] \in Tracked /\ (obj'[q][c] = obj[q][c] \/ obj'[q][c] = Forgotten(obj[q][c])) BY <1>1
  <2> QED BY ONLY <2>1, ForgottenSame
<1>3. SteadyInv'
  <2>1. ASSUME NEW q \in Replicas PROVE Steady(fol'[q], obj'[q])
    <3>1. Steady(fol[q], obj[q]) /\ Alike(fol[q], fol'[q]) BY DEF StoreInv, SteadyInv
    <3>2. fol[q].pc \in {"wipe", "rewrite", "frame"} => fol[q].cur \in Convs
      BY DEF StoreInv, IInv, FolOK, Well
    <3> QED BY <1>2, <3>1, <3>2 DEF Steady, Alike
  <2> QED BY <2>1 DEF SteadyInv
<1>4. ASSUME NEW q \in Replicas, NEW c \in Convs
      PROVE  /\ Holds(q, c)' => Holds(q, c)
             /\ Unheard(q, c) => Unheard(q, c)'
             /\ Clearing(q, c) <=> Clearing(q, c)'
             /\ Told(q, c) => Told(q, c)'
  <2>1. Alike(fol[q], fol'[q]) OBVIOUS
  <2> QED BY <1>2, <2>1 DEF Alike, Holds, Clearing, Unheard
<1>5. ASSUME NEW c \in Convs \ crossed' PROVE HonestAt(c)'
  <2>1. HonestAt(c) BY DEF StoreInv, HonestInv
  <2>2. CASE Underway(c)
    <3>1. CASE req.c = c /\ req.step = "summary" BY <3>1 DEF HonestAt, Underway
    <3>2. ASSUME NEW q \in Replicas, Told(q, c) \/ Clearing(q, c) \/ (fol[q].pc = "rewrite" /\ fol[q].cur = c)
          PROVE  Told(q, c)' \/ Clearing(q, c)' \/ (fol'[q].pc = "rewrite" /\ fol'[q].cur = c)
      BY <1>4, <3>2 DEF Alike
    <3> QED BY <2>2, <3>1, <3>2 DEF HonestAt, Underway
  <2>3. CASE Promises(c)
    <3>1. ASSUME NEW q \in Replicas PROVE Keeps(fol'[q], obj'[q][c], c, frames'[c])
      <4>1. Keeps(fol[q], obj[q][c], c, frames[c]) BY <2>3 DEF Promises
      <4>2. Keeps(fol[q], obj'[q][c], c, frames'[c]) BY <1>2, <4>1 DEF Keeps
      <4> QED BY <4>2, KeepsAlike
    <3> QED BY <2>3, <3>1 DEF HonestAt, Promises
  <2> QED BY <2>1, <2>2, <2>3 DEF HonestAt
<1>6. ASSUME NEW c \in Convs \ crossed' PROVE UnsavedAt(c)'
  <2>1. UnsavedAt(c) BY DEF StoreInv, UnsavedInv
  <2> QED BY <1>4, <2>1 DEF UnsavedAt
<1> QED BY <1>3, <1>5, <1>6 DEF HonestInv, UnsavedInv

\* One that touches neither the copy nor the request.
LEMMA StillStore ==
    ASSUME StoreInv, crossed \subseteq crossed', \A q \in Replicas : Alike(fol[q], fol'[q]),
           UNCHANGED <<copy, obj, hints, saves, req>>
    PROVE  SteadyInv' /\ HonestInv' /\ UnsavedInv'
<1>1. frames' = frames /\ row' = row /\ obj' = obj /\ hints' = hints /\ saves' = saves /\ req' = req BY DEF copy
<1>2. \A q \in Replicas, c \in Convs : Told(q, c)' = Told(q, c) BY <1>1 DEF Told
<1> QED BY <1>1, <1>2, HushedKeeps DEF StoreInv, UnsavedInv

LEMMA SameAlike ==
    ASSUME NEW f
    PROVE  Alike(f, f)
BY DEF Alike

LEMMA NotifyAlike ==
    ASSUME IInv, NEW c, NEW n, NEW b, Notify(c, n, b)
    PROVE  \A q \in Replicas : Alike(fol[q], fol'[q])
<1>1. \A q \in Replicas : fol[q] \in Follower BY DEF IInv, FolOK
<1>2. \A q \in Replicas : fol'[q] = fol[q] \/ fol'[q] = [fol[q] EXCEPT !.resync = TRUE] BY DEF Notify
<1> QED BY <1>1, <1>2, ResyncAlike

LEMMA MachineStores ==
    ASSUME StoreInv, MachineNext
    PROVE  SteadyInv' /\ HonestInv' /\ UnsavedInv'
<1>1. ASSUME NEW c \in Convs, Emit(c) PROVE SteadyInv' /\ HonestInv' /\ UnsavedInv'
  <2>1. Notify(c, log[c] + 1, left) /\ UNCHANGED <<copy, obj, hints, saves, req>> /\ crossed' = crossed
    BY <1>1 DEF Emit, ledger
  <2>2. \A q \in Replicas : Alike(fol[q], fol'[q]) BY <2>1, NotifyAlike DEF StoreInv
  <2> QED BY <2>1, <2>2, StillStore
<1>2. ASSUME NEW c \in Convs, Boundary(c) PROVE SteadyInv' /\ HonestInv' /\ UnsavedInv'
  <2>1. Notify(c, 0, [left EXCEPT !.turns = left.turns - 1]) /\ UNCHANGED <<copy, obj, hints, saves, req>>
        /\ crossed' = crossed
    BY <1>2 DEF Boundary, ledger
  <2>2. \A q \in Replicas : Alike(fol[q], fol'[q]) BY <2>1, NotifyAlike DEF StoreInv
  <2> QED BY <2>1, <2>2, StillStore
<1>3. ASSUME UNCHANGED <<gone, saves, todos, copy, lease, memory, pass, req, ledger>>
      PROVE  SteadyInv' /\ HonestInv' /\ UnsavedInv'
  BY <1>3, SameAlike, StillStore DEF memory, ledger
<1>4. ASSUME NEW c \in Convs, Wake(c) PROVE SteadyInv' /\ HonestInv' /\ UnsavedInv' BY <1>3, <1>4 DEF Wake
<1>5. CASE GoOffline BY <1>3, <1>5 DEF GoOffline
<1>6. ASSUME NEW S \in SUBSET Convs, Return(S) PROVE SteadyInv' /\ HonestInv' /\ UnsavedInv'
  BY <1>3, <1>6 DEF Return
<1> QED BY <1>1, <1>2, <1>4, <1>5, <1>6 DEF MachineNext

LEMMA SaveStores ==
    ASSUME StoreInv, NEW r \in Replicas, NEW c \in Convs, Save(r, c)
    PROVE  SteadyInv' /\ HonestInv' /\ UnsavedInv'
<1>1. /\ frames' = frames /\ row' = row /\ fol' = fol /\ obj' = obj /\ hints' = hints /\ crossed' = crossed
      /\ saves' = saves \cup {c} /\ req = NoReq /\ req'.step = "list"
  BY DEF Save, copy, memory
<1>2. \A q \in Replicas, d \in Convs : Told(q, d)' = Told(q, d) BY <1>1 DEF Told
<1> QED BY <1>1, <1>2, SameAlike, HushedKeeps DEF NoReq

LEMMA BeginListsStores ==
    ASSUME StoreInv, BeginLists
    PROVE  SteadyInv' /\ HonestInv' /\ UnsavedInv'
<1>1. /\ frames' = frames /\ row' = row /\ fol' = fol /\ obj' = obj /\ hints' = hints /\ crossed' = crossed
      /\ saves' = saves /\ req.step = "list" /\ req' = [req EXCEPT !.step = "follow", !.list = saves]
  BY DEF BeginLists, copy, memory, ledger
<1>2. \A q \in Replicas, d \in Convs : Told(q, d)' = Told(q, d) BY <1>1 DEF Told
<1>3. req \in Request BY DEF StoreInv, IInv, ReqOK
<1>4. req'.step = "follow" /\ req'.list = saves BY <1>1, <1>3 DEF Request
<1> QED BY <1>1, <1>2, <1>4, SameAlike, HushedKeeps

LEMMA DeleteStores ==
    ASSUME StoreInv, IInv', NEW r \in Replicas, NEW c \in Convs, Delete(r, c)
    PROVE  SteadyInv' /\ HonestInv' /\ UnsavedInv'
<1>1. /\ frames' = frames /\ row' = row /\ crossed' = crossed /\ saves' = saves /\ req = NoReq
      /\ req'.step = "frames"
  BY DEF Delete, copy, ledger
<1>2. fol \in [Replicas -> Follower] /\ fol' \in [Replicas -> Follower] BY DEF StoreInv, IInv, FolOK
<1>3. ASSUME Put(r, [fol[r] EXCEPT !.saved = fol[r].saved \ {c}]), PutObj(r, c, Forgotten(obj[r][c])), hints' = hints
      PROVE  SteadyInv' /\ HonestInv' /\ UnsavedInv'
  <2>1. Alike(fol[r], [fol[r] EXCEPT !.saved = fol[r].saved \ {c}]) BY <1>2 DEF Alike, Follower
  <2>2. \A q \in Replicas : Alike(fol[q], fol'[q]) BY <1>2, <1>3, <2>1, SameAlike DEF Put
  <2>3. \A q \in Replicas, d \in Convs : Told(q, d)' = Told(q, d) BY <1>3 DEF Told
  <2>4. \A q \in Replicas, d \in Convs : obj'[q][d] = obj[q][d] \/ obj'[q][d] = Forgotten(obj[q][d])
    BY <1>3, PutObjHere DEF StoreInv
  <2> QED BY <1>1, <2>2, <2>3, <2>4, HushedKeeps DEF NoReq
<1>4. ASSUME Publish("deleted", c, fol), obj' = obj PROVE SteadyInv' /\ HonestInv' /\ UnsavedInv'
  <2>1. ASSUME NEW q \in Replicas
        PROVE  /\ fol'[q] = fol[q] \/ fol'[q] = [fol[q] EXCEPT !.resync = TRUE]
               /\ \A d \in Convs : Told(q, d) => Told(q, d)'
    BY <1>2, <1>4, PublishTells DEF StoreInv
  <2>2. \A q \in Replicas : Alike(fol[q], fol'[q]) BY <1>2, <2>1, ResyncAlike
  <2> QED BY <1>1, <1>4, <2>1, <2>2, HushedKeeps DEF NoReq
<1> QED BY <1>3, <1>4 DEF Delete

\* purgeStoredCopy removes rows nobody writes, or of whom it is about to be told, or
\* is marked.
LEMMA PurgeStores ==
    ASSUME StoreInv, Purge
    PROVE  SteadyInv' /\ HonestInv' /\ UnsavedInv'
<1> DEFINE c == req.c
<1>1. /\ saves' = saves /\ fol' = fol /\ obj' = obj /\ hints' = hints
      /\ crossed' = crossed \cup If(Meets(c), c)
      /\ \/ /\ req.step = "frames" /\ frames' = [frames EXCEPT ![c] = {}] /\ row' = row
            /\ req' = [req EXCEPT !.step = "summary"]
         \/ /\ req.step = "summary" /\ row' = [row EXCEPT ![c] = NoRow] /\ frames' = frames
            /\ req' = [req EXCEPT !.step = "unsave"]
  BY DEF Purge, memory, Mark
<1>2. /\ req \in Request /\ c \in Convs /\ frames \in [Convs -> SUBSET Seqs]
      /\ row \in [Convs -> 0 .. MaxLog \cup {NoRow}]
  BY <1>1 DEF StoreInv, IInv, ReqOK, CopyOK
<1>3. /\ req'.c = c
      /\ req.step = "frames" => req'.step = "summary" /\ frames'[c] = {} /\ row' = row
      /\ req.step = "summary" => req'.step = "unsave" /\ row'[c] = NoRow /\ frames' = frames
      /\ \A d \in Convs : d # c => frames'[d] = frames[d] /\ row'[d] = row[d]
      /\ req.step \in {"frames", "summary"} /\ crossed \subseteq crossed'
  BY <1>1, <1>2 DEF Request
<1>4. SteadyInv' BY <1>1 DEF StoreInv, SteadyInv
<1>5. \A q \in Replicas, d \in Convs :
         /\ Told(q, d)' = Told(q, d) /\ Holds(q, d)' = Holds(q, d)
         /\ Clearing(q, d)' = Clearing(q, d) /\ Unheard(q, d)' = Unheard(q, d)
  BY <1>1 DEF Told, Holds, Clearing, Unheard
<1>6. \A q \in Replicas, d \in Convs : Unheard(q, d) => Told(q, d) \/ Clearing(q, d)
  BY DEF Unheard, Clearing
<1>7. ASSUME NEW d \in Convs \ crossed', d # c PROVE HonestAt(d)' /\ UnsavedAt(d)'
  <2>1. HonestAt(d) /\ UnsavedAt(d) BY <1>3 DEF StoreInv, HonestInv, UnsavedInv
  <2>2. frames'[d] = frames[d] /\ row'[d] = row[d] BY <1>3, <1>7
  <2>3. req.c # d /\ req'.c # d BY <1>3, <1>7
  <2>4. UnsavedAt(d)' BY <1>1, <1>5, <2>1, <2>2, <2>3 DEF UnsavedAt
  <2>5. Promises(d) => Promises(d)' BY <1>1, <2>2 DEF Promises
  <2>6. Underway(d) => Underway(d)' BY <1>1, <1>5, <2>3 DEF Underway
  <2> QED BY <2>1, <2>4, <2>5, <2>6 DEF HonestAt
<1>8. ASSUME NEW d \in Convs \ crossed', d = c PROVE HonestAt(d)' /\ UnsavedAt(d)'
  <2>1. \A q \in Replicas : Holds(q, d) => Told(q, d) BY <1>1, <1>8 DEF If, Meets
  <2>2. UnsavedAt(d) BY <1>3 DEF StoreInv, UnsavedInv
  <2>3. \A q \in Replicas : Holds(q, d)' => Unheard(q, d)' BY <1>5, <2>1 DEF Unheard
  <2>4. CASE req.step = "frames"
    <3>1. req'.c = d /\ req'.step = "summary" /\ frames'[d] = {} /\ row'[d] = row[d]
      BY <1>3, <1>8, <2>4
    <3>2. HonestAt(d)' BY <3>1 DEF HonestAt, Underway
    <3>3. UnsavedAt(d)' BY <1>1, <1>5, <2>2, <2>3, <3>1 DEF UnsavedAt
    <3> QED BY <3>2, <3>3
  <2>5. CASE req.step = "summary"
    <3>1. req'.c = d /\ req'.step = "unsave" /\ row'[d] = NoRow /\ frames'[d] = frames[d]
      BY <1>3, <1>8, <2>5
    <3>2. HonestAt(d)'
      <4>1. ASSUME ~Underway(d)' PROVE Promises(d)'
        <5>1. \A q \in Replicas : ~Holds(q, d) BY <1>5, <2>1, <4>1 DEF Underway
        <5>2. \A q \in Replicas : Keeps(fol[q], obj[q][d], d, frames[d]) BY <5>1, IdleKeeps
        <5>3. 1 .. row'[d] = {} BY <3>1 DEF NoRow
        <5> QED BY <1>1, <3>1, <5>2, <5>3 DEF Promises
      <4> QED BY <4>1 DEF HonestAt
    <3>3. UnsavedAt(d)'
      <4>1. frames[d] # {} => \E q \in Replicas : Unheard(q, d) BY <1>8, <2>2, <2>5 DEF UnsavedAt
      <4> QED BY <1>5, <2>3, <3>1, <4>1 DEF UnsavedAt
    <3> QED BY <3>2, <3>3
  <2> QED BY <1>3, <2>4, <2>5
<1>9. req'.step # "follow" BY <1>3
<1> QED BY <1>4, <1>7, <1>8, <1>9 DEF HonestInv, UnsavedInv

LEMMA UnsaveStores ==
    ASSUME StoreInv, Unsave
    PROVE  SteadyInv' /\ HonestInv' /\ UnsavedInv'
<1>1. /\ frames' = frames /\ row' = row /\ fol' = fol /\ obj' = obj /\ hints' = hints /\ crossed' = crossed
      /\ saves' = saves \ {req.c} /\ req.step = "unsave" /\ req' = [req EXCEPT !.step = "machine"]
  BY DEF Unsave, copy, memory, ledger
<1>2. \A q \in Replicas, d \in Convs : Told(q, d)' = Told(q, d) BY <1>1 DEF Told
<1>3. req \in Request BY DEF StoreInv, IInv, ReqOK
<1>4. req'.step = "machine" BY <1>1, <1>3 DEF Request
<1> QED BY <1>1, <1>2, <1>4, SameAlike, HushedKeeps

LEMMA RequestFailsStores ==
    ASSUME StoreInv, RequestFails
    PROVE  SteadyInv' /\ HonestInv' /\ UnsavedInv'
<1> DEFINE c == req.c
<1>1. fol' = fol /\ obj' = obj /\ hints' = hints /\ req' = NoReq BY DEF RequestFails, memory
<1>2. \A q \in Replicas, d \in Convs : Told(q, d)' = Told(q, d) BY <1>1 DEF Told
<1>3. /\ crossed \subseteq crossed'
      /\ \A d \in Convs \ crossed' :
            /\ frames'[d] = frames[d] /\ row'[d] = row[d]
            /\ ~(req.c = d /\ req.step = "summary")
            /\ d \notin saves' => d \notin saves \/ (req.c = d /\ req.step = "unsave")
  <2>1. frames \in [Convs -> SUBSET Seqs] /\ row \in [Convs -> 0 .. MaxLog \cup {NoRow}]
    BY DEF StoreInv, IInv, CopyOK
  <2>2. CASE req.step = "list" /\ UNCHANGED <<saves, copy, ledger>> BY <2>2 DEF copy, ledger
  <2>3. CASE /\ req.step = "frames" /\ \E S \in SUBSET frames[c] : frames' = [frames EXCEPT ![c] = S]
             /\ Mark({c}) /\ UNCHANGED <<saves, row>>
    BY <2>1, <2>3 DEF Mark
  <2>4. CASE /\ req.step = "summary" /\ row' \in {row, [row EXCEPT ![c] = NoRow]}
             /\ Mark({c}) /\ UNCHANGED <<saves, frames>>
    BY <2>1, <2>4 DEF Mark
  <2>5. CASE req.step = "unsave" /\ saves' \in {saves, saves \ {c}} /\ UNCHANGED <<copy, ledger>>
    BY <2>5 DEF copy, ledger
  <2> QED BY <2>2, <2>3, <2>4, <2>5 DEF RequestFails
<1> QED BY <1>1, <1>2, <1>3, SameAlike, HushedKeeps DEF NoReq

LEMMA DeleteOnMachineStores ==
    ASSUME StoreInv, DeleteOnMachine
    PROVE  SteadyInv' /\ HonestInv' /\ UnsavedInv'
<1>1. /\ frames' = frames /\ row' = row /\ fol' = fol /\ obj' = obj /\ hints' = hints /\ crossed' = crossed
      /\ saves' = saves /\ req' = NoReq /\ req.step = "machine"
  BY DEF DeleteOnMachine, copy, memory
<1>2. \A q \in Replicas, d \in Convs : Told(q, d)' = Told(q, d) BY <1>1 DEF Told
<1> QED BY <1>1, <1>2, SameAlike, HushedKeeps DEF NoReq

\* Supervisor.Follow: what a follower learns to follow is still saved, or marked.
LEMMA FollowStores ==
    ASSUME StoreInv, NEW r \in Replicas, NEW list \in SUBSET Convs, NEW a, Follow(r, list, a), Requested,
           UNCHANGED <<copy, obj, hints>>,
           \A c \in list : c \in crossed' \/ (c \in saves /\ ~Deleting(c))
    PROVE  SteadyInv' /\ HonestInv' /\ UnsavedInv'
<1> DEFINE x == [fol[r] EXCEPT !.resync = fol[r].resync \/ fol[r].saved # list, !.saved = list]
           y == [Off EXCEPT !.pc = "claim", !.job = "start", !.saved = list, !.ask = a]
<1>1. fol[r] \in Follower /\ Steady(fol[r], obj[r]) BY DEF StoreInv, IInv, FolOK, SteadyInv
<1>2. x.pc = fol[r].pc /\ x.cur = fol[r].cur /\ x.job = fol[r].job /\ x.todo = fol[r].todo
      /\ x.page = fol[r].page /\ x.stored = fol[r].stored /\ x.saved = list
  BY <1>1 DEF Follower
<1>3. y.pc = "claim" /\ y.cur = NoConv /\ y.job = "start" /\ y.todo = {} /\ y.saved = list BY DEF Off
<1>4. Put(r, x) \/ (fol[r].pc = "off" /\ Put(r, y)) BY DEF Follow
<1> HIDE DEF x, y
<1>5. frames' = frames /\ row' = row /\ obj' = obj /\ hints' = hints BY DEF copy
<1>6. \A c \in Convs : c # NoConv BY MirrorAssumption
<1>7. ASSUME NEW g, Put(r, g), g.saved = list, Steady(g, obj[r]),
             fol[r].pc \in {"clear", "clearRow", "rewrite"} => g.pc = fol[r].pc /\ g.cur = fol[r].cur,
             \A c \in Convs : /\ Keeps(fol[r], obj[r][c], c, frames[c]) => Keeps(g, obj[r][c], c, frames[c])
                              /\ c \in g.todo \/ (g.cur = c /\ g.pc \notin {"clear", "clearRow"}) => Holds(r, c)
      PROVE  SteadyInv' /\ HonestInv' /\ UnsavedInv'
  <2>1. Others(r) /\ fol'[r] = g BY <1>5, <1>7, PutOthers DEF StoreInv
  <2>2. ASSUME NEW c \in Convs \ crossed' PROVE Mild(r, c)
    <3>1. Holds(r, c)' => Holds(r, c) \/ (c \in saves /\ ~Deleting(c))
      BY <1>5, <1>7, <2>1 DEF Holds, Clearing
    <3>2. Told(r, c) => Told(r, c)' BY <1>5 DEF Told
    <3> QED BY <1>5, <1>7, <2>1, <3>1, <3>2 DEF Mild, Unheard, Promises
  <2> QED BY <1>5, <1>7, <2>1, <2>2, MildKeeps
<1>8. CASE Put(r, x)
  <2>1. Steady(x, obj[r]) BY <1>1, <1>2 DEF Steady
  <2>2. ASSUME NEW c \in Convs
        PROVE  /\ Keeps(fol[r], obj[r][c], c, frames[c]) => Keeps(x, obj[r][c], c, frames[c])
               /\ c \in x.todo \/ (x.cur = c /\ x.pc \notin {"clear", "clearRow"}) => Holds(r, c)
    BY <1>2 DEF Keeps, Holds, Clearing
  <2> QED BY <1>2, <1>7, <1>8, <2>1, <2>2
<1>9. CASE fol[r].pc = "off" /\ Put(r, y)
  <2>1. Steady(y, obj[r]) BY <1>3 DEF Steady, InHand
  <2>2. ASSUME NEW c \in Convs
        PROVE  /\ Keeps(fol[r], obj[r][c], c, frames[c]) => Keeps(y, obj[r][c], c, frames[c])
               /\ c \in y.todo \/ (y.cur = c /\ y.pc \notin {"clear", "clearRow"}) => Holds(r, c)
    BY <1>3, <1>6, KeepsLess
  <2> QED BY <1>3, <1>7, <1>9, <2>1, <2>2
<1> QED BY <1>4, <1>8, <1>9

LEMMA BeginFollowsStores ==
    ASSUME StoreInv, BeginFollows
    PROVE  SteadyInv' /\ HonestInv' /\ UnsavedInv'
<1>1. req.at \in Replicas /\ req.list \in SUBSET Convs BY DEF StoreInv, IInv, ReqOK, Request, BeginFollows
<1>2. /\ req.step = "follow" /\ req' = NoReq /\ Follow(req.at, req.list, req.c) /\ saves' = saves
      /\ crossed' = crossed /\ UNCHANGED <<copy, obj, hints>>
  BY DEF BeginFollows, ledger
<1>3. Requested BY <1>2 DEF Requested
<1>4. \A c \in req.list : c \in saves /\ ~Deleting(c) BY <1>2 DEF StoreInv, UnsavedInv, Deleting
<1> QED BY <1>1, <1>2, <1>3, <1>4, FollowStores

LEMMA RequestStores ==
    ASSUME StoreInv, IInv', RequestNext
    PROVE  SteadyInv' /\ HonestInv' /\ UnsavedInv'
BY SaveStores, DeleteStores, BeginListsStores, BeginFollowsStores, PurgeStores, UnsaveStores,
   RequestFailsStores, DeleteOnMachineStores DEF RequestNext

LEMMA CronStores ==
    ASSUME StoreInv, CronNext
    PROVE  SteadyInv' /\ HonestInv' /\ UnsavedInv'
<1>1. ASSUME UNCHANGED <<saves, copy, memory, req>>, crossed \subseteq crossed'
      PROVE  SteadyInv' /\ HonestInv' /\ UnsavedInv'
  BY <1>1, SameAlike, StillStore DEF memory
<1>2. ASSUME NEW r \in Replicas, ReconcileLists(r) \/ FindEmpty(r) \/ ReplayLists(r)
      PROVE  SteadyInv' /\ HonestInv' /\ UnsavedInv'
  BY <1>1, <1>2 DEF ReconcileLists, FindEmpty, ReplayLists, ledger
<1>3. CASE ReplayEnds BY <1>1, <1>3 DEF ReplayEnds, ledger
<1>4. CASE ReplayClears BY <1>1, <1>4 DEF ReplayClears, Mark
<1>5. ASSUME NEW c \in Convs, Replay(c) PROVE SteadyInv' /\ HonestInv' /\ UnsavedInv'
  BY <1>1, <1>5 DEF Replay, ledger
<1>6. CASE Unfollow
  <2>1. pass.at \in Replicas BY <1>6 DEF StoreInv, IInv, PassOK, Unfollow
  <2>2. fol \in [Replicas -> Follower] BY DEF StoreInv, IInv, FolOK
  <2>3. Alike(fol[pass.at], [fol[pass.at] EXCEPT !.closed = TRUE]) BY <2>1, <2>2 DEF Alike, Follower
  <2>4. /\ Put(pass.at, [fol[pass.at] EXCEPT !.closed = TRUE]) \/ Put(pass.at, fol[pass.at])
        /\ UNCHANGED <<copy, obj, hints, saves, req>> /\ crossed' = crossed
    BY <1>6 DEF Unfollow, ledger
  <2>5. \A q \in Replicas : Alike(fol[q], fol'[q]) BY <2>1, <2>2, <2>3, <2>4, SameAlike DEF Put
  <2> QED BY <2>4, <2>5, StillStore
<1>7. CASE ReconcileFollows
  <2>1. pass.at \in Replicas /\ pass.list \in SUBSET Convs
    BY <1>7 DEF StoreInv, IInv, PassOK, Pass, ReconcileFollows
  <2>2. /\ Follow(pass.at, pass.list, NoConv) /\ saves' = saves /\ req' = req
        /\ crossed' = crossed \cup Outdated(pass.list) /\ UNCHANGED <<copy, obj, hints>>
    BY <1>7 DEF ReconcileFollows, Mark
  <2>3. Requested BY <2>2 DEF Requested
  <2>4. \A c \in pass.list : c \in crossed' \/ (c \in saves /\ ~Deleting(c)) BY <2>2 DEF Outdated
  <2> QED BY <2>1, <2>2, <2>3, <2>4, FollowStores
<1> QED BY <1>2, <1>3, <1>4, <1>5, <1>6, <1>7 DEF CronNext

-----------------------------------------------------------------------------
(* The copy keeps its word.                                                *)

LEMMA StoreInit == ASSUME Init PROVE StoreInv
<1>1. IInv BY InitHolds
<1>2. SteadyInv BY OffNothing DEF Init, SteadyInv, Steady, InHand
<1>3. \A r \in Replicas, c \in Convs : ~Holds(r, c)
  <2>1. \A c \in Convs : c # NoConv BY MirrorAssumption
  <2> QED BY <2>1, OffNothing DEF Init, Holds, Untracked
<1>4. \A c \in Convs : row[c] = NoRow /\ frames[c] = {} BY DEF Init
<1>5. HonestInv
  <2>1. \A r \in Replicas, c \in Convs : Keeps(fol[r], obj[r][c], c, frames[c]) BY <1>3, IdleKeeps
  <2>2. \A c \in Convs : 1 .. row[c] = {} BY <1>4 DEF NoRow
  <2> QED BY <2>1, <2>2 DEF HonestInv, HonestAt, Promises
<1>6. UnsavedInv BY <1>3, <1>4 DEF UnsavedInv, UnsavedAt, Init, NoReq
<1> QED BY <1>1, <1>2, <1>5, <1>6 DEF StoreInv

LEMMA StoreNext == ASSUME StoreInv, [MirrorNext]_vars PROVE StoreInv'
<1>1. IInv' BY NextKeeps DEF StoreInv
<1>2. CASE UNCHANGED vars
  <2>1. UNCHANGED <<copy, obj, hints, saves, req>> /\ crossed' = crossed /\ fol' = fol
    BY <1>2 DEF vars, memory, ledger
  <2> QED BY <1>1, <2>1, SameAlike, StillStore DEF StoreInv
<1>3. CASE Expire
  <2>1. UNCHANGED <<copy, obj, hints, saves, req>> /\ crossed' = crossed /\ fol' = fol
    BY <1>3 DEF Expire, memory
  <2> QED BY <1>1, <2>1, SameAlike, StillStore DEF StoreInv
<1>4. CASE MirrorNext
  <2>1. SteadyInv' /\ HonestInv' /\ UnsavedInv'
    BY <1>1, <1>3, <1>4, MachineStores, RequestStores, CronStores, FollowerStores, CrashStores
       DEF MirrorNext, StoreInv
  <2> QED BY <1>1, <2>1 DEF StoreInv
<1> QED BY <1>2, <1>4

\* The cursor a summary stores stands on the frames before it (mirror.go, debounce.go), for
\* any replicas, conversations, bounds and failures: a hole is never left behind the place
\* the mirror starts from, but for the conversations whose copy was crossed.
THEOREM CursorsAreHonest == MirrorSpec => []StoredHonest
<1>1. StoreInv => StoredHonest
  BY DEF StoreInv, HonestInv, HonestAt, Promises, StoredHonest
<1>2. Init => StoreInv BY StoreInit
<1>3. StoreInv /\ [MirrorNext]_vars => StoreInv' BY StoreNext
<1> QED BY <1>1, <1>2, <1>3, PTL DEF MirrorSpec

\* What was never saved, or was deleted, leaves no word on the server, but for rows a
\* replica is about to clear (decision 2; sessions.go, hint.go).
THEOREM NothingUnsavedIsKept == MirrorSpec => []NothingUnsaved
<1>1. StoreInv => NothingUnsaved
  BY DEF StoreInv, UnsavedInv, UnsavedAt, NothingUnsaved, Unheard, Clearing
<1>2. Init => StoreInv BY StoreInit
<1>3. StoreInv /\ [MirrorNext]_vars => StoreInv' BY StoreNext
<1> QED BY <1>1, <1>2, <1>3, PTL DEF MirrorSpec

=============================================================================
