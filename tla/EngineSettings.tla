--------------------------- MODULE EngineSettings ---------------------------
(* The engines of the account as the settings page writes them (frontend lib/enginePorts,
   lib/cliModels): backends, each bound to a machine, whose gateway token is kept by that
   machine only; the models of a provider; scans of a machine for its tools; the models a
   tool offers. A row is written to the account and its token to the machine afterwards: a
   token that cannot be written takes the row back.                              *)
EXTENDS Integers, FiniteSets

CONSTANTS Boxes,       \* machines
          Backs,       \* backends: numbers, taken in turn
          Models,      \* models of the provider
          Askers,      \* dialogs that scan
          EngineStarts \* bound: what is there at first and what may happen in a run

ASSUME BacksAssumption == Backs \subseteq Nat \ {0}

VARIABLES up,       \* the machines online
          store,    \* (external) the backends of the account
          vault,    \* (external) the tokens each machine keeps, by backend
          cached,   \* backendDTOs
          edit,     \* the save or deletion in progress
          provider, \* (external) the provider: its models and its default
          known,    \* providerDTOs
          modelWrites,   \* writes of one model in flight
          scans, askers,  \* deviceScans (how many run, per machine); who waits for one
          catalogs, offers, \* the cache of listCLIModelsOn; what callers were given
          eleft     \* what is left of the bounds

engineVars == <<up, store, vault, cached, edit, provider, known, modelWrites, scans, askers,
                catalogs, offers, eleft>>
backVars == <<store, vault, cached, edit>>
modelVars == <<provider, known, modelWrites>>
scanVars == <<scans, askers>>
cliVars == <<catalogs, offers>>

Take(b) == eleft[b] > 0 /\ eleft' = [eleft EXCEPT ![b] = @ - 1]

Nowhere == "none"
NoRow == [there |-> FALSE, kind |-> "claw", box |-> Nowhere, ver |-> 0]
NoEdit == [at |-> "idle", op |-> "none", b |-> 0, row |-> NoRow, tok |-> 0, before |-> NoRow,
           previous |-> NoRow, crossed |-> FALSE, last |-> "none"]
NoScan == [at |-> "idle", box |-> Nowhere, have |-> FALSE]
FreeBacks == {b \in Backs : ~store[b].there /\ edit.b # b}
NextBack == CHOOSE b \in FreeBacks : \A c \in FreeBacks : b <= c

EngineInit ==
    \E s \in EngineStarts :
        /\ up = s.up /\ store = s.store /\ cached = s.store
        /\ vault = [x \in Boxes |-> [b \in Backs |->
                      IF s.store[b].there /\ s.store[b].kind = "claw" /\ s.store[b].box = x
                      THEN 1 ELSE 0]]
        /\ edit = NoEdit
        /\ provider = [of |-> [m \in Models |-> IF m \in s.models THEN "on" ELSE "none"],
                       star |-> Nowhere]
        /\ known = provider /\ modelWrites = {}
        /\ scans = [x \in Boxes |-> 0] /\ askers = [a \in Askers |-> NoScan]
        /\ catalogs = [b \in Backs |-> [config |-> -1, of |-> -1]]
        /\ offers = {}
        /\ eleft = s.left

-----------------------------------------------------------------------------
(* Saving and deleting a backend.                                            *)

BoxTurns(x) ==
    /\ Take("turn")
    /\ up' = IF x \in up THEN up \ {x} ELSE up \cup {x}
    /\ UNCHANGED <<backVars, modelVars, scanVars, cliVars>>

\* Another page of the account: the cache of this one does not hear of it.
ChangedAway(b) ==
    /\ store[b].there /\ Take("away")
    /\ \/ store' = [store EXCEPT ![b].ver = @ + 10]
       \/ store' = [store EXCEPT ![b] = NoRow]
    /\ edit' = [edit EXCEPT !.crossed = @ \/ edit.b = b]
    /\ UNCHANGED <<up, vault, cached, modelVars, scanVars, cliVars>>

\* listBackends.
ListBackends ==
    /\ edit.at = "idle" /\ cached # store /\ Take("list")
    /\ cached' = store
    /\ UNCHANGED <<up, store, vault, edit, modelVars, scanVars, cliVars>>

\* createOpenClawBackend, updateOpenClawBackend: tok is 0 where no token was typed.
ClearToken == -1
TokenLeft(tok) == IF tok = ClearToken THEN 0 ELSE tok

SaveNew(x, tok) ==
    /\ edit.at = "idle" /\ FreeBacks # {} /\ Take("edit")
    /\ edit' = [NoEdit EXCEPT !.at = "write", !.op = "create", !.b = NextBack, !.tok = tok,
                              !.row = [there |-> TRUE, kind |-> "claw", box |-> x, ver |-> 1]]
    /\ UNCHANGED <<up, store, vault, cached, modelVars, scanVars, cliVars>>

SaveOld(b, x, tok) ==
    /\ edit.at = "idle" /\ cached[b].there /\ cached[b].kind = "claw" /\ Take("edit")
    /\ edit' = [NoEdit EXCEPT !.at = "write", !.op = "update", !.b = b, !.tok = tok,
                              !.row = [cached[b] EXCEPT !.box = x, !.ver = @ + 1],
                              !.before = store[b], !.previous = cached[b],
                              !.crossed = store[b] # cached[b]]
    /\ UNCHANGED <<up, store, vault, cached, modelVars, scanVars, cliVars>>

EditOver(how) == edit' = [NoEdit EXCEPT !.last = how]

\* The row is written: accepted, refused (the backend is gone) or unheard of.
RowWritten ==
    /\ edit.at = "write" /\ edit.op # "delete"
    /\ \/ /\ edit.op = "create" \/ store[edit.b].there
          /\ store' = [store EXCEPT ![edit.b] = edit.row]
          /\ \/ cached' = store' /\ edit' = [edit EXCEPT !.at = "refresh"] /\ UNCHANGED eleft
             \/ Take("fault") /\ EditOver("failed") /\ UNCHANGED cached
       \/ /\ edit.op = "update" /\ ~store[edit.b].there
          /\ EditOver("failed") /\ UNCHANGED <<store, cached, eleft>>
       \/ Take("fault") /\ EditOver("failed") /\ UNCHANGED <<store, cached>>
    /\ UNCHANGED <<up, vault, modelVars, scanVars, cliVars>>

\* fetchProviders and loadDevices, for the view of the row: outside of what is undone.
Refreshed ==
    /\ edit.at = "refresh"
    /\ \/ edit.tok # 0 /\ edit' = [edit EXCEPT !.at = "device"] /\ UNCHANGED eleft
       \/ edit.tok = 0 /\ EditOver("saved") /\ UNCHANGED eleft
       \/ Take("fault") /\ EditOver("unseen")
    /\ UNCHANGED <<up, store, vault, cached, modelVars, scanVars, cliVars>>

\* executionDevice.
DeviceFound ==
    /\ edit.at = "device"
    /\ \/ edit.row.box \in up /\ edit' = [edit EXCEPT !.at = "token"] /\ UNCHANGED eleft
       \/ edit.row.box \notin up /\ edit' = [edit EXCEPT !.at = "undo"] /\ UNCHANGED eleft
       \/ Take("fault") /\ edit' = [edit EXCEPT !.at = "undo"]
    /\ UNCHANGED <<up, store, vault, cached, modelVars, scanVars, cliVars>>

TokenKeptHopeful ==
    /\ edit.at = "token"
    /\ EditOver("saved")
    /\ \/ vault' = [vault EXCEPT ![edit.row.box][edit.b] = TokenLeft(edit.tok)] /\ UNCHANGED eleft
       \/ Take("fault") /\ UNCHANGED vault
    /\ UNCHANGED <<up, store, cached, modelVars, scanVars, cliVars>>

\* saveOpenClawToken: what is not answered may have been kept.
TokenKept ==
    /\ edit.at = "token"
    /\ \/ /\ vault' = [vault EXCEPT ![edit.row.box][edit.b] = TokenLeft(edit.tok)]
          /\ EditOver("saved") /\ UNCHANGED eleft
       \/ /\ Take("fault") /\ edit' = [edit EXCEPT !.at = "undo"]
          /\ vault' \in {vault, [vault EXCEPT ![edit.row.box][edit.b] = TokenLeft(edit.tok)]}
    /\ UNCHANGED <<up, store, cached, modelVars, scanVars, cliVars>>

\* deleteBackendRow, or revertBackendRow to the row as this page had it.
BackWithoutConfig ==
    IF edit.op = "create" THEN NoRow ELSE [edit.row EXCEPT !.box = edit.previous.box]

Back == IF edit.op = "create" THEN NoRow ELSE edit.previous

Undone ==
    /\ edit.at = "undo"
    /\ \/ /\ store' = [store EXCEPT ![edit.b] = IF @.there THEN Back ELSE @]
          /\ cached' = [cached EXCEPT ![edit.b] = store'[edit.b]]
          /\ EditOver("undone") /\ UNCHANGED eleft
       \/ Take("fault") /\ EditOver("stuck") /\ UNCHANGED <<store, cached>>
    /\ UNCHANGED <<up, vault, modelVars, scanVars, cliVars>>

\* deleteBackend: the row first; the token as far as the machine can be reached.
DeleteOld(b) ==
    /\ edit.at = "idle" /\ cached[b].there /\ Take("edit")
    /\ edit' = [NoEdit EXCEPT !.at = "write", !.op = "delete", !.b = b, !.row = cached[b],
                              !.before = store[b], !.crossed = store[b] # cached[b]]
    /\ UNCHANGED <<up, store, vault, cached, modelVars, scanVars, cliVars>>

RowDeleted ==
    /\ edit.at = "write" /\ edit.op = "delete"
    /\ \/ /\ store' = [store EXCEPT ![edit.b] = NoRow]
          /\ \/ /\ cached' = [cached EXCEPT ![edit.b] = NoRow] /\ UNCHANGED eleft
                /\ edit' = [edit EXCEPT !.at = IF edit.row.kind = "claw" THEN "clear" ELSE "idle",
                                        !.last = "saved", !.b = IF edit.row.kind = "claw" THEN @ ELSE 0]
             \/ Take("fault") /\ EditOver("failed") /\ UNCHANGED cached
       \/ Take("fault") /\ EditOver("failed") /\ UNCHANGED <<store, cached>>
    /\ UNCHANGED <<up, vault, modelVars, scanVars, cliVars>>

\* clearBoundDeviceCredential.
TokenClearedAlways ==
    /\ edit.at = "clear" /\ edit.row.box \in up
    /\ vault' = [vault EXCEPT ![edit.row.box][edit.b] = 0]
    /\ EditOver("saved")
    /\ UNCHANGED <<up, store, cached, modelVars, scanVars, cliVars, eleft>>

TokenCleared ==
    /\ edit.at = "clear"
    /\ \/ /\ edit.row.box \in up /\ UNCHANGED eleft
          /\ vault' = [vault EXCEPT ![edit.row.box][edit.b] = 0]
       \/ edit.row.box \notin up /\ UNCHANGED <<vault, eleft>>
       \/ Take("fault") /\ UNCHANGED vault
    /\ EditOver("saved")
    /\ UNCHANGED <<up, store, cached, modelVars, scanVars, cliVars>>

-----------------------------------------------------------------------------
(* Models: each write carries one model and its answer is the whole provider. *)

Verbs == {"add", "on", "off", "drop", "star"}
\* What the page lets one do is judged by the provider it knows; bound: one write of a model
\* at a time.
WriteModel(op, m) ==
    /\ Take("model") /\ (op = "add") = (known.of[m] = "none")
    /\ \A w \in modelWrites : w.m # m
    /\ modelWrites' = modelWrites \cup {[op |-> op, m |-> m, got |-> FALSE, list |-> known]}
    /\ UNCHANGED <<up, backVars, provider, known, scanVars, cliVars>>

WholeProvider(w, list) ==
    [known EXCEPT !.of[w.m] = CASE w.op \in {"add", "on"} -> "on" [] w.op = "off" -> "off"
                                [] w.op = "drop" -> "none" [] OTHER -> @]
OneModel(w, list) ==
    IF w.op # "add" /\ list.of[w.m] = "none" THEN list
    ELSE IF w.op = "star" THEN [list EXCEPT !.star = w.m]
    ELSE [list EXCEPT !.of[w.m] = CASE w.op \in {"add", "on"} -> "on" [] w.op = "off" -> "off"
                                    [] OTHER -> "none"]

ModelServed(w) ==
    /\ ~w.got
    /\ provider' = OneModel(w, provider)
    /\ modelWrites' = (modelWrites \ {w}) \cup {[w EXCEPT !.got = TRUE, !.list = provider']}
    /\ UNCHANGED <<up, backVars, known, scanVars, cliVars, eleft>>

\* Answers are applied as they come; one that is lost leaves what is known.
ModelAnswered(w) ==
    /\ w.got
    /\ modelWrites' = modelWrites \ {w}
    /\ \/ known' = w.list /\ UNCHANGED eleft
       \/ Take("fault") /\ UNCHANGED known
    /\ UNCHANGED <<up, backVars, provider, scanVars, cliVars>>

ModelElsewhere(m) ==
    /\ Take("away")
    /\ provider' = [provider EXCEPT !.of[m] = IF @ = "on" THEN "off" ELSE "on"]
    /\ UNCHANGED <<up, backVars, known, modelWrites, scanVars, cliVars>>

-----------------------------------------------------------------------------
(* Scans.                                                                    *)

\* scanDevice: whoever asks while one runs waits for that one.
JoinScanAlways(x) == scans' = [scans EXCEPT ![x] = @ + 1]
JoinScan(x) == scans' = [scans EXCEPT ![x] = IF @ > 0 THEN @ ELSE 1]

AskScan(a, x) ==
    /\ askers[a].at = "idle" /\ Take("scan")
    /\ askers' = [askers EXCEPT ![a] = [at |-> "scan", box |-> x, have |-> FALSE]]
    /\ JoinScan(x)
    /\ UNCHANGED <<up, backVars, modelVars, cliVars>>

ScanEnds(x) ==
    /\ scans[x] > 0
    /\ scans' = [scans EXCEPT ![x] = 0]
    /\ \E ok \in BOOLEAN :
          /\ IF ok THEN x \in up /\ UNCHANGED eleft
             ELSE (x \notin up /\ UNCHANGED eleft) \/ Take("fault")
          /\ askers' = [a \in Askers |-> IF askers[a].at # "scan" \/ askers[a].box # x THEN askers[a]
                                         ELSE IF ok THEN [askers[a] EXCEPT !.at = "list"] ELSE NoScan]
    /\ UNCHANGED <<up, backVars, modelVars, cliVars>>

HasTool(x) == \E b \in Backs : store[b].there /\ store[b].kind = "cli" /\ store[b].box = x

\* scanBackendResults: what the machine has and the account has not is created.
ScanListed(a) ==
    /\ askers[a].at = "list"
    /\ \/ /\ cached' = store /\ UNCHANGED eleft
          /\ askers' = [askers EXCEPT ![a] = IF HasTool(@.box) THEN NoScan ELSE [@ EXCEPT !.at = "create"]]
       \/ Take("fault") /\ askers' = [askers EXCEPT ![a] = NoScan] /\ UNCHANGED cached
    /\ UNCHANGED <<up, store, vault, edit, modelVars, scans, cliVars>>

ScanCreates(a) ==
    /\ askers[a].at = "create" /\ askers' = [askers EXCEPT ![a] = NoScan]
    /\ \/ /\ FreeBacks # {} /\ UNCHANGED eleft
          /\ store' = [store EXCEPT ![NextBack] = [there |-> TRUE, kind |-> "cli",
                                                   box |-> askers[a].box, ver |-> 1]]
          /\ cached' = [cached EXCEPT ![NextBack] = store'[NextBack]]
       \/ FreeBacks = {} /\ UNCHANGED <<store, cached, eleft>>
       \/ Take("fault") /\ UNCHANGED <<store, cached>>
    /\ UNCHANGED <<up, vault, edit, modelVars, scans, cliVars>>

-----------------------------------------------------------------------------
(* The models of a tool.                                                     *)

HitOfBackend(b) == catalogs[b].config # -1
Hit(b) == catalogs[b].config = cached[b].ver

\* listCLIModels: the machine must be online, cached or not; a hit is of the same
\* configuration, which the request carries.
AskOffer(b, refresh) ==
    /\ cached[b].there /\ cached[b].box \in up /\ Take("offer")
    /\ offers' = offers \cup {[b |-> b, want |-> cached[b].ver, at |-> IF ~refresh /\ Hit(b) THEN "done" ELSE "asked",
                               of |-> IF ~refresh /\ Hit(b) THEN catalogs[b].of ELSE -1]}
    /\ UNCHANGED <<up, backVars, modelVars, scanVars, catalogs>>

OfferArrives(o) ==
    /\ o.at = "asked" /\ cached[o.b].box \in up
    /\ offers' = (offers \ {o}) \cup {[o EXCEPT !.at = "done", !.of = o.want]}
    /\ catalogs' = [catalogs EXCEPT ![o.b] = [config |-> o.want, of |-> o.want]]
    /\ UNCHANGED <<up, backVars, modelVars, scanVars, eleft>>

OfferFails(o) ==
    /\ o.at = "asked" /\ (cached[o.b].box \notin up)
    /\ offers' = offers \ {o}
    /\ UNCHANGED <<up, backVars, modelVars, scanVars, catalogs, eleft>>

EngineNext ==
    \/ \E x \in Boxes : BoxTurns(x) \/ ScanEnds(x) \/ (\E a \in Askers : AskScan(a, x))
                        \/ (\E t \in {0, 2} : SaveNew(x, t))
                        \/ (\E b \in Backs, t \in {0, 2, ClearToken} : SaveOld(b, x, t))
    \/ \E b \in Backs : ChangedAway(b) \/ DeleteOld(b) \/ (\E r \in BOOLEAN : AskOffer(b, r))
    \/ ListBackends \/ RowWritten \/ Refreshed \/ DeviceFound \/ TokenKept \/ Undone
    \/ RowDeleted \/ TokenCleared
    \/ \E m \in Models : ModelElsewhere(m) \/ (\E op \in Verbs : WriteModel(op, m))
    \/ \E w \in modelWrites : ModelServed(w) \/ ModelAnswered(w)
    \/ \E a \in Askers : ScanListed(a) \/ ScanCreates(a)
    \/ \E o \in offers : OfferArrives(o) \/ OfferFails(o)

\* Every request of an edit ends.
EngineFair ==
    WF_engineVars(RowWritten \/ Refreshed \/ DeviceFound \/ TokenKept \/ Undone \/ RowDeleted
                    \/ TokenCleared)

EngineSpec == EngineInit /\ [][EngineNext]_engineVars /\ EngineFair

-----------------------------------------------------------------------------
(* Properties.                                                               *)

\* Every variable has its type; a machine is never scanned twice at a time, however many
\* dialogs ask (deviceScans).
EngineTypeOK ==
    /\ up \subseteq Boxes
    /\ \A b \in Backs : store[b].there = (store[b].box # Nowhere)
    /\ edit.at \in {"idle", "write", "refresh", "device", "token", "undo", "clear"}
    /\ edit.b \in Backs \cup {0} /\ (edit.at = "idle" => edit.b = 0)
    /\ \A m \in Models : provider.of[m] \in {"none", "on", "off"}
    /\ \A x \in Boxes : scans[x] \in 0..1
    /\ \A a \in Askers : askers[a].at = "scan" => scans[askers[a].box] = 1

\* A save whose token the machine did not take leaves the row as it was before: gone if it
\* was new, else every field and the whole configuration (revertBackendRow), as long as
\* nobody else wrote it and the undoing went through.
UndoneIsAsBefore ==
    [][edit.at = "undo" /\ edit'.last = "undone" /\ ~edit.crossed
         => store'[edit.b] = edit.before]_engineVars

\* A save that is reported as done left the token on the machine the row is bound to, or
\* took it away there when that was asked for.
SavedIsKept ==
    [][edit.at # "idle" /\ edit.op # "delete" /\ edit'.last = "saved" /\ edit.tok # 0
         => vault'[edit.row.box][edit.b] = TokenLeft(edit.tok) /\ cached'[edit.b].there]_engineVars

\* A write of one model leaves the others as the account has them, those changed elsewhere
\* since the page was opened too (the writes of one model).
OthersLeftAlone ==
    [][\A w \in modelWrites : ~w.got /\ w \notin modelWrites' =>
         \A n \in Models \ {w.m} : provider'.of[n] = provider.of[n]]_engineVars

\* The models of a tool are those for the configuration asked with, cached or not.
OfferOfConfig == \A o \in offers : o.at = "done" => o.of = o.want

\* A save or a deletion ends, with the machine there or not.
EditEnds == edit.at # "idle" ~> edit.at = "idle"

-----------------------------------------------------------------------------
(* Not so.                                                                   *)

(* The engines: what is offered comes from the configuration. *)
EngineInv == EngineTypeOK /\ OfferOfConfig

-----------------------------------------------------------------------------
(* What the repository says, or a user would expect, and the code does not       *)
(* keep: TLC finds each of these violated (README, section 8).                   *)

\* A machine has one backend per tool: two scans that end together create two.
NoTwins ==
    \A b, c \in Backs : store[b].there /\ store[c].there /\ store[b].kind = "cli"
                        /\ store[c].kind = "cli" /\ store[b].box = store[c].box => b = c

\* A save that failed left nothing: the row stays when the lists behind its view fail.
FailedLeavesNothing ==
    [][edit.at = "refresh" /\ edit.op = "create" /\ edit'.at = "idle" /\ edit'.last = "unseen"
         => ~store'[edit.b].there]_engineVars

\* A row taken back does not undo what others wrote: it is set to what this page knew.
OthersKept ==
    [][edit.at = "undo" /\ edit.crossed /\ store[edit.b].there => store'[edit.b].ver >= store[edit.b].ver]_engineVars

\* A token without its backend is left where the backend was: it moved, or was taken back.
NoOrphanToken ==
    edit.at = "idle" => \A x \in Boxes, b \in Backs :
        vault[x][b] # 0 /\ x \in up => store[b].there /\ store[b].box = x
=============================================================================
