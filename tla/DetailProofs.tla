---------------------------- MODULE DetailProofs ----------------------------
(* What is proved of the pages that show one object: the settings of a conversation
   (SessionSettings), the directories of a project's machines (ProjectFs) and the
   account's machines (Devices).

   What a control says is true only after the write it waited for has been answered, so
   NotesInv says meanwhile of that write what its answers are worth; and RunsInv says of the
   choice of a model under way what the process runs and what will be stored.

   OneLease is not inductive: a lease that comes late forgets the lease its machine has by
   then, and the next call would take another beside it. FsIInv says why that cannot
   happen: while the page is mounted every lease belongs to its current generation and
   is the one its machine would use, and once it is gone no lease does.

   That the machines listed are the account's is not inductive either: it hangs on what the
   reads under way were answered. DevicesIInv says of a read that overlaps no other that it
   is alone, and that what it was answered is so until the next signal.             *)
EXTENDS ProjectFs, SessionSettings, Devices, FiniteSetTheorems, TLAPS

-----------------------------------------------------------------------------
(* The directories of a project's machines.                                  *)

Lease == [id : Nat \ {0}, of : Hosts, era : Nat]
Around == pending \cup held

\* Leases are numbered from 1; before the first there is none.
NumberInv ==
    /\ nextLease \in Nat \ {0}
    /\ \A l \in Around : l \in Lease /\ l.id < nextLease

\* What a call would use is a lease of its machine, on its way or held.
UsedInv ==
    /\ leases \in [Hosts -> Lease \cup {NoLease}]
    /\ \A m \in Hosts : leases[m] # NoLease => leases[m] \in Around /\ leases[m].of = m

\* The leases of a page that is mounted are the ones its calls use; one that is gone
\* only waits for leases of a generation before.
EraInv ==
    /\ port = "mounted" => \A l \in Around : l.era = generation /\ leases[l.of] = l
    /\ port = "gone" => /\ held = {} /\ leases = [m \in Hosts |-> NoLease]
                        /\ \A l \in pending : l.era < generation

FsIInv ==
    /\ port \in {"mounted", "gone"} /\ generation \in Nat
    /\ pending \cap held = {}
    /\ NumberInv /\ UsedInv /\ EraInv

-----------------------------------------------------------------------------

\* No machine has the number of NoLease.
LEMMA NoLeaseIsNone == NoLease \notin Lease
  BY DEF NoLease, Lease

LEMMA InitInv == FsInit => FsIInv
  BY DEF FsInit, FsIInv, NumberInv, UsedInv, EraInv, Around

\* A new lease is asked for when its machine has none (leaseFor).
LEMMA CallInv == ASSUME FsIInv, NEW m \in Hosts, Call(m) PROVE FsIInv'
<1> DEFINE l == [id |-> nextLease, of |-> m, era |-> generation]
<1>1. CASE leases[m] # NoLease
  BY <1>1 DEF FsIInv, Call, NumberInv, UsedInv, EraInv, Around
<1>2. CASE leases[m] = NoLease
  <2>1. /\ port = "mounted" /\ port' = port /\ generation' = generation /\ held' = held
        /\ leases' = [leases EXCEPT ![m] = l] /\ pending' = pending \cup {l}
        /\ nextLease' = nextLease + 1
    BY <1>2 DEF Call
  <2>2. l \in Lease /\ l \notin Around /\ l # NoLease
    BY DEF FsIInv, NumberInv, Lease, NoLease
  <2> HIDE DEF l
  <2>3. l.id = nextLease /\ l.of = m /\ l.era = generation
    BY DEF l
  <2>4. Around' = Around \cup {l} /\ (pending \cap held)' = {}
    BY <2>1, <2>2 DEF Around, FsIInv
  <2>5. NumberInv'
    BY <2>1, <2>2, <2>3, <2>4 DEF FsIInv, NumberInv, Lease
  <2>6. UsedInv'
    BY <2>1, <2>2, <2>3, <2>4 DEF FsIInv, UsedInv
  <2>7. \A k \in Around : k.of # m
    BY <1>2, <2>1, NoLeaseIsNone DEF FsIInv, EraInv, NumberInv
  <2>8. \A k \in Around' : k.era = generation' /\ leases'[k.of] = k
    <3> SUFFICES ASSUME NEW k \in Around' PROVE k.era = generation' /\ leases'[k.of] = k
      OBVIOUS
    <3>1. CASE k = l
      BY <3>1, <2>1, <2>3 DEF FsIInv, UsedInv
    <3>2. CASE k \in Around
      BY <3>2, <2>1, <2>7 DEF FsIInv, UsedInv, EraInv, NumberInv, Lease
    <3> QED BY <3>1, <3>2, <2>4
  <2>9. EraInv'
    BY <2>1, <2>8 DEF EraInv
  <2> QED BY <2>1, <2>4, <2>5, <2>6, <2>9 DEF FsIInv
<1> QED BY <1>1, <1>2

\* Once the page is gone there is nothing left to forget.
LEMMA GoneForgetsInv ==
    ASSUME FsIInv, port = "gone", NEW l \in pending,
           pending' = pending \ {l}, held' = held,
           leases' = [leases EXCEPT ![l.of] = NoLease],
           UNCHANGED <<port, generation, nextLease>>
    PROVE  FsIInv'
<1>1. leases' = leases /\ leases = [m \in Hosts |-> NoLease]
  BY DEF FsIInv, EraInv, NumberInv, Around, Lease
<1>2. Around' \subseteq Around /\ (pending \cap held)' = {}
  BY DEF Around, FsIInv
<1>3. NumberInv'
  BY <1>2 DEF FsIInv, NumberInv
<1>4. UsedInv'
  BY <1>1 DEF FsIInv, UsedInv
<1>5. EraInv'
  BY <1>1 DEF FsIInv, EraInv
<1> QED BY <1>2, <1>3, <1>4, <1>5 DEF FsIInv

\* A lease that comes for a page that is gone is forgotten with the others.
LEMMA AcquiredInv == ASSUME FsIInv, NEW l \in pending, Acquired(l) PROVE FsIInv'
<1>1. CASE l.era = generation
  <2>1. /\ pending' = pending \ {l} /\ held' = held \cup {l} /\ port = "mounted"
        /\ UNCHANGED <<port, generation, leases, nextLease>>
    BY <1>1 DEF Acquired, FsIInv, EraInv, NumberInv, Around, Lease
  <2>2. Around' = Around /\ (pending \cap held)' = {}
    BY <2>1 DEF Around, FsIInv
  <2> QED BY <2>1, <2>2 DEF FsIInv, NumberInv, UsedInv, EraInv
<1>2. CASE l.era # generation
  <2>1. /\ pending' = pending \ {l} /\ held' = held /\ port = "gone"
        /\ leases' = [leases EXCEPT ![l.of] = NoLease]
        /\ UNCHANGED <<port, generation, nextLease>>
    BY <1>2 DEF Acquired, FsIInv, EraInv, Around
  <2> QED BY <2>1, GoneForgetsInv
<1> QED BY <1>1, <1>2

\* A lease that fails is forgotten, and it was the one its machine would use.
LEMMA AcquireFailsInv == ASSUME FsIInv, NEW l \in pending, AcquireFails(l) PROVE FsIInv'
<1>1. /\ pending' = pending \ {l} /\ leases' = [leases EXCEPT ![l.of] = NoLease]
      /\ UNCHANGED <<port, generation, held, nextLease>>
  BY DEF AcquireFails
<1>2. CASE port = "gone"
  <2>1. held' = {} /\ held = {}
    BY <1>1, <1>2 DEF FsIInv, EraInv
  <2> QED BY <1>1, <1>2, GoneForgetsInv
<1>3. CASE port = "mounted"
  <2>1. l \in Around /\ l \in Lease /\ leases[l.of] = l /\ l \notin held
    BY <1>3 DEF FsIInv, EraInv, NumberInv, Around
  <2>2. Around' = Around \ {l} /\ (pending \cap held)' = {}
    BY <1>1, <2>1 DEF Around, FsIInv
  <2>3. \A k \in Around' : k.of # l.of
    BY <1>3, <2>1, <2>2 DEF FsIInv, EraInv
  <2>4. NumberInv'
    BY <1>1, <2>2 DEF FsIInv, NumberInv
  <2>5. UsedInv'
    <3>1. leases' \in [Hosts -> Lease \cup {NoLease}]
      BY <1>1 DEF FsIInv, UsedInv
    <3>2. ASSUME NEW m \in Hosts, leases'[m] # NoLease
          PROVE  leases'[m] \in Around' /\ leases'[m].of = m
      <4>1. m # l.of /\ leases'[m] = leases[m]
        BY <1>1, <2>1, <3>2 DEF FsIInv, UsedInv, Lease
      <4>2. leases[m] \in Around
        BY <3>2, <4>1 DEF FsIInv, UsedInv
      <4>3. leases[m].of = m
        BY <3>2, <4>1 DEF FsIInv, UsedInv
      <4> QED BY <2>2, <4>1, <4>2, <4>3
    <3> QED BY <3>1, <3>2 DEF UsedInv
  <2>6. \A k \in Around' : k.era = generation' /\ leases'[k.of] = k
    BY <1>1, <1>3, <2>2, <2>3 DEF FsIInv, UsedInv, EraInv, NumberInv, Lease
  <2>7. EraInv'
    BY <1>1, <1>3, <2>6 DEF EraInv
  <2> QED BY <1>1, <2>2, <2>4, <2>5, <2>7 DEF FsIInv
<1> QED BY <1>2, <1>3 DEF FsIInv

\* The page goes: what was on its way is of a generation before.
LEMMA DisposeInv ==
    ASSUME FsIInv, NEW p \in {"mounted", "gone"}, DisposeTo(p), pending' = pending,
           nextLease' = nextLease, p = "mounted" => Around = {}
    PROVE  FsIInv'
<1>1. /\ port = "mounted" /\ port' = p /\ generation' = generation + 1 /\ held' = {}
      /\ leases' = [m \in Hosts |-> NoLease]
  BY DEF DisposeTo
<1>2. Around' \subseteq Around /\ (pending \cap held)' = {}
  BY <1>1 DEF Around, FsIInv
<1>3. NumberInv'
  BY <1>2 DEF FsIInv, NumberInv
<1>4. UsedInv'
  BY <1>1 DEF UsedInv
<1>5. \A l \in pending : l.era < generation'
  BY <1>1 DEF FsIInv, EraInv, Around
<1>6. EraInv'
  BY <1>1, <1>2, <1>5 DEF EraInv
<1> QED BY <1>1, <1>2, <1>3, <1>4, <1>6 DEF FsIInv

\* Nothing was asked for when effects run twice: leases are numbered from 1.
LEMMA RunsTwiceInv == ASSUME FsIInv, RunsTwice PROVE FsIInv'
<1>1. /\ DisposeTo("mounted") /\ pending' = pending /\ nextLease' = nextLease
      /\ nextLease = 1
  BY DEF RunsTwice
<1>2. Around = {}
  <2>1. ASSUME NEW l \in Around PROVE FALSE
    <3>1. l.id \in Nat \ {0} /\ l.id < 1
      BY <1>1 DEF FsIInv, NumberInv, Lease
    <3> QED BY <3>1
  <2> QED BY <2>1
<1> QED BY <1>1, <1>2, DisposeInv

LEMMA NextInv == FsIInv /\ [FsNext]_fsVars => FsIInv'
<1> SUFFICES ASSUME FsIInv, [FsNext]_fsVars PROVE FsIInv'
  OBVIOUS
<1>1. ASSUME NEW m \in Hosts, Call(m) PROVE FsIInv'
  BY <1>1, CallInv
<1>2. ASSUME NEW l \in pending, Acquired(l) PROVE FsIInv'
  BY <1>2, AcquiredInv
<1>3. ASSUME NEW l \in pending, AcquireFails(l) PROVE FsIInv'
  BY <1>3, AcquireFailsInv
<1>4. ASSUME NEW c \in fsCalls, CallEnds(c) PROVE FsIInv'
  BY <1>4 DEF CallEnds, FsIInv, NumberInv, UsedInv, EraInv, Around
<1>5. CASE Unmount
  BY <1>5, DisposeInv DEF Unmount
<1>6. CASE RunsTwice
  BY <1>6, RunsTwiceInv
<1>7. CASE UNCHANGED fsVars
  BY <1>7 DEF fsVars, FsIInv, NumberInv, UsedInv, EraInv, Around
<1> QED BY <1>1, <1>2, <1>3, <1>4, <1>5, <1>6, <1>7 DEF FsNext

\* All the leases of the current generation are what their machines use.
LEMMA InvFollows == FsIInv => FsInv
<1> SUFFICES ASSUME FsIInv PROVE FsInv
  OBVIOUS
<1>1. FsTypeOK
  BY DEF FsIInv, UsedInv, FsTypeOK, Around
<1>2. ASSUME NEW m \in Hosts
      PROVE  Cardinality({l \in pending \cup held : l.of = m /\ l.era = generation}) <= 1
  <2> DEFINE S == {l \in pending \cup held : l.of = m /\ l.era = generation}
  <2>1. S = {} \/ S = {leases[m]}
    <3>1. CASE port = "gone"
      BY <3>1 DEF FsIInv, EraInv, NumberInv, Around, Lease
    <3>2. CASE port = "mounted"
      BY <3>2 DEF FsIInv, EraInv, Around
    <3> QED BY <3>1, <3>2 DEF FsIInv
  <2>2. Cardinality({}) = 0 /\ Cardinality({leases[m]}) = 1
    BY FS_EmptySet, FS_Singleton
  <2> QED BY <2>1, <2>2
<1> QED BY <1>1, <1>2 DEF FsInv, OneLease

\* The directory port of the project dialogs (createProjectFsPort) holds one lease of a
\* machine at most that is not to be given back, and a machine whose lease failed can be
\* called again, for any machines and any bounds.
THEOREM DirectoryPortKeepsOneLease == FsSpec => []FsInv
<1>1. FsSpec => []FsIInv
  BY InitInv, NextInv, PTL DEF FsSpec
<1> QED BY <1>1, InvFollows, PTL

-----------------------------------------------------------------------------
(* The settings of a conversation.                                           *)

Kinds == Doubles \cup {"cli"}
SettingWrite ==
    [kind : Shown \cup {"cli", "back"}, conv : Convs, v : Values, before : Values,
     hot : {"no", "asked", "done"}, live : BOOLEAN, carrier : {"open", "ok", "refused"},
     origin : {"none", "open", "ok", "refused"}]
StoredType == [Convs -> [Kinds -> [carrier : Values, origin : Values]]]
RunType == [v : Values, fresh : BOOLEAN, crossed : BOOLEAN]
UiType == [v : Values \cup {Unset}, note : {"none", "partial", "failed"},
           of : Convs \cup {"nobody"}, lone : BOOLEAN]
LocalType == [key : Convs, choice : Values \cup {Unset}, pending : BOOLEAN, hide : BOOLEAN,
              error : BOOLEAN]

SettingTypes ==
    /\ here \in Convs
    /\ stored \in StoredType
    /\ known \in [Kinds -> Values]
    /\ cliRun \in [Convs -> RunType]
    /\ turns \in [Convs -> Values \cup {Unset}]
    /\ ui \in [Shown -> UiType]
    /\ local \in LocalType /\ ~(local.pending /\ local.hide)
    /\ sent \subseteq SettingWrite

\* What is asked of the process is not yet written, and what is switched back is judged.
WriteOK(w) ==
    /\ w.origin = "none" <=> w.conv \notin Abroad \/ w.kind = "permission"
    /\ w.hot = "asked" => w.kind = "cli" /\ w.carrier = "open"
    /\ w.kind = "back" => Judged(w) /\ Lost(w) /\ w.hot # "asked"

WritesInv == \A w \in sent : WriteOK(w)

\* What a control shows, of which one write at most is under way.
MachinesOf(c) == IF c \in Abroad THEN {"carrier", "origin"} ELSE {"carrier"}
HavingAt(c, k, v, st) == {m \in MachinesOf(c) : st[c][k][m] = v}

NoteHolds(k, u, st, S) ==
    /\ (\A w \in S : w.kind # k) =>
         IF u.note = "none" THEN HavingAt(u.of, k, u.v, st) = MachinesOf(u.of)
         ELSE HavingAt(u.of, k, u.v, st) # {}
    /\ \A w, x \in S : w.kind = k /\ x.kind = k => w = x
    /\ \A w \in S : w.kind = k =>
         /\ w.conv = u.of /\ w.v = u.v
         /\ w.carrier = "ok" => st[u.of][k].carrier = u.v
         /\ w.origin = "ok" => st[u.of][k].origin = u.v
         /\ w.carrier # "ok" /\ w.origin # "ok" => HavingAt(u.of, k, w.before, st) # {}

NoteOK(k, u, st, known_k, h, S) ==
    u.lone => IF u.of = "nobody"
              THEN u.v = Unset /\ st[h][k].carrier = known_k /\ \A w \in S : w.kind # k
              ELSE u.v # Unset /\ NoteHolds(k, u, st, S)

NotesInv ==
    /\ \A k \in Doubles : NoteOK(k, ui[k], stored, known[k], here, sent)
    /\ ui["model"].lone => \A w \in sent : w.kind = "cli" => w.hot = "asked"

Counts(w) == w.kind = "cli" /\ w.live
LastInv ==
    /\ \A w, x \in sent : Counts(w) /\ Counts(x) => w = x
    /\ \A w \in sent : Counts(w) => w.conv = here

\* The choice under way of a conversation, and what the process runs meanwhile.
Chooser(w, c) == w.conv = c /\ w.kind \in {"cli", "back"}
RunOK(c, run, m, S) ==
    \/ run.crossed
    \/ /\ \A w, x \in S : Chooser(w, c) /\ Chooser(x, c) => w = x
       /\ \A w \in S : Chooser(w, c) =>
            /\ \A x \in S : ~(x.conv = c /\ x.kind = "model")
            /\ IF w.carrier = "ok" THEN m = w.v /\ (run.fresh \/ run.v = w.v)
               ELSE m = w.before /\ (w.hot = "done" \/ run.fresh \/ run.v = w.before)
       /\ (\A w \in S : ~Chooser(w, c)) => run.fresh \/ run.v = m
RunsInv == \A c \in Convs \ Abroad : RunOK(c, cliRun[c], stored[c]["cli"].carrier, sent)

SettingsIInv == SettingTypes /\ WritesInv /\ NotesInv /\ LastInv /\ RunsInv

LEMMA ViewTyped ==
    ASSUME SettingTypes
    PROVE  /\ Local \in LocalType /\ ~(Local.pending /\ Local.hide)
           /\ Choice \in Values /\ \A k \in Shown : Effective(k) \in Values
  BY ValuesAssumption DEF SettingTypes, Local, Choice, Effective, LocalType, FreshState, UiType,
     Kinds, Shown, Doubles, Unset

LEMMA NewWriteTyped ==
    ASSUME SettingTypes, NEW k \in Shown \cup {"cli"}, NEW v \in Values, NEW b \in Values
    PROVE  /\ Write(k, v, b) \in SettingWrite /\ WriteOK(Write(k, v, b))
           /\ [Write(k, v, b) EXCEPT !.hot = "asked"] \in SettingWrite
           /\ [Write(k, v, b) EXCEPT !.hot = "no"] \in SettingWrite
           /\ WriteOK([Write(k, v, b) EXCEPT !.hot = "no"])
           /\ k = "cli" => WriteOK([Write(k, v, b) EXCEPT !.hot = "asked"])
  <1>1. here \in Convs
    BY DEF SettingTypes
  <1> QED
    BY <1>1 DEF Write, SettingWrite, WriteOK, Judged, Shown, Doubles

LEMMA KeptTyped ==
    ASSUME SettingTypes, NEW w \in sent, NEW m \in {"carrier", "origin"}
    PROVE  Kept(w, m) \in StoredType
  <1>1. w \in SettingWrite /\ w.conv \in Convs /\ w.v \in Values /\ stored[w.conv] \in [Kinds -> [carrier : Values, origin : Values]]
    BY DEF SettingTypes, SettingWrite, StoredType
  <1> DEFINE n == [k \in DOMAIN stored[w.conv] |-> IF k = w.kind THEN [stored[w.conv][k] EXCEPT ![m] = w.v]
                            ELSE IF w.kind = "model" /\ k = "cli" THEN [stored[w.conv][k] EXCEPT ![m] = 0]
                            ELSE stored[w.conv][k]]
  <1>2. n \in [Kinds -> [carrier : Values, origin : Values]]
    BY <1>1, ValuesAssumption
  <1>3. Kept(w, m) = [stored EXCEPT ![w.conv] = n]
    BY DEF Kept
  <1> QED
    BY <1>1, <1>2, <1>3 DEF SettingTypes, StoredType

LEMMA SettingTypesInit == SettingsInit => SettingTypes /\ WritesInv
  BY ValuesAssumption, SettingStartsAssumption
     DEF SettingsInit, SettingTypes, WritesInv, StoredType, RunType, UiType, LocalType, Kinds, Doubles,
         Shown, NoValue, FreshState

Dead(S) == {[w EXCEPT !.live = FALSE] : w \in S}

Alike(x, w) ==
    /\ x = [w EXCEPT !.live = FALSE] /\ ~x.live /\ x.kind = w.kind /\ x.conv = w.conv /\ x.v = w.v
    /\ x.before = w.before /\ x.hot = w.hot /\ x.carrier = w.carrier /\ x.origin = w.origin

LEMMA DeadAlike ==
    ASSUME NEW S, S \subseteq SettingWrite
    PROVE  /\ \A w \in S : [w EXCEPT !.live = FALSE] \in Dead(S) /\ Alike([w EXCEPT !.live = FALSE], w)
           /\ \A x \in Dead(S) : \E w \in S : Alike(x, w)
  <1>1. \A w \in S : Alike([w EXCEPT !.live = FALSE], w)
    BY DEF SettingWrite, Alike
  <1>2. \A x \in Dead(S) : \E w \in S : x = [w EXCEPT !.live = FALSE]
    BY DEF Dead
  <1> QED
    BY <1>1, <1>2 DEF Dead

LEMMA SettingTypesKept ==
    ASSUME SettingTypes, WritesInv, [SettingsNext]_settingVars
    PROVE  SettingTypes' /\ WritesInv'
  <1> USE ViewTyped
  <1>w. \A w \in sent : w \in SettingWrite /\ w.conv \in Convs /\ w.v \in Values /\ w.before \in Values
    BY DEF SettingTypes, SettingWrite
  <1>off. /\ {[w EXCEPT !.live = FALSE] : w \in sent} \subseteq SettingWrite
          /\ \A x \in {[w EXCEPT !.live = FALSE] : w \in sent} : WriteOK(x)
    <2>1. ASSUME NEW x \in Dead(sent) PROVE x \in SettingWrite /\ WriteOK(x)
      <3>1. PICK w \in sent : Alike(x, w)
        BY DeadAlike DEF SettingTypes
      <3>2. w \in SettingWrite /\ WriteOK(w)
        BY <1>w DEF WritesInv
      <3>3. x \in SettingWrite
        BY <3>1, <3>2 DEF Alike, SettingWrite
      <3>4. WriteOK(x)
        BY <3>1, <3>2 DEF Alike, WriteOK, Judged, Lost
      <3> QED
        BY <3>3, <3>4
    <2> QED
      BY <2>1 DEF Dead
  <1>1. ASSUME NEW c \in Convs, Open(c) PROVE SettingTypes' /\ WritesInv'
    <2>1. ui' \in [Shown -> UiType]
      BY <1>1 DEF Open, Afresh, SettingTypes, UiType, NoValue, Shown, Doubles
    <2>2. known' \in [Kinds -> Values]
      BY <1>1 DEF Open, SettingTypes, StoredType, Kinds
    <2> QED
      BY <1>1, <1>off, <2>1, <2>2 DEF Open, SettingTypes, WritesInv
  <1>2. ASSUME NEW c \in Convs, TurnStarts(c) PROVE SettingTypes' /\ WritesInv'
    <2>1. cliRun' \in [Convs -> RunType] /\ turns' \in [Convs -> Values \cup {Unset}]
      <3> DEFINE v == IF cliRun[c].fresh THEN stored[c]["cli"].carrier ELSE cliRun[c].v
      <3>1. v \in Values /\ cliRun[c] \in RunType
        BY DEF SettingTypes, StoredType, Kinds, RunType
      <3>2. turns' = [turns EXCEPT ![c] = v] /\ cliRun' = [cliRun EXCEPT ![c] = [@ EXCEPT !.v = v, !.fresh = FALSE]]
        BY <1>2 DEF TurnStarts
      <3> QED
        BY <3>1, <3>2 DEF SettingTypes, RunType
    <2>2. local' \in LocalType /\ ~(local'.pending /\ local'.hide)
      BY <1>2 DEF TurnStarts, SettingTypes, LocalType
    <2> QED
      BY <1>2, <2>1, <2>2 DEF TurnStarts, SettingTypes, WritesInv
  <1>3. ASSUME NEW c \in Convs, TurnEnds(c) PROVE SettingTypes' /\ WritesInv'
    BY <1>3 DEF TurnEnds, SettingTypes, LocalType, WritesInv
  <1>4. ASSUME NEW v \in Values, Choose(v) PROVE SettingTypes' /\ WritesInv'
    <2>1. cliRun' \in [Convs -> RunType]
      BY <1>4 DEF Choose, Crossing, SettingTypes, RunType
    <2>2. ui' \in [Shown -> UiType]
      BY <1>4 DEF Choose, Persisting, SettingTypes, UiType, Shown, Doubles
    <2>3. local' \in LocalType /\ ~(local'.pending /\ local'.hide)
      BY <1>4 DEF Choose, Settle, LocalType
    <2>4. /\ [Write("cli", v, Choice) EXCEPT !.hot = "asked"] \in SettingWrite
          /\ [Write("cli", v, Choice) EXCEPT !.hot = "no"] \in SettingWrite
          /\ WriteOK([Write("cli", v, Choice) EXCEPT !.hot = "asked"])
          /\ WriteOK([Write("cli", v, Choice) EXCEPT !.hot = "no"])
      BY NewWriteTyped
    <2>5. sent' \subseteq SettingWrite /\ WritesInv'
      BY <1>4, <1>off, <2>4 DEF Choose, WritesInv
    <2> QED
      BY <1>4, <2>1, <2>2, <2>3, <2>5 DEF Choose, SettingTypes
  <1>5. ASSUME NEW k \in Shown, NEW v \in Values, NEW b \in Values, Showing(k, v),
               sent' = sent \cup {Write(k, v, b)}
        PROVE  ui' \in [Shown -> UiType] /\ sent' \subseteq SettingWrite /\ WritesInv'
    <2>1. [v |-> v, note |-> "none", of |-> here, lone |-> Alone(k)] \in UiType
      BY DEF UiType, SettingTypes, Alone
    <2>2. ui' \in [Shown -> UiType]
      BY <2>1, <1>5 DEF Showing, SettingTypes
    <2>3. Write(k, v, b) \in SettingWrite /\ WriteOK(Write(k, v, b))
      BY NewWriteTyped
    <2> QED
      BY <1>5, <2>2, <2>3 DEF SettingTypes, WritesInv
  <1>6. ASSUME NEW v \in Values, ChangePermission(v) PROVE SettingTypes' /\ WritesInv'
    <2>1. "permission" \in Shown /\ Effective("permission") \in Values
      BY DEF Shown
    <2>2. ui' \in [Shown -> UiType] /\ sent' \subseteq SettingWrite /\ WritesInv'
      BY <1>6, <2>1, <1>5 DEF ChangePermission
    <2> QED
      BY <1>6, <2>2 DEF ChangePermission, SettingTypes
  <1>7. ASSUME NEW v \in Values, NEW k \in Doubles, ChangeSetting(k, v) PROVE SettingTypes' /\ WritesInv'
    <2>1. k \in Shown /\ Effective(k) \in Values
      BY DEF Shown
    <2>2. ui' \in [Shown -> UiType] /\ sent' \subseteq SettingWrite /\ WritesInv'
      BY <1>7, <2>1, <1>5 DEF ChangeSetting
    <2>3. cliRun' \in [Convs -> RunType]
      BY <1>7 DEF ChangeSetting, Crossing, SettingTypes, RunType
    <2> QED
      BY <1>7, <2>2, <2>3 DEF ChangeSetting, SettingTypes
  <1>8. ASSUME NEW w \in sent, NEW m \in {"carrier", "origin"}, NEW yes \in BOOLEAN, WriteAnswers(w, m, yes)
        PROVE SettingTypes' /\ WritesInv'
    <2> DEFINE x == [w EXCEPT ![m] = IF yes THEN "ok" ELSE "refused"]
    <2>1. x \in SettingWrite /\ WriteOK(x)
      <3>1. w \in SettingWrite /\ WriteOK(w) /\ w[m] = "open" /\ w.hot # "asked"
        BY <1>8, <1>w DEF WriteAnswers, WritesInv
      <3>2. CASE m = "carrier"
        BY <3>1, <3>2 DEF SettingWrite, WriteOK, Judged
      <3>3. CASE m = "origin"
        BY <3>1, <3>3 DEF SettingWrite, WriteOK, Judged
      <3> QED
        BY <3>2, <3>3
    <2>2. sent' \subseteq SettingWrite /\ WritesInv'
      BY <1>8, <2>1 DEF WriteAnswers, SettingTypes, WritesInv
    <2>3. stored' \in StoredType
      BY <1>8, KeptTyped DEF WriteAnswers, SettingTypes
    <2>4. cliRun' \in [Convs -> RunType]
      BY <1>8, <1>w DEF WriteAnswers, SettingTypes, RunType
    <2> QED
      BY <1>8, <2>2, <2>3, <2>4 DEF WriteAnswers, SettingTypes
  <1>9. ASSUME NEW w \in sent, SettingLands(w) PROVE SettingTypes' /\ WritesInv'
    <2>1. ui' \in [Shown -> UiType]
      <3> DEFINE u == IF Lost(w) THEN [v |-> w.before, note |-> "failed", of |-> w.conv,
                                       lone |-> ui[w.kind].lone /\ ui[w.kind].of = w.conv]
                      ELSE [ui[w.kind] EXCEPT !.note = Note(w)]
      <3>1. w.kind \in Shown /\ ui[w.kind] \in UiType
        BY <1>9 DEF SettingLands, SettingTypes
      <3>2. u \in UiType
        BY <3>1, <1>w DEF UiType, Note
      <3>3. ui' = [ui EXCEPT ![w.kind] = u]
        BY <1>9 DEF SettingLands
      <3> QED
        BY <3>1, <3>2, <3>3 DEF SettingTypes
    <2>2. local' \in LocalType /\ ~(local'.pending /\ local'.hide)
      BY <1>9, <1>w, ValuesAssumption DEF SettingLands, SettingTypes, LocalType, FreshState
    <2>3. sent' \subseteq SettingWrite /\ WritesInv'
      <3>1. sent' = sent \ {w} \/ sent' \subseteq {[x EXCEPT !.live = FALSE] : x \in sent}
        BY <1>9 DEF SettingLands
      <3> QED
        BY <3>1, <1>off DEF SettingTypes, WritesInv
    <2> QED
      BY <1>9, <2>1, <2>2, <2>3 DEF SettingLands, SettingTypes
  <1>10. ASSUME NEW w \in sent, HotRefused(w) PROVE SettingTypes' /\ WritesInv'
    BY <1>10 DEF HotRefused, Failing, Settle, SettingTypes, WritesInv, LocalType
  <1>11. ASSUME NEW w \in sent, ChoiceFails(w) PROVE SettingTypes' /\ WritesInv'
    <2>1. local' \in LocalType /\ ~(local'.pending /\ local'.hide)
      BY <1>11 DEF ChoiceFails, Failing, Settle, SettingTypes, LocalType
    <2>2. w.hot = "done" => /\ [w EXCEPT !.kind = "back", !.live = FALSE] \in SettingWrite
                            /\ WriteOK([w EXCEPT !.kind = "back", !.live = FALSE])
      BY <1>11, <1>w DEF ChoiceFails, SettingWrite, WriteOK, Judged, Lost, WritesInv
    <2> QED
      BY <1>11, <2>1, <2>2 DEF ChoiceFails, SettingTypes, WritesInv
  <1>12. ASSUME NEW w \in sent, SwitchedBack(w) PROVE SettingTypes' /\ WritesInv'
    BY <1>12, <1>w DEF SwitchedBack, SettingTypes, WritesInv, RunType
  <1>13. ASSUME NEW w \in sent, ChoiceLands(w) PROVE SettingTypes' /\ WritesInv'
    <2>1. local' \in LocalType /\ ~(local'.pending /\ local'.hide)
      BY <1>13, <1>w, ZenonT(60) DEF ChoiceLands, Settle, SettingTypes, LocalType, Active
    <2>2. ui' \in [Shown -> UiType]
      BY <1>13, ZenonT(60) DEF ChoiceLands, SettingTypes, UiType, Note
    <2> QED
      BY <1>13, <2>1, <2>2 DEF ChoiceLands, SettingTypes, WritesInv
  <1>14. ASSUME NEW w \in sent, NEW runs \in BOOLEAN, HotSwitched(w, runs) PROVE SettingTypes' /\ WritesInv'
    <2>1. /\ [w EXCEPT !.hot = IF runs THEN "done" ELSE "no"] \in SettingWrite
          /\ WriteOK([w EXCEPT !.hot = IF runs THEN "done" ELSE "no"])
      BY <1>14, <1>w DEF HotSwitched, SettingWrite, WriteOK, Judged, WritesInv
    <2>2. ui' \in [Shown -> UiType]
      BY <1>14 DEF HotSwitched, Persisting, SettingTypes, UiType
    <2>3. cliRun' \in [Convs -> RunType]
      BY <1>14, <1>w DEF HotSwitched, SettingTypes, RunType
    <2> QED
      BY <1>14, <2>1, <2>2, <2>3 DEF HotSwitched, SettingTypes, WritesInv
  <1>15. CASE UNCHANGED settingVars
    BY <1>15 DEF settingVars, SettingTypes, WritesInv
  <1>16. ASSUME NEW v \in Values, NEW k \in Shown, ChangeUnheard(k, v) PROVE SettingTypes' /\ WritesInv'
    <2>1. [v |-> v, note |-> "none", of |-> here, lone |-> FALSE] \in UiType
      BY DEF UiType, SettingTypes
    <2>2. ui' \in [Shown -> UiType]
      BY <1>16, <2>1 DEF ChangeUnheard, SettingTypes
    <2> QED
      BY <1>16, <2>2 DEF ChangeUnheard, SettingTypes, WritesInv
  <1>17. ASSUME NEW v \in Values, ChooseUnheard(v) PROVE SettingTypes' /\ WritesInv'
    <2>1. local' \in LocalType /\ ~(local'.pending /\ local'.hide)
      BY <1>17 DEF ChooseUnheard, Settle, LocalType
    <2>2. sent' \subseteq SettingWrite /\ WritesInv'
      BY <1>17, <1>off DEF ChooseUnheard, WritesInv
    <2> QED
      BY <1>17, <2>1, <2>2 DEF ChooseUnheard, SettingTypes
  <1>18. ASSUME NEW w \in sent, HotUnwritten(w) PROVE SettingTypes' /\ WritesInv'
    <2>1. Unwritten(w) \in SettingWrite /\ WriteOK(Unwritten(w))
      <3>1. w \in SettingWrite /\ WriteOK(w) /\ w.hot = "asked"
        BY <1>18, <1>w DEF HotUnwritten, WritesInv
      <3>2. /\ Unwritten(w).kind = "back" /\ Unwritten(w).hot = "done" /\ Unwritten(w).carrier = "refused"
            /\ Unwritten(w).conv = w.conv
            /\ Unwritten(w).origin = IF w.origin = "none" THEN "none" ELSE "refused"
            /\ Unwritten(w) \in SettingWrite
        BY <3>1 DEF Unwritten, SettingWrite
      <3>3. w.origin = "none" <=> w.conv \notin Abroad
        BY <3>1 DEF WriteOK
      <3> QED
        BY <3>2, <3>3 DEF WriteOK, Judged, Lost
    <2>2. cliRun' \in [Convs -> RunType]
      BY <1>18, <1>w DEF HotUnwritten, SettingTypes, RunType
    <2>3. local' \in LocalType /\ ~(local'.pending /\ local'.hide)
      BY <1>18 DEF HotUnwritten, Failing, Settle, SettingTypes, LocalType
    <2> QED
      BY <1>18, <2>1, <2>2, <2>3 DEF HotUnwritten, SettingTypes, WritesInv
  <1> QED
    BY <1>1, <1>2, <1>3, <1>4, <1>6, <1>7, <1>8, <1>9, <1>10, <1>11, <1>12, <1>13, <1>14, <1>15,
       <1>16, <1>17, <1>18 DEF SettingsNext

LEMMA LastKept ==
    ASSUME SettingTypes, LastInv, [SettingsNext]_settingVars
    PROVE  LastInv'
  <1> USE DEF LastInv, Counts
  <1>w. \A w \in sent : w \in SettingWrite
    BY DEF SettingTypes
  <1>off. \A x \in {[w EXCEPT !.live = FALSE] : w \in sent} : ~x.live
    BY <1>w DEF SettingWrite
  <1>sub. ASSUME sent' \subseteq sent, here' = here PROVE LastInv'
    BY <1>sub
  <1>swap. ASSUME NEW w \in sent, NEW x, sent' = (sent \ {w}) \cup {x}, here' = here,
                  x.kind = w.kind, x.live = w.live, x.conv = w.conv
           PROVE  LastInv'
    BY <1>swap
  <1>dull. ASSUME NEW x, sent' \subseteq sent \cup {x}, ~(x.kind = "cli" /\ x.live), here' = here
           PROVE  LastInv'
    BY <1>dull
  <1>1. ASSUME NEW c \in Convs, Open(c) PROVE LastInv'
    BY <1>1, <1>off DEF Open
  <1>2. ASSUME NEW c \in Convs, TurnStarts(c) \/ TurnEnds(c) PROVE LastInv'
    BY <1>2 DEF TurnStarts, TurnEnds
  <1>3. ASSUME NEW v \in Values, Choose(v) PROVE LastInv'
    <2> DEFINE x == [Write("cli", v, Choice) EXCEPT !.hot = IF Active(here) THEN "no" ELSE "asked"]
    <2>1. x.conv = here
      BY DEF Write
    <2>2. sent' = {[w EXCEPT !.live = FALSE] : w \in sent} \cup {x} /\ here' = here
      BY <1>3 DEF Choose
    <2> QED
      BY <2>1, <2>2, <1>off
  <1>4. ASSUME NEW v \in Values, ChangePermission(v) PROVE LastInv'
    <2>1. Write("permission", v, Effective("permission")).kind # "cli"
      BY DEF Write
    <2> QED
      BY <1>4, <2>1, <1>dull DEF ChangePermission
  <1>5. ASSUME NEW v \in Values, NEW k \in Doubles, ChangeSetting(k, v) PROVE LastInv'
    <2>1. Write(k, v, Effective(k)).kind # "cli"
      BY DEF Write, Doubles
    <2> QED
      BY <1>5, <2>1, <1>dull DEF ChangeSetting
  <1>6. ASSUME NEW w \in sent, NEW m \in {"carrier", "origin"}, NEW yes \in BOOLEAN, WriteAnswers(w, m, yes)
        PROVE LastInv'
    <2> DEFINE x == [w EXCEPT ![m] = IF yes THEN "ok" ELSE "refused"]
    <2>1. x.kind = w.kind /\ x.live = w.live /\ x.conv = w.conv
      BY <1>w DEF SettingWrite
    <2> QED
      BY <1>6, <2>1, <1>swap DEF WriteAnswers
  <1>7. ASSUME NEW w \in sent, SettingLands(w) PROVE LastInv'
    <2>1. sent' \subseteq sent \/ \A x \in sent' : ~x.live
      BY <1>7, <1>w DEF SettingLands, SettingWrite
    <2> QED
      BY <1>7, <2>1 DEF SettingLands
  <1>8. ASSUME NEW w \in sent, HotRefused(w) \/ SwitchedBack(w) \/ ChoiceLands(w) PROVE LastInv'
    BY <1>8, <1>sub DEF HotRefused, SwitchedBack, ChoiceLands
  <1>9. ASSUME NEW w \in sent, ChoiceFails(w) PROVE LastInv'
    <2>1. [w EXCEPT !.kind = "back", !.live = FALSE].kind # "cli"
      BY <1>w DEF SettingWrite
    <2> QED
      BY <1>9, <2>1, <1>dull DEF ChoiceFails
  <1>10. ASSUME NEW w \in sent, NEW runs \in BOOLEAN, HotSwitched(w, runs) PROVE LastInv'
    <2> DEFINE x == [w EXCEPT !.hot = IF runs THEN "done" ELSE "no"]
    <2>1. x.kind = w.kind /\ x.live = w.live /\ x.conv = w.conv
      BY <1>w DEF SettingWrite
    <2> QED
      BY <1>10, <2>1, <1>swap DEF HotSwitched
  <1>11. CASE UNCHANGED settingVars
    BY <1>11 DEF settingVars
  <1>12. ASSUME NEW v \in Values, (\E k \in Shown : ChangeUnheard(k, v)) \/ ChooseUnheard(v) PROVE LastInv'
    BY <1>12, <1>off DEF ChangeUnheard, ChooseUnheard
  <1>13. ASSUME NEW w \in sent, HotUnwritten(w) PROVE LastInv'
    <2>1. Unwritten(w).kind # "cli"
      BY <1>w DEF SettingWrite, Unwritten
    <2> QED
      BY <1>13, <2>1, <1>dull DEF HotUnwritten
  <1> QED
    BY <1>1, <1>2, <1>3, <1>4, <1>5, <1>6, <1>7, <1>8, <1>9, <1>10, <1>11, <1>12, <1>13 DEF SettingsNext

-----------------------------------------------------------------------------
\* The writes a note is of, and those of a conversation's choices.
Of(k, S) == {w \in S : w.kind = k}

LEMMA NoteSame ==
    ASSUME NEW k, NEW u, NEW st, NEW st2, NEW kk, NEW h, NEW S, NEW S2,
           NoteOK(k, u, st, kk, h, S), Of(k, S2) = Of(k, S),
           st2[h][k] = st[h][k], u.of # "nobody" => st2[u.of][k] = st[u.of][k]
    PROVE  NoteOK(k, u, st2, kk, h, S2)
  <1>1. (\A w \in S2 : w.kind # k) <=> (\A w \in S : w.kind # k)
    BY DEF Of
  <1>2. \A w \in S2 : w.kind = k => w \in S
    BY DEF Of
  <1>3. u.of # "nobody" => \A v : HavingAt(u.of, k, v, st2) = HavingAt(u.of, k, v, st)
    BY DEF HavingAt
  <1> QED
    BY <1>1, <1>2, <1>3 DEF NoteOK, NoteHolds

LEMMA NoteDead ==
    ASSUME NEW k, NEW u, NEW st, NEW kk, NEW h, NEW S, S \subseteq SettingWrite,
           NoteOK(k, u, st, kk, h, S)
    PROVE  NoteOK(k, u, st, kk, h, Dead(S))
  <1>2. \A x \in Dead(S) : \E w \in S : Alike(x, w)
    BY DeadAlike
  <1>3. \A w \in S : \E x \in Dead(S) : Alike(x, w)
    BY DeadAlike
  <1>4. ASSUME \A x \in Dead(S) : x.kind # k PROVE \A w \in S : w.kind # k
    BY <1>3, <1>4 DEF Alike
  <1>5. ASSUME \A w \in S : w.kind # k PROVE \A x \in Dead(S) : x.kind # k
    BY <1>2, <1>5 DEF Alike
  <1>6. ASSUME NoteHolds(k, u, st, S) PROVE NoteHolds(k, u, st, Dead(S))
    <2>1. ASSUME NEW x \in Dead(S), x.kind = k
          PROVE  /\ x.conv = u.of /\ x.v = u.v
                 /\ x.carrier = "ok" => st[u.of][k].carrier = u.v
                 /\ x.origin = "ok" => st[u.of][k].origin = u.v
                 /\ x.carrier # "ok" /\ x.origin # "ok" => HavingAt(u.of, k, x.before, st) # {}
      <3>1. PICK w \in S : Alike(x, w)
        BY <1>2
      <3> QED
        BY <1>6, <2>1, <3>1 DEF NoteHolds, Alike
    <2>2. ASSUME NEW x \in Dead(S), NEW y \in Dead(S), x.kind = k, y.kind = k PROVE x = y
      <3>1. PICK w \in S : Alike(x, w)
        BY <1>2
      <3>2. PICK z \in S : Alike(y, z)
        BY <1>2
      <3>3. w = z
        BY <1>6, <2>2, <3>1, <3>2 DEF NoteHolds, Alike
      <3> QED
        BY <3>1, <3>2, <3>3 DEF Alike
    <2>3. (\A x \in Dead(S) : x.kind # k) =>
             IF u.note = "none" THEN HavingAt(u.of, k, u.v, st) = MachinesOf(u.of)
             ELSE HavingAt(u.of, k, u.v, st) # {}
      BY <1>4, <1>6 DEF NoteHolds
    <2> QED
      BY <2>1, <2>2, <2>3 DEF NoteHolds
  <1> QED
    BY <1>5, <1>6 DEF NoteOK

LEMMA RunSame ==
    ASSUME NEW c, NEW run, NEW m, NEW S, NEW S2, RunOK(c, run, m, S),
           {w \in S2 : Chooser(w, c)} = {w \in S : Chooser(w, c)},
           \A x \in S2 : x.conv = c /\ x.kind = "model" => x \in S
    PROVE  RunOK(c, run, m, S2)
  <1>1. \A w \in S2 : Chooser(w, c) => w \in S
    OBVIOUS
  <1>2. (\A w \in S2 : ~Chooser(w, c)) => \A w \in S : ~Chooser(w, c)
    OBVIOUS
  <1> QED
    BY <1>1, <1>2 DEF RunOK

LEMMA RunDead ==
    ASSUME NEW c, NEW run, NEW m, NEW S, S \subseteq SettingWrite, RunOK(c, run, m, S)
    PROVE  RunOK(c, run, m, Dead(S))
  <1>2. \A x \in Dead(S) : \E w \in S : Alike(x, w)
    BY DeadAlike
  <1>3. ASSUME \A x \in Dead(S) : ~Chooser(x, c) PROVE \A w \in S : ~Chooser(w, c)
    <2>1. \A w \in S : \E x \in Dead(S) : Alike(x, w)
      BY DeadAlike
    <2> QED
      BY <1>3, <2>1 DEF Chooser, Alike
  <1> SUFFICES ASSUME ~run.crossed PROVE RunOK(c, run, m, Dead(S))
    BY DEF RunOK
  <1>4. ASSUME NEW x \in Dead(S), Chooser(x, c)
        PROVE  IF x.carrier = "ok" THEN m = x.v /\ (run.fresh \/ run.v = x.v)
               ELSE m = x.before /\ (x.hot = "done" \/ run.fresh \/ run.v = x.before)
    BY <1>2, <1>4 DEF RunOK, Chooser, Alike
  <1>5. ASSUME NEW x \in Dead(S), Chooser(x, c), NEW y \in Dead(S) PROVE ~(y.conv = c /\ y.kind = "model")
    BY <1>2, <1>5 DEF RunOK, Chooser, Alike
  <1>6. ASSUME NEW x \in Dead(S), Chooser(x, c), NEW y \in Dead(S), Chooser(y, c) PROVE x = y
    <2>1. PICK w \in S : Alike(x, w)
      BY <1>2
    <2>2. PICK z \in S : Alike(y, z)
      BY <1>2
    <2>3. w = z
      BY <1>6, <2>1, <2>2 DEF RunOK, Chooser, Alike
    <2> QED
      BY <2>1, <2>2, <2>3 DEF Alike
  <1> QED
    BY <1>3, <1>4, <1>5, <1>6 DEF RunOK

LEMMA NotesKept ==
    ASSUME SettingTypes, WritesInv, NotesInv, [SettingsNext]_settingVars
    PROVE  NotesInv'
  <1>w. \A w \in sent : w \in SettingWrite /\ WriteOK(w)
    BY DEF SettingTypes, WritesInv
  <1>v. /\ Choice \in Values /\ \A k \in Shown : Effective(k) \in Values
        /\ Doubles \subseteq Shown /\ Doubles \subseteq Kinds /\ here \in Convs
    BY ViewTyped DEF Shown, Kinds, SettingTypes
  <1>u. \A k \in Doubles : ui[k] \in UiType
    BY DEF SettingTypes, Shown
  <1>d. \A k \in Doubles : NoteOK(k, ui[k], stored, known[k], here, Dead(sent))
    BY NoteDead DEF NotesInv, SettingTypes
  <1>e. \A x \in Dead(sent) : \E w \in sent : Alike(x, w)
    BY DeadAlike DEF SettingTypes
  \* Writes of other kinds come, go and change.
  <1>same. ASSUME UNCHANGED <<stored, known, here>>, \A k \in Doubles : ui'[k] = ui[k],
                  \A k \in Doubles : Of(k, sent') = Of(k, sent) \/ Of(k, sent') = Of(k, Dead(sent))
           PROVE  \A k \in Doubles : NoteOK(k, ui'[k], stored', known'[k], here', sent')
    <2> TAKE k \in Doubles
    <2>1. CASE Of(k, sent') = Of(k, sent)
      BY <2>1, <1>same, NoteSame DEF NotesInv
    <2>2. CASE Of(k, sent') = Of(k, Dead(sent))
      BY <2>2, <1>same, <1>d, NoteSame
    <2> QED
      BY <2>1, <2>2, <1>same
  <1>1. ASSUME NEW c \in Convs, Open(c) PROVE NotesInv'
    <2>1. /\ sent' = Dead(sent) /\ here' = c /\ stored' = stored
          /\ known' = [k \in Kinds |-> stored[c][k].carrier]
          /\ ui' = [ui EXCEPT !["effort"] = [NoValue EXCEPT !.lone = \A w \in sent : w.kind # "effort"]]
      BY <1>1 DEF Open, Afresh, Dead, Kinds
    <2>2. NoteOK("model", ui'["model"], stored', known'["model"], here', sent')
      <3>1. ui'["model"] = ui["model"] /\ known'["model"] = stored[c]["model"].carrier
        BY <2>1 DEF SettingTypes, Shown, Doubles, Kinds
      <3>2. NoteOK("model", ui["model"], stored, known["model"], here, Dead(sent))
        BY <1>d DEF Doubles
      <3> QED
        BY <2>1, <3>1, <3>2 DEF NoteOK
    <2>3. NoteOK("effort", ui'["effort"], stored', known'["effort"], here', sent')
      <3>1. ui'["effort"] = [NoValue EXCEPT !.lone = \A w \in sent : w.kind # "effort"]
        BY <2>1 DEF SettingTypes, Shown, Doubles
      <3>2. known'["effort"] = stored[c]["effort"].carrier
        BY <2>1 DEF Kinds, Doubles
      <3>3. ASSUME \A w \in sent : w.kind # "effort" PROVE \A x \in Dead(sent) : x.kind # "effort"
        BY <3>3, <1>e DEF Alike
      <3> QED
        BY <2>1, <3>1, <3>2, <3>3 DEF NoteOK, NoValue
    <2>4. ASSUME ui'["model"].lone, NEW x \in sent', x.kind = "cli" PROVE x.hot = "asked"
      <3>1. PICK y \in sent : Alike(x, y)
        BY <2>1, <1>e
      <3>2. ui["model"].lone
        BY <2>1, <2>4 DEF SettingTypes, Shown, Doubles
      <3> QED
        BY <2>4, <3>1, <3>2 DEF NotesInv, Alike
    <2> QED
      BY <2>2, <2>3, <2>4 DEF NotesInv, Doubles
  <1>2. ASSUME NEW c \in Convs, TurnStarts(c) \/ TurnEnds(c) PROVE NotesInv'
    BY <1>2 DEF TurnStarts, TurnEnds, NotesInv
  <1>3. ASSUME NEW v \in Values, Choose(v) PROVE NotesInv'
    <2> DEFINE x == [Write("cli", v, Choice) EXCEPT !.hot = IF Active(here) THEN "no" ELSE "asked"]
    <2>1. x.kind = "cli" /\ (~Active(here) => x.hot = "asked")
      BY DEF Write
    <2>2. sent' = Dead(sent) \cup {x} /\ UNCHANGED <<here, stored, known>>
      BY <1>3 DEF Choose, Dead
    <2>3. \A k \in Doubles : Of(k, sent') = Of(k, Dead(sent))
      BY <2>1, <2>2 DEF Of, Doubles
    <2>4. CASE Active(here)
      <3>1. ui' = [ui EXCEPT !["model"].note = "none", !["model"].lone = FALSE]
        BY <1>3, <2>4 DEF Choose, Persisting
      <3>2. ui'["effort"] = ui["effort"] /\ ~ui'["model"].lone
        BY <3>1, <1>u DEF SettingTypes, Shown, Doubles, UiType
      <3>3. NoteOK("effort", ui["effort"], stored, known["effort"], here, sent')
        BY <2>3, <1>d, NoteSame DEF Doubles
      <3>4. NoteOK("model", ui'["model"], stored', known'["model"], here', sent')
        BY <3>2 DEF NoteOK
      <3> QED
        BY <2>2, <3>2, <3>3, <3>4 DEF NotesInv, Doubles
    <2>5. CASE ~Active(here)
      <3>1. ui' = ui
        BY <1>3, <2>5 DEF Choose
      <3>2. \A k \in Doubles : NoteOK(k, ui'[k], stored', known'[k], here', sent')
        BY <1>same, <2>2, <2>3, <3>1
      <3>3. ASSUME ui["model"].lone, NEW y \in sent', y.kind = "cli" PROVE y.hot = "asked"
        <4>1. CASE y \in Dead(sent)
          <5>1. \E w \in sent : w.kind = "cli" /\ w.hot = y.hot
            BY <3>3, <4>1, <1>e DEF Alike
          <5> QED
            BY <3>3, <5>1 DEF NotesInv
        <4>2. CASE y = x
          BY <4>2, <2>1, <2>5
        <4> QED
          BY <2>2, <4>1, <4>2
      <3> QED
        BY <3>1, <3>2, <3>3 DEF NotesInv
    <2> QED
      BY <2>4, <2>5
  <1>4. ASSUME NEW v \in Values, ChangePermission(v) PROVE NotesInv'
    <2> DEFINE x == Write("permission", v, Effective("permission"))
    <2>1. x.kind = "permission"
      BY DEF Write
    <2>2. \A k \in Doubles : Of(k, sent') = Of(k, sent)
      BY <2>1, <1>4 DEF ChangePermission, Of, Doubles
    <2>3. \A k \in Doubles : ui'[k] = ui[k]
      BY <1>4 DEF ChangePermission, Showing, SettingTypes, Shown, Doubles
    <2>4. \A k \in Doubles : NoteOK(k, ui'[k], stored', known'[k], here', sent')
      BY <1>same, <2>2, <2>3, <1>4 DEF ChangePermission
    <2>5. ui'["model"].lone => \A w \in sent' : w.kind = "cli" => w.hot = "asked"
      BY <2>1, <2>3, <1>4 DEF ChangePermission, NotesInv, Doubles
    <2> QED
      BY <2>4, <2>5 DEF NotesInv
  <1>5. ASSUME NEW v \in Values, NEW k \in Doubles, ChangeSetting(k, v) PROVE NotesInv'
    <2> DEFINE x == Write(k, v, Effective(k))
    <2>1. /\ x.kind = k /\ x.conv = here /\ x.v = v /\ x.before = Effective(k)
          /\ x.carrier = "open" /\ x.origin # "ok"
      BY DEF Write
    <2>2. sent' = sent \cup {x} /\ UNCHANGED <<here, stored, known>>
      BY <1>5 DEF ChangeSetting
    <2>3. ui' = [ui EXCEPT ![k] = [v |-> v, note |-> "none", of |-> here, lone |-> Alone(k)]]
      BY <1>5 DEF ChangeSetting, Showing
    <2>4. \A j \in Doubles \ {k} : Of(j, sent') = Of(j, sent) /\ ui'[j] = ui[j]
      BY <2>1, <2>2, <2>3 DEF Of, SettingTypes, Shown
    <2>5. \A j \in Doubles \ {k} : NoteOK(j, ui'[j], stored', known'[j], here', sent')
      BY <2>2, <2>4, NoteSame DEF NotesInv
    <2>6. /\ ui'[k].v = v /\ ui'[k].note = "none" /\ ui'[k].of = here /\ ui'[k].lone = Alone(k)
      BY <2>3, <1>v DEF SettingTypes
    <2>7. ASSUME Alone(k) PROVE NoteOK(k, ui'[k], stored', known'[k], here', sent')
      <3>1. (\A w \in sent : w.kind # k) /\ ui[k].lone /\ ui[k].of \in {here, "nobody"}
        BY <2>7 DEF Alone, SameSent
      <3>2. NoteOK(k, ui[k], stored, known[k], here, sent)
        BY DEF NotesInv
      <3>3. HavingAt(here, k, Effective(k), stored) # {}
        <4>1. CASE ui[k].of = "nobody"
          <5>1. Effective(k) = known[k] /\ stored[here][k].carrier = known[k]
            BY <4>1, <3>1, <3>2 DEF NoteOK, Effective
          <5>2. "carrier" \in HavingAt(here, k, Effective(k), stored)
            BY <5>1 DEF HavingAt, MachinesOf
          <5> QED
            BY <5>2
        <4>2. CASE ui[k].of = here /\ here # "nobody"
          <5>1. Effective(k) = ui[k].v /\ NoteHolds(k, ui[k], stored, sent)
            BY <4>2, <3>1, <3>2 DEF NoteOK, Effective
          <5>2. MachinesOf(here) # {}
            BY DEF MachinesOf
          <5> QED
            BY <5>1, <5>2, <4>2, <3>1 DEF NoteHolds
        <4> QED
          BY <4>1, <4>2, <3>1
      <3>4. \A w \in sent' : w.kind = k => w = x
        BY <2>2, <3>1
      <3>5. NoteHolds(k, ui'[k], stored', sent')
        BY <2>1, <2>2, <2>6, <3>3, <3>4 DEF NoteHolds
      <3>6. v # Unset /\ here # "nobody"
        BY <1>v, ValuesAssumption, NobodyAssumption DEF Unset
      <3> QED
        BY <2>6, <3>5, <3>6 DEF NoteOK
    <2>8. NoteOK(k, ui'[k], stored', known'[k], here', sent')
      BY <2>6, <2>7 DEF NoteOK
    <2>9. ui'["model"].lone => \A w \in sent' : w.kind = "cli" => w.hot = "asked"
      <3>1. x.kind # "cli" /\ (ui'["model"].lone => ui["model"].lone)
        BY <2>1, <2>4, <2>6 DEF Doubles, Alone
      <3> QED
        BY <2>2, <3>1 DEF NotesInv
    <2> QED
      BY <2>5, <2>8, <2>9 DEF NotesInv
  <1>6. ASSUME NEW w \in sent, NEW m \in {"carrier", "origin"}, NEW yes \in BOOLEAN, WriteAnswers(w, m, yes)
        PROVE NotesInv'
    <2> DEFINE x == [w EXCEPT ![m] = IF yes THEN "ok" ELSE "refused"]
    <2>1. /\ x.kind = w.kind /\ x.conv = w.conv /\ x.v = w.v /\ x.before = w.before /\ x.hot = w.hot
          /\ w[m] = "open" /\ x[m] = (IF yes THEN "ok" ELSE "refused")
          /\ m = "carrier" => x.origin = w.origin
          /\ m = "origin" => x.carrier = w.carrier
          /\ w.conv \in Convs
      BY <1>6, <1>w DEF SettingWrite, WriteAnswers
    <2>2. sent' = (sent \ {w}) \cup {x} /\ UNCHANGED <<here, known, ui>>
      BY <1>6 DEF WriteAnswers
    <2>3. stored' = IF yes /\ w.kind # "permission" THEN Kept(w, m) ELSE stored
      BY <1>6 DEF WriteAnswers
    <2>4. \A c \in Convs, j \in Doubles : c # w.conv \/ j # w.kind => stored'[c][j] = stored[c][j]
      BY <2>3 DEF Kept, SettingTypes, StoredType, Kinds, Doubles
    <2>5. ASSUME w.kind \in Doubles
          PROVE  stored'[w.conv][w.kind] = IF yes THEN [stored[w.conv][w.kind] EXCEPT ![m] = w.v]
                                           ELSE stored[w.conv][w.kind]
      BY <2>1, <2>3, <2>5 DEF Kept, SettingTypes, StoredType, Kinds, Doubles
    <2>6. ASSUME NEW j \in Doubles, j # w.kind
          PROVE  NoteOK(j, ui'[j], stored', known'[j], here', sent')
      <3>1. Of(j, sent') = Of(j, sent)
        BY <2>1, <2>2, <2>6 DEF Of
      <3>2. stored'[here][j] = stored[here][j]
        BY <2>4, <2>6, <1>v
      <3>3. ui[j].of # "nobody" => stored'[ui[j].of][j] = stored[ui[j].of][j]
        BY <2>4, <2>6, <1>u DEF UiType
      <3> QED
        BY <2>2, <3>1, <3>2, <3>3, NoteSame DEF NotesInv
    <2>7. ASSUME w.kind \in Doubles, ui[w.kind].lone
          PROVE  NoteOK(w.kind, ui'[w.kind], stored', known'[w.kind], here', sent')
      <3> DEFINE k == w.kind  o == ui[k].of
      <3>1. NoteOK(k, ui[k], stored, known[k], here, sent)
        BY <2>7 DEF NotesInv
      <3>2. o # "nobody" /\ ui[k].v # Unset /\ NoteHolds(k, ui[k], stored, sent)
        BY <3>1, <2>7 DEF NoteOK
      <3>3. w.conv = o /\ w.v = ui[k].v /\ \A y \in sent : y.kind = k => y = w
        BY <3>2 DEF NoteHolds
      <3>4. \A y \in sent' : y.kind = k => y = x
        BY <2>2, <3>3
      <3>5. stored[o][k] \in [carrier : Values, origin : Values]
        BY <3>3, <2>1, <2>7 DEF SettingTypes, StoredType, Kinds
      <3>6. x.carrier = "ok" => stored'[o][k].carrier = ui[k].v
        BY <2>1, <2>5, <2>7, <3>2, <3>3, <3>5 DEF NoteHolds
      <3>7. x.origin = "ok" => stored'[o][k].origin = ui[k].v
        BY <2>1, <2>5, <2>7, <3>2, <3>3, <3>5 DEF NoteHolds
      <3>8. ASSUME x.carrier # "ok", x.origin # "ok" PROVE HavingAt(o, k, x.before, stored') # {}
        <4>1. ~yes /\ w.carrier # "ok" /\ w.origin # "ok"
          BY <3>8, <2>1
        <4>2. stored' = stored
          BY <4>1, <2>3
        <4> QED
          BY <4>1, <4>2, <2>1, <3>2, <3>3 DEF NoteHolds
      <3>9. x \in sent' /\ x.kind = k /\ x.conv = o /\ x.v = ui[k].v
        BY <2>1, <2>2, <3>3
      <3>10. NoteHolds(k, ui[k], stored', sent')
        BY <3>4, <3>6, <3>7, <3>8, <3>9 DEF NoteHolds
      <3> QED
        BY <2>2, <3>2, <3>10 DEF NoteOK
    <2>8. \A j \in Doubles : NoteOK(j, ui'[j], stored', known'[j], here', sent')
      BY <2>2, <2>6, <2>7 DEF NoteOK
    <2>9. ui'["model"].lone => \A y \in sent' : y.kind = "cli" => y.hot = "asked"
      BY <2>1, <2>2 DEF NotesInv
    <2> QED
      BY <2>8, <2>9 DEF NotesInv
  <1>7. ASSUME NEW w \in sent, SettingLands(w) PROVE NotesInv'
    <2> DEFINE k == w.kind
    <2>1. /\ k \in Shown /\ Judged(w) /\ UNCHANGED <<here, stored, known>>
          /\ sent' = sent \ {w} \/ sent' = Dead(sent \ {w})
          /\ ui' = [ui EXCEPT ![k] =
                      IF Lost(w) THEN [v |-> w.before, note |-> "failed", of |-> w.conv,
                                       lone |-> ui[k].lone /\ ui[k].of = w.conv]
                      ELSE [ui[k] EXCEPT !.note = Note(w)]]
      BY <1>7 DEF SettingLands, Dead
    <2>2. \A j \in Doubles \ {k} : Of(j, sent') = Of(j, sent) \/ Of(j, sent') = Of(j, Dead(sent))
      <3>1. CASE sent' = sent \ {w}
        BY <3>1 DEF Of
      <3>2. CASE sent' = Dead(sent \ {w})
        <4>1. Dead(sent) = Dead(sent \ {w}) \cup {[w EXCEPT !.live = FALSE]}
          BY DEF Dead
        <4>2. [w EXCEPT !.live = FALSE].kind = k
          BY <1>w DEF SettingWrite
        <4> QED
          BY <3>2, <4>1, <4>2 DEF Of
      <3> QED
        BY <2>1, <3>1, <3>2
    <2>3. \A j \in Doubles \ {k} : NoteOK(j, ui'[j], stored', known'[j], here', sent')
      <3> TAKE j \in Doubles \ {k}
      <3>1. ui'[j] = ui[j]
        BY <2>1 DEF SettingTypes, Shown
      <3> QED
        BY <2>1, <2>2, <3>1, <1>d, NoteSame DEF NotesInv
    <2>4. ui[k] \in UiType /\ w \in SettingWrite /\ WriteOK(w) /\ w.conv \in Convs /\ w.conv # "nobody"
      BY <2>1, <1>w, NobodyAssumption DEF SettingTypes, SettingWrite
    <2>5. ui'[k] = IF Lost(w) THEN [v |-> w.before, note |-> "failed", of |-> w.conv,
                                    lone |-> ui[k].lone /\ ui[k].of = w.conv]
                   ELSE [ui[k] EXCEPT !.note = Note(w)]
      BY <2>1 DEF SettingTypes
    <2>6. ui'[k].lone => ui[k].lone
      BY <2>4, <2>5 DEF UiType
    <2>7. ASSUME k \in Doubles, ui'[k].lone
          PROVE  NoteOK(k, ui'[k], stored', known'[k], here', sent')
      <3> DEFINE o == ui[k].of
      <3>1. NoteOK(k, ui[k], stored, known[k], here, sent) /\ ui[k].lone
        BY <2>6, <2>7 DEF NotesInv
      <3>2. o # "nobody" /\ ui[k].v # Unset /\ NoteHolds(k, ui[k], stored, sent)
        BY <3>1 DEF NoteOK
      <3>3. w.conv = o /\ w.v = ui[k].v /\ \A y \in sent : y.kind = k => y = w
        BY <3>2 DEF NoteHolds
      <3>4. \A y \in sent' : y.kind # k
        <4>1. \A y \in sent \ {w} : y.kind # k
          BY <3>3
        <4>2. \A x \in Dead(sent \ {w}) : \E y \in sent \ {w} : Alike(x, y)
          BY DeadAlike DEF SettingTypes
        <4> QED
          BY <2>1, <4>1, <4>2, SMTT(30) DEF Alike
      <3>5. ui'[k].of = o /\ ui'[k].v # Unset
        BY <2>4, <2>5, <3>2, <3>3, ValuesAssumption DEF UiType, SettingWrite, Unset
      <3>6. IF ui'[k].note = "none" THEN HavingAt(o, k, ui'[k].v, stored) = MachinesOf(o)
            ELSE HavingAt(o, k, ui'[k].v, stored) # {}
        <4>1. CASE Lost(w)
          <5>1. ui'[k].v = w.before /\ ui'[k].note = "failed"
            BY <4>1, <2>5
          <5>2. HavingAt(o, k, w.before, stored) # {}
            BY <4>1, <3>2 DEF Lost, NoteHolds
          <5> QED
            BY <5>1, <5>2
        <4>2. CASE ~Lost(w)
          <5>1. ui'[k].v = ui[k].v /\ ui'[k].note = Note(w)
            BY <4>2, <2>4, <2>5 DEF UiType
          <5>2. /\ w.carrier = "ok" => stored[o][k].carrier = ui[k].v
                /\ w.origin = "ok" => stored[o][k].origin = ui[k].v
            BY <3>2 DEF NoteHolds
          <5>3. w.origin = "none" <=> o \notin Abroad
            BY <2>4, <2>7, <3>3 DEF WriteOK, Doubles
          <5>4. /\ w.carrier \in {"ok", "refused"} /\ w.origin \in {"none", "ok", "refused"}
                /\ w.carrier = "ok" \/ w.origin = "ok"
            BY <2>1, <2>4, <4>2 DEF Judged, Lost, SettingWrite
          <5>5. CASE w.carrier = "ok" /\ w.origin # "refused"
            <6>1. Note(w) = "none"
              BY <5>5 DEF Note
            <6>2. HavingAt(o, k, ui[k].v, stored) = MachinesOf(o)
              BY <5>2, <5>3, <5>4, <5>5 DEF HavingAt, MachinesOf
            <6> QED
              BY <5>1, <6>1, <6>2
          <5>6. CASE w.carrier = "ok" /\ w.origin = "refused"
            <6>1. Note(w) = "partial"
              BY <5>6 DEF Note
            <6>2. "carrier" \in HavingAt(o, k, ui[k].v, stored)
              BY <5>2, <5>6 DEF HavingAt, MachinesOf
            <6> QED
              BY <5>1, <6>1, <6>2
          <5>7. CASE w.carrier = "refused" /\ w.origin = "ok"
            <6>1. Note(w) = "partial"
              BY <5>7 DEF Note
            <6>2. "origin" \in HavingAt(o, k, ui[k].v, stored)
              BY <5>2, <5>3, <5>7 DEF HavingAt, MachinesOf
            <6> QED
              BY <5>1, <6>1, <6>2
          <5> QED
            BY <5>4, <5>5, <5>6, <5>7
        <4> QED
          BY <4>1, <4>2
      <3>7. NoteHolds(k, ui'[k], stored', sent')
        BY <2>1, <3>4, <3>5, <3>6 DEF NoteHolds
      <3> QED
        BY <2>1, <3>2, <3>5, <3>7 DEF NoteOK
    <2>8. \A j \in Doubles : NoteOK(j, ui'[j], stored', known'[j], here', sent')
      BY <2>3, <2>7 DEF NoteOK
    <2>9. ui'["model"].lone => \A y \in sent' : y.kind = "cli" => y.hot = "asked"
      <3>1. ui'["model"].lone => ui["model"].lone
        BY <2>1, <2>6 DEF SettingTypes, Shown, Doubles
      <3>2. \A x \in Dead(sent \ {w}) : \E y \in sent \ {w} : Alike(x, y)
        BY DeadAlike DEF SettingTypes
      <3>3. ASSUME NEW x \in sent', ui["model"].lone, x.kind = "cli" PROVE x.hot = "asked"
        <4>1. \E y \in sent : y.kind = x.kind /\ y.hot = x.hot
          BY <2>1, <3>2 DEF Alike
        <4> QED
          BY <4>1, <3>3 DEF NotesInv
      <3> QED
        BY <3>1, <3>3
    <2> QED
      BY <2>8, <2>9 DEF NotesInv
  <1>8. ASSUME NEW w \in sent, HotRefused(w) \/ SwitchedBack(w) PROVE NotesInv'
    <2>1. /\ sent' = sent \ {w} /\ UNCHANGED <<here, stored, known, ui>> /\ w.kind \notin Doubles
      BY <1>8, <1>w DEF HotRefused, SwitchedBack, WriteOK, Doubles
    <2>2. \A k \in Doubles : Of(k, sent') = Of(k, sent)
      BY <2>1 DEF Of
    <2>3. \A k \in Doubles : NoteOK(k, ui'[k], stored', known'[k], here', sent')
      BY <2>1, <2>2, <1>same
    <2> QED
      BY <2>1, <2>3 DEF NotesInv
  <1>9. ASSUME NEW w \in sent, ChoiceFails(w) PROVE NotesInv'
    <2> DEFINE x == [w EXCEPT !.kind = "back", !.live = FALSE]
    <2>1. /\ w.kind = "cli" /\ UNCHANGED <<here, stored, known, ui>>
          /\ sent' = sent \ {w} \/ sent' = (sent \ {w}) \cup {x}
      BY <1>9 DEF ChoiceFails
    <2>2. x.kind = "back"
      BY <1>w DEF SettingWrite
    <2>3. \A k \in Doubles : Of(k, sent') = Of(k, sent)
      BY <2>1, <2>2 DEF Of, Doubles
    <2>4. \A k \in Doubles : NoteOK(k, ui'[k], stored', known'[k], here', sent')
      BY <2>1, <2>3, <1>same
    <2> QED
      BY <2>1, <2>2, <2>4 DEF NotesInv
  <1>10. ASSUME NEW w \in sent, ChoiceLands(w) PROVE NotesInv'
    <2>1. /\ w.kind = "cli" /\ Judged(w) /\ UNCHANGED <<here, stored, known>>
          /\ sent' = sent \ {w} /\ ui' = [ui EXCEPT !["model"].note = Note(w)]
      BY <1>10 DEF ChoiceLands
    <2>2. w.hot # "asked"
      BY <2>1, <1>w DEF Judged, WriteOK
    <2>3. ~ui["model"].lone
      BY <2>1, <2>2 DEF NotesInv
    <2>4. ui'["effort"] = ui["effort"] /\ ~ui'["model"].lone
      BY <2>1, <2>3, <1>u DEF SettingTypes, Shown, Doubles, UiType
    <2>5. Of("effort", sent') = Of("effort", sent)
      BY <2>1 DEF Of
    <2>6. NoteOK("effort", ui["effort"], stored, known["effort"], here, sent')
      BY <2>5, NoteSame DEF NotesInv, Doubles
    <2>7. NoteOK("model", ui'["model"], stored', known'["model"], here', sent')
      BY <2>4 DEF NoteOK
    <2> QED
      BY <2>1, <2>4, <2>6, <2>7 DEF NotesInv, Doubles
  <1>11. ASSUME NEW w \in sent, NEW runs \in BOOLEAN, HotSwitched(w, runs) PROVE NotesInv'
    <2> DEFINE x == [w EXCEPT !.hot = IF runs THEN "done" ELSE "no"]
    <2>1. /\ w.kind = "cli" /\ UNCHANGED <<here, stored, known>>
          /\ sent' = (sent \ {w}) \cup {x}
          /\ ui' = [ui EXCEPT !["model"].note = "none", !["model"].lone = FALSE]
      BY <1>11, <1>w DEF HotSwitched, Persisting, WriteOK
    <2>2. x.kind = "cli"
      BY <2>1, <1>w DEF SettingWrite
    <2>3. ui'["effort"] = ui["effort"] /\ ~ui'["model"].lone
      BY <2>1, <1>u DEF SettingTypes, Shown, Doubles, UiType
    <2>4. Of("effort", sent') = Of("effort", sent)
      BY <2>1, <2>2 DEF Of
    <2>5. NoteOK("effort", ui["effort"], stored, known["effort"], here, sent')
      BY <2>4, NoteSame DEF NotesInv, Doubles
    <2>6. NoteOK("model", ui'["model"], stored', known'["model"], here', sent')
      BY <2>3 DEF NoteOK
    <2> QED
      BY <2>1, <2>3, <2>5, <2>6 DEF NotesInv, Doubles
  <1>12. CASE UNCHANGED settingVars
    BY <1>12 DEF settingVars, NotesInv
  <1>13. ASSUME NEW v \in Values, NEW k \in Shown, ChangeUnheard(k, v) PROVE NotesInv'
    <2>1. /\ UNCHANGED <<here, stored, known, sent>>
          /\ ui' = [ui EXCEPT ![k] = [v |-> v, note |-> "none", of |-> here, lone |-> FALSE]]
      BY <1>13 DEF ChangeUnheard
    <2>2. \A j \in Doubles : ui'[j] = ui[j] \/ ~ui'[j].lone
      BY <2>1 DEF SettingTypes, Shown
    <2>3. \A j \in Doubles : NoteOK(j, ui'[j], stored', known'[j], here', sent')
      <3> TAKE j \in Doubles
      <3>1. CASE ui'[j] = ui[j]
        BY <2>1, <3>1 DEF NotesInv
      <3>2. CASE ~ui'[j].lone
        BY <3>2 DEF NoteOK
      <3> QED
        BY <2>2, <3>1, <3>2
    <2>4. ui'["model"].lone => ui["model"].lone
      BY <2>2 DEF Doubles
    <2> QED
      BY <2>1, <2>3, <2>4 DEF NotesInv
  <1>14. ASSUME NEW v \in Values, ChooseUnheard(v) PROVE NotesInv'
    <2>1. sent' = Dead(sent) /\ UNCHANGED <<here, stored, known, ui>>
      BY <1>14 DEF ChooseUnheard, Dead
    <2>2. \A k \in Doubles : NoteOK(k, ui'[k], stored', known'[k], here', sent')
      BY <2>1, <1>same
    <2>3. ASSUME ui["model"].lone, NEW y \in sent', y.kind = "cli" PROVE y.hot = "asked"
      <3>1. \E w \in sent : w.kind = "cli" /\ w.hot = y.hot
        BY <2>1, <2>3, <1>e DEF Alike
      <3> QED
        BY <2>3, <3>1 DEF NotesInv
    <2> QED
      BY <2>1, <2>2, <2>3 DEF NotesInv
  <1>15. ASSUME NEW w \in sent, HotUnwritten(w) PROVE NotesInv'
    <2>1. /\ w.kind = "cli" /\ UNCHANGED <<here, stored, known, ui>>
          /\ sent' = (sent \ {w}) \cup {Unwritten(w)}
      BY <1>15, <1>w DEF HotUnwritten, WriteOK
    <2>2. Unwritten(w).kind = "back"
      BY <1>w DEF SettingWrite, Unwritten
    <2>3. \A k \in Doubles : Of(k, sent') = Of(k, sent)
      BY <2>1, <2>2 DEF Of, Doubles
    <2>4. \A k \in Doubles : NoteOK(k, ui'[k], stored', known'[k], here', sent')
      BY <2>1, <2>3, <1>same
    <2> QED
      BY <2>1, <2>2, <2>4 DEF NotesInv
  <1> QED
    BY <1>1, <1>2, <1>3, <1>4, <1>5, <1>6, <1>7, <1>8, <1>9, <1>10, <1>11, <1>12, <1>13, <1>14, <1>15
       DEF SettingsNext

LEMMA RunsKept ==
    ASSUME SettingTypes, WritesInv, RunsInv, [SettingsNext]_settingVars
    PROVE  RunsInv'
  <1> DEFINE stands(c) == stored[c]["cli"].carrier
             ok(c, S) == RunOK(c, cliRun[c], stands(c), S)
  <1>w. \A w \in sent : w \in SettingWrite /\ WriteOK(w) /\ w.conv \in Convs
    BY DEF SettingTypes, WritesInv, SettingWrite
  <1>i. \A c \in Convs \ Abroad : ok(c, sent) /\ ok(c, Dead(sent))
    BY RunDead DEF RunsInv, SettingTypes
  <1>e. \A x \in Dead(sent) : \E w \in sent : Alike(x, w)
    BY DeadAlike DEF SettingTypes
  <1>t. \A c \in Convs : cliRun[c] \in RunType
    BY DEF SettingTypes
  <1>1. ASSUME NEW c \in Convs, Open(c) PROVE RunsInv'
    <2>1. sent' = Dead(sent) /\ UNCHANGED <<stored, cliRun>>
      BY <1>1 DEF Open, Dead
    <2> QED
      BY <2>1, <1>i DEF RunsInv
  <1>2. ASSUME NEW c \in Convs, TurnStarts(c) PROVE RunsInv'
    <2> DEFINE v == IF cliRun[c].fresh THEN stored[c]["cli"].carrier ELSE cliRun[c].v
    <2>1. cliRun' = [cliRun EXCEPT ![c] = [@ EXCEPT !.v = v, !.fresh = FALSE]] /\ UNCHANGED <<stored, sent>>
      BY <1>2 DEF TurnStarts
    <2>2. \A d \in Convs \ {c} : cliRun'[d] = cliRun[d]
      BY <2>1 DEF SettingTypes
    <2>3. /\ cliRun'[c].v = v /\ cliRun'[c].fresh = FALSE /\ cliRun'[c].crossed = cliRun[c].crossed
      BY <2>1, <1>t DEF SettingTypes, RunType
    <2>4. ASSUME c \notin Abroad PROVE RunOK(c, cliRun'[c], stored'[c]["cli"].carrier, sent')
      <3>1. RunOK(c, cliRun[c], stored[c]["cli"].carrier, sent)
        BY <2>4, <1>i
      <3> QED
        BY <2>1, <2>3, <3>1 DEF RunOK
    <2>5. ASSUME NEW d \in Convs \ Abroad PROVE RunOK(d, cliRun'[d], stored'[d]["cli"].carrier, sent')
      BY <2>1, <2>2, <2>4, <1>i
    <2> QED
      BY <2>5 DEF RunsInv
  <1>3. ASSUME NEW c \in Convs, TurnEnds(c) PROVE RunsInv'
    BY <1>3 DEF TurnEnds, RunsInv
  <1>4. ASSUME NEW v \in Values, Choose(v) PROVE RunsInv'
    <2> DEFINE x == [Write("cli", v, Choice) EXCEPT !.hot = IF Active(here) THEN "no" ELSE "asked"]
               yes == Choosing({"cli", "back", "model"}) \/ Choice # stored[here]["cli"].carrier
    <2>1. sent' = Dead(sent) \cup {x} /\ UNCHANGED <<stored, here>>
          /\ cliRun' = IF yes THEN [cliRun EXCEPT ![here].crossed = TRUE] ELSE cliRun
      BY <1>4 DEF Choose, Dead, Crossing
    <2>2. x.kind = "cli" /\ x.conv = here /\ x.before = Choice /\ x.carrier = "open" /\ x.hot # "done"
      BY DEF Write
    <2>3. \A d \in Convs : cliRun'[d].v = cliRun[d].v /\ cliRun'[d].fresh = cliRun[d].fresh
                           /\ (cliRun[d].crossed => cliRun'[d].crossed)
      BY <2>1, <1>t DEF SettingTypes, RunType
    <2>4. ASSUME NEW d \in Convs \ Abroad, d # here
          PROVE  RunOK(d, cliRun'[d], stored'[d]["cli"].carrier, sent')
      <3>1. cliRun'[d] = cliRun[d]
        BY <2>1, <2>4 DEF SettingTypes
      <3>2. {w \in sent' : Chooser(w, d)} = {w \in Dead(sent) : Chooser(w, d)}
        BY <2>1, <2>2, <2>4 DEF Chooser
      <3>3. \A y \in sent' : y.conv = d /\ y.kind = "model" => y \in Dead(sent)
        BY <2>1, <2>2
      <3> QED
        BY <2>1, <3>1, <3>2, <3>3, <1>i, RunSame
    <2>5. ASSUME here \notin Abroad PROVE RunOK(here, cliRun'[here], stored'[here]["cli"].carrier, sent')
      <3>0. here \in Convs
        BY DEF SettingTypes
      <3>1. CASE yes
        <4>1. cliRun'[here].crossed
          BY <3>0, <3>1, <2>1, <1>t DEF SettingTypes, RunType
        <4> QED
          BY <4>1 DEF RunOK
      <3>2. CASE ~yes
        <4>1. \A w \in sent : w.conv = here => w.kind \notin {"cli", "back", "model"}
          BY <3>2 DEF Choosing
        <4>2. \A w \in Dead(sent) : w.conv = here => w.kind \notin {"cli", "back", "model"}
          BY <4>1, <1>e DEF Alike
        <4>3. Choice = stored[here]["cli"].carrier
          BY <3>2
        <4>4. RunOK(here, cliRun[here], stored[here]["cli"].carrier, sent)
          BY <1>i, <2>5, <3>0
        <4>5. \A w \in sent : ~Chooser(w, here)
          BY <4>1 DEF Chooser
        <4>6. cliRun' = cliRun
          BY <3>2, <2>1
        <4>7. cliRun[here].crossed \/ cliRun[here].fresh \/ cliRun[here].v = stored[here]["cli"].carrier
          BY <4>4, <4>5 DEF RunOK
        <4>8. \A w \in sent' : Chooser(w, here) => w = x
          BY <4>2, <2>1 DEF Chooser
        <4>9. \A w \in sent' : ~(w.conv = here /\ w.kind = "model")
          BY <4>2, <2>1, <2>2
        <4>10. Chooser(x, here) /\ x \in sent'
          BY <2>1, <2>2 DEF Chooser
        <4> QED
          BY <2>1, <2>2, <4>3, <4>6, <4>7, <4>8, <4>9, <4>10 DEF RunOK
      <3> QED
        BY <3>1, <3>2
    <2> QED
      BY <2>4, <2>5 DEF RunsInv
  \* A step that leaves the process, what is stored and every choice alone.
  <1>same. ASSUME UNCHANGED <<stored, cliRun>>,
                  \A x \in sent' : x.kind \in {"cli", "back", "model"} => x \in sent,
                  \A x \in sent : x.kind \in {"cli", "back"} => x \in sent'
           PROVE  RunsInv'
    <2> SUFFICES ASSUME NEW c \in Convs \ Abroad
                 PROVE  RunOK(c, cliRun'[c], stored'[c]["cli"].carrier, sent')
      BY DEF RunsInv
    <2>1. {y \in sent' : Chooser(y, c)} = {y \in sent : Chooser(y, c)}
      BY <1>same DEF Chooser
    <2>2. \A y \in sent' : y.conv = c /\ y.kind = "model" => y \in sent
      BY <1>same
    <2> QED
      BY <2>1, <2>2, <1>same, <1>i, RunSame
  <1>5. ASSUME NEW v \in Values, ChangePermission(v) PROVE RunsInv'
    <2>1. Write("permission", v, Effective("permission")).kind = "permission"
      BY DEF Write
    <2> QED
      BY <1>5, <2>1, <1>same DEF ChangePermission
  <1>6. ASSUME NEW v \in Values, NEW k \in Doubles, ChangeSetting(k, v) PROVE RunsInv'
    <2> DEFINE x == Write(k, v, Effective(k))
               yes == k = "model" /\ Choosing({"cli", "back"})
    <2>1. x.kind = k /\ x.conv = here /\ here \in Convs
      BY DEF Write, SettingTypes
    <2>2. /\ sent' = sent \cup {x} /\ UNCHANGED stored
          /\ cliRun' = IF yes THEN [cliRun EXCEPT ![here].crossed = TRUE] ELSE cliRun
      BY <1>6 DEF ChangeSetting, Crossing
    <2>3. CASE k # "model"
      BY <2>1, <2>2, <2>3, <1>same DEF Doubles
    <2>4. CASE k = "model"
      <3>1. ASSUME NEW c \in Convs \ Abroad PROVE RunOK(c, cliRun'[c], stored'[c]["cli"].carrier, sent')
        <4>1. RunOK(c, cliRun[c], stored[c]["cli"].carrier, sent)
          BY <1>i
        <4>2. {w \in sent' : Chooser(w, c)} = {w \in sent : Chooser(w, c)}
          BY <2>1, <2>2, <2>4 DEF Chooser
        <4>3. CASE c # here
          <5>1. cliRun'[c] = cliRun[c]
            BY <2>2, <4>3 DEF SettingTypes
          <5>2. \A y \in sent' : y.conv = c /\ y.kind = "model" => y \in sent
            BY <2>1, <2>2, <4>3
          <5> QED
            BY <2>2, <4>1, <4>2, <5>1, <5>2, RunSame
        <4>4. CASE c = here /\ yes
          <5>1. cliRun'[c].crossed
            BY <2>2, <4>4, <1>t DEF SettingTypes, RunType
          <5> QED
            BY <5>1 DEF RunOK
        <4>5. CASE c = here /\ ~yes
          <5>1. \A w \in sent : ~Chooser(w, c)
            BY <2>4, <4>5 DEF Choosing, Chooser
          <5>2. \A w \in sent' : ~Chooser(w, c)
            BY <4>2, <5>1
          <5> QED
            BY <2>2, <4>1, <4>5, <5>1, <5>2 DEF RunOK
        <4> QED
          BY <4>3, <4>4, <4>5
      <3> QED
        BY <3>1 DEF RunsInv
    <2> QED
      BY <2>3, <2>4
  <1>7. ASSUME NEW w \in sent, NEW m \in {"carrier", "origin"}, NEW yes \in BOOLEAN, WriteAnswers(w, m, yes)
        PROVE RunsInv'
    <2> DEFINE x == [w EXCEPT ![m] = IF yes THEN "ok" ELSE "refused"]
               c == w.conv
    <2>1. /\ x.kind = w.kind /\ x.conv = c /\ x.v = w.v /\ x.before = w.before /\ x.hot = w.hot
          /\ w[m] = "open" /\ x[m] = (IF yes THEN "ok" ELSE "refused")
          /\ m = "origin" => x.carrier = w.carrier
          /\ c \in Convs
      BY <1>7, <1>w DEF SettingWrite, WriteAnswers
    <2>2. sent' = (sent \ {w}) \cup {x}
      BY <1>7 DEF WriteAnswers
    <2>3. stored' = IF yes /\ w.kind # "permission" THEN Kept(w, m) ELSE stored
      BY <1>7 DEF WriteAnswers
    <2>4. cliRun' = IF yes /\ w.kind \in {"cli", "model"} /\ m = "carrier"
                    THEN [cliRun EXCEPT ![c].fresh = TRUE] ELSE cliRun
      BY <1>7 DEF WriteAnswers
    <2>5. w.kind # "back"
      BY <2>1, <1>w DEF WriteOK, Judged
    <2>6. c \notin Abroad => m = "carrier"
      BY <2>1, <1>w DEF WriteOK
    <2>7. ASSUME NEW d \in Convs \ Abroad, d # c
          PROVE  RunOK(d, cliRun'[d], stored'[d]["cli"].carrier, sent')
      <3>1. cliRun'[d] = cliRun[d] /\ stored'[d] = stored[d]
        BY <2>3, <2>4, <2>7 DEF Kept, SettingTypes, StoredType
      <3>2. {y \in sent' : Chooser(y, d)} = {y \in sent : Chooser(y, d)}
        BY <2>1, <2>2, <2>7 DEF Chooser
      <3>3. \A y \in sent' : y.conv = d /\ y.kind = "model" => y \in sent
        BY <2>1, <2>2, <2>7
      <3> QED
        BY <3>1, <3>2, <3>3, <1>i, RunSame
    <2>8. ASSUME c \notin Abroad PROVE RunOK(c, cliRun'[c], stored'[c]["cli"].carrier, sent')
      <3> DEFINE st == stored[c]["cli"].carrier
      <3>1. RunOK(c, cliRun[c], st, sent) /\ m = "carrier" /\ w.carrier = "open"
        BY <2>1, <2>6, <2>8, <1>i
      <3>2. cliRun'[c].crossed = cliRun[c].crossed /\ cliRun'[c].v = cliRun[c].v
        BY <2>1, <2>4, <1>t DEF SettingTypes, RunType
      <3>3. CASE w.kind \in {"permission", "effort"} \/ ~yes
        <4>1. cliRun'[c] = cliRun[c] /\ stored'[c]["cli"] = stored[c]["cli"]
          BY <2>1, <2>3, <2>4, <3>3 DEF Kept, SettingTypes, StoredType, Kinds, Doubles
        <4>2. CASE w.kind # "cli"
          <5>1. {y \in sent' : Chooser(y, c)} = {y \in sent : Chooser(y, c)}
            BY <2>1, <2>2, <2>5, <4>2 DEF Chooser
          <5>2. (\E y \in sent' : y.conv = c /\ y.kind = "model") => \E y \in sent : y.conv = c /\ y.kind = "model"
            BY <2>1, <2>2
          <5> QED
            BY <3>1, <4>1, <5>1, <5>2 DEF RunOK
        <4>3. CASE w.kind = "cli"
          <5>1. Chooser(w, c) /\ Chooser(x, c) /\ x.carrier = "refused"
            BY <2>1, <3>1, <3>3, <4>3 DEF Chooser
          <5>2. CASE ~cliRun[c].crossed
            <6>1. \A y \in sent : Chooser(y, c) => y = w
              BY <3>1, <5>1, <5>2 DEF RunOK
            <6>2. \A y \in sent' : Chooser(y, c) => y = x
              BY <2>2, <6>1
            <6>3. \A y \in sent' : ~(y.conv = c /\ y.kind = "model")
              BY <2>1, <2>2, <3>1, <5>1, <5>2, <4>3 DEF RunOK
            <6>4. st = x.before /\ (x.hot = "done" \/ cliRun[c].fresh \/ cliRun[c].v = x.before)
              BY <2>1, <3>1, <5>1, <5>2 DEF RunOK
            <6>5. x \in sent'
              BY <2>2
            <6> QED
              BY <4>1, <5>1, <6>2, <6>3, <6>4, <6>5 DEF RunOK
          <5> QED
            BY <3>2, <5>2 DEF RunOK
        <4> QED
          BY <4>2, <4>3
      <3>4. CASE w.kind = "model" /\ yes
        <4>1. cliRun'[c].fresh
          BY <2>1, <2>4, <3>1, <3>4, <1>t DEF SettingTypes, RunType
        <4>2. CASE ~cliRun[c].crossed
          <5>1. \A y \in sent : ~Chooser(y, c)
            BY <3>1, <3>4, <4>2 DEF RunOK
          <5>2. \A y \in sent' : ~Chooser(y, c)
            BY <2>1, <2>2, <3>4, <5>1 DEF Chooser
          <5> QED
            BY <4>1, <5>2 DEF RunOK
        <4> QED
          BY <3>2, <4>2 DEF RunOK
      <3>5. CASE w.kind = "cli" /\ yes
        <4>1. cliRun'[c].fresh
          BY <2>1, <2>4, <3>1, <3>5, <1>t DEF SettingTypes, RunType
        <4>2. stored'[c]["cli"].carrier = w.v
          BY <2>1, <2>3, <3>1, <3>5 DEF Kept, SettingTypes, StoredType, Kinds
        <4>3. Chooser(w, c) /\ Chooser(x, c) /\ x.carrier = "ok" /\ x \in sent'
          BY <2>1, <2>2, <3>1, <3>5 DEF Chooser
        <4>4. CASE ~cliRun[c].crossed
          <5>1. \A y \in sent : Chooser(y, c) => y = w
            BY <3>1, <4>3, <4>4 DEF RunOK
          <5>2. \A y \in sent' : Chooser(y, c) => y = x
            BY <2>2, <5>1
          <5>3. \A y \in sent' : ~(y.conv = c /\ y.kind = "model")
            BY <2>1, <2>2, <3>1, <3>5, <4>3, <4>4 DEF RunOK
          <5> QED
            BY <2>1, <4>1, <4>2, <4>3, <5>2, <5>3 DEF RunOK
        <4> QED
          BY <3>2, <4>4 DEF RunOK
      <3>6. w.kind \in {"permission", "effort", "model", "cli"}
        BY <2>5, <1>w DEF SettingWrite, Shown, Doubles
      <3> QED
        BY <3>3, <3>4, <3>5, <3>6
    <2> QED
      BY <2>7, <2>8 DEF RunsInv
  <1>8. ASSUME NEW w \in sent, SettingLands(w) PROVE RunsInv'
    <2>1. /\ w.kind \in Shown /\ UNCHANGED <<stored, cliRun>>
          /\ sent' = sent \ {w} \/ sent' = Dead(sent \ {w})
      BY <1>8 DEF SettingLands, Dead
    <2>2. ASSUME NEW c \in Convs \ Abroad PROVE ok(c, sent \ {w})
      <3>1. {y \in sent \ {w} : Chooser(y, c)} = {y \in sent : Chooser(y, c)}
        BY <2>1 DEF Chooser, Shown, Doubles
      <3> QED
        BY <3>1, <1>i, RunSame
    <2>3. ASSUME NEW c \in Convs \ Abroad PROVE ok(c, Dead(sent \ {w}))
      BY <2>2, RunDead DEF SettingTypes
    <2> QED
      BY <2>1, <2>2, <2>3 DEF RunsInv
  \* The choice under way ends: what it leaves behind is what the machine has.
  <1>ends. ASSUME NEW w \in sent, w.kind \in {"cli", "back"}, sent' = sent \ {w}, UNCHANGED stored,
                  \A d \in Convs \ {w.conv} : cliRun'[d] = cliRun[d],
                  cliRun'[w.conv].crossed = cliRun[w.conv].crossed,
                  w.conv \notin Abroad /\ ~cliRun[w.conv].crossed =>
                     cliRun'[w.conv].fresh \/ cliRun'[w.conv].v = stands(w.conv)
           PROVE  RunsInv'
    <2> DEFINE c == w.conv
    <2>1. ASSUME NEW d \in Convs \ Abroad, d # c PROVE RunOK(d, cliRun'[d], stored'[d]["cli"].carrier, sent')
      <3>1. {y \in sent' : Chooser(y, d)} = {y \in sent : Chooser(y, d)}
        BY <1>ends, <2>1 DEF Chooser
      <3> QED
        BY <1>ends, <2>1, <3>1, <1>i, RunSame
    <2>2. ASSUME c \notin Abroad, ~cliRun[c].crossed
          PROVE  RunOK(c, cliRun'[c], stored'[c]["cli"].carrier, sent')
      <3>1. \A y \in sent : Chooser(y, c) => y = w
        BY <1>ends, <1>w, <1>i, <2>2 DEF RunOK, Chooser
      <3>2. \A y \in sent' : ~Chooser(y, c)
        BY <1>ends, <3>1
      <3> QED
        BY <1>ends, <2>2, <3>2 DEF RunOK
    <2>3. cliRun[c].crossed => RunOK(c, cliRun'[c], stored'[c]["cli"].carrier, sent')
      BY <1>ends DEF RunOK
    <2> QED
      BY <2>1, <2>2, <2>3 DEF RunsInv
  \* What is known of a choice under way.
  <1>own. ASSUME NEW w \in sent, w.kind \in {"cli", "back"}, w.conv \notin Abroad, ~cliRun[w.conv].crossed
          PROVE  IF w.carrier = "ok" THEN stands(w.conv) = w.v /\ (cliRun[w.conv].fresh \/ cliRun[w.conv].v = w.v)
                 ELSE stands(w.conv) = w.before /\ (w.hot = "done" \/ cliRun[w.conv].fresh \/ cliRun[w.conv].v = w.before)
    BY <1>own, <1>w, <1>i DEF RunOK, Chooser
  <1>9. ASSUME NEW w \in sent, HotRefused(w) PROVE RunsInv'
    <2>1. w.hot = "asked" /\ w.kind = "cli" /\ w.carrier = "open" /\ sent' = sent \ {w} /\ UNCHANGED <<stored, cliRun>>
      BY <1>9, <1>w DEF HotRefused, WriteOK
    <2> QED
      BY <2>1, <1>own, <1>ends
  <1>10. ASSUME NEW w \in sent, SwitchedBack(w) PROVE RunsInv'
    <2>1. /\ w.kind = "back" /\ sent' = sent \ {w} /\ UNCHANGED stored
          /\ cliRun' = [cliRun EXCEPT ![w.conv].v = w.before]
      BY <1>10 DEF SwitchedBack
    <2>2. /\ \A d \in Convs \ {w.conv} : cliRun'[d] = cliRun[d]
          /\ cliRun'[w.conv].crossed = cliRun[w.conv].crossed /\ cliRun'[w.conv].fresh = cliRun[w.conv].fresh
          /\ cliRun'[w.conv].v = w.before
      BY <2>1, <1>w, <1>t DEF SettingTypes, RunType
    <2>3. ASSUME w.conv \notin Abroad, ~cliRun[w.conv].crossed
          PROVE  cliRun'[w.conv].fresh \/ cliRun'[w.conv].v = stands(w.conv)
      BY <2>1, <2>2, <2>3, <1>own, <1>w DEF WriteOK, Lost
    <2> QED
      BY <2>1, <2>2, <2>3, <1>ends
  <1>11. ASSUME NEW w \in sent, ChoiceLands(w) PROVE RunsInv'
    <2>1. /\ w.kind = "cli" /\ Judged(w) /\ ~Lost(w) /\ sent' = sent \ {w} /\ UNCHANGED <<stored, cliRun>>
      BY <1>11 DEF ChoiceLands
    <2>2. w.conv \notin Abroad => w.carrier = "ok"
      BY <2>1, <1>w DEF Judged, Lost, WriteOK, SettingWrite
    <2> QED
      BY <2>1, <2>2, <1>own, <1>ends
  <1>12. ASSUME NEW w \in sent, ChoiceFails(w) PROVE RunsInv'
    <2> DEFINE x == [w EXCEPT !.kind = "back", !.live = FALSE]
               c == w.conv
    <2>1. /\ w.kind = "cli" /\ Judged(w) /\ Lost(w) /\ UNCHANGED <<stored, cliRun>>
          /\ sent' = (sent \ {w}) \cup (IF w.hot = "done" THEN {x} ELSE {})
      BY <1>12 DEF ChoiceFails
    <2>2. CASE w.hot # "done"
      <3>1. w.carrier = "refused" /\ sent' = sent \ {w}
        BY <2>1, <2>2 DEF Lost
      <3> QED
        BY <2>1, <2>2, <3>1, <1>own, <1>ends
    <2>3. CASE w.hot = "done"
      <3>1. /\ x.kind = "back" /\ x.conv = c /\ x.before = w.before /\ x.hot = "done"
            /\ x.carrier = "refused" /\ w.carrier = "refused" /\ sent' = (sent \ {w}) \cup {x}
        BY <2>1, <2>3, <1>w DEF SettingWrite, Lost
      <3>2. ASSUME NEW d \in Convs \ Abroad, d # c PROVE RunOK(d, cliRun'[d], stored'[d]["cli"].carrier, sent')
        <4>1. {y \in sent' : Chooser(y, d)} = {y \in sent : Chooser(y, d)}
          BY <3>1, <3>2 DEF Chooser
        <4>2. \A y \in sent' : y.conv = d /\ y.kind = "model" => y \in sent
          BY <3>1
        <4> QED
          BY <2>1, <4>1, <4>2, <1>i, RunSame
      <3>3. ASSUME c \notin Abroad, ~cliRun[c].crossed
            PROVE  RunOK(c, cliRun'[c], stored'[c]["cli"].carrier, sent')
        <4>1. Chooser(w, c) /\ RunOK(c, cliRun[c], stands(c), sent)
          BY <2>1, <1>i, <1>w, <3>3 DEF Chooser
        <4>2. /\ \A y \in sent : Chooser(y, c) => y = w
              /\ \A y \in sent : ~(y.conv = c /\ y.kind = "model")
              /\ stands(c) = w.before
          BY <3>1, <3>3, <4>1 DEF RunOK
        <4>3. /\ \A y \in sent' : Chooser(y, c) => y = x
              /\ \A y \in sent' : ~(y.conv = c /\ y.kind = "model")
              /\ Chooser(x, c) /\ x \in sent'
          BY <3>1, <4>2 DEF Chooser
        <4> QED
          BY <2>1, <3>1, <4>2, <4>3 DEF RunOK
      <3>4. cliRun[c].crossed => RunOK(c, cliRun'[c], stored'[c]["cli"].carrier, sent')
        BY <2>1 DEF RunOK
      <3> QED
        BY <3>2, <3>3, <3>4 DEF RunsInv
    <2> QED
      BY <2>2, <2>3
  <1>13. ASSUME NEW w \in sent, NEW runs \in BOOLEAN, HotSwitched(w, runs) PROVE RunsInv'
    <2> DEFINE x == [w EXCEPT !.hot = IF runs THEN "done" ELSE "no"]
               c == w.conv
    <2>1. /\ w.hot = "asked" /\ w.kind = "cli" /\ w.carrier = "open" /\ UNCHANGED stored /\ c \in Convs
          /\ sent' = (sent \ {w}) \cup {x}
          /\ cliRun' = IF runs THEN [cliRun EXCEPT ![c].v = w.v] ELSE cliRun
      BY <1>13, <1>w DEF HotSwitched, WriteOK
    <2>2. /\ x.kind = "cli" /\ x.conv = c /\ x.before = w.before /\ x.carrier = "open"
          /\ x.hot = (IF runs THEN "done" ELSE "no") /\ x \in sent'
      BY <2>1, <1>w DEF SettingWrite
    <2>3. /\ \A d \in Convs \ {c} : cliRun'[d] = cliRun[d]
          /\ cliRun'[c].crossed = cliRun[c].crossed /\ cliRun'[c].fresh = cliRun[c].fresh
          /\ ~runs => cliRun'[c].v = cliRun[c].v
      BY <2>1, <1>t DEF SettingTypes, RunType
    <2>4. ASSUME NEW d \in Convs \ Abroad, d # c PROVE RunOK(d, cliRun'[d], stored'[d]["cli"].carrier, sent')
      <3>1. {y \in sent' : Chooser(y, d)} = {y \in sent : Chooser(y, d)}
        BY <2>1, <2>2, <2>4 DEF Chooser
      <3>2. \A y \in sent' : y.conv = d /\ y.kind = "model" => y \in sent
        BY <2>1, <2>2
      <3> QED
        BY <2>1, <2>3, <2>4, <3>1, <3>2, <1>i, RunSame
    <2>5. ASSUME c \notin Abroad, ~cliRun[c].crossed
          PROVE  RunOK(c, cliRun'[c], stored'[c]["cli"].carrier, sent')
      <3>1. Chooser(w, c) /\ RunOK(c, cliRun[c], stands(c), sent)
        BY <2>1, <1>i, <2>5 DEF Chooser
      <3>2. /\ \A y \in sent : Chooser(y, c) => y = w
            /\ \A y \in sent : ~(y.conv = c /\ y.kind = "model")
            /\ stands(c) = w.before /\ (cliRun[c].fresh \/ cliRun[c].v = w.before)
        BY <2>1, <2>5, <3>1 DEF RunOK
      <3>3. /\ \A y \in sent' : Chooser(y, c) => y = x
            /\ \A y \in sent' : ~(y.conv = c /\ y.kind = "model")
            /\ Chooser(x, c)
        BY <2>1, <2>2, <3>2 DEF Chooser
      <3> QED
        BY <2>1, <2>2, <2>3, <3>2, <3>3 DEF RunOK
    <2>6. cliRun[c].crossed => RunOK(c, cliRun'[c], stored'[c]["cli"].carrier, sent')
      BY <2>3 DEF RunOK
    <2> QED
      BY <2>4, <2>5, <2>6 DEF RunsInv
  <1>14. CASE UNCHANGED settingVars
    BY <1>14 DEF settingVars, RunsInv
  <1>15. ASSUME NEW v \in Values, NEW k \in Shown, ChangeUnheard(k, v) PROVE RunsInv'
    BY <1>15, <1>same DEF ChangeUnheard
  <1>16. ASSUME NEW v \in Values, ChooseUnheard(v) PROVE RunsInv'
    <2>1. sent' = Dead(sent) /\ UNCHANGED <<stored, cliRun>>
      BY <1>16 DEF ChooseUnheard, Dead
    <2> QED
      BY <2>1, <1>i DEF RunsInv
  \* The switch is under way back: what the machine has is what was there before.
  <1>17. ASSUME NEW w \in sent, HotUnwritten(w) PROVE RunsInv'
    <2> DEFINE x == Unwritten(w)
               c == w.conv
    <2>1. /\ w.kind = "cli" /\ w.carrier = "open" /\ UNCHANGED stored /\ c \in Convs
          /\ sent' = (sent \ {w}) \cup {x}
          /\ cliRun' = [cliRun EXCEPT ![c].v = w.v]
      BY <1>17, <1>w DEF HotUnwritten, WriteOK
    <2>2. /\ x.kind = "back" /\ x.conv = c /\ x.before = w.before /\ x.hot = "done"
          /\ x.carrier = "refused" /\ x \in sent'
      BY <2>1, <1>w DEF SettingWrite, Unwritten
    <2>3. /\ \A d \in Convs \ {c} : cliRun'[d] = cliRun[d]
          /\ cliRun'[c].crossed = cliRun[c].crossed /\ cliRun'[c].fresh = cliRun[c].fresh
      BY <2>1, <1>t DEF SettingTypes, RunType
    <2>4. ASSUME NEW d \in Convs \ Abroad, d # c PROVE RunOK(d, cliRun'[d], stored'[d]["cli"].carrier, sent')
      <3>1. {y \in sent' : Chooser(y, d)} = {y \in sent : Chooser(y, d)}
        BY <2>1, <2>2, <2>4 DEF Chooser
      <3>2. \A y \in sent' : y.conv = d /\ y.kind = "model" => y \in sent
        BY <2>1, <2>2
      <3> QED
        BY <2>1, <2>3, <2>4, <3>1, <3>2, <1>i, RunSame
    <2>5. ASSUME c \notin Abroad, ~cliRun[c].crossed
          PROVE  RunOK(c, cliRun'[c], stored'[c]["cli"].carrier, sent')
      <3>1. Chooser(w, c) /\ RunOK(c, cliRun[c], stands(c), sent)
        BY <2>1, <1>i, <2>5 DEF Chooser
      <3>2. /\ \A y \in sent : Chooser(y, c) => y = w
            /\ \A y \in sent : ~(y.conv = c /\ y.kind = "model")
            /\ stands(c) = w.before
        BY <2>1, <2>5, <3>1 DEF RunOK
      <3> HIDE DEF x
      <3>3. /\ \A y \in sent' : Chooser(y, c) => y = x
            /\ \A y \in sent' : ~(y.conv = c /\ y.kind = "model")
            /\ Chooser(x, c)
        BY <2>1, <2>2, <3>2 DEF Chooser
      <3> QED
        BY <2>1, <2>2, <2>3, <3>2, <3>3 DEF RunOK
    <2>6. cliRun[c].crossed => RunOK(c, cliRun'[c], stored'[c]["cli"].carrier, sent')
      BY <2>3 DEF RunOK
    <2> QED
      BY <2>4, <2>5, <2>6 DEF RunsInv
  <1> QED
    BY <1>1, <1>2, <1>3, <1>4, <1>5, <1>6, <1>7, <1>8, <1>9, <1>10, <1>11, <1>12, <1>13, <1>14,
       <1>15, <1>16, <1>17 DEF SettingsNext

-----------------------------------------------------------------------------
LEMMA SettingsInvHolds == SettingsIInv => SettingsInv
  <1> SUFFICES ASSUME SettingsIInv PROVE SettingsInv
    OBVIOUS
  <1>1. SettingsTypeOK
    BY DEF SettingsIInv, SettingTypes, WritesInv, WriteOK, SettingsTypeOK, StoredType, Kinds, Doubles,
           Shown, UiType, LocalType, SettingWrite
  <1>2. NoteIsTrue
    <2> SUFFICES ASSUME NEW k \in Doubles, ui[k].of = here, ui[k].lone, SameSent(k) = {}
                 PROVE  LET having == {m \in Machines : stored[here][k][m] = ui[k].v}
                        IN  IF ui[k].note = "none" THEN having = Machines ELSE having # {}
      BY DEF NoteIsTrue
    <2>1. \A w \in sent : w.kind # k
      BY DEF SameSent
    <2>2. NoteOK(k, ui[k], stored, known[k], here, sent) /\ here # "nobody"
      BY NobodyAssumption DEF SettingsIInv, NotesInv, SettingTypes
    <2>3. NoteHolds(k, ui[k], stored, sent)
      BY <2>2 DEF NoteOK
    <2>4. Machines = MachinesOf(here)
      BY DEF Machines, MachinesOf
    <2> QED
      BY <2>1, <2>3, <2>4 DEF NoteHolds, HavingAt
  <1>3. LastChoiceCounts
    <2> DEFINE live == {w \in sent : w.kind = "cli" /\ w.live}
    <2>1. \A w, x \in live : w = x
      BY DEF SettingsIInv, LastInv, Counts
    <2>2. live = {} \/ \E w : live = {w}
      BY <2>1
    <2>3. Cardinality(live) <= 1
      <3>1. CASE live = {}
        BY <3>1, FS_EmptySet
      <3>2. CASE \E w : live = {w}
        <4>1. PICK w : live = {w}
          BY <3>2
        <4>2. Cardinality({w}) = 1
          BY FS_Singleton
        <4> HIDE DEF live
        <4> QED
          BY <4>1, <4>2
      <3> QED
        BY <2>2, <3>1, <3>2
    <2> QED
      BY <2>3 DEF LastChoiceCounts, SettingsIInv, LastInv, Counts
  <1>4. RunsWhatIsStored
    BY DEF RunsWhatIsStored, SettingsIInv, RunsInv, RunOK, Chooser
  <1> QED
    BY <1>1, <1>2, <1>3, <1>4 DEF SettingsInv

LEMMA SettingsBegin == SettingsInit => SettingsIInv
  <1> SUFFICES ASSUME SettingsInit PROVE SettingsIInv
    OBVIOUS
  <1>1. SettingTypes /\ WritesInv
    BY SettingTypesInit
  <1>2. NotesInv /\ LastInv /\ RunsInv
    BY <1>1 DEF SettingsInit, NotesInv, LastInv, RunsInv, NoteOK, RunOK, NoValue, Doubles, Shown, Kinds,
               SettingTypes
  <1> QED
    BY <1>1, <1>2 DEF SettingsIInv

(* Changes of settings that overlap end on the last choice, what is said beside a control
   is true of the machines, and a process runs what is stored or takes it with its next
   turn (useSessionCLIModel, writeSessionSetting).  A change made while the view has no
   client is shown, written nowhere and said nowhere; it counts as one that overlapped
   the writes before it, and what is at rest is claimed of the other controls only.  *)
THEOREM SettingsAreAsSaid == SettingsSpec => []SettingsInv
  <1>1. SettingsInit => SettingsIInv
    BY SettingsBegin
  <1>2. SettingsIInv /\ [SettingsNext]_settingVars => SettingsIInv'
    BY SettingTypesKept, NotesKept, LastKept, RunsKept DEF SettingsIInv
  <1>3. SettingsIInv => SettingsInv
    BY SettingsInvHolds
  <1> QED
    BY <1>1, <1>2, <1>3, PTL DEF SettingsSpec

-----------------------------------------------------------------------------
(* The machines of the account.                                              *)

DeviceRow == [there : BOOLEAN, online : BOOLEAN, name : {0, 1}, version : {0, 1}]
DeviceList == [of : [Devs -> DeviceRow], at : Nat]
ListRead == [why : Ops \cup {"first", "signal", "poll"}, got : BOOLEAN, list : DeviceList]

AccountOK == account \in DeviceList /\ account.at # 0 /\ signalled \in BOOLEAN
RowsOK ==
    /\ rows \in DeviceList
    /\ page \in [loading : BOOLEAN, error : BOOLEAN, guide : BOOLEAN]
    /\ page.loading => \E r \in reads.of : r.why = "first"
    /\ rows.at = 0 => page.loading \/ page.error
ReadsOK ==
    /\ reads \in [of : SUBSET ListRead, crossed : BOOLEAN, behind : BOOLEAN]
    /\ \A r \in reads.of : r.got => r.list.at # 0

\* A read that overlaps no other is alone, and what it was answered is so until a signal.
ReadAlone == ~reads.crossed => \A r \in reads.of : /\ reads.of = {r}
                                                   /\ r.got /\ ~signalled => r.list.of = account.of

\* The rows are those of the account unless something is on its way, or failed, that will
\* say so; a poll says nothing.
RowsAreOfNow ==
    /\ ~signalled /\ ~reads.behind /\ ~page.error
    /\ \A r \in reads.of : r.why = "poll"
    => rows.of = account.of

DialogsAwait ==
    /\ popups \in [Ops -> [on : Devs \cup {Nobody}, error : BOOLEAN, busy : BOOLEAN]]
    /\ \A o, p \in Ops : popups[o].on # Nobody /\ popups[p].on # Nobody => o = p
    /\ \A o \in Ops : popups[o].busy /\ popups[o].on = Nobody => \E r \in reads.of : r.why = o

ChannelsOK ==
    /\ links \in [Devs -> {"on", "off"}]
    /\ counts \in [Devs -> [shown : BOOLEAN, asked : BOOLEAN, now : BOOLEAN]]
    /\ \A d \in Devs : links[d] = "on" => SessionActive(d)
    /\ \A d \in Devs : counts[d].asked => links[d] = "on"

DetailsOK ==
    /\ details \in [Devs -> {"none", "loading", "data", "error"}] /\ detailReads \in [Devs -> {0, 1}]
    /\ \A d \in Devs : detailReads[d] = 1 <=> details[d] = "loading"

DevicesIInv == /\ AccountOK /\ RowsOK /\ ReadsOK /\ ReadAlone /\ RowsAreOfNow /\ DialogsAwait
               /\ ChannelsOK /\ DetailsOK

LEMMA DeviceFrames ==
    ASSUME DevicesIInv
    PROVE  /\ UNCHANGED <<account, signalled>> => AccountOK'
           /\ UNCHANGED <<rows, page, reads>> => RowsOK'
           /\ UNCHANGED reads => ReadsOK'
           /\ UNCHANGED <<reads, account, signalled>> => ReadAlone'
           /\ UNCHANGED <<reads, account, signalled, rows, page>> => RowsAreOfNow'
           /\ UNCHANGED <<popups, reads>> => DialogsAwait'
           /\ UNCHANGED <<links, counts, expanded, rows>> => ChannelsOK'
           /\ UNCHANGED <<details, detailReads>> => DetailsOK'
<1>1. /\ UNCHANGED <<account, signalled>> => AccountOK'
      /\ UNCHANGED <<rows, page, reads>> => RowsOK'
      /\ UNCHANGED reads => ReadsOK'
  BY DEF DevicesIInv, AccountOK, RowsOK, ReadsOK
<1>2. /\ UNCHANGED <<reads, account, signalled>> => ReadAlone'
      /\ UNCHANGED <<reads, account, signalled, rows, page>> => RowsAreOfNow'
  BY DEF DevicesIInv, ReadAlone, RowsAreOfNow
<1>3. UNCHANGED <<popups, reads>> => DialogsAwait'
  BY DEF DevicesIInv, DialogsAwait
<1>4. /\ UNCHANGED <<links, counts, expanded, rows>> => ChannelsOK'
      /\ UNCHANGED <<details, detailReads>> => DetailsOK'
  BY DEF DevicesIInv, ChannelsOK, SessionActive, DetailsOK
<1> QED BY <1>1, <1>2, <1>3, <1>4

-----------------------------------------------------------------------------
(* The list is asked for, read, applied.                                     *)

LEMMA NoRowsTyped == NoRows \in DeviceList /\ NoRows.at = 0
  BY DEF NoRows, DeviceList, DeviceRow

LEMMA ListAsked ==
    ASSUME DevicesIInv, NEW w \in Ops \cup {"signal", "poll"}, ReadList(w), UNCHANGED <<rows, page>>,
           w # "poll" \/ UNCHANGED <<account, signalled>>
    PROVE  /\ RowsOK' /\ ReadsOK' /\ ReadAlone' /\ RowsAreOfNow'
           /\ \A r \in reads.of : r \in reads'.of
           /\ \E r \in reads'.of : r.why = w
<1> DEFINE q == [why |-> w, got |-> FALSE, list |-> NoRows]
           c == reads.of # {}
<1>1. q \in ListRead /\ ~q.got /\ q.why = w
  BY NoRowsTyped DEF ListRead
<1>2. reads' = [reads EXCEPT !.of = reads.of \cup {q}, !.crossed = c] /\ c \in BOOLEAN
  BY DEF ReadList
<1>3. c = FALSE => reads.of = {}
  OBVIOUS
<1> HIDE DEF q, c
<1>4. /\ reads' \in [of : SUBSET ListRead, crossed : BOOLEAN, behind : BOOLEAN]
      /\ reads'.of = reads.of \cup {q} /\ reads'.crossed = c /\ reads'.behind = reads.behind
  BY <1>1, <1>2 DEF DevicesIInv, ReadsOK
<1>5. RowsOK' /\ ReadsOK'
  BY <1>1, <1>4 DEF DevicesIInv, RowsOK, ReadsOK
<1>6. ReadAlone'
  BY <1>1, <1>3, <1>4 DEF ReadAlone
<1>7. RowsAreOfNow'
  BY <1>1, <1>4 DEF DevicesIInv, RowsAreOfNow
<1> QED BY <1>1, <1>4, <1>5, <1>6, <1>7

LEMMA ListServedStep ==
    ASSUME DevicesIInv, NEW r \in reads.of, ListServed(r)
    PROVE  DevicesIInv'
<1> DEFINE q == [r EXCEPT !.got = TRUE, !.list = account]
<1>1. q \in ListRead /\ q.got /\ q.why = r.why /\ q.list = account
  BY DEF DevicesIInv, ReadsOK, ListRead, AccountOK
<1>2. /\ reads' = [reads EXCEPT !.of = (reads.of \ {r}) \cup {q}]
      /\ UNCHANGED <<account, rows, page, signalled, popups, expanded, details, detailReads, links,
                     counts, upgrade, dmoves>>
  BY DEF ListServed, rowVars
<1> HIDE DEF q
<1>3. /\ reads' \in [of : SUBSET ListRead, crossed : BOOLEAN, behind : BOOLEAN]
      /\ reads'.of = (reads.of \ {r}) \cup {q} /\ reads'.crossed = reads.crossed
      /\ reads'.behind = reads.behind
  BY <1>1, <1>2 DEF DevicesIInv, ReadsOK
<1>4. \A w : (\E s \in reads.of : s.why = w) <=> (\E s \in reads'.of : s.why = w)
  BY <1>1, <1>3
<1>5. RowsOK' /\ ReadsOK'
  BY <1>1, <1>2, <1>3, <1>4 DEF DevicesIInv, RowsOK, ReadsOK, AccountOK
<1>6. ReadAlone'
  BY <1>1, <1>2, <1>3 DEF DevicesIInv, ReadAlone
<1>7. RowsAreOfNow'
  BY <1>1, <1>2, <1>3 DEF DevicesIInv, RowsAreOfNow
<1>8. DialogsAwait'
  BY <1>2, <1>4 DEF DevicesIInv, DialogsAwait
<1> QED BY <1>2, <1>5, <1>6, <1>7, <1>8, DeviceFrames DEF DevicesIInv

LEMMA ReadEnds ==
    ASSUME DevicesIInv, NEW r \in reads.of, NEW b \in BOOLEAN, ReadOver(r, b)
    PROVE  /\ ReadsOK' /\ DialogsAwait'
           /\ reads'.of = reads.of \ {r} /\ reads'.crossed = reads.crossed /\ reads'.behind = b
<1>1. reads' = [reads EXCEPT !.of = reads.of \ {r}, !.behind = b]
  BY DEF ReadOver
<1>2. /\ reads' \in [of : SUBSET ListRead, crossed : BOOLEAN, behind : BOOLEAN]
      /\ reads'.of = reads.of \ {r} /\ reads'.crossed = reads.crossed /\ reads'.behind = b
  BY <1>1 DEF DevicesIInv, ReadsOK
<1>3. ReadsOK'
  BY <1>2 DEF DevicesIInv, ReadsOK
<1>4. DialogsAwait'
  <2>1. CASE r.why \in Ops
    <3> DEFINE o == r.why
    <3>1. o \in Ops /\ popups' = [popups EXCEPT ![o].busy = FALSE]
      BY <2>1 DEF ReadOver
    <3>2. \A p \in Ops : p # o => popups'[p] = popups[p]
      BY <3>1 DEF DevicesIInv, DialogsAwait
    <3>3. /\ popups' \in [Ops -> [on : Devs \cup {Nobody}, error : BOOLEAN, busy : BOOLEAN]]
          /\ popups'[o].on = popups[o].on /\ ~popups'[o].busy
      BY <3>1 DEF DevicesIInv, DialogsAwait
    <3>4. \A s \in reads.of : s.why # o => s \in reads'.of
      BY <1>2
    <3> HIDE DEF o
    <3>5. \A p \in Ops : popups'[p].on = popups[p].on
      BY <3>2, <3>3
    <3>6. \A p, q \in Ops : popups'[p].on # Nobody /\ popups'[q].on # Nobody => p = q
      BY <3>5 DEF DevicesIInv, DialogsAwait
    <3>7. ASSUME NEW p \in Ops, popups'[p].busy, popups'[p].on = Nobody
          PROVE  \E s \in reads'.of : s.why = p
      <4>1. p # o /\ popups[p].busy /\ popups[p].on = Nobody
        BY <3>2, <3>3, <3>7
      <4>2. PICK s \in reads.of : s.why = p
        BY <4>1 DEF DevicesIInv, DialogsAwait
      <4> QED BY <3>4, <4>1, <4>2
    <3> QED BY <3>3, <3>6, <3>7 DEF DialogsAwait
  <2>2. CASE r.why \notin Ops
    <3>1. popups' = popups
      BY <2>2 DEF ReadOver
    <3>2. \A s \in reads.of : s.why \in Ops => s \in reads'.of
      BY <1>2, <2>2
    <3> QED BY <3>1, <3>2 DEF DevicesIInv, DialogsAwait
  <2> QED BY <2>1, <2>2
<1> QED BY <1>2, <1>3, <1>4

LEMMA ListLandsStep ==
    ASSUME DevicesIInv, NEW r \in reads.of, ListLands(r)
    PROVE  DevicesIInv'
<1>1. /\ r \in ListRead /\ r.got /\ r.list \in DeviceList /\ r.list.at # 0 /\ reads.crossed \in BOOLEAN
  BY DEF ListLands, DevicesIInv, ReadsOK, ListRead
<1> DEFINE l == IF r.why = "first" THEN FALSE ELSE page.loading
<1>2. /\ rows' = r.list /\ page' = [page EXCEPT !.error = FALSE, !.loading = l]
      /\ ReadOver(r, reads.crossed) /\ ListKept(r.list)
      /\ UNCHANGED <<account, signalled, expanded, details, detailReads, dmoves>>
  BY DEF ListLands
<1>3. /\ ReadsOK' /\ DialogsAwait'
      /\ reads'.of = reads.of \ {r} /\ reads'.crossed = reads.crossed /\ reads'.behind = reads.crossed
  BY <1>1, <1>2, ReadEnds
<1>4. /\ page' \in [loading : BOOLEAN, error : BOOLEAN, guide : BOOLEAN]
      /\ page'.loading = l /\ ~page'.error
  BY <1>2 DEF DevicesIInv, RowsOK
<1>5. RowsOK'
  BY <1>1, <1>2, <1>3, <1>4 DEF DevicesIInv, RowsOK
<1>6. ReadAlone'
  BY <1>2, <1>3 DEF DevicesIInv, ReadAlone
<1>7. RowsAreOfNow'
  BY <1>1, <1>2, <1>3 DEF DevicesIInv, ReadAlone, RowsAreOfNow
<1>8. ChannelsOK'
  <2>1. ASSUME NEW d \in Devs
        PROVE  /\ links'[d] \in {"on", "off"}
               /\ counts'[d] \in [shown : BOOLEAN, asked : BOOLEAN, now : BOOLEAN]
               /\ links'[d] = "on" => d \in expanded /\ r.list.of[d].there /\ r.list.of[d].online
               /\ counts'[d].asked => links'[d] = "on"
    BY <1>2 DEF ListKept, DevicesIInv, ChannelsOK, SessionActive
  <2>2. DOMAIN links' = Devs /\ DOMAIN counts' = Devs
    BY <1>2 DEF ListKept
  <2>3. links' = [d \in Devs |-> links'[d]] /\ counts' = [d \in Devs |-> counts'[d]]
    BY <1>2 DEF ListKept
  <2> QED BY <1>2, <2>1, <2>3 DEF ChannelsOK, SessionActive
<1> QED BY <1>2, <1>3, <1>5, <1>6, <1>7, <1>8, DeviceFrames DEF DevicesIInv

LEMMA ListFailsStep ==
    ASSUME DevicesIInv, NEW r \in reads.of, ListFails(r)
    PROVE  DevicesIInv'
<1> DEFINE l == IF r.why = "first" THEN FALSE ELSE page.loading
           e == page.error \/ r.why # "poll"
<1>1. /\ page' = [page EXCEPT !.error = e, !.loading = l] /\ e \in BOOLEAN
      /\ ReadOver(r, reads.behind)
      /\ UNCHANGED <<account, rows, signalled, expanded, details, detailReads, links, counts, upgrade>>
  BY DEF ListFails, rowVars
<1>2. /\ ReadsOK' /\ DialogsAwait'
      /\ reads'.of = reads.of \ {r} /\ reads'.crossed = reads.crossed /\ reads'.behind = reads.behind
  <2>1. reads.behind \in BOOLEAN
    BY DEF DevicesIInv, ReadsOK
  <2> QED BY <1>1, <2>1, ReadEnds
<1>3. /\ page' \in [loading : BOOLEAN, error : BOOLEAN, guide : BOOLEAN]
      /\ page'.loading = l /\ page'.error = e
  BY <1>1 DEF DevicesIInv, RowsOK
<1>4. RowsOK'
  BY <1>1, <1>2, <1>3 DEF DevicesIInv, RowsOK
<1>5. ReadAlone'
  BY <1>1, <1>2 DEF DevicesIInv, ReadAlone
<1>6. RowsAreOfNow'
  BY <1>1, <1>2, <1>3 DEF DevicesIInv, RowsAreOfNow
<1> QED BY <1>1, <1>2, <1>4, <1>5, <1>6, DeviceFrames DEF DevicesIInv

LEMMA SignalStep ==
    ASSUME DevicesIInv, Signalled \/ \E d \in Devs : ReadVersion(d)
    PROVE  DevicesIInv'
<1>1. /\ \E w \in {"signal", "poll"} : ReadList(w) /\ (w = "signal" \/ UNCHANGED signalled)
      /\ UNCHANGED <<account, rows, page, popups, expanded, details, detailReads, links, counts, upgrade>>
      /\ signalled' \in BOOLEAN
  BY DEF Signalled, ReadVersion, rowVars, DevicesIInv, AccountOK
<1>2. RowsOK' /\ ReadsOK' /\ ReadAlone' /\ RowsAreOfNow' /\ \A r \in reads.of : r \in reads'.of
  BY <1>1, ListAsked
<1>3. AccountOK' /\ DialogsAwait'
  BY <1>1, <1>2 DEF DevicesIInv, AccountOK, DialogsAwait
<1> QED BY <1>1, <1>2, <1>3, DeviceFrames DEF DevicesIInv

\* The account changes, and a signal of it is on its way.
LEMMA AccountStep ==
    ASSUME DevicesIInv, NEW d \in Devs, Changes(d) \/ Restarts(d)
    PROVE  DevicesIInv'
<1>1. /\ signalled' = TRUE
      /\ UNCHANGED <<rows, page, reads, popups, expanded, details, detailReads, links, counts, upgrade>>
  BY DEF Changes, Restarts, listVars, rowVars
<1>2. AccountOK'
  <2>1. account.of[d] \in DeviceRow /\ account.at \in Nat \ {0}
    BY DEF DevicesIInv, AccountOK, DeviceList
  <2>2. \E x \in DeviceRow : account' = [account EXCEPT !.of[d] = x, !.at = account.at + 1]
    <3>1. [account.of[d] EXCEPT !.there = TRUE, !.online = ~account.of[d].online] \in DeviceRow
      BY <2>1 DEF DeviceRow
    <3>2. [account.of[d] EXCEPT !.there = FALSE] \in DeviceRow
      BY <2>1 DEF DeviceRow
    <3>3. [account.of[d] EXCEPT !.version = 1] \in DeviceRow
      BY <2>1 DEF DeviceRow
    <3>4. \/ account' = [account EXCEPT !.of[d].there = TRUE, !.of[d].online = ~account.of[d].online,
                                        !.at = account.at + 1]
          \/ account' = [account EXCEPT !.of[d].there = FALSE, !.at = account.at + 1]
          \/ account' = [account EXCEPT !.of[d].version = 1, !.at = account.at + 1]
      BY DEF Changes, Restarts
    <3>5. CASE account' = [account EXCEPT !.of[d].there = TRUE, !.of[d].online = ~account.of[d].online,
                                          !.at = account.at + 1]
      <4>1. account' = [account EXCEPT !.of[d] = [account.of[d] EXCEPT !.there = TRUE,
                                                        !.online = ~account.of[d].online],
                                       !.at = account.at + 1]
        BY <3>5 DEF DevicesIInv, AccountOK, DeviceList
      <4> QED BY <3>1, <4>1
    <3>6. CASE account' = [account EXCEPT !.of[d].there = FALSE, !.at = account.at + 1]
      <4>1. account' = [account EXCEPT !.of[d] = [account.of[d] EXCEPT !.there = FALSE],
                                       !.at = account.at + 1]
        BY <3>6
      <4> QED BY <3>2, <4>1
    <3>7. CASE account' = [account EXCEPT !.of[d].version = 1, !.at = account.at + 1]
      <4>1. account' = [account EXCEPT !.of[d] = [account.of[d] EXCEPT !.version = 1], !.at = account.at + 1]
        BY <3>7
      <4> QED BY <3>3, <4>1
    <3> QED BY <3>4, <3>5, <3>6, <3>7
  <2>3. PICK x \in DeviceRow : account' = [account EXCEPT !.of[d] = x, !.at = account.at + 1]
    BY <2>2
  <2> DEFINE n == account.at + 1
  <2>4. n \in Nat /\ n # 0
    BY <2>1
  <2> HIDE DEF n
  <2>5. account' \in DeviceList /\ account'.at = n
    <3>1. account' = [account EXCEPT !.of[d] = x, !.at = n]
      BY <2>3 DEF n
    <3> QED BY <2>4, <3>1 DEF DevicesIInv, AccountOK, DeviceList
  <2> QED BY <1>1, <2>4, <2>5 DEF AccountOK
<1>3. ReadAlone' /\ RowsAreOfNow'
  BY <1>1 DEF DevicesIInv, ReadAlone, RowsAreOfNow
<1> QED BY <1>1, <1>2, <1>3, DeviceFrames DEF DevicesIInv

-----------------------------------------------------------------------------
(* Dialogs.                                                                  *)

LEMMA DialogStep ==
    ASSUME DevicesIInv, NEW o \in Ops,
           Dismiss(o) \/ Submit(o) \/ Refused(o) \/ \E d \in Devs : OpenDialog(o, d)
    PROVE  DevicesIInv'
<1>1. UNCHANGED <<account, rows, page, reads, signalled, expanded, details, detailReads,
                  links, counts, upgrade>>
  BY DEF Dismiss, Submit, Refused, OpenDialog, listVars, rowVars
<1>2. DialogsAwait'
  <2> DEFINE Popup == [on : Devs \cup {Nobody}, error : BOOLEAN, busy : BOOLEAN]
  <2>5. popups[o] \in Popup
    BY DEF DevicesIInv, DialogsAwait
  <2>6. \A e, b \in BOOLEAN : LET x == [popups[o] EXCEPT !.error = e, !.busy = b]
                             IN  x \in Popup /\ x.on = popups[o].on
    BY <2>5
  <2> USE DEF DevicesIInv, DialogsAwait
  <2>1. CASE Dismiss(o)
    BY <1>1, <2>1 DEF Dismiss, Idle
  <2>2. CASE Submit(o)
    <3> DEFINE x == [popups[o] EXCEPT !.error = FALSE, !.busy = TRUE]
    <3>1. popups' = [popups EXCEPT ![o] = x] /\ popups[o].on # Nobody
      BY <2>2 DEF Submit
    <3>2. /\ x \in [on : Devs \cup {Nobody}, error : BOOLEAN, busy : BOOLEAN]
          /\ x.on = popups[o].on
      BY <2>6
    <3> HIDE DEF x
    <3>3. /\ popups' \in [Ops -> [on : Devs \cup {Nobody}, error : BOOLEAN, busy : BOOLEAN]]
          /\ popups'[o] = x /\ \A p \in Ops : p # o => popups'[p] = popups[p]
      BY <3>1, <3>2
    <3> QED BY <1>1, <3>1, <3>2, <3>3
  <2>3. CASE Refused(o)
    <3> DEFINE x == [popups[o] EXCEPT !.error = TRUE, !.busy = FALSE]
    <3>1. popups' = [popups EXCEPT ![o] = x] /\ popups[o].on # Nobody
      BY <2>3 DEF Refused, PendingRow
    <3>2. /\ x \in [on : Devs \cup {Nobody}, error : BOOLEAN, busy : BOOLEAN]
          /\ x.on = popups[o].on
      BY <2>6
    <3> HIDE DEF x
    <3>3. /\ popups' \in [Ops -> [on : Devs \cup {Nobody}, error : BOOLEAN, busy : BOOLEAN]]
          /\ popups'[o] = x /\ \A p \in Ops : p # o => popups'[p] = popups[p]
      BY <3>1, <3>2
    <3> QED BY <1>1, <3>1, <3>2, <3>3
  <2>4. CASE \E d \in Devs : OpenDialog(o, d)
    <3>1. PICK d \in Devs : /\ \A p \in Ops : popups[p].on = Nobody
                            /\ popups' = [popups EXCEPT ![o].on = d, ![o].error = FALSE]
      BY <2>4 DEF OpenDialog
    <3>2. popups' = [popups EXCEPT ![o] = [popups[o] EXCEPT !.on = d, !.error = FALSE]]
      BY <3>1
    <3> DEFINE x == [popups[o] EXCEPT !.on = d, !.error = FALSE]
    <3>3. /\ x \in [on : Devs \cup {Nobody}, error : BOOLEAN, busy : BOOLEAN]
          /\ x.on = d /\ x.busy = popups[o].busy
      OBVIOUS
    <3> HIDE DEF x
    <3>4. /\ popups' \in [Ops -> [on : Devs \cup {Nobody}, error : BOOLEAN, busy : BOOLEAN]]
          /\ popups'[o] = x /\ \A p \in Ops : p # o => popups'[p] = popups[p]
      BY <3>2, <3>3 DEF x
    <3>5. d # Nobody
      BY DevsAssumption DEF Nobody
    <3> QED BY <1>1, <3>1, <3>3, <3>4, <3>5
  <2> QED BY <2>1, <2>2, <2>3, <2>4
<1> QED BY <1>1, <1>2, DeviceFrames DEF DevicesIInv

LEMMA TakenStep ==
    ASSUME DevicesIInv, NEW o \in Ops, Taken(o)
    PROVE  DevicesIInv'
<1> DEFINE d == popups[o].on
<1>1. d \in Devs /\ popups' = [popups EXCEPT ![o].on = Nobody] /\ ReadList(o)
  BY DEF Taken, PendingRow, DevicesIInv, DialogsAwait
<1>2. /\ account' = [of |-> [account.of EXCEPT ![d] = Asked(o, d)], at |-> account.at + 1]
      /\ UNCHANGED <<rows, page, signalled, expanded, details, detailReads, links, counts, upgrade, dmoves>>
  BY DEF Taken, rowVars
<1>3. Asked(o, d) \in DeviceRow
  BY <1>1 DEF Asked, DevicesIInv, AccountOK, DeviceList, DeviceRow
<1> HIDE DEF d
<1>4. AccountOK'
  BY <1>1, <1>2, <1>3 DEF DevicesIInv, AccountOK, DeviceList
<1>5. /\ RowsOK' /\ ReadsOK' /\ ReadAlone' /\ RowsAreOfNow'
      /\ \A r \in reads.of : r \in reads'.of
      /\ \E r \in reads'.of : r.why = o
  <2>1. o # "poll"
    BY DEF Ops
  <2> QED BY <1>1, <1>2, <2>1, ListAsked
<1>6. DialogsAwait'
  BY <1>1, <1>5 DEF DevicesIInv, DialogsAwait
<1> QED BY <1>2, <1>4, <1>5, <1>6, DeviceFrames DEF DevicesIInv

-----------------------------------------------------------------------------
(* An open row.                                                              *)

LEMMA DetailStep ==
    ASSUME DevicesIInv, NEW d \in Devs,
           Expand(d) \/ RetryDetail(d) \/ DetailLands(d) \/ DetailFails(d)
    PROVE  DevicesIInv'
<1>1. /\ UNCHANGED <<account, rows, page, reads, signalled, popups, links, counts, upgrade>>
      /\ expanded \subseteq expanded'
  BY DEF Expand, RetryDetail, DetailLands, DetailFails, listVars
<1>2. DetailsOK'
  BY DEF Expand, RetryDetail, DetailLands, DetailFails, LoadDetail, Cached, DevicesIInv, DetailsOK
<1>3. ChannelsOK'
  BY <1>1 DEF DevicesIInv, ChannelsOK, SessionActive
<1> QED BY <1>1, <1>2, <1>3, DeviceFrames DEF DevicesIInv

LEMMA ChannelStep ==
    ASSUME DevicesIInv, NEW d \in Devs,
           Collapse(d) \/ Connects(d) \/ Disconnects(d) \/ CountsAnswered(d)
    PROVE  DevicesIInv'
<1>1. UNCHANGED <<account, rows, page, reads, signalled, popups, details, detailReads>>
  BY DEF Collapse, Connects, Disconnects, CountsAnswered, listVars
<1>2. ChannelsOK'
  <2> USE DEF DevicesIInv, ChannelsOK, SessionActive
  <2>1. CASE Collapse(d)
    BY <1>1, <2>1 DEF Collapse
  <2>2. CASE Connects(d)
    BY <1>1, <2>2 DEF Connects
  <2>3. CASE Disconnects(d)
    BY <1>1, <2>3 DEF Disconnects
  <2>4. CASE CountsAnswered(d)
    <3>1. /\ links' = links /\ expanded' = expanded
          /\ \E x \in [shown : BOOLEAN, asked : BOOLEAN, now : BOOLEAN] :
                ~x.asked /\ counts' = [counts EXCEPT ![d] = x]
      BY <2>4 DEF CountsAnswered
    <3> QED BY <1>1, <3>1
  <2> QED BY <2>1, <2>2, <2>3, <2>4
<1> QED BY <1>1, <1>2, DeviceFrames DEF DevicesIInv

LEMMA UpgradeStep ==
    ASSUME DevicesIInv, \/ \E d \in Devs : \/ StartUpgrade(d) \/ ConfirmForce(d) \/ UpgradeAnswered(d)
                                           \/ UpgradeEnds(d)
                        \/ AskGuide \/ CloseGuide
    PROVE  DevicesIInv'
<1>1. /\ UNCHANGED <<account, rows, reads, signalled, popups, expanded, details, detailReads, links, counts>>
      /\ page' = page \/ \E g \in BOOLEAN : page' = [page EXCEPT !.guide = g]
  BY DEF StartUpgrade, ConfirmForce, UpgradeAnswered, UpgradeEnds, AskGuide, CloseGuide, listVars, rowVars
<1>2. RowsOK' /\ page'.error = page.error
  BY <1>1 DEF DevicesIInv, RowsOK
<1>3. RowsAreOfNow'
  BY <1>1, <1>2 DEF DevicesIInv, RowsAreOfNow
<1> QED BY <1>1, <1>2, <1>3, DeviceFrames DEF DevicesIInv

-----------------------------------------------------------------------------
LEMMA DevicesStart == DevicesInit => DevicesIInv
<1> SUFFICES ASSUME DevicesInit PROVE DevicesIInv
  OBVIOUS
<1> DEFINE q == [why |-> "first", got |-> FALSE, list |-> NoRows]
<1>1. AccountOK
  <2>1. PICK s \in DeviceStarts :
          account = [of |-> [d \in Devs |-> [there |-> d \in s.there, online |-> d \in s.online,
                                             name |-> 0, version |-> 0]], at |-> 1]
    BY DEF DevicesInit
  <2>2. signalled = FALSE
    BY DEF DevicesInit
  <2>3. \A d \in Devs : [there |-> d \in s.there, online |-> d \in s.online, name |-> 0,
                         version |-> 0] \in DeviceRow
    BY DEF DeviceRow
  <2> DEFINE f == [d \in Devs |-> [there |-> d \in s.there, online |-> d \in s.online, name |-> 0,
                                   version |-> 0]]
  <2>4. account = [of |-> f, at |-> 1]
    BY <2>1
  <2>5. f \in [Devs -> DeviceRow]
    BY <2>3
  <2> HIDE DEF f
  <2>6. [of |-> f, at |-> 1] \in [of : [Devs -> DeviceRow], at : Nat]
    BY <2>5
  <2>7. account \in DeviceList
    BY <2>4, <2>6 DEF DeviceList
  <2>8. account.at = 1
    BY <2>4
  <2>9. account.at # 0
    BY <2>8, SMT
  <2>10. signalled \in BOOLEAN
    BY <2>2, Zenon
  <2> QED BY <2>7, <2>9, <2>10, Zenon DEF AccountOK
<1>2. /\ rows = NoRows /\ page = [loading |-> TRUE, error |-> FALSE, guide |-> FALSE]
      /\ reads = [of |-> {q}, crossed |-> FALSE, behind |-> FALSE]
      /\ popups = [o \in Ops |-> Idle]
  BY DEF DevicesInit
<1>3. q \in ListRead /\ ~q.got /\ q.why = "first"
  BY NoRowsTyped DEF ListRead
<1> HIDE DEF q
<1>4. RowsOK /\ ReadsOK /\ ReadAlone /\ RowsAreOfNow
  BY <1>2, <1>3, NoRowsTyped DEF RowsOK, ReadsOK, ReadAlone, RowsAreOfNow
<1>5. DialogsAwait
  BY <1>2 DEF DialogsAwait, Idle
<1>6. ChannelsOK /\ DetailsOK
  BY DEF DevicesInit, ChannelsOK, DetailsOK
<1> QED BY <1>1, <1>4, <1>5, <1>6 DEF DevicesIInv

LEMMA DevicesStep == DevicesIInv /\ [DevicesNext]_deviceVars => DevicesIInv'
<1> SUFFICES ASSUME DevicesIInv, [DevicesNext]_deviceVars PROVE DevicesIInv'
  OBVIOUS
<1>1. CASE UNCHANGED deviceVars
  BY <1>1, DeviceFrames DEF deviceVars, DevicesIInv
<1>2. CASE \E r \in reads.of : ListServed(r) \/ ListLands(r) \/ ListFails(r)
  BY <1>2, ListServedStep, ListLandsStep, ListFailsStep
<1>3. CASE \E o \in Ops : \/ Dismiss(o) \/ Submit(o) \/ Taken(o) \/ Refused(o)
                          \/ \E d \in Devs : OpenDialog(o, d)
  BY <1>3, DialogStep, TakenStep
<1>4. CASE \E d \in Devs : \/ Changes(d) \/ Expand(d) \/ Collapse(d) \/ RetryDetail(d) \/ DetailLands(d)
                           \/ DetailFails(d) \/ Connects(d) \/ Disconnects(d) \/ CountsAnswered(d)
  BY <1>4, AccountStep, DetailStep, ChannelStep
<1>5. CASE \E d \in Devs : \/ StartUpgrade(d) \/ ConfirmForce(d) \/ UpgradeAnswered(d) \/ Restarts(d)
                           \/ ReadVersion(d) \/ UpgradeEnds(d)
  BY <1>5, AccountStep, SignalStep, UpgradeStep
<1>6. CASE Signalled \/ AskGuide \/ CloseGuide
  BY <1>6, SignalStep, UpgradeStep
<1> QED BY <1>1, <1>2, <1>3, <1>4, <1>5, <1>6 DEF DevicesNext

LEMMA DevicesSafe == DevicesIInv => DevicesInv
<1> SUFFICES ASSUME DevicesIInv PROVE DevicesInv
  OBVIOUS
<1>1. Cardinality({o \in Ops : popups[o].on # Nobody}) <= 1
  <2> DEFINE S == {o \in Ops : popups[o].on # Nobody}
  <2>1. S = {} \/ \E o \in S : S = {o}
    BY DEF DevicesIInv, DialogsAwait
  <2>2. Cardinality(S) = 0 \/ Cardinality(S) = 1
    BY <2>1, FS_EmptySet, FS_Singleton
  <2> QED BY <2>2
<1>2. DevicesTypeOK
  BY <1>1 DEF DevicesIInv, DialogsAwait, ChannelsOK, RowsOK, DevicesTypeOK
<1>3. DetailAskedOnce
  BY DEF DevicesIInv, DetailsOK, DetailAskedOnce
<1>4. NoDevicesIsRead
  BY DEF DevicesIInv, RowsOK, DeviceList, NoDevicesIsRead, NoDevices, ListKnown
<1>5. ListIsTheAccount
  BY DEF DevicesIInv, RowsAreOfNow, ListIsTheAccount, ReadApart
<1> QED BY <1>2, <1>3, <1>4, <1>5 DEF DevicesInv

(* Whatever the signals, the reads and their failures: that there are no machines is said
   only after a read; unless reads overlapped or one has failed, what is listed is the
   account's as soon as nothing is on its way; a row's details are asked for
   once at a time, and one dialog is open (useDeviceList, DeviceRow).                  *)
THEOREM MachinesAreAsRead == DevicesSpec => []DevicesInv
<1>1. DevicesIInv /\ [DevicesNext]_deviceVars => DevicesIInv'
  BY DevicesStep
<1> QED BY <1>1, DevicesStart, DevicesSafe, PTL DEF DevicesSpec
=============================================================================
