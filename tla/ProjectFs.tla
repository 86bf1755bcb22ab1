-------------------------------- MODULE ProjectFs --------------------------------
(* The connections behind the directory picker of the project dialogs (frontend
   lib/projectFsPort): one lease of the pool for each machine, taken by the first call, shared
   by the later ones, and given back when the page goes.                                    *)
EXTENDS Integers, FiniteSets

CONSTANTS Hosts,
          FsStarts      \* bound: whether effects run twice at first, and what may happen

VARIABLES port,         \* mounted, or disposed of for good
          generation,   \* generation
          leases,       \* the lease a call to the machine would use
          pending,      \* acquireRelayClient: leases in flight
          held,         \* held
          nextLease,    \* (history) leases are told apart
          fsCalls,      \* listDir and mkdir in flight
          fsLeft        \* what is left of the bounds

fsVars == <<port, generation, leases, pending, held, nextLease, fsCalls, fsLeft>>

Grants(b) == fsLeft[b] > 0 /\ fsLeft' = [fsLeft EXCEPT ![b] = @ - 1]

NoLease == [id |-> 0, of |-> "nothing", era |-> 0]

FsInit ==
    \E s \in FsStarts :
        /\ port = "mounted" /\ generation = 0 /\ leases = [m \in Hosts |-> NoLease]
        /\ pending = {} /\ held = {} /\ nextLease = 1 /\ fsCalls = {} /\ fsLeft = s

\* A call waits for the lease of its machine, then for the machine.
CallOf(l) == [lease |-> l, stage |-> IF l \in held THEN "asking" ELSE "connecting"]

CallBeside(m) ==
    /\ port = "mounted" /\ Grants("call")
    /\ LET l == [id |-> nextLease, of |-> m, era |-> generation] IN
           /\ leases' = [leases EXCEPT ![m] = l] /\ pending' = pending \cup {l}
           /\ fsCalls' = fsCalls \cup {CallOf(l)}
    /\ nextLease' = nextLease + 1
    /\ UNCHANGED <<port, generation, held>>

\* leaseFor: the promise is kept, so a second call before it is settled shares it.
Call(m) ==
    /\ port = "mounted" /\ Grants("call")
    /\ IF leases[m] # NoLease
       THEN /\ fsCalls' = fsCalls \cup {CallOf(leases[m])}
            /\ UNCHANGED <<leases, pending, nextLease>>
       ELSE LET l == [id |-> nextLease, of |-> m, era |-> generation] IN
            /\ leases' = [leases EXCEPT ![m] = l] /\ pending' = pending \cup {l}
            /\ fsCalls' = fsCalls \cup {CallOf(l)}
            /\ nextLease' = nextLease + 1
    /\ UNCHANGED <<port, generation, held>>

\* The calls that waited for the lease are over: "disconnected".
Disconnected(l) == fsCalls' = {c \in fsCalls : c.lease # l}

AcquiredAnyhow(l) ==
    /\ l \in pending /\ pending' = pending \ {l}
    /\ held' = held \cup {l}
    /\ fsCalls' = {IF c.lease = l THEN [c EXCEPT !.stage = "asking"] ELSE c : c \in fsCalls}
    /\ UNCHANGED <<port, generation, leases, nextLease, fsLeft>>

\* One that comes after dispose is given back at once, and forgotten: whatever its machine
\* has by then.
Acquired(l) ==
    /\ l \in pending /\ pending' = pending \ {l}
    /\ IF l.era = generation
       THEN /\ held' = held \cup {l}
            /\ fsCalls' = {IF c.lease = l THEN [c EXCEPT !.stage = "asking"] ELSE c : c \in fsCalls}
            /\ leases' = leases
       ELSE /\ leases' = [leases EXCEPT ![l.of] = NoLease] /\ held' = held
            /\ Disconnected(l)
    /\ UNCHANGED <<port, generation, nextLease, fsLeft>>

AcquireFailsKept(l) ==
    /\ l \in pending /\ Grants("fault") /\ pending' = pending \ {l}
    /\ Disconnected(l)
    /\ UNCHANGED <<port, generation, leases, held, nextLease>>

\* The machine could not be reached: the next call tries again.
AcquireFails(l) ==
    /\ l \in pending /\ Grants("fault") /\ pending' = pending \ {l}
    /\ leases' = [leases EXCEPT ![l.of] = NoLease]
    /\ Disconnected(l)
    /\ UNCHANGED <<port, generation, held, nextLease>>

\* The machine answers, or says why not; the pool may have dropped the lease.
CallEnds(c) ==
    /\ c.stage = "asking"
    /\ fsCalls' = fsCalls \ {c}
    /\ UNCHANGED <<port, generation, leases, pending, held, nextLease, fsLeft>>

\* dispose: a new generation; what is held is given back.
DisposeTo(p) ==
    /\ port = "mounted" /\ port' = p
    /\ generation' = generation + 1
    /\ held' = {} /\ leases' = [m \in Hosts |-> NoLease]

Unmount == DisposeTo("gone") /\ UNCHANGED <<pending, nextLease, fsCalls, fsLeft>>

\* In development effects are run twice, before anything is called.
RunsTwice ==
    /\ nextLease = 1 /\ Grants("twice") /\ DisposeTo("mounted")
    /\ UNCHANGED <<pending, nextLease, fsCalls>>

FsNext ==
    \/ \E m \in Hosts : Call(m)
    \/ \E l \in pending : Acquired(l) \/ AcquireFails(l)
    \/ \E c \in fsCalls : CallEnds(c)
    \/ Unmount \/ RunsTwice

\* Leases come or fail.
FsFairness ==
    WF_fsVars(\E l \in pending : Acquired(l) \/ AcquireFails(l))

FsSpec == FsInit /\ [][FsNext]_fsVars /\ FsFairness

-----------------------------------------------------------------------------
(* Properties.                                                               *)

\* The variables stay in their types, and a lease a call would use is on its way or held: a
\* machine that could not be reached is not beyond reach for ever (leaseFor).
FsTypeOK ==
    /\ port \in {"mounted", "gone"} /\ generation \in Nat
    /\ pending \cap held = {}
    /\ \A m \in Hosts : leases[m] # NoLease => leases[m] \in pending \cup held

\* There is one connection for a machine at a time, of the leases that are not to be given
\* back (createProjectFsPort).
OneLease ==
    \A m \in Hosts :
        Cardinality({l \in pending \cup held : l.of = m /\ l.era = generation}) <= 1

\* A page that goes gives back every lease, also the ones that come later (dispose).
AllReturned == (port = "gone") ~> (port = "gone" /\ pending \cup held = {})

(* The directory port: it holds one lease of a machine at most. *)
FsInv == FsTypeOK /\ OneLease
=============================================================================
