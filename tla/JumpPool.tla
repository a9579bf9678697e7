------------------------------ MODULE JumpPool ------------------------------
(***************************************************************************)
(* The pool of shared bastions (app_jumppool.go): the first session behind *)
(* a jump prefix dials it, later ones ride the same connection, and the    *)
(* last one to leave arms an idle linger.                                  *)
(*                                                                         *)
(* Every action below is one critical section of jumpPool.mu, or a step    *)
(* taken outside it (a build, a close, a timer that fires).  An entry is   *)
(* a heap object: its identity is used again once nothing refers to it.    *)
(***************************************************************************)
EXTENDS Naturals, FiniteSets

CONSTANTS
    Callers,    \* the sessions, batches and dials that ask for a bastion
    Keys,       \* the jump prefixes (JumpPrefixKey, never the empty one)
    Entries,    \* identities of jumpEntry objects
    None,       \* nil
    MaxFired    \* bound: linger callbacks of one entry waiting for the lock

ASSUME JumpAssumption ==
    /\ IsFiniteSet(Callers)
    /\ None \notin Entries \cup Keys
    /\ MaxFired \in Nat \ {0}

VARIABLES
    entries,    \* jumpPool.entries
    built,      \* how the build of an entry ended: see Outcomes
    conn,       \* the bastion connection behind an entry: see Conns
    refs,       \* jumpEntry.refs
    timer,      \* is the linger timer armed?
    fired,      \* linger callbacks that fired and have not run yet
    watching,   \* is a watch goroutine waiting for the bastion to end?
    closers,    \* goroutines about to call jumpEntry.close
    once,       \* closeOnce was used
    cleaned,    \* how often cleanup ran
    pc,         \* where a caller is in acquire
    want,       \* the key it asked for
    mine,       \* the entry it builds, waits for or rides
    live,       \* is the context of its acquire live? (TRUE outside acquire)
    stopped,    \* stopAll took the map (the application quits)
    stopping,   \* entries stopAll has still to close
    late        \* observer: the entry was made after stopAll

pool == <<entries, stopped, stopping, late>>
obj == <<built, conn, refs, timer, fired, watching, closers, once, cleaned>>
call == <<pc, want, mine, live>>
vars == <<pool, obj, call>>
-----------------------------------------------------------------------------
PCs == {"idle", "lookup", "build", "wait", "ride", "discard"}

\* building until ready is closed; then up (client set), failed, cancelled
\* (the builder's context ended), nojump (no client, no error).
Outcomes == {"building", "up", "failed", "cancelled", "nojump"}

\* lost: the bastion went away by itself; closed: cleanup closed it.
Conns == {"none", "live", "lost", "closed"}

Init ==
    /\ entries = [k \in Keys |-> None]
    /\ built = [e \in Entries |-> "failed"]
    /\ conn = [e \in Entries |-> "none"]
    /\ refs = [e \in Entries |-> 0]
    /\ timer = [e \in Entries |-> FALSE]
    /\ fired = [e \in Entries |-> 0]
    /\ watching = [e \in Entries |-> FALSE]
    /\ closers = [e \in Entries |-> 0]
    /\ once = [e \in Entries |-> FALSE]
    /\ cleaned = [e \in Entries |-> 0]
    /\ pc = [c \in Callers |-> "idle"]
    /\ want = [c \in Callers |-> None]
    /\ mine = [c \in Callers |-> None]
    /\ live = [c \in Callers |-> TRUE]
    /\ stopped = FALSE
    /\ stopping = {}
    /\ late = [e \in Entries |-> FALSE]
-----------------------------------------------------------------------------
\* p.entries[key] == e, for the key e was made under.
Current(e) == \E k \in Keys : entries[k] = e

Without(e) == [k \in Keys |-> IF entries[k] = e THEN None ELSE entries[k]]

\* Nothing refers to e any more, so a new entry may have its identity.
Unreferenced(e) ==
    /\ ~Current(e) /\ e \notin stopping
    /\ \A c \in Callers : mine[c] # e
    /\ ~timer[e] /\ fired[e] = 0 /\ ~watching[e] /\ closers[e] = 0

\* The caller is back from acquire without a client.
Return(c) ==
    /\ pc' = [pc EXCEPT ![c] = "idle"]
    /\ mine' = [mine EXCEPT ![c] = None]
    /\ want' = [want EXCEPT ![c] = None]
    /\ live' = [live EXCEPT ![c] = TRUE]

\* acquire is called for a connection with jump prefix k.
Acquire(c, k) ==
    /\ pc[c] = "idle"
    /\ pc' = [pc EXCEPT ![c] = "lookup"]
    /\ want' = [want EXCEPT ![c] = k]
    /\ UNCHANGED <<pool, obj, mine, live>>

Mut_BuildUnlisted(c) ==
    /\ pc[c] = "lookup"
    /\ entries[want[c]] = None
    /\ \E e \in Entries :
        /\ Unreferenced(e)
        /\ built' = [built EXCEPT ![e] = "building"]
        /\ conn' = [conn EXCEPT ![e] = "none"]
        /\ once' = [once EXCEPT ![e] = FALSE]
        /\ cleaned' = [cleaned EXCEPT ![e] = 0]
        /\ late' = [late EXCEPT ![e] = stopped]
        /\ mine' = [mine EXCEPT ![c] = e]
    /\ pc' = [pc EXCEPT ![c] = "build"]
    /\ UNCHANGED <<entries, stopped, stopping, refs, timer, fired, watching, closers, want, live>>

\* The key has no entry: insert one, then build it outside the lock.
LookupNew(c) ==
    /\ pc[c] = "lookup"
    /\ entries[want[c]] = None
    /\ \E e \in Entries :
        /\ Unreferenced(e)
        /\ entries' = [entries EXCEPT ![want[c]] = e]
        /\ built' = [built EXCEPT ![e] = "building"]
        /\ conn' = [conn EXCEPT ![e] = "none"]
        /\ once' = [once EXCEPT ![e] = FALSE]
        /\ cleaned' = [cleaned EXCEPT ![e] = 0]
        /\ late' = [late EXCEPT ![e] = stopped]
        /\ mine' = [mine EXCEPT ![c] = e]
    /\ pc' = [pc EXCEPT ![c] = "build"]
    /\ UNCHANGED <<stopped, stopping, refs, timer, fired, watching, closers, want, live>>

\* The key has one: wait until it is ready.
LookupShared(c) ==
    /\ pc[c] = "lookup"
    /\ entries[want[c]] # None
    /\ mine' = [mine EXCEPT ![c] = entries[want[c]]]
    /\ pc' = [pc EXCEPT ![c] = "wait"]
    /\ UNCHANGED <<pool, obj, want, live>>

\* The caller's context ends (the user cancels the connect); only a build
\* and a wait look at it.
Cancel(c) ==
    /\ pc[c] \in {"build", "wait"}
    /\ live[c]
    /\ live' = [live EXCEPT ![c] = FALSE]
    /\ UNCHANGED <<pool, obj, pc, want, mine>>
-----------------------------------------------------------------------------
(* The end of a build.                                                     *)

Mut_FailNotReady(c) ==
    /\ pc[c] = "build"
    /\ entries' = [entries EXCEPT ![want[c]] = None]
    /\ Return(c)
    /\ UNCHANGED <<stopped, stopping, late, obj>>

\* An error, or a chain that needs no jump: the key is deleted, whatever
\* entry it holds by now.
BuildFails(c) ==
    /\ pc[c] = "build"
    /\ \E out \in {"failed", "cancelled", "nojump"} :
        /\ out = "failed" => live[c]
        /\ out = "cancelled" => ~live[c]
        /\ built' = [built EXCEPT ![mine[c]] = out]
    /\ entries' = [entries EXCEPT ![want[c]] = None]
    /\ Return(c)
    /\ UNCHANGED <<stopped, stopping, late, conn, refs, timer, fired, watching,
                   closers, once, cleaned>>

\* The builder is the first rider.
BuildShared(c) ==
    LET e == mine[c] IN
    /\ pc[c] = "build"
    /\ entries[want[c]] = e
    /\ built' = [built EXCEPT ![e] = "up"]
    /\ conn' = [conn EXCEPT ![e] = "live"]
    /\ watching' = [watching EXCEPT ![e] = TRUE]
    /\ refs' = [refs EXCEPT ![e] = @ + 1]
    /\ pc' = [pc EXCEPT ![c] = "ride"]
    /\ live' = [live EXCEPT ![c] = TRUE]
    /\ UNCHANGED <<pool, timer, fired, closers, once, cleaned, want, mine>>

Mut_ShutdownKeeps(c) ==
    /\ pc[c] = "build"
    /\ entries[want[c]] # mine[c]
    /\ built' = [built EXCEPT ![mine[c]] = "failed"]
    /\ conn' = [conn EXCEPT ![mine[c]] = "live"]
    /\ Return(c)
    /\ UNCHANGED <<pool, refs, timer, fired, watching, closers, once, cleaned>>

\* stopAll ran during the build: the new connection is not wanted.
BuildTooLate(c) ==
    /\ pc[c] = "build"
    /\ entries[want[c]] # mine[c]
    /\ built' = [built EXCEPT ![mine[c]] = "failed"]
    /\ conn' = [conn EXCEPT ![mine[c]] = "live"]
    /\ pc' = [pc EXCEPT ![c] = "discard"]
    /\ UNCHANGED <<pool, refs, timer, fired, watching, closers, once, cleaned,
                   want, mine, live>>

\* cleanup of a connection, which ends it.
Cleanup(e) ==
    /\ cleaned' = [cleaned EXCEPT ![e] = @ + 1]
    /\ conn' = [conn EXCEPT ![e] = IF @ = "live" THEN "closed" ELSE @]

\* Its builder closes it after the lock and returns an error.
Discard(c) ==
    /\ pc[c] = "discard"
    /\ Cleanup(mine[c])
    /\ Return(c)
    /\ UNCHANGED <<pool, built, refs, timer, fired, watching, closers, once>>
-----------------------------------------------------------------------------
(* A caller that waits for an entry.                                       *)

WaitCancelled(c) ==
    /\ pc[c] = "wait"
    /\ ~live[c]
    /\ Return(c)
    /\ UNCHANGED <<pool, obj>>

\* The build failed, or found that no jump is needed: so says every waiter.
WakeFails(c) ==
    /\ pc[c] = "wait"
    /\ built[mine[c]] \in {"failed", "nojump"}
    /\ Return(c)
    /\ UNCHANGED <<pool, obj>>

\* The builder gave up, or the entry ended meanwhile: start over.
WakeRetries(c) ==
    /\ pc[c] = "wait"
    /\ \/ built[mine[c]] = "cancelled"
       \/ built[mine[c]] = "up" /\ ~Current(mine[c])
    /\ pc' = [pc EXCEPT ![c] = "lookup"]
    /\ mine' = [mine EXCEPT ![c] = None]
    /\ UNCHANGED <<pool, obj, want, live>>

\* One more rider; the linger, if it is armed, is stopped.
WakeShares(c) ==
    LET e == mine[c] IN
    /\ pc[c] = "wait"
    /\ built[e] = "up" /\ Current(e)
    /\ timer' = [timer EXCEPT ![e] = FALSE]
    /\ refs' = [refs EXCEPT ![e] = @ + 1]
    /\ pc' = [pc EXCEPT ![c] = "ride"]
    /\ live' = [live EXCEPT ![c] = TRUE]
    /\ UNCHANGED <<pool, built, conn, fired, watching, closers, once, cleaned,
                   want, mine>>
-----------------------------------------------------------------------------
(* Release, the linger and the end of an entry.                            *)

Mut_EndedKeepsRef(c) ==
    LET e == mine[c] IN
    /\ pc[c] = "ride"
    /\ refs' = IF Current(e) THEN [refs EXCEPT ![e] = @ - 1] ELSE refs
    /\ timer' = IF refs'[e] > 0 \/ ~Current(e) THEN timer
                ELSE [timer EXCEPT ![e] = TRUE]
    /\ Return(c)
    /\ UNCHANGED <<pool, built, conn, fired, watching, closers, once, cleaned>>

\* The last rider of an entry that is still listed arms the linger.
Release(c) ==
    LET e == mine[c] IN
    /\ pc[c] = "ride"
    /\ refs' = [refs EXCEPT ![e] = @ - 1]
    /\ timer' = IF refs'[e] > 0 \/ ~Current(e) THEN timer
                ELSE [timer EXCEPT ![e] = TRUE]
    /\ Return(c)
    /\ UNCHANGED <<pool, built, conn, fired, watching, closers, once, cleaned>>

\* The timer goes off: its callback is a goroutine that Stop cannot recall.
TimerFires(e) ==
    /\ timer[e]
    /\ fired[e] < MaxFired
    /\ timer' = [timer EXCEPT ![e] = FALSE]
    /\ fired' = [fired EXCEPT ![e] = @ + 1]
    /\ UNCHANGED <<pool, built, conn, refs, watching, closers, once, cleaned, call>>

Mut_NoRecheck(e) ==
    /\ fired[e] > 0
    /\ fired' = [fired EXCEPT ![e] = @ - 1]
    /\ IF ~Current(e) THEN UNCHANGED <<entries, closers>>
       ELSE /\ entries' = Without(e)
            /\ closers' = [closers EXCEPT ![e] = @ + 1]
    /\ UNCHANGED <<stopped, stopping, late, built, conn, refs, timer, watching,
                   once, cleaned, call>>

Mut_ExpireNoClose(e) ==
    /\ fired[e] > 0
    /\ fired' = [fired EXCEPT ![e] = @ - 1]
    /\ entries' = IF refs[e] > 0 THEN entries ELSE Without(e)
    /\ UNCHANGED <<stopped, stopping, late, built, conn, refs, timer, watching,
                   closers, once, cleaned, call>>

\* The callback checks again under the lock, then drops the entry.
LingerExpires(e) ==
    /\ fired[e] > 0
    /\ fired' = [fired EXCEPT ![e] = @ - 1]
    /\ IF refs[e] > 0 \/ ~Current(e) THEN UNCHANGED <<entries, closers>>
       ELSE /\ entries' = Without(e)
            /\ closers' = [closers EXCEPT ![e] = @ + 1]
    /\ UNCHANGED <<stopped, stopping, late, built, conn, refs, timer, watching,
                   once, cleaned, call>>

\* A restart of the bastion, or the loss of the network.
BastionEnds(e) ==
    /\ conn[e] = "live" /\ watching[e]
    /\ conn' = [conn EXCEPT ![e] = "lost"]
    /\ UNCHANGED <<pool, built, refs, timer, fired, watching, closers, once,
                   cleaned, call>>

\* watch: client.Wait returned.
Watch(e) ==
    /\ watching[e]
    /\ conn[e] \in {"lost", "closed"}
    /\ watching' = [watching EXCEPT ![e] = FALSE]
    /\ entries' = Without(e)
    /\ timer' = IF Current(e) THEN [timer EXCEPT ![e] = FALSE] ELSE timer
    /\ closers' = [closers EXCEPT ![e] = @ + 1]
    /\ UNCHANGED <<stopped, stopping, late, built, conn, refs, fired, once,
                   cleaned, call>>

\* jumpEntry.close; an entry that never got a client has no cleanup.
Close(e) ==
    /\ closers[e] > 0
    /\ closers' = [closers EXCEPT ![e] = @ - 1]
    /\ once' = [once EXCEPT ![e] = TRUE]
    /\ IF once[e] \/ built[e] # "up" THEN UNCHANGED <<cleaned, conn>> ELSE Cleanup(e)
    /\ UNCHANGED <<pool, built, refs, timer, fired, watching, call>>

\* stopAll swaps the map for an empty one under the lock ...
StopAll ==
    /\ ~stopped
    /\ stopped' = TRUE
    /\ stopping' = {entries[k] : k \in Keys} \ {None}
    /\ entries' = [k \in Keys |-> None]
    /\ UNCHANGED <<late, obj, call>>

\* ... and then goes through the old one.
StopEntry(e) ==
    /\ e \in stopping
    /\ stopping' = stopping \ {e}
    /\ timer' = [timer EXCEPT ![e] = FALSE]
    /\ closers' = [closers EXCEPT ![e] = @ + 1]
    /\ UNCHANGED <<entries, stopped, late, built, conn, refs, fired, watching,
                   once, cleaned, call>>
-----------------------------------------------------------------------------
\* What a caller does without being asked again.
CallerStep(c) ==
    \/ LookupNew(c) \/ LookupShared(c)
    \/ BuildFails(c) \/ BuildShared(c) \/ BuildTooLate(c) \/ Discard(c)
    \/ WaitCancelled(c) \/ WakeFails(c) \/ WakeRetries(c) \/ WakeShares(c)

\* What the goroutines of an entry do.
EntryStep(e) ==
    \/ TimerFires(e) \/ LingerExpires(e) \/ Watch(e) \/ Close(e) \/ StopEntry(e)

Next ==
    \/ \E c \in Callers :
        \/ \E k \in Keys : Acquire(c, k)
        \/ CallerStep(c) \/ Cancel(c) \/ Release(c)
    \/ \E e \in Entries : EntryStep(e) \/ BastionEnds(e)
    \/ StopAll

Spec == Init /\ [][Next]_vars

\* Builds end (dial and handshake are bounded), goroutines are scheduled and
\* timers go off.  Nothing makes a session end or a bastion fail.
FairSpec ==
    /\ Spec
    /\ \A c \in Callers : WF_vars(CallerStep(c))
    /\ \A e \in Entries :
        /\ WF_vars(TimerFires(e)) /\ WF_vars(LingerExpires(e))
        /\ WF_vars(Watch(e)) /\ WF_vars(Close(e)) /\ WF_vars(StopEntry(e))
-----------------------------------------------------------------------------
TypeOK ==
    /\ entries \in [Keys -> Entries \cup {None}]
    /\ built \in [Entries -> Outcomes]
    /\ conn \in [Entries -> Conns]
    /\ refs \in [Entries -> Nat]
    /\ timer \in [Entries -> BOOLEAN]
    /\ fired \in [Entries -> 0..MaxFired]
    /\ watching \in [Entries -> BOOLEAN]
    /\ closers \in [Entries -> Nat]
    /\ once \in [Entries -> BOOLEAN]
    /\ cleaned \in [Entries -> Nat]
    /\ pc \in [Callers -> PCs]
    /\ want \in [Callers -> Keys \cup {None}]
    /\ mine \in [Callers -> Entries \cup {None}]
    /\ live \in [Callers -> BOOLEAN]
    /\ stopped \in BOOLEAN
    /\ stopping \subseteq Entries
    /\ late \in [Entries -> BOOLEAN]

Riders(e) == {c \in Callers : pc[c] = "ride" /\ mine[c] = e}

\* "live target sessions using this prefix": the count that decides about
\* the linger is the number of callers that hold the client, through retries,
\* cancelled waits, dead bastions and shutdown.
RefsAreRiders == \A e \in Entries : refs[e] = Cardinality(Riders(e))

\* The pool never closes a bastion under a session that rides it: not a
\* linger callback that fired before the session came back, not a close that
\* was under way.  Only the shutdown may.
RiderNotCutOff ==
    \A c \in Callers : pc[c] = "ride" /\ conn[mine[c]] = "closed" => stopped

\* "This pool dials a shared jump prefix ONCE": two callers never dial the
\* same prefix at the same time, and none dials one that is listed as up.
OneDialPerPrefix ==
    \A c, d \in Callers :
        /\ pc[c] = "build" /\ ~stopped => entries[want[c]] = mine[c]
        /\ c # d /\ pc[c] = "build" /\ pc[d] = "build" /\ want[c] = want[d] => stopped

\* Someone will close e's connection, or still uses it.
Accounted(e) ==
    \/ Current(e) /\ (refs[e] > 0 \/ timer[e] \/ fired[e] > 0)
    \/ closers[e] > 0
    \/ e \in stopping
    \/ \E c \in Callers : pc[c] = "discard" /\ mine[c] = e

\* No bastion connection is forgotten: whoever wins the races between
\* release, linger, build and stopAll, each one opened before the shutdown
\* has a rider, an armed linger or a goroutine on its way to close it.
NoBastionLeaked ==
    \A e \in Entries : conn[e] = "live" /\ ~late[e] => Accounted(e)

\* "close runs cleanup once, whoever gets there first", and the builder that
\* finds the pool stopped does not run it a second time.
CleanedOnce == \A e \in Entries : cleaned[e] <= 1

\* "later acquirers of that key wait for that build": no wait lasts for ever,
\* whether the build succeeds, fails, is cancelled or meets the shutdown.
WaitersAnswered == \A c \in Callers : []<>(pc[c] # "wait")

\* "If nobody re-acquires the key within the linger, close the prefix": no
\* bastion stays up for ever without riders.
IdleBastionCloses ==
    \A e \in Entries : []<>(conn[e] = "live" => refs[e] > 0 \/ late[e])
=============================================================================
