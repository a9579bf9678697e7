--------------------------- MODULE JumpPoolProofs ---------------------------
(***************************************************************************)
(* Safety of the bastion pool for any number of callers, keys and entries. *)
(***************************************************************************)
EXTENDS JumpPool, FiniteSetTheorems, TLAPS

\* Where a caller is says what it holds.
InvCaller ==
    \A c \in Callers :
        /\ pc[c] \in {"build", "wait", "ride", "discard"} => mine[c] \in Entries
        /\ pc[c] \in {"idle", "lookup"} => mine[c] = None
        /\ pc[c] # "idle" => want[c] \in Keys

\* An entry has one builder, and before the shutdown it is listed.
InvBuild ==
    /\ \A c \in Callers :
        /\ pc[c] = "build" =>
            /\ built[mine[c]] = "building" /\ conn[mine[c]] = "none"
            /\ ~timer[mine[c]] /\ fired[mine[c]] = 0
            /\ \A k \in Keys : entries[k] = mine[c] => k = want[c]
            /\ ~stopped => entries[want[c]] = mine[c]
        /\ pc[c] = "discard" => built[mine[c]] = "failed" /\ cleaned[mine[c]] = 0
        /\ pc[c] = "ride" => built[mine[c]] = "up"
    /\ \A c, d \in Callers :
        (pc[c] \in {"build", "discard"} /\ pc[d] \in {"build", "discard"} /\ mine[c] = mine[d])
            => c = d

\* A listed entry is not being closed, by stopAll or anyone else.
InvListed ==
    /\ \A k \in Keys, e \in Entries : entries[k] = e =>
        /\ built[e] \in {"building", "up"}
        /\ closers[e] = 0 /\ ~once[e] /\ conn[e] # "closed"
        /\ e \notin stopping
        /\ stopped => late[e]
    /\ ~stopped => stopping = {}

\* Until the shutdown a bastion with riders is listed, or was lost.
InvRide ==
    \A c \in Callers :
        pc[c] = "ride" /\ ~stopped => Current(mine[c]) \/ conn[mine[c]] = "lost"

\* A connection belongs to an entry that is up, or its builder discards it.
InvConn ==
    \A e \in Entries :
        /\ conn[e] = "live" =>
            built[e] = "up" \/ \E c \in Callers : pc[c] = "discard" /\ mine[c] = e
        /\ once[e] /\ built[e] = "up" => conn[e] # "live"

\* What cleanup has to do is still to be done until closeOnce is used.
InvClean ==
    \A e \in Entries :
        /\ cleaned[e] <= 1
        /\ built[e] = "building" => cleaned[e] = 0
        /\ built[e] = "up" /\ ~once[e] => cleaned[e] = 0

\* What the steps preserve without counting riders.
EntryInv == InvCaller /\ InvBuild /\ InvListed /\ InvConn /\ InvClean

IInv == TypeOK /\ RefsAreRiders /\ EntryInv /\ InvRide /\ NoBastionLeaked
-----------------------------------------------------------------------------
\* The riders of an entry are finitely many, and each one is counted.
LEMMA RidersCounted ==
    ASSUME TypeOK, RefsAreRiders, NEW e \in Entries
    PROVE  /\ IsFiniteSet(Riders(e))
           /\ \A c \in Riders(e) : refs[e] > 0
<1>1. IsFiniteSet(Riders(e))
  BY JumpAssumption, FS_Subset DEF Riders
<1>2. ASSUME NEW c \in Riders(e)
      PROVE  refs[e] > 0
  <2>1. Cardinality(Riders(e)) # 0
    BY <1>1, <1>2, FS_EmptySet
  <2>2. refs[e] = Cardinality(Riders(e)) /\ refs[e] \in Nat
    BY DEF TypeOK, RefsAreRiders
  <2> QED
    BY <2>1, <2>2
<1> QED
  BY <1>1, <1>2

\* Every step keeps what callers, builders and listed entries know.
LEMMA EntryInvStep ==
    ASSUME IInv, [Next]_vars
    PROVE  EntryInv'
<1> USE JumpAssumption DEF IInv, TypeOK, EntryInv, InvCaller, InvBuild, InvListed, InvConn, InvClean
<1>1. ASSUME NEW c \in Callers, NEW k \in Keys, Acquire(c, k)
      PROVE  EntryInv'
  BY <1>1 DEF Acquire, pool, obj, call, Outcomes, Conns, PCs
<1>2. ASSUME NEW c \in Callers, LookupNew(c)
      PROVE  EntryInv'
  BY <1>2 DEF LookupNew, Unreferenced, Current, pool, obj, call, Outcomes, Conns, PCs
<1>3. ASSUME NEW c \in Callers, LookupShared(c)
      PROVE  EntryInv'
  BY <1>3 DEF LookupShared, pool, obj, call, Outcomes, Conns, PCs
<1>4. ASSUME NEW c \in Callers, Cancel(c)
      PROVE  EntryInv'
  BY <1>4 DEF Cancel, pool, obj, call, Outcomes, Conns, PCs
<1>5. ASSUME NEW c \in Callers, BuildFails(c)
      PROVE  EntryInv'
  BY <1>5 DEF BuildFails, Return, pool, obj, call, Outcomes, Conns, PCs
<1>6. ASSUME NEW c \in Callers, BuildShared(c)
      PROVE  EntryInv'
  BY <1>6 DEF BuildShared, pool, obj, call, Outcomes, Conns, PCs
<1>7. ASSUME NEW c \in Callers, BuildTooLate(c)
      PROVE  EntryInv'
  BY <1>7 DEF BuildTooLate, pool, obj, call, Outcomes, Conns, PCs
<1>8. ASSUME NEW c \in Callers, Discard(c)
      PROVE  EntryInv'
  BY <1>8 DEF Discard, Return, Cleanup, pool, obj, call, Outcomes, Conns, PCs
<1>9. ASSUME NEW c \in Callers, WaitCancelled(c)
      PROVE  EntryInv'
  BY <1>9 DEF WaitCancelled, Return, pool, obj, call, Outcomes, Conns, PCs
<1>10. ASSUME NEW c \in Callers, WakeFails(c)
      PROVE  EntryInv'
  BY <1>10 DEF WakeFails, Return, pool, obj, call, Outcomes, Conns, PCs
<1>11. ASSUME NEW c \in Callers, WakeRetries(c)
      PROVE  EntryInv'
  BY <1>11 DEF WakeRetries, Current, pool, obj, call, Outcomes, Conns, PCs
<1>12. ASSUME NEW c \in Callers, WakeShares(c)
      PROVE  EntryInv'
  BY <1>12 DEF WakeShares, Current, pool, obj, call, Outcomes, Conns, PCs
<1>13. ASSUME NEW c \in Callers, Release(c)
      PROVE  EntryInv'
  BY <1>13 DEF Release, Return, Current, pool, obj, call, Outcomes, Conns, PCs
<1>14. ASSUME NEW e \in Entries, TimerFires(e)
      PROVE  EntryInv'
  BY <1>14 DEF TimerFires, pool, obj, call, Outcomes, Conns, PCs
<1>15. ASSUME NEW e \in Entries, LingerExpires(e)
      PROVE  EntryInv'
  BY <1>15 DEF LingerExpires, Current, Without, pool, obj, call, Outcomes, Conns, PCs
<1>16. ASSUME NEW e \in Entries, BastionEnds(e)
      PROVE  EntryInv'
  BY <1>16 DEF BastionEnds, pool, obj, call, Outcomes, Conns, PCs
<1>17. ASSUME NEW e \in Entries, Watch(e)
      PROVE  EntryInv'
  BY <1>17 DEF Watch, Current, Without, pool, obj, call, Outcomes, Conns, PCs
<1>18. ASSUME NEW e \in Entries, Close(e)
      PROVE  EntryInv'
  BY <1>18 DEF Close, Cleanup, pool, obj, call, Outcomes, Conns, PCs
<1>19. ASSUME NEW e \in Entries, StopEntry(e)
      PROVE  EntryInv'
  BY <1>19 DEF StopEntry, pool, obj, call, Outcomes, Conns, PCs
<1>20. ASSUME StopAll
      PROVE  EntryInv'
  BY <1>20 DEF StopAll, pool, obj, call, Outcomes, Conns, PCs
<1>21. CASE UNCHANGED vars
  BY <1>21 DEF vars, pool, obj, call, Outcomes, Conns, PCs
<1> QED
  BY <1>1, <1>2, <1>3, <1>4, <1>5, <1>6, <1>7, <1>8, <1>9, <1>10, <1>11, <1>12, <1>13, <1>14, <1>15, <1>16, <1>17, <1>18, <1>19, <1>20, <1>21 DEF Next, CallerStep, EntryStep

\* A ridden bastion stays listed: the linger sees the riders it counts.
LEMMA RideStep ==
    ASSUME IInv, [Next]_vars
    PROVE  InvRide'
<1> USE JumpAssumption DEF IInv, TypeOK, EntryInv, InvCaller, InvBuild, InvListed, InvConn, InvClean, InvRide
<1>1. ASSUME NEW c \in Callers, NEW k \in Keys, Acquire(c, k)
      PROVE  InvRide'
  BY <1>1 DEF Acquire, pool, obj, call, Current
<1>2. ASSUME NEW c \in Callers, LookupNew(c)
      PROVE  InvRide'
  BY <1>2 DEF LookupNew, Unreferenced, Current, pool, obj, call
<1>3. ASSUME NEW c \in Callers, LookupShared(c)
      PROVE  InvRide'
  BY <1>3 DEF LookupShared, pool, obj, call, Current
<1>4. ASSUME NEW c \in Callers, Cancel(c)
      PROVE  InvRide'
  BY <1>4 DEF Cancel, pool, obj, call, Current
<1>5. ASSUME NEW c \in Callers, BuildFails(c)
      PROVE  InvRide'
  BY <1>5 DEF BuildFails, Return, pool, obj, call, Current
<1>6. ASSUME NEW c \in Callers, BuildShared(c)
      PROVE  InvRide'
  BY <1>6 DEF BuildShared, pool, obj, call, Current
<1>7. ASSUME NEW c \in Callers, BuildTooLate(c)
      PROVE  InvRide'
  BY <1>7 DEF BuildTooLate, pool, obj, call, Current
<1>8. ASSUME NEW c \in Callers, Discard(c)
      PROVE  InvRide'
  BY <1>8 DEF Discard, Return, Cleanup, pool, obj, call, Current
<1>9. ASSUME NEW c \in Callers, WaitCancelled(c)
      PROVE  InvRide'
  BY <1>9 DEF WaitCancelled, Return, pool, obj, call, Current
<1>10. ASSUME NEW c \in Callers, WakeFails(c)
      PROVE  InvRide'
  BY <1>10 DEF WakeFails, Return, pool, obj, call, Current
<1>11. ASSUME NEW c \in Callers, WakeRetries(c)
      PROVE  InvRide'
  BY <1>11 DEF WakeRetries, Current, pool, obj, call
<1>12. ASSUME NEW c \in Callers, WakeShares(c)
      PROVE  InvRide'
  BY <1>12 DEF WakeShares, Current, pool, obj, call
<1>13. ASSUME NEW c \in Callers, Release(c)
      PROVE  InvRide'
  BY <1>13 DEF Release, Return, Current, pool, obj, call
<1>14. ASSUME NEW e \in Entries, TimerFires(e)
      PROVE  InvRide'
  BY <1>14 DEF TimerFires, pool, obj, call, Current
<1>15. ASSUME NEW e \in Entries, LingerExpires(e)
      PROVE  InvRide'
  <2>1. \A d \in Callers : pc[d] = "ride" /\ mine[d] = e => refs[e] > 0
    BY RidersCounted DEF Riders
  <2> QED
    BY <1>15, <2>1 DEF LingerExpires, Current, Without, call
<1>16. ASSUME NEW e \in Entries, BastionEnds(e)
      PROVE  InvRide'
  BY <1>16 DEF BastionEnds, pool, obj, call, Current
<1>17. ASSUME NEW e \in Entries, Watch(e)
      PROVE  InvRide'
  BY <1>17 DEF Watch, Current, Without, pool, obj, call
<1>18. ASSUME NEW e \in Entries, Close(e)
      PROVE  InvRide'
  BY <1>18 DEF Close, Cleanup, pool, obj, call, Current
<1>19. ASSUME NEW e \in Entries, StopEntry(e)
      PROVE  InvRide'
  BY <1>19 DEF StopEntry, pool, obj, call, Current
<1>20. ASSUME StopAll
      PROVE  InvRide'
  BY <1>20 DEF StopAll, pool, obj, call, Current
<1>21. CASE UNCHANGED vars
  BY <1>21 DEF vars, pool, obj, call, Current
<1> QED
  BY <1>1, <1>2, <1>3, <1>4, <1>5, <1>6, <1>7, <1>8, <1>9, <1>10, <1>11, <1>12, <1>13, <1>14, <1>15, <1>16, <1>17, <1>18, <1>19, <1>20, <1>21 DEF Next, CallerStep, EntryStep

\* A step that takes away one way of closing a bastion leaves another.
LEMMA LeakStep ==
    ASSUME IInv, [Next]_vars
    PROVE  NoBastionLeaked'
<1> USE JumpAssumption DEF IInv, TypeOK, EntryInv, InvCaller, InvBuild, InvListed, InvConn, InvClean, NoBastionLeaked
<1>1. ASSUME NEW c \in Callers, NEW k \in Keys, Acquire(c, k)
      PROVE  NoBastionLeaked'
  BY <1>1 DEF Acquire, pool, obj, call, Accounted, Current, Conns
<1>2. ASSUME NEW c \in Callers, LookupNew(c)
      PROVE  NoBastionLeaked'
  BY <1>2 DEF LookupNew, Unreferenced, Current, pool, obj, call, Accounted, Conns
<1>3. ASSUME NEW c \in Callers, LookupShared(c)
      PROVE  NoBastionLeaked'
  BY <1>3 DEF LookupShared, pool, obj, call, Accounted, Current, Conns
<1>4. ASSUME NEW c \in Callers, Cancel(c)
      PROVE  NoBastionLeaked'
  BY <1>4 DEF Cancel, pool, obj, call, Accounted, Current, Conns
<1>5. ASSUME NEW c \in Callers, BuildFails(c)
      PROVE  NoBastionLeaked'
  BY <1>5 DEF BuildFails, Return, pool, obj, call, Accounted, Current, Conns
<1>6. ASSUME NEW c \in Callers, BuildShared(c)
      PROVE  NoBastionLeaked'
  BY <1>6 DEF BuildShared, pool, obj, call, Accounted, Current, Conns
<1>7. ASSUME NEW c \in Callers, BuildTooLate(c)
      PROVE  NoBastionLeaked'
  BY <1>7 DEF BuildTooLate, pool, obj, call, Accounted, Current, Conns
<1>8. ASSUME NEW c \in Callers, Discard(c)
      PROVE  NoBastionLeaked'
  BY <1>8 DEF Discard, Return, Cleanup, pool, obj, call, Accounted, Current, Conns
<1>9. ASSUME NEW c \in Callers, WaitCancelled(c)
      PROVE  NoBastionLeaked'
  BY <1>9 DEF WaitCancelled, Return, pool, obj, call, Accounted, Current, Conns
<1>10. ASSUME NEW c \in Callers, WakeFails(c)
      PROVE  NoBastionLeaked'
  BY <1>10 DEF WakeFails, Return, pool, obj, call, Accounted, Current, Conns
<1>11. ASSUME NEW c \in Callers, WakeRetries(c)
      PROVE  NoBastionLeaked'
  BY <1>11 DEF WakeRetries, Current, pool, obj, call, Accounted, Conns
<1>12. ASSUME NEW c \in Callers, WakeShares(c)
      PROVE  NoBastionLeaked'
  BY <1>12 DEF WakeShares, Current, pool, obj, call, Accounted, Conns
<1>13. ASSUME NEW c \in Callers, Release(c)
      PROVE  NoBastionLeaked'
  BY <1>13 DEF Release, Return, Current, pool, obj, call, Accounted, Conns
<1>14. ASSUME NEW e \in Entries, TimerFires(e)
      PROVE  NoBastionLeaked'
  BY <1>14 DEF TimerFires, pool, obj, call, Accounted, Current, Conns
<1>15. ASSUME NEW e \in Entries, LingerExpires(e)
      PROVE  NoBastionLeaked'
  BY <1>15 DEF LingerExpires, Current, Without, pool, obj, call, Accounted, Conns
<1>16. ASSUME NEW e \in Entries, BastionEnds(e)
      PROVE  NoBastionLeaked'
  BY <1>16 DEF BastionEnds, pool, obj, call, Accounted, Current, Conns
<1>17. ASSUME NEW e \in Entries, Watch(e)
      PROVE  NoBastionLeaked'
  BY <1>17 DEF Watch, Current, Without, pool, obj, call, Accounted, Conns
<1>18. ASSUME NEW e \in Entries, Close(e)
      PROVE  NoBastionLeaked'
  BY <1>18 DEF Close, Cleanup, pool, obj, call, Accounted, Current, Conns
<1>19. ASSUME NEW e \in Entries, StopEntry(e)
      PROVE  NoBastionLeaked'
  BY <1>19 DEF StopEntry, pool, obj, call, Accounted, Current, Conns
<1>20. ASSUME StopAll
      PROVE  NoBastionLeaked'
  <2>1. \A d \in Entries : Current(d) => d \in stopping'
    BY <1>20 DEF StopAll, Current
  <2>2. UNCHANGED <<late, conn, closers, pc, mine>> /\ stopping = {}
    BY <1>20 DEF StopAll, obj, call
  <2> QED
    BY <2>1, <2>2 DEF Accounted
<1>21. CASE UNCHANGED vars
  BY <1>21 DEF vars, pool, obj, call, Accounted, Current, Conns
<1> QED
  BY <1>1, <1>2, <1>3, <1>4, <1>5, <1>6, <1>7, <1>8, <1>9, <1>10, <1>11, <1>12, <1>13, <1>14, <1>15, <1>16, <1>17, <1>18, <1>19, <1>20, <1>21 DEF Next, CallerStep, EntryStep

\* refs follows the riders: one more, one less, or neither changes.
LEMMA RefsStep ==
    ASSUME IInv, [Next]_vars
    PROVE  RefsAreRiders'
<1> USE JumpAssumption DEF IInv, TypeOK, EntryInv, InvCaller, RefsAreRiders
<1>1. ASSUME NEW c \in Callers, NEW k \in Keys, Acquire(c, k)
      PROVE  RefsAreRiders'
  BY <1>1 DEF Acquire, pool, obj, call, Riders
<1>2. ASSUME NEW c \in Callers, LookupNew(c)
      PROVE  RefsAreRiders'
  BY <1>2 DEF LookupNew, Unreferenced, Current, pool, obj, call, Riders
<1>3. ASSUME NEW c \in Callers, LookupShared(c)
      PROVE  RefsAreRiders'
  BY <1>3 DEF LookupShared, pool, obj, call, Riders
<1>4. ASSUME NEW c \in Callers, Cancel(c)
      PROVE  RefsAreRiders'
  BY <1>4 DEF Cancel, pool, obj, call, Riders
<1>5. ASSUME NEW c \in Callers, BuildFails(c)
      PROVE  RefsAreRiders'
  BY <1>5 DEF BuildFails, Return, pool, obj, call, Riders
<1>6. ASSUME NEW c \in Callers, BuildShared(c)
      PROVE  RefsAreRiders'
  <2>0. PICK e \in Entries : e = mine[c]
    BY <1>6 DEF BuildShared
  <2>1. c \notin Riders(e) /\ IsFiniteSet(Riders(e))
    BY <1>6, <2>0, RidersCounted DEF BuildShared, Riders
  <2>2. Cardinality(Riders(e) \cup {c}) = Cardinality(Riders(e)) + 1
    BY <2>1, FS_AddElement
  <2>3. /\ Riders(e)' = Riders(e) \cup {c}
        /\ \A d \in Entries \ {e} : Riders(d)' = Riders(d)
    BY <1>6, <2>0, <2>1 DEF BuildShared, Riders
  <2>4. \A d \in Entries : refs'[d] = IF d = e THEN refs[d] + 1 ELSE refs[d]
    BY <1>6, <2>0, <2>1 DEF BuildShared
  <2>5. ASSUME NEW d \in Entries
        PROVE  refs'[d] = Cardinality(Riders(d)')
    <3>1. CASE d = e
      BY <2>2, <2>3, <2>4, <3>1
    <3>2. CASE d # e
      BY <2>3, <2>4, <3>2
    <3> QED
      BY <3>1, <3>2
  <2> QED
    BY <2>5
<1>7. ASSUME NEW c \in Callers, BuildTooLate(c)
      PROVE  RefsAreRiders'
  BY <1>7 DEF BuildTooLate, pool, obj, call, Riders
<1>8. ASSUME NEW c \in Callers, Discard(c)
      PROVE  RefsAreRiders'
  BY <1>8 DEF Discard, Return, Cleanup, pool, obj, call, Riders
<1>9. ASSUME NEW c \in Callers, WaitCancelled(c)
      PROVE  RefsAreRiders'
  BY <1>9 DEF WaitCancelled, Return, pool, obj, call, Riders
<1>10. ASSUME NEW c \in Callers, WakeFails(c)
      PROVE  RefsAreRiders'
  BY <1>10 DEF WakeFails, Return, pool, obj, call, Riders
<1>11. ASSUME NEW c \in Callers, WakeRetries(c)
      PROVE  RefsAreRiders'
  BY <1>11 DEF WakeRetries, Current, pool, obj, call, Riders
<1>12. ASSUME NEW c \in Callers, WakeShares(c)
      PROVE  RefsAreRiders'
  <2>0. PICK e \in Entries : e = mine[c]
    BY <1>12 DEF WakeShares
  <2>1. c \notin Riders(e) /\ IsFiniteSet(Riders(e))
    BY <1>12, <2>0, RidersCounted DEF WakeShares, Riders
  <2>2. Cardinality(Riders(e) \cup {c}) = Cardinality(Riders(e)) + 1
    BY <2>1, FS_AddElement
  <2>3. /\ Riders(e)' = Riders(e) \cup {c}
        /\ \A d \in Entries \ {e} : Riders(d)' = Riders(d)
    BY <1>12, <2>0, <2>1 DEF WakeShares, Riders
  <2>4. \A d \in Entries : refs'[d] = IF d = e THEN refs[d] + 1 ELSE refs[d]
    BY <1>12, <2>0, <2>1 DEF WakeShares
  <2>5. ASSUME NEW d \in Entries
        PROVE  refs'[d] = Cardinality(Riders(d)')
    <3>1. CASE d = e
      BY <2>2, <2>3, <2>4, <3>1
    <3>2. CASE d # e
      BY <2>3, <2>4, <3>2
    <3> QED
      BY <3>1, <3>2
  <2> QED
    BY <2>5
<1>13. ASSUME NEW c \in Callers, Release(c)
      PROVE  RefsAreRiders'
  <2>0. PICK e \in Entries : e = mine[c]
    BY <1>13 DEF Release
  <2>1. c \in Riders(e) /\ IsFiniteSet(Riders(e))
    BY <1>13, <2>0, RidersCounted DEF Release, Riders
  <2>2. Cardinality(Riders(e) \ {c}) = Cardinality(Riders(e)) - 1
    BY <2>1, FS_RemoveElement
  <2>3. /\ Riders(e)' = Riders(e) \ {c}
        /\ \A d \in Entries \ {e} : Riders(d)' = Riders(d)
    <3>1. /\ \A d \in Callers \ {c} : pc'[d] = pc[d] /\ mine'[d] = mine[d]
          /\ pc'[c] = "idle" /\ mine[c] = e
      BY <1>13, <2>0 DEF Release, Return
    <3> QED
      BY <3>1 DEF Riders
  <2>4. \A d \in Entries : refs'[d] = IF d = e THEN refs[d] - 1 ELSE refs[d]
    BY <1>13, <2>0, <2>1 DEF Release
  <2>5. ASSUME NEW d \in Entries
        PROVE  refs'[d] = Cardinality(Riders(d)')
    <3>1. CASE d = e
      BY <2>2, <2>3, <2>4, <3>1
    <3>2. CASE d # e
      BY <2>3, <2>4, <3>2
    <3> QED
      BY <3>1, <3>2
  <2> QED
    BY <2>5
<1>14. ASSUME NEW e \in Entries, TimerFires(e)
      PROVE  RefsAreRiders'
  BY <1>14 DEF TimerFires, pool, obj, call, Riders
<1>15. ASSUME NEW e \in Entries, LingerExpires(e)
      PROVE  RefsAreRiders'
  BY <1>15 DEF LingerExpires, Current, Without, pool, obj, call, Riders
<1>16. ASSUME NEW e \in Entries, BastionEnds(e)
      PROVE  RefsAreRiders'
  BY <1>16 DEF BastionEnds, pool, obj, call, Riders
<1>17. ASSUME NEW e \in Entries, Watch(e)
      PROVE  RefsAreRiders'
  BY <1>17 DEF Watch, Current, Without, pool, obj, call, Riders
<1>18. ASSUME NEW e \in Entries, Close(e)
      PROVE  RefsAreRiders'
  BY <1>18 DEF Close, Cleanup, pool, obj, call, Riders
<1>19. ASSUME NEW e \in Entries, StopEntry(e)
      PROVE  RefsAreRiders'
  BY <1>19 DEF StopEntry, pool, obj, call, Riders
<1>20. ASSUME StopAll
      PROVE  RefsAreRiders'
  BY <1>20 DEF StopAll, pool, obj, call, Riders
<1>21. CASE UNCHANGED vars
  BY <1>21 DEF vars, pool, obj, call, Riders
<1> QED
  BY <1>1, <1>2, <1>3, <1>4, <1>5, <1>6, <1>7, <1>8, <1>9, <1>10, <1>11, <1>12, <1>13, <1>14, <1>15, <1>16, <1>17, <1>18, <1>19, <1>20, <1>21 DEF Next, CallerStep, EntryStep

\* Types; refs stays natural because a rider that leaves was counted.
LEMMA TypeStep ==
    ASSUME IInv, [Next]_vars
    PROVE  TypeOK'
<1> USE JumpAssumption DEF IInv, TypeOK, EntryInv, InvCaller
<1>1. ASSUME NEW c \in Callers, NEW k \in Keys, Acquire(c, k)
      PROVE  TypeOK'
  BY <1>1 DEF Acquire, pool, obj, call, Outcomes, Conns, PCs
<1>2. ASSUME NEW c \in Callers, LookupNew(c)
      PROVE  TypeOK'
  BY <1>2 DEF LookupNew, Unreferenced, Current, pool, obj, call, Outcomes, Conns, PCs
<1>3. ASSUME NEW c \in Callers, LookupShared(c)
      PROVE  TypeOK'
  BY <1>3 DEF LookupShared, pool, obj, call, Outcomes, Conns, PCs
<1>4. ASSUME NEW c \in Callers, Cancel(c)
      PROVE  TypeOK'
  BY <1>4 DEF Cancel, pool, obj, call, Outcomes, Conns, PCs
<1>5. ASSUME NEW c \in Callers, BuildFails(c)
      PROVE  TypeOK'
  BY <1>5 DEF BuildFails, Return, pool, obj, call, Outcomes, Conns, PCs
<1>6. ASSUME NEW c \in Callers, BuildShared(c)
      PROVE  TypeOK'
  BY <1>6 DEF BuildShared, pool, obj, call, Outcomes, Conns, PCs
<1>7. ASSUME NEW c \in Callers, BuildTooLate(c)
      PROVE  TypeOK'
  BY <1>7 DEF BuildTooLate, pool, obj, call, Outcomes, Conns, PCs
<1>8. ASSUME NEW c \in Callers, Discard(c)
      PROVE  TypeOK'
  BY <1>8 DEF Discard, Return, Cleanup, pool, obj, call, Outcomes, Conns, PCs
<1>9. ASSUME NEW c \in Callers, WaitCancelled(c)
      PROVE  TypeOK'
  BY <1>9 DEF WaitCancelled, Return, pool, obj, call, Outcomes, Conns, PCs
<1>10. ASSUME NEW c \in Callers, WakeFails(c)
      PROVE  TypeOK'
  BY <1>10 DEF WakeFails, Return, pool, obj, call, Outcomes, Conns, PCs
<1>11. ASSUME NEW c \in Callers, WakeRetries(c)
      PROVE  TypeOK'
  BY <1>11 DEF WakeRetries, Current, pool, obj, call, Outcomes, Conns, PCs
<1>12. ASSUME NEW c \in Callers, WakeShares(c)
      PROVE  TypeOK'
  BY <1>12 DEF WakeShares, Current, pool, obj, call, Outcomes, Conns, PCs
<1>13. ASSUME NEW c \in Callers, Release(c)
      PROVE  TypeOK'
  <2>1. mine[c] \in Entries /\ refs[mine[c]] > 0
    BY <1>13, RidersCounted DEF Release, Riders
  <2> QED
    BY <1>13, <2>1 DEF Release, Return, Current, pool, PCs
<1>14. ASSUME NEW e \in Entries, TimerFires(e)
      PROVE  TypeOK'
  BY <1>14 DEF TimerFires, pool, obj, call, Outcomes, Conns, PCs
<1>15. ASSUME NEW e \in Entries, LingerExpires(e)
      PROVE  TypeOK'
  BY <1>15 DEF LingerExpires, Current, Without, pool, obj, call, Outcomes, Conns, PCs
<1>16. ASSUME NEW e \in Entries, BastionEnds(e)
      PROVE  TypeOK'
  BY <1>16 DEF BastionEnds, pool, obj, call, Outcomes, Conns, PCs
<1>17. ASSUME NEW e \in Entries, Watch(e)
      PROVE  TypeOK'
  BY <1>17 DEF Watch, Current, Without, pool, obj, call, Outcomes, Conns, PCs
<1>18. ASSUME NEW e \in Entries, Close(e)
      PROVE  TypeOK'
  BY <1>18 DEF Close, Cleanup, pool, obj, call, Outcomes, Conns, PCs
<1>19. ASSUME NEW e \in Entries, StopEntry(e)
      PROVE  TypeOK'
  BY <1>19 DEF StopEntry, pool, obj, call, Outcomes, Conns, PCs
<1>20. ASSUME StopAll
      PROVE  TypeOK'
  BY <1>20 DEF StopAll, pool, obj, call, Outcomes, Conns, PCs
<1>21. CASE UNCHANGED vars
  BY <1>21 DEF vars, pool, obj, call, Outcomes, Conns, PCs
<1> QED
  BY <1>1, <1>2, <1>3, <1>4, <1>5, <1>6, <1>7, <1>8, <1>9, <1>10, <1>11, <1>12, <1>13, <1>14, <1>15, <1>16, <1>17, <1>18, <1>19, <1>20, <1>21 DEF Next, CallerStep, EntryStep

-----------------------------------------------------------------------------
\* An empty pool satisfies the invariant.
LEMMA InitInv == Init => IInv
<1> SUFFICES ASSUME Init PROVE IInv
  OBVIOUS
<1>1. TypeOK
  <2>1. 0 \in 0..MaxFired
    BY JumpAssumption
  <2>2. /\ entries \in [Keys -> Entries \cup {None}]
        /\ built \in [Entries -> Outcomes] /\ conn \in [Entries -> Conns]
        /\ refs \in [Entries -> Nat] /\ fired \in [Entries -> 0..MaxFired]
        /\ closers \in [Entries -> Nat] /\ cleaned \in [Entries -> Nat]
    BY <2>1 DEF Init, Outcomes, Conns
  <2>3. /\ timer \in [Entries -> BOOLEAN] /\ watching \in [Entries -> BOOLEAN]
        /\ once \in [Entries -> BOOLEAN] /\ late \in [Entries -> BOOLEAN]
        /\ stopped \in BOOLEAN /\ stopping \subseteq Entries
    BY DEF Init
  <2>4. /\ pc \in [Callers -> PCs] /\ live \in [Callers -> BOOLEAN]
        /\ want \in [Callers -> Keys \cup {None}]
        /\ mine \in [Callers -> Entries \cup {None}]
    BY DEF Init, PCs
  <2> QED
    BY <2>2, <2>3, <2>4 DEF TypeOK
<1>2. RefsAreRiders
  <2>1. ASSUME NEW e \in Entries PROVE Riders(e) = {} /\ refs[e] = 0
    BY DEF Init, Riders
  <2> QED
    BY <2>1, FS_EmptySet DEF RefsAreRiders
<1>3. EntryInv
  BY JumpAssumption DEF Init, EntryInv, InvCaller, InvBuild, InvListed, InvConn, InvClean
<1>4. InvRide /\ NoBastionLeaked
  BY DEF Init, InvRide, NoBastionLeaked
<1> QED
  BY <1>1, <1>2, <1>3, <1>4 DEF IInv

\* IInv is inductive.
LEMMA SpecInv == Spec => []IInv
<1>1. IInv /\ [Next]_vars => IInv'
  BY EntryInvStep, RideStep, LeakStep, RefsStep, TypeStep DEF IInv
<1> QED
  BY InitInv, <1>1, PTL DEF Spec

\* refs is the number of sessions that hold the client of a bastion.
THEOREM RefsCountRiders == Spec => [](TypeOK /\ RefsAreRiders)
<1>1. IInv => TypeOK /\ RefsAreRiders
  BY DEF IInv
<1> QED
  BY SpecInv, <1>1, PTL

\* Until the application quits, neither the linger nor a dying entry's close
\* ends a bastion connection that a session rides.
THEOREM RidersKeepTheirBastion == Spec => []RiderNotCutOff
<1>1. IInv => RiderNotCutOff
  <2> SUFFICES ASSUME IInv, NEW c \in Callers, pc[c] = "ride",
                      conn[mine[c]] = "closed", ~stopped
               PROVE  FALSE
    BY DEF RiderNotCutOff, IInv, TypeOK
  <2>1. mine[c] \in Entries /\ Current(mine[c])
    BY DEF IInv, EntryInv, InvCaller, InvRide
  <2> QED
    BY <2>1 DEF Current, IInv, EntryInv, InvListed
<1> QED
  BY SpecInv, <1>1, PTL

\* A prefix is dialled by one caller at a time.
THEOREM PrefixDialledOnce == Spec => []OneDialPerPrefix
<1>1. IInv => OneDialPerPrefix
  BY DEF IInv, TypeOK, EntryInv, InvBuild, OneDialPerPrefix
<1> QED
  BY SpecInv, <1>1, PTL

\* Every bastion opened before the shutdown is ridden or will be closed, and
\* its cleanup never runs twice.
THEOREM BastionsAccountedFor == Spec => [](NoBastionLeaked /\ CleanedOnce)
<1>1. IInv => NoBastionLeaked /\ CleanedOnce
  BY DEF IInv, EntryInv, InvClean, CleanedOnce
<1> QED
  BY SpecInv, <1>1, PTL
=============================================================================
