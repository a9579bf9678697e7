---------------------------- MODULE TunnelsProofs ----------------------------
(***************************************************************************)
(* Proofs about Sessions and Tunnels, for any number of sessions, forwards *)
(* and loops: one loop works on the standing tunnel, what shows as         *)
(* connected is up, and no session, listener or VPN claim is left behind.  *)
(***************************************************************************)
EXTENDS Tunnels, FiniteSetTheorems, TLAPS

\* A session is in the pool until its hook, or a disconnect that found no
\* hook, takes it out; it claims the VPN as the last thing of its connect.
PoolInv ==
    /\ \A s \in Sessions : s \in pool <=> ss[s].life \in {"live", "missed", "due", "stopped"}
    /\ \A s \in Sessions : ss[s].life = "missed" => "hook" \in ss[s].late
    /\ \A s \in claims : ss[s].opening \in {"returned", "done"}

\* A reconnect loop that waits has an attempt left, one that opens a session
\* has it.
RcInv ==
    \A o \in Sessions :
        /\ rc[o].pc \in {"opening", "list", "register"} => rc[o].new \in Sessions
        /\ rc[o].pc = "wait" => rc[o].tries < MaxAttempts

\* A loop that has opened a session has it to itself, until it returns or
\* waits again; it drops it only when its entry has left the map.
HandInv ==
    /\ \A l \in Loops : lp[l].sess # None <=> lp[l].pc \in {"opening", "list", "start", "mark", "drop"}
    /\ \A l, m \in Loops : lp[l].sess = lp[m].sess /\ lp[l].sess # None => l = m
    /\ \A l \in Loops : lp[l].pc = "drop" => lp[l].stop

\* One loop serves a tunnel that is on its way up, none another; the entry
\* has no session before that loop has checked it, and then it has that one.
ServeInv ==
    /\ \A l \in Serving : lp[l].pc \in {"wait", "connect", "opening"} => tun.sess = None
    /\ \A l \in Loops : lp[l].sess = tun.sess /\ tun.sess # None => l \in Serving
    /\ \A l, m \in Serving : l = m
    /\ Serving # {} <=> tun.state \in {"connecting", "reconnecting"}
    /\ tun.state = "connected" => tun.sess # None
    /\ tun.state \in {"stopped", "error"} => tun.sess = None

\* The session of a loop or of the entry is a tunnel's, and the entry's is
\* not over unless it has no hook to say so.
RefInv ==
    /\ \A l \in Loops : lp[l].sess # None => ss[lp[l].sess].kind = "tunnel"
    /\ tun.sess # None =>
         /\ ss[tun.sess].kind = "tunnel"
         /\ ss[tun.sess].life # "none" \/ "hook" \in ss[tun.sess].late

\* What byID holds is in its session's set too, and only a listener without a
\* fixed port can be replaced there.
ForwardInv ==
    /\ \A f \in Specs : forwards[f] # None => f \in bySess[forwards[f]]
    /\ orphans \subseteq AutoPorts

IInv ==
    /\ TypeOK /\ PoolInv /\ RcInv /\ HandInv /\ ServeInv /\ RefInv
    /\ ForwardInv /\ NoStraySession /\ NoDeadListener /\ ClaimsEnd
-----------------------------------------------------------------------------
(* Types.                                                                  *)

Lates == {"hook", "start", "claim"}

\* What each step makes of the session records.
LEMMA SessTypes ==
    ASSUME TypeOK, RcInv, NEW s \in Sessions,
           \/ LooksUp(s, Holds) \/ Lists(s) \/ Starts(s) \/ Tracks(s) \/ HookStops(s)
           \/ HookRemoves(s) \/ Dies(s) \/ RcRestores(s) \/ RcLists(s) \/ RcRegisters(s)
           \/ Disconnects(s) \/ Hooked(s) \/ HookStopsAgain(s) \/ HookTunnel(s)
           \/ Opens(s, "term") \/ Opens(s, "tunnel")
    PROVE  ss' \in [Sessions -> SessionType]
<1>0. /\ ss \in [Sessions -> SessionType] /\ rc \in [Sessions -> RcType]
      /\ ss[s] \in SessionType /\ ss[s].late \in SUBSET Lates
      /\ ss[s].todo \in SUBSET Specs /\ NotRunning(Specs) \in SUBSET Specs
  BY DEF TypeOK, SessionType, Lates, NotRunning
<1>1. CASE LooksUp(s, Holds)
  <2> DEFINE o == IF ~Holds /\ s \in pool THEN "listing" ELSE "started"
  <2>1. o \in Openings
    BY DEF Openings
  <2>2. ss' = [ss EXCEPT ![s].opening = o]
    BY <1>1 DEF LooksUp
  <2> HIDE DEF o
  <2> QED
    BY <1>0, <2>1, <2>2 DEF SessionType
<1>2. ASSUME NEW n \in Sessions, NEW o \in Openings, NEW d \in SUBSET Specs,
             NEW ok \in BOOLEAN,
             ss' = [ss EXCEPT ![n] = [ss[n] EXCEPT !.todo = d, !.opening = o,
                                                   !.late = ss[n].late \cup Late(n, ok)]]
      PROVE  ss' \in [Sessions -> SessionType]
  <2>1. ss[n].late \cup Late(n, ok) \in SUBSET Lates
    BY <1>0 DEF Late, Lates, SessionType
  <2> QED
    BY <1>0, <1>2, <2>1 DEF SessionType, Lates
<1>17. CASE Starts(s)
  <2>1. PICK f \in ss[s].todo, ok \in BOOLEAN :
           ss' = [ss EXCEPT ![s].todo = @ \ {f}, ![s].late = @ \cup Late(s, ok),
                            ![s].opening = IF ss[s].todo = {f} THEN "started" ELSE @]
    BY <1>17 DEF Starts
  <2> DEFINE o == IF ss[s].todo = {f} THEN "started" ELSE ss[s].opening
             d == ss[s].todo \ {f}
  <2>2. o \in Openings /\ d \in SUBSET Specs
    BY <1>0 DEF Openings, SessionType
  <2>3. ss' = [ss EXCEPT ![s] = [ss[s] EXCEPT !.todo = d, !.opening = o,
                                              !.late = ss[s].late \cup Late(s, ok)]]
    <3>1. ss' = [ss EXCEPT ![s].todo = d, ![s].late = ss[s].late \cup Late(s, ok),
                           ![s].opening = o]
      BY <2>1
    <3> HIDE DEF o, d
    <3> QED
      BY <1>0, <3>1 DEF SessionType
  <2> HIDE DEF o, d
  <2> QED
    BY <1>2, <2>2, <2>3
<1>18. CASE Lists(s)
  <2> DEFINE o == IF NotRunning(Specs) = {} THEN "started" ELSE "starting"
             d == NotRunning(Specs)
  <2>1. o \in Openings /\ d \in SUBSET Specs
    BY <1>0 DEF Openings
  <2>2. ss' = [ss EXCEPT ![s].todo = d, ![s].opening = o]
    BY <1>18 DEF Lists
  <2> HIDE DEF o, d
  <2> QED
    BY <1>0, <2>1, <2>2 DEF SessionType
<1>3. CASE Tracks(s)
  <2> DEFINE o == IF Awaited(s) THEN "returned" ELSE "done"
             t == IF ~ViaVPN \/ ss[s].life \in {"live", "due", "stopped"}
                  THEN ss[s].late ELSE ss[s].late \cup {"claim"}
  <2>1. o \in Openings /\ t \in SUBSET Lates
    BY <1>0 DEF Lates, Openings
  <2>2. ss' = [ss EXCEPT ![s] = [ss[s] EXCEPT !.opening = o, !.late = t]]
    BY <1>3 DEF Tracks
  <2> HIDE DEF o, t
  <2> QED
    BY <1>0, <2>1, <2>2 DEF SessionType, Lates
<1>4. CASE HookStops(s)
  <2> DEFINE u == ss[s].user
  <2>1. u \in BOOLEAN
    BY <1>0, Zenon DEF SessionType
  <2>2. ss' = [ss EXCEPT ![s].life = "stopped", ![s].user = FALSE, ![s].byUser = u]
    BY <1>4 DEF HookStops
  <2> HIDE DEF u
  <2> QED
    BY <1>0, <2>1, <2>2 DEF SessionType, Lives
<1>5. Over(s) \in SessionType
  BY <1>0 DEF SessionType, Over, NoSession, Lives
<1>6. CASE ss' = [ss EXCEPT ![s] = Over(s)]
  BY <1>0, <1>5, <1>6
<1>7. CASE HookRemoves(s)
  <2>1. CASE ss' = [ss EXCEPT ![s].life = "removed"]
    BY <1>0, <2>1 DEF SessionType, Lives
  <2> QED
    BY <1>6, <1>7, <2>1 DEF HookRemoves
<1>8. ASSUME NEW u \in BOOLEAN, ss' = Ends(s, u) PROVE ss' \in [Sessions -> SessionType]
  <2>1. CASE ss' = [ss EXCEPT ![s].life = "missed", ![s].late = {"hook"}]
    BY <1>0, <2>1 DEF SessionType, Lives
  <2>2. CASE ss' = [ss EXCEPT ![s].life = "due", ![s].user = u]
    BY <1>0, <2>2 DEF SessionType, Lives
  <2> QED
    BY <1>8, <2>1, <2>2 DEF Ends
<1>9. CASE Dies(s)
  BY <1>8, <1>9 DEF Dies
<1>10. CASE RcRestores(s)
  <2> DEFINE n == rc[s].new
             d == kept[s]
  <2>1. n \in Sessions /\ d \in SUBSET Specs
        /\ \/ ss' = [ss EXCEPT ![n].opening = "done"]
           \/ ss' = [ss EXCEPT ![n].opening = "done", ![n].todo = d]
    BY <1>10 DEF RcRestores, RcInv, TypeOK
  <2> HIDE DEF n, d
  <2> QED
    BY <1>0, <2>1 DEF SessionType, Openings
<1>19. CASE RcLists(s)
  <2> DEFINE n == rc[s].new
             d == NotRunning(ss[n].todo)
  <2>1. n \in Sessions /\ ss' = [ss EXCEPT ![n].todo = d]
    BY <1>19 DEF RcLists, RcInv
  <2>2. d \in SUBSET Specs
    BY <1>0, <2>1 DEF NotRunning, SessionType
  <2> HIDE DEF n, d
  <2> QED
    BY <1>0, <2>1, <2>2 DEF SessionType
<1>11. CASE RcRegisters(s)
  <2> DEFINE n == rc[s].new
  <2>1. n \in Sessions
    BY <1>11 DEF RcRegisters, RcInv
  <2>2. PICK f \in ss[n].todo, ok \in BOOLEAN :
           ss' = [ss EXCEPT ![n].todo = @ \ {f}, ![n].late = @ \cup Late(n, ok)]
    BY <1>11 DEF RcRegisters
  <2> DEFINE d == ss[n].todo \ {f}
             o == ss[n].opening
  <2>3. d \in SUBSET Specs /\ o \in Openings
    BY <1>0, <2>1 DEF SessionType
  <2>4. ss' = [ss EXCEPT ![n] = [ss[n] EXCEPT !.todo = d, !.opening = o,
                                              !.late = ss[n].late \cup Late(n, ok)]]
    <3>1. ss' = [ss EXCEPT ![n].todo = d, ![n].late = ss[n].late \cup Late(n, ok)]
      BY <2>2
    <3> HIDE DEF n, d
    <3> QED
      BY <1>0, <2>1, <3>1 DEF SessionType
  <2> HIDE DEF n, d, o
  <2> QED
    BY <1>2, <2>1, <2>3, <2>4
<1>12. CASE Disconnects(s)
  <2>1. CASE ss' = [ss EXCEPT ![s].user = TRUE]
    BY <1>0, <2>1 DEF SessionType
  <2>2. ss' = Ends(s, TRUE) \/ ss' = ss \/ ss' = [ss EXCEPT ![s] = Over(s)]
        \/ ss' = [ss EXCEPT ![s].user = TRUE]
    BY <1>12 DEF Disconnects
  <2>3. TRUE \in BOOLEAN
    OBVIOUS
  <2> QED
    BY <1>0, <1>6, <1>8, <2>1, <2>2, <2>3
<1>13. CASE Hooked(s)
  <2> DEFINE o == IF ss[s].kind = "term" THEN "hooked" ELSE "started"
  <2>1. o \in Openings /\ ss' = [ss EXCEPT ![s].opening = o]
    BY <1>13 DEF Openings, Hooked
  <2> HIDE DEF o
  <2> QED
    BY <1>0, <2>1 DEF SessionType
<1>14. CASE HookStopsAgain(s)
  BY <1>0, <1>14 DEF HookStopsAgain, SessionType, Lives
<1>15. CASE HookTunnel(s)
  BY <1>6, <1>15 DEF HookTunnel
<1>16. ASSUME NEW k \in {"term", "tunnel"}, Opens(s, k) PROVE ss' \in [Sessions -> SessionType]
  BY <1>0, <1>16 DEF Opens, NoSession, SessionType, Lives, Openings
<1> QED
  BY <1>1, <1>3, <1>4, <1>7, <1>9, <1>10, <1>11, <1>12, <1>13, <1>14, <1>15, <1>16,
     <1>17, <1>18, <1>19

\* What each step makes of the reconnect loops.
LEMMA RcTypes ==
    ASSUME TypeOK, RcInv, NEW s \in Sessions,
           \/ HookRemoves(s) \/ RcCancelled(s) \/ RcTries(s) \/ RcFails(s)
           \/ RcRestores(s) \/ RcLists(s) \/ RcRegisters(s) \/ SshCancelReconnect(s)
           \/ \E n \in Sessions : RcOpens(s, n)
    PROVE  rc' \in [Sessions -> RcType] /\ RcInv'
<1>0. rc \in [Sessions -> RcType] /\ rc[s] \in RcType /\ MaxAttempts \in Nat \ {0}
  BY SessionAssumption DEF TypeOK
<1> DEFINE Good(r) ==
      /\ r \in RcType
      /\ r.pc \in {"opening", "list", "register"} => r.new \in Sessions
      /\ r.pc = "wait" => r.tries < MaxAttempts
<1>1. ASSUME NEW r, Good(r), rc' = [rc EXCEPT ![s] = r]
      PROVE  rc' \in [Sessions -> RcType] /\ RcInv'
  <2>1. rc' \in [Sessions -> RcType] /\ \A o \in Sessions : rc'[o] = IF o = s THEN r ELSE rc[o]
    BY <1>0, <1>1
  <2> QED
    BY <1>1, <2>1 DEF RcInv
<1>2. Good(NoLoop) /\ Good([NoLoop EXCEPT !.pc = "wait"])
  <2>1. NoLoop \in RcType
    BY <1>0 DEF NoLoop, RcType
  <2>2. [NoLoop EXCEPT !.pc = "wait"] \in RcType
    BY <2>1 DEF RcType
  <2> QED
    BY <1>0, <2>1, <2>2 DEF NoLoop
<1>3. rc' = rc => rc' \in [Sessions -> RcType] /\ RcInv'
  BY <1>0 DEF RcInv
<1>4. CASE RcDone(s)
  BY <1>1, <1>2, <1>4 DEF RcDone
<1>5. CASE HookRemoves(s)
  BY <1>1, <1>2, <1>3, <1>5 DEF HookRemoves
<1>6. CASE RcTries(s)
  <2>1. Good([rc[s] EXCEPT !.pc = "connect", !.tries = rc[s].tries + 1])
    BY <1>0, <1>6 DEF RcType, RcTries, RcInv
  <2> QED
    BY <1>1, <1>6, <2>1 DEF RcTries
<1>7. CASE RcFails(s)
  <2>1. CASE rc[s].tries < MaxAttempts /\ rc' = [rc EXCEPT ![s].pc = "wait"]
    <3>1. Good([rc[s] EXCEPT !.pc = "wait"])
      BY <1>0, <2>1 DEF RcType
    <3> QED
      BY <1>1, <2>1, <3>1
  <2> QED
    BY <1>4, <1>7, <2>1 DEF RcFails
<1>8. CASE RcRestores(s)
  <2>1. CASE rc[s].pc = "opening" /\ rc' = [rc EXCEPT ![s].pc = "list"]
    <3>1. Good([rc[s] EXCEPT !.pc = "list"])
      BY <1>0, <2>1 DEF RcType, RcInv
    <3> QED
      BY <1>1, <2>1, <3>1
  <2> QED
    BY <1>4, <1>8, <2>1 DEF RcRestores
<1>11. CASE RcLists(s)
  <2>1. CASE rc[s].pc = "list" /\ rc' = [rc EXCEPT ![s].pc = "register"]
    <3>1. Good([rc[s] EXCEPT !.pc = "register"])
      BY <1>0, <2>1 DEF RcType, RcInv
    <3> QED
      BY <1>1, <2>1, <3>1
  <2> QED
    BY <1>4, <1>11, <2>1 DEF RcLists
<1>12. CASE RcRegisters(s)
  BY <1>3, <1>4, <1>12 DEF RcRegisters
<1>9. CASE SshCancelReconnect(s)
  <2>1. Good([rc[s] EXCEPT !.cancelled = TRUE])
    BY <1>0 DEF RcType, RcInv
  <2> QED
    BY <1>1, <1>9, <2>1 DEF SshCancelReconnect
<1>10. ASSUME NEW n \in Sessions, RcOpens(s, n) PROVE rc' \in [Sessions -> RcType] /\ RcInv'
  <2>1. Good([rc[s] EXCEPT !.pc = "opening", !.new = n])
    BY <1>0 DEF RcType
  <2>2. rc' = [rc EXCEPT ![s] = [rc[s] EXCEPT !.pc = "opening", !.new = n]]
    BY <1>10 DEF RcOpens
  <2> HIDE DEF Good
  <2> QED
    BY <1>1, <2>1, <2>2
<1> QED
  BY <1>4, <1>5, <1>6, <1>7, <1>8, <1>9, <1>10, <1>11, <1>12 DEF RcCancelled

\* What the steps that change the entry and its loops make of them.
LEMMA TunTypes ==
    ASSUME TypeOK, HandInv,
           \/ \E s \in Sessions : HookTunnel(s)
           \/ \E l \in Loops : \/ LoopStopped(l) \/ LoopTries(l) \/ LoopFails(l)
                               \/ LoopChecks(l) \/ LoopDrops(l) \/ LoopLists(l)
                               \/ LoopStarts(l) \/ LoopMarks(l) \/ \E s \in Sessions : LoopOpens(l, s)
           \/ TunnelStop \/ \E p \in BOOLEAN : TunnelStart(p)
    PROVE  tun' \in TunnelType /\ lp' \in [Loops -> LoopType]
<1>0. tun \in TunnelType /\ lp \in [Loops -> LoopType]
  BY DEF TypeOK
<1>1. Stopped \in TunnelType /\ [Stopped EXCEPT !.state = "connecting"] \in TunnelType
  BY DEF Stopped, TunnelType
<1>2. CloseStop \in [Loops -> LoopType]
  <2>1. \A l \in Loops : [lp[l] EXCEPT !.stop = TRUE] \in LoopType
    BY <1>0 DEF LoopType
  <2> QED
    BY <1>0, <2>1 DEF CloseStop
<1>3. ASSUME NEW c \in [Loops -> LoopType], NEW pc \in {"wait", "connect"},
             NEW p \in BOOLEAN, Spawns(c, pc, p)
      PROVE  lp' \in [Loops -> LoopType]
  <2>1. [IdleLoop EXCEPT !.pc = pc, !.patient = p] \in LoopType
    BY DEF IdleLoop, LoopType
  <2> QED
    BY <1>3, <2>1 DEF Spawns
<1>4. ASSUME NEW l \in Loops, lp' = [lp EXCEPT ![l] = IdleLoop]
      PROVE  lp' \in [Loops -> LoopType]
  BY <1>0, <1>4 DEF IdleLoop, LoopType
<1>5. ASSUME NEW l \in Loops, NEW pc \in {"wait", "connect", "drop", "list", "start", "mark"},
             lp' = [lp EXCEPT ![l].pc = pc]
      PROVE  lp' \in [Loops -> LoopType]
  BY <1>0, <1>5 DEF LoopType
<1>6. ASSUME NEW s \in Sessions, HookTunnel(s)
      PROVE  tun' \in TunnelType /\ lp' \in [Loops -> LoopType]
  <2>1. [tun EXCEPT !.state = "reconnecting", !.sess = None] \in TunnelType
    BY <1>0 DEF TunnelType
  <2> QED
    BY <1>0, <1>1, <1>2, <1>3, <1>6, <2>1 DEF HookTunnel
<1>7. ASSUME NEW l \in Loops, LoopFails(l)
      PROVE  tun' \in TunnelType /\ lp' \in [Loops -> LoopType]
  <2>1. \A k \in BOOLEAN : [tun EXCEPT !.state = "error", !.vaultLocked = k] \in TunnelType
    BY <1>0 DEF TunnelType
  <2>2. [tun EXCEPT !.state = "reconnecting", !.vaultLocked = FALSE] \in TunnelType
    BY <1>0 DEF TunnelType
  <2> QED
    BY <1>0, <1>4, <1>5, <1>7, <2>1, <2>2 DEF LoopFails, LoopReturns
<1>8. ASSUME NEW l \in Loops, LoopChecks(l)
      PROVE  tun' \in TunnelType /\ lp' \in [Loops -> LoopType]
  <2>1. lp[l].sess \in Sessions
    BY <1>0, <1>8 DEF LoopChecks, HandInv, LoopType
  <2>2. [tun EXCEPT !.state = "reconnecting"] \in TunnelType
        /\ [tun EXCEPT !.sess = lp[l].sess] \in TunnelType
    BY <1>0, <2>1 DEF TunnelType
  <2>3. [lp EXCEPT ![l].pc = "wait", ![l].sess = None] \in [Loops -> LoopType]
    BY <1>0 DEF LoopType
  <2> QED
    BY <1>0, <1>5, <1>8, <2>2, <2>3 DEF LoopChecks
<1>9. ASSUME NEW l \in Loops, LoopMarks(l)
      PROVE  tun' \in TunnelType /\ lp' \in [Loops -> LoopType]
  <2>1. [tun EXCEPT !.state = "connected", !.vaultLocked = FALSE] \in TunnelType
    BY <1>0 DEF TunnelType
  <2> QED
    BY <1>0, <1>4, <1>9, <2>1 DEF LoopMarks, LoopReturns
<1>10. ASSUME NEW l \in Loops, NEW s \in Sessions, LoopOpens(l, s)
      PROVE  tun' \in TunnelType /\ lp' \in [Loops -> LoopType]
  BY <1>0, <1>10 DEF LoopOpens, LoopType
<1>11. ASSUME NEW l \in Loops,
              LoopStopped(l) \/ LoopTries(l) \/ LoopDrops(l)
      PROVE  tun' \in TunnelType /\ lp' \in [Loops -> LoopType]
  BY <1>0, <1>4, <1>5, <1>11 DEF LoopStopped, LoopTries, LoopDrops, LoopReturns
<1>14. ASSUME NEW l \in Loops, LoopLists(l) \/ LoopStarts(l)
      PROVE  tun' \in TunnelType /\ lp' \in [Loops -> LoopType]
  <2>1. \/ UNCHANGED lp
        \/ \E pc \in {"start", "mark"} : lp' = [lp EXCEPT ![l].pc = pc]
    <3>1. CASE LoopLists(l)
      BY <3>1 DEF LoopLists
    <3>2. CASE LoopStarts(l)
      <4>1. lp[l].pc = "start"
        BY <3>2 DEF LoopStarts
      <4>2. \E f \in ss[lp[l].sess].todo :
              lp' = [lp EXCEPT ![l].pc = IF ss[lp[l].sess].todo = {f} THEN "mark" ELSE @]
        BY <3>2 DEF LoopStarts
      <4> QED
        BY <4>1, <4>2
    <3> QED
      BY <1>14, <3>1, <3>2
  <2>2. UNCHANGED tun
    BY <1>14 DEF LoopLists, LoopStarts
  <2> QED
    BY <1>0, <1>5, <2>1, <2>2
<1>12. ASSUME NEW p \in BOOLEAN, TunnelStart(p)
      PROVE  tun' \in TunnelType /\ lp' \in [Loops -> LoopType]
  BY <1>1, <1>2, <1>3, <1>12 DEF TunnelStart
<1>13. CASE TunnelStop
  BY <1>1, <1>2, <1>13 DEF TunnelStop
<1> QED
  BY <1>6, <1>7, <1>8, <1>9, <1>10, <1>11, <1>12, <1>13, <1>14

\* What a step can do to the forwards.
FwdStep ==
    \/ UNCHANGED fwdVars
    \/ \E s \in Sessions : StopAllForSession(s)
    \/ \E s \in Sessions, f \in Specs, ok \in BOOLEAN : StartForward(f, s, ok)
    \/ \E s \in Sessions, kind \in {"term", "tunnel"} : Opens(s, kind)

LEMMA FwdSteps == TypeOK /\ RcInv /\ HandInv /\ [Next]_vars => FwdStep
<1> SUFFICES ASSUME TypeOK, RcInv, HandInv, [Next]_vars PROVE FwdStep
  OBVIOUS
<1> USE DEF FwdStep
<1>0. /\ \A s \in Sessions : ss[s].todo \subseteq Specs
      /\ \A l \in Loops : lp[l].sess \in Sessions \cup {None}
  BY DEF TypeOK, SessionType, LoopType
<1>1. UNCHANGED sessVars => UNCHANGED fwdVars
  BY DEF sessVars
<1>2. ASSUME NEW s \in Sessions,
             \/ Hooked(s) \/ LooksUp(s, Holds) \/ Lists(s) \/ Tracks(s) \/ HookRemoves(s)
             \/ RcCancelled(s) \/ RcTries(s) \/ RcFails(s) \/ RcRestores(s) \/ RcLists(s)
             \/ Dies(s) \/ SshCancelReconnect(s) \/ HookTunnel(s)
      PROVE  FwdStep
  BY <1>2 DEF Hooked, LooksUp, Lists, Tracks, HookRemoves, RcCancelled, RcTries, RcFails,
              RcRestores, RcLists, Dies, SshCancelReconnect, HookTunnel
<1>3. ASSUME NEW s \in Sessions, Starts(s) PROVE FwdStep
  BY <1>0, <1>3 DEF Starts
<1>4. ASSUME NEW o \in Sessions, RcRegisters(o) PROVE FwdStep
  <2>1. rc[o].new \in Sessions
    BY <1>4 DEF RcRegisters, RcInv
  <2> QED
    BY <1>0, <1>4, <2>1 DEF RcRegisters
<1>5. ASSUME NEW s \in Sessions, HookStops(s) \/ HookStopsAgain(s) PROVE FwdStep
  BY <1>5 DEF HookStops, HookStopsAgain
<1>6. ASSUME NEW s \in Sessions, Disconnects(s) PROVE FwdStep
  BY <1>6 DEF Disconnects, fwdVars
<1>7. ASSUME NEW s \in Sessions, NEW o \in Sessions, OpenTerminal(s) \/ RcOpens(o, s)
      PROVE  FwdStep
  BY <1>7 DEF OpenTerminal, RcOpens
<1>8. ASSUME NEW l \in Loops,
             LoopStopped(l) \/ LoopTries(l) \/ LoopFails(l) \/ LoopChecks(l) \/ LoopLists(l)
      PROVE  FwdStep
  BY <1>1, <1>8 DEF LoopStopped, LoopTries, LoopFails, LoopChecks, LoopLists
<1>9. ASSUME NEW l \in Loops, LoopDrops(l) \/ LoopStarts(l) \/ LoopMarks(l) PROVE FwdStep
  <2>1. lp[l].sess \in Sessions
    BY <1>0, <1>9 DEF LoopDrops, LoopStarts, LoopMarks, HandInv
  <2>2. CASE LoopStarts(l)
    BY <1>0, <2>1, <2>2 DEF LoopStarts
  <2>3. CASE LoopMarks(l)
    BY <2>1, <2>3 DEF LoopMarks
  <2> QED
    BY <1>6, <1>9, <2>1, <2>2, <2>3 DEF LoopDrops
<1>10. ASSUME NEW l \in Loops, NEW s \in Sessions, LoopOpens(l, s) PROVE FwdStep
  BY <1>10 DEF LoopOpens
<1>11. CASE ByHand \/ Autostart \/ AutostartStarts \/ TunnelStop \/ UNCHANGED vars
  BY <1>1, <1>11 DEF ByHand, Autostart, AutostartStarts, TunnelStart, TunnelStop, vars
<1> QED
  BY <1>2, <1>3, <1>4, <1>5, <1>6, <1>7, <1>8, <1>9, <1>10, <1>11
     DEF Next, SessStep, SessEnv, LoopStep, StopDisconnects

\* Starting and stopping forwards keeps the registries' types, ...
LEMMA ForwardTypes ==
    ASSUME TypeOK, FwdStep
    PROVE  /\ forwards' \in [Specs -> Sessions \cup {None}]
           /\ bySess' \in [Sessions -> SUBSET Specs] /\ orphans' \subseteq Specs
<1>0. /\ forwards \in [Specs -> Sessions \cup {None}]
      /\ bySess \in [Sessions -> SUBSET Specs] /\ orphans \subseteq Specs
  BY DEF TypeOK
<1>1. CASE UNCHANGED fwdVars
  BY <1>0, <1>1 DEF fwdVars
<1>2. ASSUME NEW s \in Sessions, StopAllForSession(s)
      PROVE  /\ forwards' \in [Specs -> Sessions \cup {None}]
             /\ bySess' \in [Sessions -> SUBSET Specs] /\ orphans' \subseteq Specs
  BY <1>0, <1>2 DEF StopAllForSession
<1>3. ASSUME NEW s \in Sessions, NEW f \in Specs, NEW ok \in BOOLEAN, StartForward(f, s, ok)
      PROVE  /\ forwards' \in [Specs -> Sessions \cup {None}]
             /\ bySess' \in [Sessions -> SUBSET Specs] /\ orphans' \subseteq Specs
  BY <1>0, <1>1, <1>3 DEF StartForward, Register
<1>4. ASSUME NEW s \in Sessions, NEW kind, Opens(s, kind)
      PROVE  /\ forwards' \in [Specs -> Sessions \cup {None}]
             /\ bySess' \in [Sessions -> SUBSET Specs] /\ orphans' \subseteq Specs
  BY <1>0, <1>4 DEF Opens
<1> QED
  BY <1>1, <1>2, <1>3, <1>4 DEF FwdStep

\* ... and keeps byID and the sessions' sets together.
LEMMA StepForward ==
    ASSUME TypeOK, ForwardInv, FwdStep PROVE ForwardInv'
<1>0. /\ forwards \in [Specs -> Sessions \cup {None}] /\ None \notin Sessions
      /\ bySess \in [Sessions -> SUBSET Specs] /\ orphans \subseteq Specs
  BY SessionAssumption DEF TypeOK
<1> USE DEF ForwardInv
<1>1. CASE UNCHANGED fwdVars
  BY <1>1 DEF fwdVars
<1>2. ASSUME NEW s \in Sessions, StopAllForSession(s) PROVE ForwardInv'
  <2>1. ASSUME NEW f \in Specs, forwards'[f] # None PROVE f \in bySess'[forwards'[f]]
    <3>1. f \notin bySess[s] /\ forwards'[f] = forwards[f] /\ forwards[f] \in Sessions
      BY <1>0, <1>2, <2>1 DEF StopAllForSession
    <3> QED
      BY <1>0, <1>2, <2>1, <3>1 DEF StopAllForSession
  <2> QED
    BY <1>2, <2>1 DEF StopAllForSession
<1>3. ASSUME NEW s \in Sessions, NEW f \in Specs, NEW ok \in BOOLEAN, StartForward(f, s, ok)
      PROVE  ForwardInv'
  <2>1. CASE ok
    <3>1. ASSUME NEW g \in Specs, forwards'[g] # None PROVE g \in bySess'[forwards'[g]]
      <4>1. CASE g = f
        BY <1>0, <1>3, <2>1, <4>1 DEF StartForward, Register
      <4>2. CASE g # f
        BY <1>0, <1>3, <2>1, <3>1, <4>2 DEF StartForward, Register
      <4> QED
        BY <4>1, <4>2
    <3>2. orphans' \subseteq AutoPorts
      BY <1>3, <2>1 DEF StartForward, Register
    <3> QED
      BY <3>1, <3>2
  <2> QED
    BY <1>1, <1>3, <2>1 DEF StartForward
<1>4. ASSUME NEW s \in Sessions, NEW kind, Opens(s, kind) PROVE ForwardInv'
  <2>1. \A f \in Specs : forwards[f] # s
    BY <1>4 DEF Opens, Forgotten
  <2> QED
    BY <1>0, <1>4, <2>1 DEF Opens
<1> QED
  BY <1>1, <1>2, <1>3, <1>4 DEF FwdStep

\* Once its forwards are stopped none listens for s, and no other starts.
LEMMA StopsAll ==
    ASSUME TypeOK, ForwardInv, NEW s \in Sessions, StopAllForSession(s)
    PROVE  \A f \in Specs : forwards'[f] \in {forwards[f], None} \ {s}
BY SessionAssumption DEF TypeOK, ForwardInv, StopAllForSession

LEMMA StepTypeOK == TypeOK /\ RcInv /\ HandInv /\ [Next]_vars => TypeOK' /\ RcInv'
<1> SUFFICES ASSUME TypeOK, RcInv, HandInv, [Next]_vars PROVE TypeOK' /\ RcInv'
  OBVIOUS
<1> DEFINE SessOK == /\ ss' \in [Sessions -> SessionType]
                     /\ rc' \in [Sessions -> RcType] /\ RcInv'
                     /\ pool' \subseteq Sessions /\ claims' \subseteq Sessions
                     /\ kept' \in [Sessions -> SUBSET Specs]
           FwdOK == /\ forwards' \in [Specs -> Sessions \cup {None}]
                    /\ bySess' \in [Sessions -> SUBSET Specs] /\ orphans' \subseteq Specs
           TunOK == /\ tun' \in TunnelType /\ lp' \in [Loops -> LoopType]
                    /\ stopping' \subseteq Sessions
                    /\ autostarted' \in BOOLEAN /\ launching' \in BOOLEAN
<1>0. FwdOK
  BY FwdSteps, ForwardTypes
<1>1. /\ UNCHANGED ss => ss' \in [Sessions -> SessionType]
      /\ UNCHANGED rc => rc' \in [Sessions -> RcType] /\ RcInv'
      /\ UNCHANGED pool => pool' \subseteq Sessions
      /\ UNCHANGED claims => claims' \subseteq Sessions
      /\ UNCHANGED kept => kept' \in [Sessions -> SUBSET Specs]
      /\ UNCHANGED <<tun, lp>> => tun' \in TunnelType /\ lp' \in [Loops -> LoopType]
      /\ UNCHANGED stopping => stopping' \subseteq Sessions
      /\ \A s \in Sessions : pool \ {s} \subseteq Sessions /\ pool \cup {s} \subseteq Sessions
      /\ \A o \in Sessions : [kept EXCEPT ![o] = {}] \in [Sessions -> SUBSET Specs]
  BY DEF TypeOK, RcInv
<1>2. /\ UNCHANGED autostarted => autostarted' \in BOOLEAN
      /\ UNCHANGED launching => launching' \in BOOLEAN
  BY Zenon DEF TypeOK
<1>22. SessOK /\ TunOK => TypeOK' /\ RcInv'
  BY <1>0 DEF TypeOK
<1> HIDE DEF FwdOK
<1>3. UNCHANGED tunVars => TunOK
  BY <1>1, <1>2 DEF tunVars
<1>4. UNCHANGED sessVars => SessOK
  BY <1>1 DEF sessVars, TypeOK
<1>5. ASSUME NEW s \in Sessions,
             \/ Hooked(s) \/ LooksUp(s, Holds) \/ Lists(s) \/ Starts(s) \/ Tracks(s)
             \/ Dies(s)
      PROVE  SessOK
  <2>1. ss' \in [Sessions -> SessionType]
    BY <1>5, SessTypes
  <2>2. UNCHANGED <<pool, kept, rc>> /\ claims' \subseteq Sessions
    BY <1>1, <1>5 DEF Hooked, LooksUp, Lists, Starts, Tracks, Dies, TypeOK
  <2> QED
    BY <1>1, <2>1, <2>2
<1>6. ASSUME NEW s \in Sessions, HookStops(s) PROVE SessOK
  <2>1. ss' \in [Sessions -> SessionType]
    BY <1>6, SessTypes
  <2>2. kept' \in [Sessions -> SUBSET Specs]
    BY <1>6 DEF HookStops, TypeOK
  <2>3. UNCHANGED <<pool, claims, rc>>
    BY <1>6 DEF HookStops
  <2> QED
    BY <1>1, <2>1, <2>2, <2>3
<1>7. ASSUME NEW s \in Sessions, HookRemoves(s) PROVE SessOK
  <2>1. ss' \in [Sessions -> SessionType] /\ rc' \in [Sessions -> RcType] /\ RcInv'
    BY <1>7, SessTypes, RcTypes
  <2>2. UNCHANGED kept /\ pool' = pool \ {s} /\ claims' \subseteq Sessions
    BY <1>7 DEF HookRemoves, TypeOK
  <2> QED
    BY <1>1, <2>1, <2>2
<1>8. ASSUME NEW o \in Sessions,
             RcCancelled(o) \/ RcTries(o) \/ RcFails(o) \/ SshCancelReconnect(o)
      PROVE  SessOK
  <2>1. rc' \in [Sessions -> RcType] /\ RcInv'
    BY <1>8, RcTypes
  <2>2. UNCHANGED <<ss, pool, claims>> /\ kept' \in [Sessions -> SUBSET Specs]
    BY <1>1, <1>8 DEF RcCancelled, RcTries, RcFails, SshCancelReconnect, RcDone
  <2> QED
    BY <1>1, <1>4, <2>1, <2>2 DEF TypeOK
<1>9. ASSUME NEW o \in Sessions, RcRestores(o) \/ RcLists(o) \/ RcRegisters(o)
      PROVE  SessOK
  <2>1. ss' \in [Sessions -> SessionType] /\ rc' \in [Sessions -> RcType] /\ RcInv'
    BY <1>9, SessTypes, RcTypes
  <2>2. UNCHANGED <<pool, claims>> /\ kept' \in [Sessions -> SUBSET Specs]
    <3>1. kept' = kept \/ kept' = [kept EXCEPT ![o] = {}]
      BY <1>9 DEF RcRestores, RcLists, RcRegisters, RcDone
    <3>2. UNCHANGED <<pool, claims>>
      BY <1>9 DEF RcRestores, RcLists, RcRegisters
    <3> QED
      BY <1>1, <3>1, <3>2
  <2> QED
    BY <1>1, <2>1, <2>2
<1>10. ASSUME NEW s \in Sessions, Disconnects(s) PROVE SessOK
  <2>1. ss' \in [Sessions -> SessionType]
    BY <1>10, SessTypes
  <2>2. UNCHANGED <<claims, kept, rc>> /\ pool' \in {pool, pool \ {s}}
    BY <1>10 DEF Disconnects
  <2> QED
    BY <1>1, <2>1, <2>2
<1>11. ASSUME NEW s \in Sessions, NEW o \in Sessions, OpenTerminal(s) \/ RcOpens(o, s)
       PROVE  SessOK
  <2>1. ss' \in [Sessions -> SessionType] /\ pool' = pool \cup {s}
    <3>1. Opens(s, "term")
      BY <1>11 DEF OpenTerminal, RcOpens
    <3> QED
      BY <3>1, SessTypes DEF Opens
  <2>2. rc' \in [Sessions -> RcType] /\ RcInv'
    BY <1>1, <1>11, RcTypes DEF OpenTerminal
  <2>3. UNCHANGED <<claims, kept>>
    BY <1>11 DEF OpenTerminal, RcOpens
  <2> QED
    BY <1>1, <2>1, <2>2, <2>3
<1>12. ASSUME NEW s \in Sessions, HookStopsAgain(s) \/ HookTunnel(s) PROVE SessOK /\ TunOK
  <2>1. ss' \in [Sessions -> SessionType]
    BY <1>12, SessTypes
  <2>2. UNCHANGED <<pool, claims, kept, rc, stopping, autostarted, launching>>
    BY <1>12 DEF HookStopsAgain, HookTunnel, tunVars
  <2>3. tun' \in TunnelType /\ lp' \in [Loops -> LoopType]
    BY <1>1, <1>12, TunTypes DEF HookStopsAgain, tunVars
  <2> QED
    BY <1>1, <1>2, <2>1, <2>2, <2>3
<1>13. ASSUME NEW s \in Sessions, StopDisconnects(s) PROVE SessOK /\ TunOK
  <2>1. SessOK
    BY <1>10, <1>13 DEF StopDisconnects
  <2>2. UNCHANGED <<tun, lp, autostarted, launching>> /\ stopping' \subseteq Sessions
    BY <1>13 DEF StopDisconnects, TypeOK
  <2> QED
    BY <1>1, <1>2, <2>1, <2>2
<1>14. ASSUME NEW l \in Loops, LoopStopped(l) \/ LoopTries(l) \/ LoopFails(l)
       PROVE  SessOK /\ TunOK
  <2>1. tun' \in TunnelType /\ lp' \in [Loops -> LoopType]
    BY <1>14, TunTypes
  <2>2. UNCHANGED <<sessVars, stopping, autostarted, launching>>
    BY <1>14 DEF LoopStopped, LoopTries, LoopFails
  <2> QED
    BY <1>1, <1>2, <1>4, <2>1, <2>2
<1>15. ASSUME NEW l \in Loops,
              LoopChecks(l) \/ LoopDrops(l) \/ LoopLists(l) \/ LoopStarts(l) \/ LoopMarks(l)
       PROVE  SessOK /\ TunOK
  <2>1. tun' \in TunnelType /\ lp' \in [Loops -> LoopType]
    BY <1>15, TunTypes
  <2>2. lp[l].sess \in Sessions /\ UNCHANGED <<stopping, autostarted, launching>>
    BY <1>15 DEF LoopChecks, LoopDrops, LoopLists, LoopStarts, LoopMarks, HandInv, TypeOK,
                 LoopType
  <2>3. CASE LoopDrops(l)
    BY <1>1, <1>2, <1>10, <2>1, <2>2, <2>3 DEF LoopDrops
  <2>4. ASSUME ss' \in [Sessions -> SessionType], UNCHANGED <<pool, claims, kept, rc>>
        PROVE  SessOK /\ TunOK
    BY <1>1, <1>2, <2>1, <2>2, <2>4
  <2> DEFINE n == lp[l].sess
  <2>5. n \in Sessions /\ ss \in [Sessions -> SessionType]
    BY <2>2 DEF TypeOK
  <2>6. CASE LoopChecks(l)
    <3>1. ss' = [ss EXCEPT ![n].opening = "done"]
      BY <2>6 DEF LoopChecks
    <3>2. ss' \in [Sessions -> SessionType]
      <4> HIDE DEF n
      <4> QED
        BY <2>5, <3>1 DEF SessionType, Openings
    <3> QED
      BY <2>4, <2>6, <3>2 DEF LoopChecks
  <2>7. CASE LoopLists(l) \/ LoopStarts(l)
    <3>1. \/ ss' = [ss EXCEPT ![n].todo = NotRunning(Specs)]
          \/ \E f \in Specs : ss' = [ss EXCEPT ![n].todo = @ \ {f}]
      BY <2>5, <2>7 DEF LoopLists, LoopStarts, SessionType
    <3>2. NotRunning(Specs) \in SUBSET Specs
      BY DEF NotRunning
    <3>3. ss' \in [Sessions -> SessionType]
      <4> HIDE DEF n
      <4> QED
        BY <2>5, <3>1, <3>2 DEF SessionType
    <3> QED
      BY <2>4, <2>7, <3>3 DEF LoopLists, LoopStarts
  <2>8. CASE LoopMarks(l)
    <3>1. ss' = ss \/ ss' = [ss EXCEPT ![n].late = ss[n].late \cup {"start"}]
      BY <2>8 DEF LoopMarks
    <3>2. ss[n].late \cup {"start"} \in SUBSET Lates
      BY <2>5 DEF SessionType, Lates
    <3>3. ss' \in [Sessions -> SessionType]
      <4> HIDE DEF n
      <4> QED
        BY <2>5, <3>1, <3>2 DEF SessionType, Lates
    <3> QED
      BY <2>4, <2>8, <3>3 DEF LoopMarks
  <2> QED
    BY <1>15, <2>3, <2>6, <2>7, <2>8
<1>16. ASSUME NEW l \in Loops, NEW s \in Sessions, LoopOpens(l, s) PROVE SessOK /\ TunOK
  <2>1. ss' \in [Sessions -> SessionType] /\ pool' = pool \cup {s}
    BY <1>16, SessTypes DEF LoopOpens, Opens
  <2>2. tun' \in TunnelType /\ lp' \in [Loops -> LoopType]
    BY <1>16, TunTypes
  <2> QED
    BY <1>1, <1>2, <1>16, <2>1, <2>2 DEF LoopOpens
<1>17. ASSUME NEW p \in BOOLEAN, TunnelStart(p),
              autostarted' \in BOOLEAN, launching' \in BOOLEAN
       PROVE  SessOK /\ TunOK
  <2>1. tun' \in TunnelType /\ lp' \in [Loops -> LoopType]
    BY <1>17, TunTypes
  <2> QED
    BY <1>1, <1>4, <1>17, <2>1 DEF TunnelStart
<1>18. CASE TunnelStop
  <2>1. stopping' \subseteq Sessions
    BY <1>18 DEF TunnelStop, TypeOK, TunnelType
  <2>2. tun' \in TunnelType /\ lp' \in [Loops -> LoopType]
    BY <1>18, TunTypes
  <2> QED
    BY <1>1, <1>2, <1>4, <1>18, <2>1, <2>2, <1>22 DEF TunnelStop
<1>19. CASE ByHand
  <2>1. SessOK /\ TunOK
    BY <1>2, <1>17, <1>19 DEF ByHand
  <2> QED
    BY <1>22, <2>1
<1>20. CASE Autostart \/ AutostartStarts
  <2>1. autostarted' \in BOOLEAN /\ launching' \in BOOLEAN
    BY <1>2, <1>20, Zenon DEF Autostart, AutostartStarts, TypeOK
  <2>2. CASE UNCHANGED <<sessVars, tun, lp, stopping>>
    BY <1>1, <1>4, <1>22, <2>1, <2>2
  <2> QED
    BY <1>17, <1>20, <1>22, <2>1, <2>2 DEF Autostart, AutostartStarts
<1>21. CASE UNCHANGED vars
  BY <1>3, <1>4, <1>21, <1>22 DEF vars
<1> QED
  BY <1>3, <1>5, <1>6, <1>7, <1>8, <1>9, <1>10, <1>11, <1>12, <1>13, <1>14, <1>15,
     <1>16, <1>18, <1>19, <1>20, <1>21, <1>22
     DEF Next, SessStep, SessEnv, LoopStep
\* The steps that list and start a session's forwards leave the rest of it
\* alone, but for what they say of a late start.
Keeps(n) ==
    /\ ss'[n].kind = ss[n].kind /\ ss'[n].life = ss[n].life
    /\ ss[n].late \subseteq ss'[n].late

LEMMA LoopForwards ==
    ASSUME TypeOK, HandInv, NEW l \in Loops, LoopLists(l) \/ LoopStarts(l)
    PROVE  /\ \A n \in Sessions : Keeps(n) /\ ss'[n].opening = ss[n].opening
                                 /\ ss'[n].late = ss[n].late
           /\ lp[l].sess \in Sessions
           /\ lp[l].pc \in {"list", "start"} /\ (LoopStarts(l) => lp[l].pc = "start")
           /\ lp'[l].pc \in {"start", "mark"}
           /\ lp'[l].sess = lp[l].sess /\ lp'[l].stop = lp[l].stop
           /\ \A m \in Loops : m # l => lp'[m] = lp[m]
           /\ UNCHANGED <<pool, claims, tun, stopping>>
<1> DEFINE s == lp[l].sess
<1>0. /\ ss \in [Sessions -> SessionType] /\ lp \in [Loops -> LoopType]
      /\ s \in Sessions
      /\ lp[l].pc \in {"list", "start"} /\ (LoopStarts(l) => lp[l].pc = "start")
  BY DEF TypeOK, LoopType, HandInv, LoopLists, LoopStarts
<1>1. PICK d : ss' = [ss EXCEPT ![s].todo = d]
  BY DEF LoopLists, LoopStarts
<1>2. \E pc \in {"start", "mark"} : lp' = [lp EXCEPT ![l].pc = pc]
  <2>1. CASE LoopLists(l)
    BY <2>1 DEF LoopLists
  <2>2. CASE LoopStarts(l)
    <3>1. PICK f : lp' = [lp EXCEPT ![l].pc = IF ss[s].todo = {f} THEN "mark" ELSE lp[l].pc]
      BY <2>2 DEF LoopStarts
    <3> HIDE DEF s
    <3> QED
      BY <1>0, <2>2, <3>1
  <2> QED
    BY <2>1, <2>2
<1>3. UNCHANGED <<pool, claims, tun, stopping>>
  BY DEF LoopLists, LoopStarts
<1>4. \A n \in Sessions : Keeps(n) /\ ss'[n].opening = ss[n].opening
                          /\ ss'[n].late = ss[n].late
  <2> HIDE DEF s
  <2> QED
    BY <1>0, <1>1 DEF SessionType, Keeps
<1>5. /\ lp'[l].pc \in {"start", "mark"}
      /\ lp'[l].sess = lp[l].sess /\ lp'[l].stop = lp[l].stop
      /\ \A m \in Loops : m # l => lp'[m] = lp[m]
  <2> HIDE DEF s
  <2> QED
    BY <1>0, <1>2 DEF LoopType
<1> QED
  BY <1>0, <1>3, <1>4, <1>5

LEMMA SessForwards ==
    ASSUME TypeOK, RcInv, NEW s \in Sessions, Starts(s) \/ RcLists(s) \/ RcRegisters(s)
    PROVE  /\ \A n \in Sessions : Keeps(n)
           /\ \A n \in Sessions : ss[n].opening \in {"returned", "done"}
                                    => ss'[n].opening = ss[n].opening
           /\ UNCHANGED <<pool, claims>>
<1> DEFINE x == IF Starts(s) THEN s ELSE rc[s].new
<1>0. ss \in [Sessions -> SessionType] /\ x \in Sessions
  BY DEF TypeOK, RcInv, RcLists, RcRegisters
<1>1. UNCHANGED <<pool, claims>>
  BY DEF Starts, RcLists, RcRegisters
<1>2. CASE Starts(s)
  <2>1. PICK d, L, o : ss' = [ss EXCEPT ![s].todo = d, ![s].late = ss[s].late \cup L,
                                        ![s].opening = o]
    <3>1. PICK f, ok :
            ss' = [ss EXCEPT ![s].todo = ss[s].todo \ {f},
                             ![s].late = ss[s].late \cup Late(s, ok),
                             ![s].opening = IF ss[s].todo = {f} THEN "started" ELSE ss[s].opening]
      BY <1>2 DEF Starts
    <3> QED
      BY <3>1, Zenon
  <2>2. ss[s].opening = "starting"
    BY <1>2 DEF Starts
  <2> QED
    BY <1>0, <1>1, <2>1, <2>2 DEF SessionType, Keeps
<1>3. CASE RcLists(s) /\ ~Starts(s)
  <2>1. PICK d : ss' = [ss EXCEPT ![x].todo = d]
    BY <1>3 DEF RcLists
  <2> HIDE DEF x
  <2> QED
    BY <1>0, <1>1, <2>1 DEF SessionType, Keeps
<1>4. CASE RcRegisters(s) /\ ~Starts(s)
  <2>1. PICK d, L : ss' = [ss EXCEPT ![x].todo = d, ![x].late = ss[x].late \cup L]
    BY <1>4 DEF RcRegisters
  <2> HIDE DEF x
  <2> QED
    BY <1>0, <1>1, <2>1 DEF SessionType, Keeps
<1> QED
  BY <1>2, <1>3, <1>4
-----------------------------------------------------------------------------
(* The pool and the claims on the VPN.                                     *)

LEMMA StepPool ==
    TypeOK /\ RcInv /\ HandInv /\ PoolInv /\ ClaimsEnd /\ [Next]_vars => PoolInv' /\ ClaimsEnd'
<1> SUFFICES ASSUME TypeOK, RcInv, HandInv, PoolInv, ClaimsEnd, [Next]_vars
             PROVE  PoolInv' /\ ClaimsEnd'
  OBVIOUS
<1> USE DEF PoolInv, ClaimsEnd
<1>0. /\ ss \in [Sessions -> SessionType] /\ pool \subseteq Sessions
      /\ claims \subseteq Sessions
  BY DEF TypeOK
<1>1. CASE UNCHANGED <<ss, pool, claims>>
  BY <1>1
<1>2. ASSUME NEW s \in Sessions, Hooked(s) \/ LooksUp(s, Holds) \/ Lists(s)
      PROVE  PoolInv' /\ ClaimsEnd'
  BY <1>0, <1>2 DEF Hooked, LooksUp, Lists, SessionType
<1>3. ASSUME NEW s \in Sessions, Starts(s) \/ RcLists(s) \/ RcRegisters(s)
      PROVE  PoolInv' /\ ClaimsEnd'
  BY <1>0, <1>3, SessForwards DEF Keeps
<1>4. ASSUME NEW s \in Sessions, Tracks(s)
      PROVE  PoolInv' /\ ClaimsEnd'
  BY <1>0, <1>4 DEF Tracks, SessionType
<1>5. ASSUME NEW s \in Sessions, NEW u \in BOOLEAN, ss[s].life = "live", ss' = Ends(s, u),
             UNCHANGED <<pool, claims>>
      PROVE  PoolInv' /\ ClaimsEnd'
  <2>1. CASE ss[s].opening = "added"
    BY <1>0, <1>5, <2>1 DEF Ends, SessionType
  <2>2. CASE ss[s].opening # "added"
    BY <1>0, <1>5, <2>2 DEF Ends, SessionType
  <2> QED
    BY <2>1, <2>2
<1>6. ASSUME NEW s \in Sessions, HookStops(s)
      PROVE  PoolInv' /\ ClaimsEnd'
  BY <1>0, <1>6 DEF HookStops, SessionType
<1>7. ASSUME NEW s \in Sessions
      PROVE  Over(s).life = "none" /\ Over(s).opening = ss[s].opening
             /\ Over(s).late = ss[s].late
  BY DEF Over, NoSession
<1>8. ASSUME NEW s \in Sessions, HookRemoves(s)
      PROVE  PoolInv' /\ ClaimsEnd'
  <2>1. CASE ss' = [ss EXCEPT ![s].life = "removed"]
    BY <1>0, <1>8, <2>1 DEF HookRemoves, SessionType
  <2>2. CASE ss' = [ss EXCEPT ![s] = Over(s)]
    BY <1>0, <1>7, <1>8, <2>2 DEF HookRemoves
  <2> QED
    BY <1>8, <2>1, <2>2 DEF HookRemoves
<1>9. ASSUME NEW s \in Sessions, Disconnects(s)
      PROVE  PoolInv' /\ ClaimsEnd'
  <2>1. CASE ss[s].life = "live" /\ ss' = Ends(s, TRUE) /\ UNCHANGED pool
    BY <1>5, <1>9, <2>1 DEF Disconnects
  <2>2. CASE ss[s].life = "missed" /\ ss' = [ss EXCEPT ![s] = Over(s)] /\ pool' = pool \ {s}
    BY <1>0, <1>7, <1>9, <2>2 DEF Disconnects
  <2>3. CASE ss' = [ss EXCEPT ![s].user = TRUE] /\ UNCHANGED pool
    BY <1>0, <1>9, <2>3 DEF Disconnects, SessionType
  <2> QED
    BY <1>1, <1>9, <2>1, <2>2, <2>3 DEF Disconnects
<1>10. ASSUME NEW s \in Sessions, NEW k, Opens(s, k), UNCHANGED claims
       PROVE  PoolInv' /\ ClaimsEnd'
  BY <1>0, <1>10 DEF Opens, Forgotten, NoSession
<1>11. ASSUME NEW o \in Sessions, RcRestores(o)
       PROVE  PoolInv' /\ ClaimsEnd'
  BY <1>0, <1>11 DEF RcRestores, SessionType
<1>13. ASSUME NEW s \in Sessions, HookStopsAgain(s)
       PROVE  PoolInv' /\ ClaimsEnd'
  BY <1>0, <1>13 DEF HookStopsAgain, SessionType
<1>14. ASSUME NEW s \in Sessions, HookTunnel(s)
       PROVE  PoolInv' /\ ClaimsEnd'
  BY <1>0, <1>7, <1>14 DEF HookTunnel
<1>15. ASSUME NEW l \in Loops, LoopChecks(l)
       PROVE  PoolInv' /\ ClaimsEnd'
  BY <1>0, <1>15 DEF LoopChecks, SessionType
<1>16. ASSUME NEW l \in Loops, LoopMarks(l)
       PROVE  PoolInv' /\ ClaimsEnd'
  BY <1>0, <1>16 DEF LoopMarks, SessionType
<1>17. ASSUME NEW l \in Loops, LoopDrops(l)
       PROVE  PoolInv' /\ ClaimsEnd'
  BY <1>9, <1>17 DEF LoopDrops, HandInv, TypeOK, LoopType
<1>18. ASSUME NEW l \in Loops, LoopStopped(l) \/ LoopTries(l) \/ LoopFails(l)
       PROVE  PoolInv' /\ ClaimsEnd'
  BY <1>1, <1>18 DEF LoopStopped, LoopTries, LoopFails, sessVars
<1>22. ASSUME NEW l \in Loops, LoopLists(l) \/ LoopStarts(l)
       PROVE  PoolInv' /\ ClaimsEnd'
  BY <1>0, <1>22, LoopForwards DEF Keeps
<1>19. ASSUME NEW o \in Sessions,
              RcCancelled(o) \/ RcTries(o) \/ RcFails(o) \/ SshCancelReconnect(o)
       PROVE  PoolInv' /\ ClaimsEnd'
  BY <1>1, <1>19 DEF RcCancelled, RcTries, RcFails, SshCancelReconnect
<1>20. CASE ByHand \/ Autostart \/ AutostartStarts \/ TunnelStop \/ UNCHANGED vars
  BY <1>1, <1>20
     DEF ByHand, Autostart, AutostartStarts, TunnelStart, TunnelStop, sessVars, vars
<1>21. ASSUME NEW s \in Sessions, Dies(s)
       PROVE  PoolInv' /\ ClaimsEnd'
  BY <1>5, <1>21 DEF Dies
<1> QED
  BY <1>2, <1>3, <1>4, <1>6, <1>8, <1>9, <1>10, <1>11, <1>13, <1>14, <1>15,
     <1>16, <1>17, <1>18, <1>19, <1>20, <1>21, <1>22
     DEF Next, SessStep, SessEnv, LoopStep, OpenTerminal, RcOpens, LoopOpens, StopDisconnects
-----------------------------------------------------------------------------
(* The standing tunnel: who has a session in hand, and who serves the      *)
(* entry.                                                                  *)

LEMMA StepHand == TypeOK /\ HandInv /\ [Next]_vars => HandInv'
<1> SUFFICES ASSUME TypeOK, HandInv, [Next]_vars PROVE HandInv'
  OBVIOUS
<1> USE DEF HandInv
<1>0. lp \in [Loops -> LoopType] /\ None \notin Sessions
  BY SessionAssumption DEF TypeOK
<1>1. CASE UNCHANGED lp
  BY <1>1
<1>2. ASSUME NEW l \in Loops, lp' = [lp EXCEPT ![l] = IdleLoop] PROVE HandInv'
  BY <1>0, <1>2 DEF IdleLoop
<1>3. ASSUME NEW l \in Loops, NEW pc, NEW pc2, lp[l].pc = pc, lp' = [lp EXCEPT ![l].pc = pc2],
             \/ pc \in {"wait", "connect"} /\ pc2 \in {"wait", "connect"}
             \/ pc \in {"opening", "list", "start"} /\ pc2 \in {"list", "start", "mark"}
             \/ pc = "opening" /\ pc2 = "drop" /\ lp[l].stop
      PROVE  HandInv'
  BY <1>0, <1>3 DEF LoopType
<1>4. ASSUME NEW l \in Loops, NEW s \in Sessions \ Referred, LoopOpens(l, s) PROVE HandInv'
  BY <1>0, <1>4 DEF LoopOpens, Referred, LoopType
<1>5. ASSUME NEW l \in Loops, LoopChecks(l) PROVE HandInv'
  <2>1. CASE lp' = [lp EXCEPT ![l].pc = "wait", ![l].sess = None]
    BY <1>0, <2>1 DEF LoopType
  <2> QED
    BY <1>3, <1>5, <2>1 DEF LoopChecks
<1>6. /\ \A l \in Loops : /\ CloseStop[l].pc = lp[l].pc /\ CloseStop[l].sess = lp[l].sess
                          /\ lp[l].pc # "idle" => CloseStop[l].stop
      /\ DOMAIN CloseStop = Loops
  BY <1>0 DEF CloseStop, LoopType
<1>7. lp' = CloseStop => HandInv'
  BY <1>6
<1>8. ASSUME NEW c \in {lp, CloseStop}, NEW pc \in {"wait", "connect"}, NEW p, Spawns(c, pc, p)
      PROVE  HandInv'
  <2>1. PICK l \in Loops : lp[l].pc = "idle"
                           /\ lp' = [c EXCEPT ![l] = [IdleLoop EXCEPT !.pc = pc, !.patient = p]]
    BY <1>8 DEF Spawns
  <2>2. [IdleLoop EXCEPT !.pc = pc, !.patient = p].pc = pc
        /\ [IdleLoop EXCEPT !.pc = pc, !.patient = p].sess = None
    BY DEF IdleLoop
  <2>3. \A m \in Loops : /\ lp'[m].pc = IF m = l THEN pc ELSE lp[m].pc
                         /\ lp'[m].sess = IF m = l THEN None ELSE lp[m].sess
                         /\ m # l => lp'[m] = c[m]
    BY <1>0, <1>6, <2>1, <2>2
  <2> QED
    BY <1>6, <2>3
<1>9. ASSUME NEW s \in Sessions, HookTunnel(s) PROVE HandInv'
  BY <1>1, <1>7, <1>8, <1>9 DEF HookTunnel
<1>10. ASSUME NEW p, TunnelStart(p) PROVE HandInv'
  BY <1>8, <1>10 DEF TunnelStart
<1>11. CASE ByHand \/ Autostart \/ AutostartStarts \/ TunnelStop
  BY <1>1, <1>7, <1>10, <1>11 DEF ByHand, Autostart, AutostartStarts, TunnelStop
<1>12. ASSUME NEW l \in Loops,
              LoopStopped(l) \/ LoopTries(l) \/ LoopFails(l)
       PROVE  HandInv'
  BY <1>2, <1>3, <1>12 DEF LoopStopped, LoopTries, LoopFails, LoopReturns
<1>13. ASSUME NEW l \in Loops,
              LoopDrops(l) \/ LoopLists(l) \/ LoopMarks(l)
       PROVE  HandInv'
  BY <1>2, <1>3, <1>13 DEF LoopDrops, LoopLists, LoopMarks, LoopReturns
<1>16. ASSUME NEW l \in Loops, LoopStarts(l) PROVE HandInv'
  <2>1. PICK f : lp' = [lp EXCEPT ![l].pc = IF ss[lp[l].sess].todo = {f} THEN "mark" ELSE @]
    BY <1>16 DEF LoopStarts
  <2>2. CASE ss[lp[l].sess].todo = {f}
    BY <1>3, <1>16, <2>1, <2>2 DEF LoopStarts
  <2>3. CASE ss[lp[l].sess].todo # {f}
    BY <1>3, <1>16, <2>1, <2>3 DEF LoopStarts
  <2> QED
    BY <2>2, <2>3
<1>14. CASE UNCHANGED tunVars \/ UNCHANGED vars
  BY <1>1, <1>14 DEF tunVars, vars
<1>15. ASSUME NEW s \in Sessions, StopDisconnects(s) \/ HookStopsAgain(s)
       PROVE  HandInv'
  BY <1>1, <1>15 DEF StopDisconnects, HookStopsAgain, tunVars
<1> QED
  BY <1>4, <1>5, <1>9, <1>11, <1>12, <1>13, <1>14, <1>15, <1>16 DEF Next, LoopStep

LEMMA StepServe == TypeOK /\ HandInv /\ ServeInv /\ [Next]_vars => ServeInv'
<1> SUFFICES ASSUME TypeOK, HandInv, ServeInv, [Next]_vars PROVE ServeInv'
  OBVIOUS
<1> USE DEF ServeInv, HandInv, Serving
<1>0. /\ lp \in [Loops -> LoopType] /\ tun \in TunnelType /\ None \notin Sessions
      /\ \A l \in Loops : lp[l].sess \in Sessions \cup {None}
  BY SessionAssumption DEF TypeOK, LoopType
<1>1. CASE UNCHANGED <<tun, lp>>
  BY <1>1
<1>2. ASSUME NEW l \in Loops, l \notin Serving, lp[l].pc \notin {"list", "start", "mark"},
             UNCHANGED tun, lp' = [lp EXCEPT ![l] = IdleLoop]
      PROVE  ServeInv'
  BY <1>0, <1>2 DEF IdleLoop
<1>3. ASSUME NEW l \in Loops, LoopStopped(l) PROVE ServeInv'
  BY <1>2, <1>3 DEF LoopStopped, LoopReturns
<1>4. ASSUME NEW l \in Loops, LoopTries(l) PROVE ServeInv'
  BY <1>0, <1>4 DEF LoopTries, LoopType
<1>5. ASSUME NEW l \in Loops, LoopFails(l) PROVE ServeInv'
  <2>1. CASE lp[l].stop /\ LoopReturns(l) /\ UNCHANGED tun
    BY <1>2, <1>5, <2>1 DEF LoopFails, LoopReturns
  <2>2. ASSUME NEW k \in BOOLEAN, ~lp[l].stop, LoopReturns(l),
               tun' = [tun EXCEPT !.state = "error", !.vaultLocked = k]
        PROVE  ServeInv'
    <3>1. tun'.state = "error" /\ tun'.sess = tun.sess
      BY <1>0, <2>2 DEF TunnelType
    <3>2. lp'[l].pc = "idle" /\ lp'[l].sess = None /\ \A m \in Loops \ {l} : lp'[m] = lp[m]
      BY <1>0, <2>2 DEF LoopReturns, IdleLoop
    <3>3. l \in Serving /\ lp[l].pc = "connect"
      BY <1>5, <2>2 DEF LoopFails
    <3>4. tun.sess = None /\ Serving' = {}
      BY <3>1, <3>2, <3>3
    <3> QED
      BY <3>1, <3>2, <3>4
  <2>3. CASE ~lp[l].stop /\ lp' = [lp EXCEPT ![l].pc = "wait"]
             /\ tun' = [tun EXCEPT !.state = "reconnecting", !.vaultLocked = FALSE]
    <3>1. tun'.state = "reconnecting" /\ tun'.sess = tun.sess
      BY <1>0, <2>3 DEF TunnelType
    <3>2. /\ lp'[l].pc = "wait" /\ lp'[l].sess = lp[l].sess /\ lp'[l].stop = lp[l].stop
          /\ \A m \in Loops \ {l} : lp'[m] = lp[m]
      BY <1>0, <2>3 DEF LoopType
    <3>3. l \in Serving /\ lp[l].pc = "connect"
      BY <1>5, <2>3 DEF LoopFails
    <3>4. tun.sess = None /\ Serving' = {l}
      BY <2>3, <3>1, <3>2, <3>3
    <3> QED
      BY <3>1, <3>2, <3>4
  <2> QED
    BY <1>5, <2>1, <2>2, <2>3 DEF LoopFails
<1>6. ASSUME NEW l \in Loops, LoopChecks(l) PROVE ServeInv'
  <2>1. CASE lp[l].stop /\ lp' = [lp EXCEPT ![l].pc = "drop"] /\ UNCHANGED tun
    BY <1>0, <1>6, <2>1 DEF LoopChecks, LoopType
  <2>2. CASE ~lp[l].stop /\ lp' = [lp EXCEPT ![l].pc = "wait", ![l].sess = None]
             /\ tun' = [tun EXCEPT !.state = "reconnecting"]
    BY <1>0, <1>6, <2>2 DEF LoopChecks, LoopType, TunnelType
  <2>3. CASE ~lp[l].stop /\ lp' = [lp EXCEPT ![l].pc = "list"]
             /\ tun' = [tun EXCEPT !.sess = lp[l].sess]
    BY <1>0, <1>6, <2>3 DEF LoopChecks, LoopType, TunnelType
  <2> QED
    BY <1>6, <2>1, <2>2, <2>3 DEF LoopChecks
<1>7. ASSUME NEW l \in Loops, LoopDrops(l) PROVE ServeInv'
  BY <1>2, <1>7 DEF LoopDrops, LoopReturns
<1>8. ASSUME NEW l \in Loops, LoopLists(l) \/ LoopStarts(l) PROVE ServeInv'
  <2>1. /\ lp[l].pc \in {"list", "start"} /\ lp'[l].pc \in {"start", "mark"}
        /\ lp'[l].sess = lp[l].sess /\ lp'[l].stop = lp[l].stop
        /\ \A m \in Loops \ {l} : lp'[m] = lp[m]
    BY <1>8, LoopForwards
  <2>2. UNCHANGED tun
    BY <1>8 DEF LoopLists, LoopStarts
  <2> QED
    BY <2>1, <2>2
<1>9. ASSUME NEW l \in Loops, LoopMarks(l) PROVE ServeInv'
  <2>1. CASE ~lp[l].stop /\ tun.sess = lp[l].sess
             /\ tun' = [tun EXCEPT !.state = "connected", !.vaultLocked = FALSE]
    BY <1>0, <1>9, <2>1 DEF LoopMarks, LoopReturns, IdleLoop, TunnelType
  <2>2. CASE (lp[l].stop \/ tun.sess # lp[l].sess) /\ UNCHANGED tun
    BY <1>0, <1>9, <2>2 DEF LoopMarks, LoopReturns, IdleLoop
  <2> QED
    BY <1>9, <2>1, <2>2 DEF LoopMarks
<1>10. ASSUME NEW l \in Loops, NEW s \in Sessions \ Referred, LoopOpens(l, s) PROVE ServeInv'
  BY <1>0, <1>10 DEF LoopOpens, Referred, LoopType
<1>11. /\ \A l \in Loops : /\ CloseStop[l].pc = lp[l].pc /\ CloseStop[l].sess = lp[l].sess
                           /\ lp[l].pc # "idle" => CloseStop[l].stop
       /\ DOMAIN CloseStop = Loops
  BY <1>0 DEF CloseStop, LoopType
<1>12. Stopped.state = "stopped" /\ Stopped.sess = None
       /\ [Stopped EXCEPT !.state = "connecting"].state = "connecting"
       /\ [Stopped EXCEPT !.state = "connecting"].sess = None
  BY DEF Stopped
<1>13. CASE tun' = Stopped /\ lp' = CloseStop
  BY <1>11, <1>12, <1>13
<1>14. ASSUME NEW c \in {lp, CloseStop}, NEW pc \in {"wait", "connect"}, NEW p, Spawns(c, pc, p)
       PROVE  \E l \in Loops :
                 /\ lp[l].pc = "idle"
                 /\ lp'[l].pc = pc /\ lp'[l].sess = None /\ ~lp'[l].stop
                 /\ \A m \in Loops \ {l} : lp'[m] = c[m]
  <2>1. PICK l \in Loops : lp[l].pc = "idle"
                           /\ lp' = [c EXCEPT ![l] = [IdleLoop EXCEPT !.pc = pc, !.patient = p]]
    BY <1>14 DEF Spawns
  <2>2. [IdleLoop EXCEPT !.pc = pc, !.patient = p].pc = pc
        /\ [IdleLoop EXCEPT !.pc = pc, !.patient = p].sess = None
        /\ ~[IdleLoop EXCEPT !.pc = pc, !.patient = p].stop
    BY DEF IdleLoop
  <2> QED
    BY <1>0, <1>11, <2>1, <2>2
<1>15. ASSUME NEW p, TunnelStart(p) PROVE ServeInv'
  <2>1. PICK l \in Loops :
                 /\ lp'[l].pc = "connect" /\ lp'[l].sess = None /\ ~lp'[l].stop
                 /\ \A m \in Loops \ {l} : lp'[m] = CloseStop[m]
    BY <1>14, <1>15 DEF TunnelStart
  <2>2. tun'.state = "connecting" /\ tun'.sess = None
    BY <1>12, <1>15 DEF TunnelStart
  <2> QED
    BY <1>11, <2>1, <2>2
<1>16. ASSUME NEW s \in Sessions, HookTunnel(s) PROVE ServeInv'
  <2>1. CASE tun.sess = s /\ tun' = [tun EXCEPT !.state = "reconnecting", !.sess = None]
             /\ Spawns(lp, "wait", TRUE)
    <3>1. PICK l \in Loops :
                 /\ lp[l].pc = "idle"
                 /\ lp'[l].pc = "wait" /\ lp'[l].sess = None /\ ~lp'[l].stop
                 /\ \A m \in Loops \ {l} : lp'[m] = lp[m]
      BY <1>14, <2>1
    <3>2. tun'.state = "reconnecting" /\ tun'.sess = None
      BY <1>0, <2>1 DEF TunnelType
    <3>3. \A m \in Loops : lp[m].pc \in {"idle", "wait", "connect", "opening", "list", "start", "mark", "drop"}
      BY <1>0 DEF LoopType
    <3>4. \A m \in Loops \ {l} : m \notin Serving'
      BY <1>0, <2>1, <3>1, <3>2, <3>3
    <3>5. Serving' = {l}
      BY <3>1, <3>2, <3>4
    <3> QED
      BY <3>1, <3>2, <3>5
  <2> QED
    BY <1>1, <1>13, <1>16, <2>1 DEF HookTunnel
<1>17. CASE ByHand \/ Autostart \/ AutostartStarts \/ TunnelStop
  BY <1>1, <1>13, <1>15, <1>17 DEF ByHand, Autostart, AutostartStarts, TunnelStop
<1>18. CASE UNCHANGED tunVars \/ UNCHANGED vars
  BY <1>1, <1>18 DEF tunVars, vars
<1>19. ASSUME NEW s \in Sessions, StopDisconnects(s) \/ HookStopsAgain(s)
       PROVE  ServeInv'
  BY <1>1, <1>19 DEF StopDisconnects, HookStopsAgain, tunVars
<1> QED
  BY <1>3, <1>4, <1>5, <1>6, <1>7, <1>8, <1>9, <1>10, <1>15, <1>16, <1>17, <1>18, <1>19
     DEF Next, LoopStep
-----------------------------------------------------------------------------
(* The sessions under the tunnel's entry, its loops and the forwards.      *)

\* A hook has yet to stop the forwards of s, or came too early for them.
Heard(s) ==
    \/ ss[s].life \in {"live", "due"}
    \/ ss[s].kind = "tunnel" /\ ss[s].life \in {"stopped", "removed"}
    \/ "start" \in ss[s].late \/ "hook" \in ss[s].late

\* A session that is only begun, ended or hooked stays of its kind, does not
\* come back to life, and is over only after its hook or without one.
LEMMA SessFrame ==
    ASSUME TypeOK, PoolInv, RcInv, NEW s \in Sessions, NEW n \in Sessions,
           \/ Hooked(s) \/ LooksUp(s, Holds) \/ Lists(s) \/ Starts(s) \/ Tracks(s)
           \/ HookStops(s) \/ HookRemoves(s) \/ Dies(s) \/ RcRestores(s) \/ RcLists(s)
           \/ RcRegisters(s) \/ Disconnects(s) \/ HookStopsAgain(s)
    PROVE  /\ ss'[n].kind = ss[n].kind
           /\ ss'[n].life = "live" => ss[n].life = "live"
           /\ "hook" \in ss[n].late => "hook" \in ss'[n].late
           /\ ss[n].kind = "tunnel" /\ ss[n].life # "none"
                => ss'[n].life # "none" \/ "hook" \in ss'[n].late
           /\ Heard(n) => Heard(n)' \/ (n = s /\ (HookStops(s) \/ HookStopsAgain(s)))
<1> DEFINE G == /\ ss'[n].kind = ss[n].kind
                /\ ss'[n].life = "live" => ss[n].life = "live"
                /\ "hook" \in ss[n].late => "hook" \in ss'[n].late
           H == ss[n].kind = "tunnel" /\ ss[n].life # "none"
                  => ss'[n].life # "none" \/ "hook" \in ss'[n].late
           K == Heard(n) => Heard(n)'
<1> USE DEF Heard
<1>0. ss \in [Sessions -> SessionType]
  BY DEF TypeOK
<1>1. CASE LooksUp(s, Holds) \/ Hooked(s) \/ Lists(s)
  <2>1. G /\ H /\ K
    BY <1>0, <1>1 DEF LooksUp, Hooked, Lists, SessionType
  <2> QED
    BY <2>1
<1>2. CASE Starts(s) \/ RcLists(s) \/ RcRegisters(s)
  <2>1. Keeps(n)
    BY <1>2, SessForwards
  <2>2. G /\ H /\ K
    BY <2>1 DEF Keeps
  <2> QED
    BY <2>2
<1>3. CASE Tracks(s)
  <2>1. G /\ H /\ K
    BY <1>0, <1>3 DEF Tracks, SessionType
  <2> QED
    BY <2>1
<1>4. CASE HookStops(s)
  <2>1. G /\ H
    BY <1>0, <1>4 DEF HookStops, SessionType
  <2>2. n # s => K
    BY <1>0, <1>4 DEF HookStops
  <2> QED
    BY <1>4, <2>1, <2>2
<1>5. /\ Over(s).life = "none" /\ Over(s).late = ss[s].late
      /\ Over(s).kind = ss[s].kind
  BY DEF Over, NoSession
<1>6. CASE HookRemoves(s)
  <2>1. CASE ss[s].kind = "tunnel" /\ ss' = [ss EXCEPT ![s].life = "removed"]
    <3>1. G /\ H /\ K
      BY <1>0, <1>6, <2>1 DEF HookRemoves, SessionType
    <3> QED
      BY <3>1
  <2>2. CASE ss[s].kind = "term" /\ ss' = [ss EXCEPT ![s] = Over(s)]
    <3>1. G /\ H /\ K
      BY <1>0, <1>5, <1>6, <2>2 DEF HookRemoves
    <3> QED
      BY <3>1
  <2> QED
    BY <1>6, <2>1, <2>2 DEF HookRemoves
<1>7. ASSUME NEW u \in BOOLEAN, ss[s].life = "live", ss' = Ends(s, u)
      PROVE  G /\ H /\ K
  <2>1. CASE ss[s].opening = "added"
    BY <1>0, <1>7, <2>1 DEF Ends, SessionType
  <2>2. CASE ss[s].opening # "added"
    BY <1>0, <1>7, <2>2 DEF Ends, SessionType
  <2> QED
    BY <2>1, <2>2
<1>8. CASE Dies(s)
  BY <1>7, <1>8 DEF Dies
<1>9. CASE Disconnects(s)
  <2>1. CASE ss[s].life = "live" /\ ss' = Ends(s, TRUE)
    BY <1>7, <2>1
  <2>2. CASE ss[s].life = "missed" /\ ss' = [ss EXCEPT ![s] = Over(s)]
    <3>1. G /\ H /\ K
      BY <1>0, <1>5, <2>2 DEF PoolInv
    <3> QED
      BY <3>1
  <2>3. CASE ss' = [ss EXCEPT ![s].user = TRUE]
    <3>1. G /\ H /\ K
      BY <1>0, <2>3 DEF SessionType
    <3> QED
      BY <3>1
  <2> QED
    BY <1>9, <2>1, <2>2, <2>3 DEF Disconnects
<1>10. CASE RcRestores(s)
  <2>1. G /\ H /\ K
    BY <1>0, <1>10 DEF RcRestores, SessionType
  <2> QED
    BY <2>1
<1>12. CASE HookStopsAgain(s)
  <2>1. G /\ H
    BY <1>0, <1>12 DEF HookStopsAgain, SessionType
  <2>2. n # s => K
    BY <1>0, <1>12 DEF HookStopsAgain
  <2> QED
    BY <1>12, <2>1, <2>2
<1> QED
  BY <1>1, <1>2, <1>3, <1>4, <1>6, <1>8, <1>9, <1>10, <1>12

\* Once a session is disconnected it does not live.
LEMMA DisconnectsEnds ==
    ASSUME TypeOK, PoolInv, NEW s \in Sessions, Disconnects(s)
    PROVE  ss'[s].life # "live"
<1>0. ss \in [Sessions -> SessionType]
  BY DEF TypeOK
<1>1. CASE s \notin pool /\ ss' = ss
  BY <1>1 DEF PoolInv
<1>2. CASE ss' = Ends(s, TRUE)
  BY <1>0, <1>2 DEF Ends, SessionType
<1>3. CASE ss' = [ss EXCEPT ![s] = Over(s)]
  BY <1>0, <1>3 DEF Over, NoSession
<1>4. CASE ss[s].life = "due" /\ ss' = [ss EXCEPT ![s].user = TRUE]
  BY <1>0, <1>4 DEF SessionType
<1> QED
  BY <1>1, <1>2, <1>3, <1>4 DEF Disconnects

LEMMA StepRef ==
    /\ TypeOK /\ PoolInv /\ RcInv /\ HandInv /\ ServeInv /\ RefInv /\ NoStraySession
    /\ [Next]_vars
    => RefInv' /\ NoStraySession'
<1> SUFFICES ASSUME TypeOK, PoolInv, RcInv, HandInv, ServeInv, RefInv, NoStraySession, [Next]_vars
             PROVE  RefInv' /\ NoStraySession'
  OBVIOUS
<1> DEFINE F(n) == /\ ss'[n].kind = ss[n].kind
                   /\ ss'[n].life = "live" => ss[n].life = "live"
                   /\ "hook" \in ss[n].late => "hook" \in ss'[n].late
                   /\ ss[n].kind = "tunnel" /\ ss[n].life # "none"
                        => ss'[n].life # "none" \/ "hook" \in ss'[n].late
<1>0. /\ ss \in [Sessions -> SessionType] /\ lp \in [Loops -> LoopType] /\ None \notin Sessions
      /\ tun.sess \in Sessions \cup {None} /\ \A l \in Loops : lp[l].sess \in Sessions \cup {None}
      /\ stopping \subseteq Sessions /\ tun \in TunnelType
  BY SessionAssumption DEF TypeOK, TunnelType, LoopType
<1>1. ASSUME \A n \in Sessions : F(n), UNCHANGED <<tun, lp, stopping>>
      PROVE  RefInv' /\ NoStraySession'
  BY <1>0, <1>1 DEF RefInv, NoStraySession
<1>2. ASSUME NEW s \in Sessions,
             \/ Hooked(s) \/ LooksUp(s, Holds) \/ Lists(s) \/ Starts(s) \/ Tracks(s)
             \/ HookStops(s) \/ HookRemoves(s) \/ Dies(s) \/ RcRestores(s) \/ RcLists(s)
             \/ RcRegisters(s) \/ Disconnects(s) \/ HookStopsAgain(s)
      PROVE  \A n \in Sessions : F(n)
  BY <1>2, SessFrame
<1>3. ASSUME UNCHANGED <<ss, tun, lp, stopping>> PROVE RefInv' /\ NoStraySession'
  BY <1>1, <1>3
<1>4. ASSUME NEW s \in Sessions \ Referred, Opens(s, "term"), UNCHANGED <<tun, lp, stopping>>
      PROVE  RefInv' /\ NoStraySession'
  <2>1. \A n \in Sessions : n # s => ss'[n] = ss[n]
    BY <1>0, <1>4 DEF Opens
  <2>2. ss'[s].kind = "term"
    BY <1>0, <1>4 DEF Opens, NoSession
  <2> QED
    BY <1>0, <1>4, <2>1, <2>2 DEF RefInv, NoStraySession, Referred
<1>5. ASSUME NEW s \in Sessions, StopDisconnects(s) PROVE RefInv' /\ NoStraySession'
  <2>1. \A n \in Sessions : F(n)
    BY <1>2, <1>5 DEF StopDisconnects
  <2>2. ss'[s].life # "live"
    BY <1>5, DisconnectsEnds DEF StopDisconnects
  <2>3. UNCHANGED <<tun, lp>> /\ stopping' = stopping \ {s}
    BY <1>5 DEF StopDisconnects
  <2> QED
    BY <1>0, <2>1, <2>2, <2>3 DEF RefInv, NoStraySession
<1>6. /\ \A l \in Loops : CloseStop[l].pc = lp[l].pc /\ CloseStop[l].sess = lp[l].sess
      /\ DOMAIN CloseStop = Loops /\ Stopped.sess = None
  BY <1>0 DEF CloseStop, LoopType, Stopped
<1>7. ASSUME NEW c \in {lp, CloseStop}, NEW pc, NEW p, Spawns(c, pc, p)
      PROVE  \A l \in Loops : \/ lp'[l].pc = lp[l].pc /\ lp'[l].sess = lp[l].sess
                              \/ lp[l].pc = "idle" /\ lp'[l].sess = None
  BY <1>0, <1>6, <1>7 DEF Spawns, IdleLoop
<1>8. ASSUME NEW s \in Sessions, HookTunnel(s) PROVE RefInv' /\ NoStraySession'
  <2>1. /\ ss[s].life = "again" /\ ss'[s].life = "none" /\ ss'[s].kind = ss[s].kind
        /\ \A n \in Sessions : n # s => ss'[n] = ss[n]
        /\ UNCHANGED stopping
    BY <1>0, <1>8 DEF HookTunnel, Over, NoSession
  <2>2. tun'.sess = IF tun.sess = s THEN None ELSE tun.sess
    BY <1>0, <1>6, <1>8 DEF HookTunnel, TunnelType
  <2>3. \A l \in Loops : \/ lp'[l].pc = lp[l].pc /\ lp'[l].sess = lp[l].sess
                         \/ lp[l].pc = "idle" /\ lp'[l].sess = None
    BY <1>6, <1>7, <1>8 DEF HookTunnel
  <2> QED
    BY <1>0, <2>1, <2>2, <2>3 DEF RefInv, NoStraySession
<1>9. ASSUME NEW p, TunnelStart(p) PROVE RefInv' /\ NoStraySession'
  <2>1. UNCHANGED <<ss, stopping>> /\ tun.sess = None
    BY <1>0, <1>9 DEF TunnelStart, Holds, ServeInv, sessVars
  <2>2. tun'.sess = None
    BY <1>9 DEF TunnelStart, Stopped
  <2>3. \A l \in Loops : \/ lp'[l].pc = lp[l].pc /\ lp'[l].sess = lp[l].sess
                         \/ lp[l].pc = "idle" /\ lp'[l].sess = None
    BY <1>7, <1>9 DEF TunnelStart
  <2> QED
    BY <1>0, <2>1, <2>2, <2>3 DEF RefInv, NoStraySession
<1>10. CASE TunnelStop
  <2>1. UNCHANGED ss /\ tun'.sess = None /\ stopping' = stopping \cup ({tun.sess} \ {None})
    BY <1>6, <1>10 DEF TunnelStop, sessVars
  <2>2. \A l \in Loops : lp'[l].pc = lp[l].pc /\ lp'[l].sess = lp[l].sess
    BY <1>6, <1>10 DEF TunnelStop
  <2> QED
    BY <1>0, <2>1, <2>2 DEF RefInv, NoStraySession
<1>11. ASSUME NEW l \in Loops, LoopChecks(l) PROVE RefInv' /\ NoStraySession'
  <2> DEFINE s == lp[l].sess
  <2>1. s \in Sessions /\ ss[s].kind = "tunnel"
    BY <1>0, <1>11 DEF LoopChecks, HandInv, RefInv
  <2>2. /\ \A n \in Sessions : ss'[n].kind = ss[n].kind /\ ss'[n].life = ss[n].life
                               /\ ss'[n].late = ss[n].late
        /\ UNCHANGED stopping
    BY <1>0, <1>11 DEF LoopChecks, SessionType
  <2>3. CASE lp' = [lp EXCEPT ![l].pc = "drop"] /\ UNCHANGED tun
    BY <1>0, <2>1, <2>2, <2>3 DEF RefInv, NoStraySession, LoopType
  <2>4. CASE s \notin pool /\ lp' = [lp EXCEPT ![l].pc = "wait", ![l].sess = None]
             /\ tun' = [tun EXCEPT !.state = "reconnecting"]
    <3>1. tun'.sess = tun.sess /\ ss[s].life # "live"
      BY <1>0, <2>1, <2>4 DEF TunnelType, PoolInv
    <3>2. \A m \in Loops : IF m = l THEN lp'[m].sess = None ELSE lp'[m] = lp[m]
      BY <1>0, <2>4 DEF LoopType
    <3> QED
      BY <1>0, <2>1, <2>2, <3>1, <3>2 DEF RefInv, NoStraySession
  <2>5. CASE ~lp[l].stop /\ s \in pool /\ lp' = [lp EXCEPT ![l].pc = "list"]
             /\ tun' = [tun EXCEPT !.sess = s]
    <3>1. tun'.sess = s /\ ss[s].life # "none" /\ tun.sess = None
      BY <1>0, <1>11, <2>1, <2>5 DEF TunnelType, PoolInv, LoopChecks, ServeInv, Serving
    <3>2. \A m \in Loops : /\ lp'[m].sess = lp[m].sess
                           /\ m # l => lp'[m] = lp[m]
      BY <1>0, <2>5 DEF LoopType
    <3> QED
      BY <1>0, <2>1, <2>2, <3>1, <3>2 DEF RefInv, NoStraySession
  <2> QED
    BY <1>11, <2>3, <2>4, <2>5 DEF LoopChecks
<1>12. ASSUME NEW l \in Loops, LoopDrops(l) PROVE RefInv' /\ NoStraySession'
  <2>1. lp[l].sess \in Sessions /\ Disconnects(lp[l].sess)
    BY <1>0, <1>12 DEF LoopDrops, HandInv
  <2>2. \A n \in Sessions : F(n)
    BY <1>2, <2>1
  <2>3. ss'[lp[l].sess].life # "live" /\ UNCHANGED <<tun, stopping>>
    BY <1>12, <2>1, DisconnectsEnds DEF LoopDrops
  <2>4. \A m \in Loops : IF m = l THEN lp'[m].sess = None ELSE lp'[m] = lp[m]
    BY <1>0, <1>12 DEF LoopDrops, LoopReturns, IdleLoop
  <2> QED
    BY <1>0, <2>1, <2>2, <2>3, <2>4 DEF RefInv, NoStraySession
<1>13. ASSUME NEW l \in Loops, LoopMarks(l) PROVE RefInv' /\ NoStraySession'
  <2>1. /\ \A n \in Sessions : /\ ss'[n].kind = ss[n].kind /\ ss'[n].life = ss[n].life
                               /\ "hook" \in ss[n].late => "hook" \in ss'[n].late
        /\ UNCHANGED stopping
    BY <1>0, <1>13 DEF LoopMarks, SessionType
  <2>2. tun'.sess = tun.sess
    BY <1>0, <1>13 DEF LoopMarks, TunnelType
  <2>3. lp[l].pc = "mark" /\ \A m \in Loops : IF m = l THEN lp'[m].sess = None ELSE lp'[m] = lp[m]
    BY <1>0, <1>13 DEF LoopMarks, LoopReturns, IdleLoop
  <2> QED
    BY <1>0, <2>1, <2>2, <2>3 DEF RefInv, NoStraySession
<1>14. ASSUME NEW l \in Loops, LoopStopped(l) \/ LoopTries(l) \/ LoopFails(l)
       PROVE  RefInv' /\ NoStraySession'
  <2>1. UNCHANGED <<ss, stopping>> /\ tun'.sess = tun.sess
    BY <1>0, <1>14 DEF LoopStopped, LoopTries, LoopFails, sessVars, TunnelType
  <2>2. \A m \in Loops : /\ lp'[m].sess \in {lp[m].sess, None}
                         /\ lp[m].pc \in {"opening", "drop"} => lp'[m] = lp[m]
    <3>1. lp[l].pc \in {"wait", "connect"}
          /\ (LoopReturns(l) \/ \E pc \in {"wait", "connect"} : lp' = [lp EXCEPT ![l].pc = pc])
      BY <1>14 DEF LoopStopped, LoopTries, LoopFails
    <3>2. ASSUME NEW pc \in {"wait", "connect"}, lp' = [lp EXCEPT ![l].pc = pc]
          PROVE  \A m \in Loops : IF m = l THEN lp'[m].sess = lp[m].sess ELSE lp'[m] = lp[m]
      BY <1>0, <3>2 DEF LoopType
    <3>3. LoopReturns(l) =>
             \A m \in Loops : IF m = l THEN lp'[m].sess = None ELSE lp'[m] = lp[m]
      BY <1>0 DEF LoopReturns, IdleLoop
    <3> QED
      BY <3>1, <3>2, <3>3
  <2> QED
    BY <1>0, <2>1, <2>2 DEF RefInv, NoStraySession
<1>21. ASSUME NEW l \in Loops, LoopLists(l) \/ LoopStarts(l)
       PROVE  RefInv' /\ NoStraySession'
  <2>1. /\ \A n \in Sessions : ss'[n].kind = ss[n].kind /\ ss'[n].life = ss[n].life
                               /\ ss'[n].late = ss[n].late
        /\ UNCHANGED <<tun, stopping>>
        /\ lp[l].pc \in {"list", "start"} /\ lp'[l].sess = lp[l].sess
        /\ \A m \in Loops : m # l => lp'[m] = lp[m]
    BY <1>21, LoopForwards DEF Keeps
  <2> QED
    BY <1>0, <2>1 DEF RefInv, NoStraySession
<1>15. ASSUME NEW l \in Loops, NEW s \in Sessions \ Referred, LoopOpens(l, s)
       PROVE  RefInv' /\ NoStraySession'
  <2>1. \A n \in Sessions : n # s => ss'[n] = ss[n]
    BY <1>0, <1>15 DEF LoopOpens, Opens
  <2>2. ss'[s].kind = "tunnel" /\ UNCHANGED <<tun, stopping>>
    BY <1>0, <1>15 DEF LoopOpens, Opens, NoSession
  <2>3. /\ lp[l].pc = "connect" /\ lp'[l].pc = "opening" /\ lp'[l].sess = s
        /\ \A m \in Loops : m # l => lp'[m] = lp[m]
    BY <1>0, <1>15 DEF LoopOpens, LoopType
  <2>4. s # tun.sess /\ \A m \in Loops : lp[m].sess # s
    BY <1>15 DEF Referred
  <2> QED
    BY <1>0, <2>1, <2>2, <2>3, <2>4 DEF RefInv, NoStraySession
<1>16. ASSUME NEW o \in Sessions,
              RcCancelled(o) \/ RcTries(o) \/ RcFails(o) \/ SshCancelReconnect(o),
              UNCHANGED tunVars
       PROVE  RefInv' /\ NoStraySession'
  BY <1>3, <1>16 DEF RcCancelled, RcTries, RcFails, SshCancelReconnect, tunVars
<1>17. ASSUME NEW s \in Sessions, SessStep(s, Holds) \/ SessEnv(s), UNCHANGED tunVars
       PROVE  RefInv' /\ NoStraySession'
  BY <1>1, <1>2, <1>16, <1>17 DEF SessStep, SessEnv, tunVars
<1>18. ASSUME NEW s \in Sessions \ Referred, NEW o \in Sessions,
              OpenTerminal(s) \/ RcOpens(o, s), UNCHANGED tunVars
       PROVE  RefInv' /\ NoStraySession'
  BY <1>4, <1>18 DEF OpenTerminal, RcOpens, tunVars
<1>19. ASSUME NEW s \in Sessions, HookStopsAgain(s) PROVE RefInv' /\ NoStraySession'
  BY <1>1, <1>2, <1>19 DEF HookStopsAgain, tunVars
<1>20. CASE ByHand \/ Autostart \/ AutostartStarts \/ UNCHANGED vars
  BY <1>3, <1>9, <1>20 DEF ByHand, Autostart, AutostartStarts, sessVars, tunVars, vars
<1> QED
  BY <1>5, <1>8, <1>10, <1>11, <1>12, <1>13, <1>14, <1>15, <1>17, <1>18, <1>19, <1>20, <1>21
     DEF Next, LoopStep

\* A loop that starts the forwards of s will look at them again.
Marking(s) == \E l \in Loops : lp[l].sess = s /\ lp[l].pc \in {"start", "mark"}

LEMMA StepListener ==
    /\ TypeOK /\ PoolInv /\ RcInv /\ HandInv /\ RefInv /\ ForwardInv /\ NoDeadListener
    /\ [Next]_vars
    => NoDeadListener'
<1> SUFFICES ASSUME TypeOK, PoolInv, RcInv, HandInv, RefInv, ForwardInv, NoDeadListener,
                    [Next]_vars
             PROVE  NoDeadListener'
  OBVIOUS
<1>0. /\ ss \in [Sessions -> SessionType] /\ lp \in [Loops -> LoopType] /\ None \notin Sessions
      /\ forwards \in [Specs -> Sessions \cup {None}]
      /\ \A l \in Loops : lp[l].sess \in Sessions \cup {None}
  BY SessionAssumption DEF TypeOK, LoopType
<1>1. \A f \in Specs, n \in Sessions : forwards[f] = n => Heard(n) \/ Marking(n)
  BY <1>0 DEF NoDeadListener, Heard, Marking
<1>2. ASSUME \A f \in Specs, n \in Sessions : forwards'[f] = n => Heard(n)' \/ Marking(n)',
             forwards' \in [Specs -> Sessions \cup {None}]
      PROVE  NoDeadListener'
  <2>1. orphans' \subseteq AutoPorts
    BY FwdSteps, StepForward DEF ForwardInv
  <2> QED
    BY <1>0, <1>2, <2>1 DEF NoDeadListener, Heard, Marking
<1>3. forwards' \in [Specs -> Sessions \cup {None}]
  BY StepTypeOK DEF TypeOK
<1>4. ASSUME \A f \in Specs : forwards'[f] \in {forwards[f], None},
             \A n \in Sessions : Heard(n) => Heard(n)' \/ \A f \in Specs : forwards'[f] # n,
             \A n \in Sessions : Marking(n) => Marking(n)'
      PROVE  NoDeadListener'
  BY <1>0, <1>1, <1>2, <1>3, <1>4
<1>5. UNCHANGED lp => \A n \in Sessions : Marking(n) => Marking(n)'
  BY DEF Marking
<1>6. UNCHANGED ss => \A n \in Sessions : Heard(n) => Heard(n)'
  BY DEF Heard
<1>7. ASSUME NEW s \in Sessions, NEW f \in Specs, NEW ok \in BOOLEAN, StartForward(f, s, ok)
      PROVE  /\ \A g \in Specs : forwards'[g] \in {forwards[g], s}
             /\ ~ok => UNCHANGED forwards
  BY <1>0, <1>7 DEF StartForward, Register, fwdVars
<1>8. ASSUME NEW s \in Sessions,
             \/ Hooked(s) \/ LooksUp(s, Holds) \/ Lists(s) \/ Tracks(s) \/ HookRemoves(s)
             \/ Dies(s) \/ RcRestores(s) \/ RcLists(s), UNCHANGED lp
      PROVE  NoDeadListener'
  <2>1. HookStops(s) \/ HookStopsAgain(s) => \A f \in Specs : forwards'[f] # s
    BY StopsAll DEF HookStops, HookStopsAgain
  <2>2. \A n \in Sessions : Heard(n) => Heard(n)' \/ \A f \in Specs : forwards'[f] # n
    BY <1>8, <2>1, SessFrame
  <2>3. UNCHANGED forwards
    BY <1>8 DEF Hooked, LooksUp, Lists, Tracks, HookRemoves, Dies, RcRestores, RcLists, fwdVars
  <2> QED
    BY <1>4, <1>5, <1>8, <2>2, <2>3
\* A session's forward starts; late says so when its hook came before.
<1>32. ASSUME NEW s \in Sessions, NEW f \in Specs, NEW ok \in BOOLEAN,
              StartForward(f, s, ok), UNCHANGED lp,
              ss'[s].late = ss[s].late \cup Late(s, ok), ss'[s].life = ss[s].life,
              ss'[s].kind = ss[s].kind,
              \A n \in Sessions : n # s => ss'[n] = ss[n]
       PROVE  NoDeadListener'
  <2>1. /\ \A n \in Sessions : Heard(n) => Heard(n)'
        /\ Heard(s)' \/ UNCHANGED forwards
    <3>1. \A n \in Sessions : Heard(n) => Heard(n)'
      BY <1>32 DEF Heard
    <3>2. ok => Heard(s)'
      BY <1>32 DEF Heard, Late
    <3> QED
      BY <1>7, <1>32, <3>1, <3>2
  <2>2. \A g \in Specs : forwards'[g] \in {forwards[g], s}
    BY <1>7, <1>32
  <2> QED
    BY <1>1, <1>2, <1>3, <1>5, <1>32, <2>1, <2>2
<1>9. ASSUME NEW s \in Sessions, Starts(s), UNCHANGED lp PROVE NoDeadListener'
  <2>1. PICK f \in ss[s].todo, ok \in BOOLEAN :
          /\ StartForward(f, s, ok)
          /\ ss' = [ss EXCEPT ![s].todo = @ \ {f}, ![s].late = @ \cup Late(s, ok),
                              ![s].opening = IF ss[s].todo = {f} THEN "started" ELSE @]
    BY <1>9 DEF Starts
  <2>2. f \in Specs
    BY <1>0, <2>1 DEF SessionType
  <2>3. /\ ss'[s].late = ss[s].late \cup Late(s, ok) /\ ss'[s].life = ss[s].life
        /\ ss'[s].kind = ss[s].kind /\ \A n \in Sessions : n # s => ss'[n] = ss[n]
    BY <1>0, <2>1 DEF SessionType
  <2> QED
    BY <1>9, <1>32, <2>1, <2>2, <2>3
<1>10. ASSUME NEW s \in Sessions, HookStops(s) \/ HookStopsAgain(s), UNCHANGED lp
       PROVE  NoDeadListener'
  <2>1. StopAllForSession(s)
    BY <1>10 DEF HookStops, HookStopsAgain
  <2>2. \A n \in Sessions : Heard(n) => Heard(n)' \/ n = s
    BY <1>10, SessFrame
  <2> QED
    BY <1>4, <1>5, <1>10, <2>1, <2>2, StopsAll
<1>11. ASSUME NEW s \in Sessions, Disconnects(s),
              \A n \in Sessions : Marking(n) => Marking(n)'
       PROVE  NoDeadListener'
  <2>1. HookStops(s) \/ HookStopsAgain(s) => \A f \in Specs : forwards'[f] # s
    BY StopsAll DEF HookStops, HookStopsAgain
  <2>2. \A n \in Sessions : Heard(n) => Heard(n)' \/ \A f \in Specs : forwards'[f] # n
    BY <1>11, <2>1, SessFrame
  <2>3. \A f \in Specs : forwards'[f] \in {forwards[f], None}
    BY <1>11, StopsAll DEF Disconnects, fwdVars
  <2> QED
    BY <1>4, <1>11, <2>2, <2>3
<1>12. ASSUME NEW o \in Sessions, RcRegisters(o), UNCHANGED lp PROVE NoDeadListener'
  <2>0. PICK s \in Sessions : s = rc[o].new
    BY <1>12 DEF RcRegisters, RcInv
  <2>1. PICK f \in ss[s].todo, ok \in BOOLEAN :
          /\ StartForward(f, s, ok)
          /\ ss' = [ss EXCEPT ![s].todo = @ \ {f}, ![s].late = @ \cup Late(s, ok)]
    BY <1>12, <2>0 DEF RcRegisters
  <2>2. f \in Specs
    BY <1>0, <2>1 DEF SessionType
  <2>3. /\ ss'[s].late = ss[s].late \cup Late(s, ok) /\ ss'[s].life = ss[s].life
        /\ ss'[s].kind = ss[s].kind /\ \A n \in Sessions : n # s => ss'[n] = ss[n]
    BY <1>0, <2>1 DEF SessionType
  <2> QED
    BY <1>12, <1>32, <2>1, <2>2, <2>3
<1>13. ASSUME NEW s \in Sessions \ Referred, NEW k, Opens(s, k),
              UNCHANGED forwards, \A n \in Sessions : Marking(n) => Marking(n)'
       PROVE  NoDeadListener'
  <2>1. \A n \in Sessions : n # s => ss'[n] = ss[n]
    BY <1>0, <1>13 DEF Opens
  <2>2. \A f \in Specs : forwards'[f] # s
    BY <1>13 DEF Opens, Forgotten
  <2>3. \A n \in Sessions : Heard(n) => Heard(n)' \/ \A f \in Specs : forwards'[f] # n
    BY <2>1, <2>2 DEF Heard
  <2> QED
    BY <1>4, <1>13, <2>3
\* A loop that is not marking does not matter, nor does its return.
<1>14. ASSUME NEW l \in Loops, lp[l].pc \notin {"start", "mark"}, NEW r,
              lp' = [lp EXCEPT ![l] = r]
       PROVE  \A n \in Sessions : Marking(n) => Marking(n)'
  <2>1. \A m \in Loops : m # l => lp'[m] = lp[m]
    BY <1>0, <1>14
  <2> QED
    BY <1>14, <2>1 DEF Marking
<1>15. ASSUME NEW c \in {lp, CloseStop}, NEW pc, NEW p, Spawns(c, pc, p)
       PROVE  \A n \in Sessions : Marking(n) => Marking(n)'
  <2>1. PICK l \in Loops : lp[l].pc = "idle"
                           /\ lp' = [c EXCEPT ![l] = [IdleLoop EXCEPT !.pc = pc, !.patient = p]]
    BY <1>15 DEF Spawns
  <2>2. \A m \in Loops : CloseStop[m].pc = lp[m].pc /\ CloseStop[m].sess = lp[m].sess
    BY <1>0 DEF CloseStop, LoopType
  <2>3. \A m \in Loops : m # l => lp'[m].pc = lp[m].pc /\ lp'[m].sess = lp[m].sess
    BY <1>0, <2>1, <2>2 DEF CloseStop
  <2> QED
    BY <2>1, <2>3 DEF Marking
<1>16. lp' = CloseStop => \A n \in Sessions : Marking(n) => Marking(n)'
  <2>1. \A m \in Loops : CloseStop[m].pc = lp[m].pc /\ CloseStop[m].sess = lp[m].sess
    BY <1>0 DEF CloseStop, LoopType
  <2> QED
    BY <2>1 DEF Marking
<1>17. ASSUME NEW s \in Sessions, HookTunnel(s) PROVE NoDeadListener'
  <2>1. \A n \in Sessions : Heard(n) => Heard(n)'
    <3>1. ss[s].life = "again" /\ Over(s).late = ss[s].late
          /\ \A n \in Sessions : ss'[n] = IF n = s THEN Over(s) ELSE ss[n]
      BY <1>0, <1>17 DEF HookTunnel, Over, NoSession
    <3> QED
      BY <3>1 DEF Heard
  <2>2. \A n \in Sessions : Marking(n) => Marking(n)'
    BY <1>5, <1>15, <1>16, <1>17 DEF HookTunnel
  <2>3. UNCHANGED forwards
    BY <1>17 DEF HookTunnel, fwdVars
  <2> QED
    BY <1>4, <2>1, <2>2, <2>3
<1>18. ASSUME NEW l \in Loops, NEW s \in Sessions \ Referred, LoopOpens(l, s)
       PROVE  NoDeadListener'
  <2>1. \A n \in Sessions : Marking(n) => Marking(n)'
    <3>1. \A m \in Loops : m # l => lp'[m] = lp[m]
      BY <1>0, <1>18 DEF LoopOpens
    <3> QED
      BY <1>18, <3>1 DEF LoopOpens, Marking
  <2>2. UNCHANGED forwards
    BY <1>18 DEF LoopOpens, Opens
  <2> QED
    BY <1>13, <1>18, <2>1, <2>2 DEF LoopOpens
<1>19. ASSUME NEW l \in Loops, LoopChecks(l) PROVE NoDeadListener'
  <2>1. \A n \in Sessions : Marking(n) => Marking(n)'
    <3>1. lp[l].pc = "opening" /\ \A m \in Loops : m # l => lp'[m] = lp[m]
      BY <1>0, <1>19 DEF LoopChecks
    <3> QED
      BY <3>1 DEF Marking
  <2>2. \A n \in Sessions : Heard(n) => Heard(n)'
    <3>1. \A n \in Sessions : /\ ss'[n].kind = ss[n].kind /\ ss'[n].life = ss[n].life
                               /\ ss'[n].late = ss[n].late
      BY <1>0, <1>19 DEF LoopChecks, SessionType
    <3> QED
      BY <3>1 DEF Heard
  <2>3. UNCHANGED forwards
    BY <1>19 DEF LoopChecks, fwdVars
  <2> QED
    BY <1>4, <2>1, <2>2, <2>3
<1>33. ASSUME NEW l \in Loops, LoopLists(l) \/ LoopStarts(l)
       PROVE  /\ \A n \in Sessions : Heard(n) => Heard(n)'
              /\ \A n \in Sessions : Marking(n) => Marking(n)'
              /\ LoopStarts(l) => Marking(lp[l].sess)'
  <2>1. /\ \A n \in Sessions : Keeps(n) /\ ss'[n].late = ss[n].late
        /\ lp[l].sess \in Sessions /\ (LoopStarts(l) => lp[l].pc = "start")
        /\ lp'[l].sess = lp[l].sess /\ lp'[l].pc \in {"start", "mark"}
        /\ \A m \in Loops : m # l => lp'[m] = lp[m]
    BY <1>33, LoopForwards
  <2> QED
    BY <2>1 DEF Heard, Marking, Keeps
<1>34. ASSUME NEW l \in Loops, LoopLists(l) PROVE NoDeadListener'
  <2>1. UNCHANGED forwards
    BY <1>34 DEF LoopLists, fwdVars
  <2> QED
    BY <1>4, <1>33, <1>34, <2>1
<1>20. ASSUME NEW l \in Loops, LoopStarts(l) PROVE NoDeadListener'
  <2>0. PICK s \in Sessions : s = lp[l].sess
    BY <1>0, <1>20 DEF LoopStarts, HandInv
  <2>1. PICK f \in ss[s].todo, ok \in BOOLEAN : StartForward(f, s, ok)
    BY <1>20, <2>0 DEF LoopStarts
  <2>2. f \in Specs
    BY <1>0, <2>1 DEF SessionType
  <2>3. \A g \in Specs : forwards'[g] \in {forwards[g], s}
    BY <1>7, <2>1, <2>2
  <2>4. Marking(s)'
    <3>1. lp'[l].sess = s /\ lp'[l].pc \in {"start", "mark"}
      BY <1>20, <2>0, LoopForwards
    <3> QED
      BY <3>1 DEF Marking
  <2> QED
    BY <1>1, <1>2, <1>3, <1>20, <1>33, <2>3, <2>4
<1>21. ASSUME NEW l \in Loops, LoopMarks(l) PROVE NoDeadListener'
  <2>0. PICK s \in Sessions : s = lp[l].sess
    BY <1>0, <1>21 DEF LoopMarks, HandInv
  <2>1. \A m \in Loops : m # l => lp'[m] = lp[m]
    BY <1>0, <1>21 DEF LoopMarks, LoopReturns
  <2>2. \A n \in Sessions : Marking(n) => Marking(n)' \/ n = s
    BY <2>0, <2>1 DEF Marking
  <2>3. \A n \in Sessions : Heard(n) => Heard(n)'
    <3>1. \A n \in Sessions : /\ ss'[n].kind = ss[n].kind /\ ss'[n].life = ss[n].life
                               /\ ss[n].late \subseteq ss'[n].late
      BY <1>0, <1>21 DEF LoopMarks, SessionType
    <3> QED
      BY <3>1 DEF Heard
  <2>4. CASE StopAllForSession(s)
    <3>1. \A f \in Specs : forwards'[f] \in {forwards[f], None} \ {s}
      BY <2>4, StopsAll
    <3> QED
      BY <1>0, <1>1, <1>2, <1>3, <2>2, <2>3, <3>1
  <2>5. CASE tun.sess = s /\ UNCHANGED forwards
             /\ ss' = IF ss[s].life = "again" THEN [ss EXCEPT ![s].late = @ \cup {"start"}]
                      ELSE ss
    <3>1. ss[s].kind = "tunnel" /\ (ss[s].life # "none" \/ "hook" \in ss[s].late)
      BY <1>0, <2>5 DEF RefInv
    <3>2. ss[s].life \in Lives /\ (ss[s].life = "missed" => "hook" \in ss[s].late)
      BY <1>0 DEF PoolInv, SessionType
    <3>3. Heard(s) \/ ss[s].life = "again"
      BY <3>1, <3>2 DEF Heard, Lives
    <3>4. ss[s].life = "again" => Heard(s)'
      BY <1>0, <2>5 DEF Heard, SessionType
    <3> QED
      BY <1>1, <1>2, <1>3, <2>2, <2>3, <2>5, <3>3, <3>4
  <2> QED
    BY <1>21, <2>0, <2>4, <2>5 DEF LoopMarks, fwdVars
<1>22. ASSUME UNCHANGED <<ss, forwards>>, \A n \in Sessions : Marking(n) => Marking(n)'
       PROVE  NoDeadListener'
  BY <1>4, <1>6, <1>22
<1>23. ASSUME NEW l \in Loops, LoopStopped(l) \/ LoopTries(l) \/ LoopFails(l)
       PROVE  NoDeadListener'
  <2>1. lp[l].pc \in {"wait", "connect"} /\ UNCHANGED <<ss, forwards>>
        /\ \A m \in Loops : m # l => lp'[m] = lp[m]
    BY <1>0, <1>23 DEF LoopStopped, LoopTries, LoopFails, LoopReturns, sessVars, fwdVars
  <2> QED
    BY <1>22, <2>1 DEF Marking
<1>24. ASSUME NEW l \in Loops, LoopDrops(l) PROVE NoDeadListener'
  <2>1. lp[l].sess \in Sessions /\ Disconnects(lp[l].sess)
    BY <1>0, <1>24 DEF LoopDrops, HandInv
  <2> QED
    BY <1>11, <1>14, <1>24, <2>1 DEF LoopDrops, LoopReturns
<1>25. ASSUME NEW o \in Sessions,
              RcCancelled(o) \/ RcTries(o) \/ RcFails(o) \/ SshCancelReconnect(o),
              UNCHANGED lp
       PROVE  NoDeadListener'
  BY <1>5, <1>22, <1>25 DEF RcCancelled, RcTries, RcFails, SshCancelReconnect, fwdVars
<1>26. ASSUME NEW s \in Sessions, SessStep(s, Holds) \/ SessEnv(s), UNCHANGED tunVars
       PROVE  NoDeadListener'
  BY <1>5, <1>8, <1>9, <1>10, <1>11, <1>12, <1>25, <1>26 DEF SessStep, SessEnv, tunVars
<1>27. ASSUME NEW s \in Sessions \ Referred, NEW o \in Sessions,
              OpenTerminal(s) \/ RcOpens(o, s), UNCHANGED tunVars
       PROVE  NoDeadListener'
  BY <1>5, <1>13, <1>27 DEF OpenTerminal, RcOpens, Opens, tunVars
<1>28. ASSUME NEW s \in Sessions, StopDisconnects(s) \/ HookStopsAgain(s)
       PROVE  NoDeadListener'
  BY <1>5, <1>10, <1>11, <1>28 DEF StopDisconnects, HookStopsAgain, tunVars
<1>29. ASSUME NEW p, TunnelStart(p) PROVE NoDeadListener'
  BY <1>15, <1>22, <1>29 DEF TunnelStart, sessVars, fwdVars
<1>30. CASE TunnelStop
  BY <1>16, <1>22, <1>30 DEF TunnelStop, sessVars, fwdVars
<1>31. CASE ByHand \/ Autostart \/ AutostartStarts \/ UNCHANGED vars
  BY <1>5, <1>22, <1>29, <1>31
     DEF ByHand, Autostart, AutostartStarts, sessVars, fwdVars, tunVars, vars
<1> QED
  BY <1>17, <1>18, <1>19, <1>20, <1>21, <1>23, <1>24, <1>26, <1>27, <1>28, <1>30, <1>31, <1>34
     DEF Next, LoopStep
-----------------------------------------------------------------------------
(* What holds of every state the program reaches.                          *)

LEMMA InitIInv == Init => IInv
<1> SUFFICES ASSUME Init PROVE IInv
  OBVIOUS
<1>1. /\ ss = [s \in Sessions |-> NoSession] /\ pool = {} /\ claims = {}
      /\ forwards = [f \in Specs |-> None] /\ kept = [s \in Sessions |-> {}]
      /\ rc = [s \in Sessions |-> NoLoop] /\ tun = Stopped
      /\ lp = [l \in Loops |-> IdleLoop] /\ stopping = {}
      /\ autostarted = FALSE /\ launching = FALSE
      /\ bySess = [s \in Sessions |-> {}] /\ orphans = {}
  BY DEF Init, SessInit
<1>2. /\ NoSession \in SessionType /\ NoSession.life = "none" /\ NoSession.kind = "term"
  <2>1. "none" \in Lives /\ "done" \in Openings /\ "term" \in {"term", "tunnel"}
    BY DEF Lives, Openings
  <2>2. {} \in SUBSET {"hook", "start", "claim"}
    OBVIOUS
  <2>3. NoSession \in SessionType
    BY Zenon, <2>1, <2>2 DEF NoSession, SessionType
  <2> QED
    BY <2>3 DEF NoSession
<1>3. NoLoop \in RcType /\ NoLoop.pc = "idle"
  BY SessionAssumption DEF NoLoop, RcType
<1>4. /\ Stopped \in TunnelType /\ Stopped.state = "stopped" /\ Stopped.sess = None
  BY DEF Stopped, TunnelType
<1>5. /\ IdleLoop \in LoopType /\ IdleLoop.pc = "idle" /\ IdleLoop.sess = None
  BY DEF IdleLoop, LoopType
<1>6. TypeOK
  <2>1. autostarted \in BOOLEAN /\ launching \in BOOLEAN
    BY Zenon, <1>1
  <2> QED
    BY <1>1, <1>2, <1>3, <1>4, <1>5, <2>1 DEF TypeOK
<1>7. PoolInv /\ RcInv /\ HandInv /\ ClaimsEnd
  BY <1>1, <1>2, <1>3, <1>5 DEF PoolInv, RcInv, HandInv, ClaimsEnd
<1>8. ServeInv
  <2>1. Serving = {}
    BY <1>1, <1>5 DEF Serving
  <2> QED
    BY <1>1, <1>4, <2>1 DEF ServeInv
<1>9. RefInv /\ ForwardInv /\ NoStraySession /\ NoDeadListener
  BY <1>1, <1>2, <1>4, <1>5 DEF RefInv, ForwardInv, NoStraySession, NoDeadListener
<1> QED
  BY <1>6, <1>7, <1>8, <1>9 DEF IInv

LEMMA Invariant == Spec => []IInv
<1>1. IInv /\ [Next]_vars => IInv'
  BY StepTypeOK, StepPool, StepHand, StepServe, StepRef, FwdSteps, StepForward, StepListener
     DEF IInv
<1> QED
  BY <1>1, InitIInv, PTL DEF Spec

\* Sessions, loops and the entry keep their shape; in particular no reconnect
\* loop makes more attempts than the settings allow.
THEOREM TypeCorrect == Spec => []TypeOK
<1>1. IInv => TypeOK
  BY DEF IInv
<1> QED
  BY <1>1, Invariant, PTL

\* tunnelStart, tunnelConnectLoop and tunnelSessionClosed between them keep
\* one loop on a tunnel that is on its way up, and none on any other.
THEOREM OneLoopServes == Spec => []OneLoop
<1>1. ServeInv => OneLoop
  <2> SUFFICES ASSUME ServeInv PROVE OneLoop
    OBVIOUS
  <2>1. CASE Serving = {}
    BY <2>1, FS_EmptySet DEF ServeInv, OneLoop
  <2>2. CASE Serving # {}
    <3>1. PICK l \in Serving : TRUE
      BY <2>2
    <3>2. Serving = {l}
      BY <3>1 DEF ServeInv
    <3>3. Cardinality({l}) = 1
      BY FS_Singleton
    <3> QED
      BY <2>2, <3>2, <3>3 DEF ServeInv, OneLoop
  <2> QED
    BY <2>1, <2>2
<1>2. IInv => ServeInv
  BY DEF IInv
<1> QED
  BY <1>1, <1>2, Invariant, PTL

\* What TunnelStatuses shows as connected has a live session, or that
\* session's hook is still to come (or was set too late to come).
THEOREM ConnectedMeansUp == Spec => []ConnectedIsUp
<1>1. IInv => ConnectedIsUp
  <2> SUFFICES ASSUME IInv, tun.state = "connected"
               PROVE  UpOrHooked(tun.sess) \/ "hook" \in ss[tun.sess].late
    BY DEF ConnectedIsUp
  <2>1. tun.sess \in Sessions
    BY DEF IInv, ServeInv, TypeOK, TunnelType
  <2>2. ss[tun.sess].life # "none" \/ "hook" \in ss[tun.sess].late
    BY <2>1, SessionAssumption DEF IInv, RefInv
  <2>3. ss[tun.sess].life \in Lives
    BY <2>1 DEF IInv, TypeOK, SessionType
  <2>4. ss[tun.sess].life = "missed" => "hook" \in ss[tun.sess].late
    BY <2>1 DEF IInv, PoolInv
  <2> QED
    BY <2>2, <2>3, <2>4 DEF UpOrHooked, Lives
<1> QED
  BY <1>1, Invariant, PTL

\* tunnelConnectLoop, TunnelStop and the close hook leave no live tunnel
\* session that nobody will use or disconnect.
THEOREM NoStray == Spec => []NoStraySession
<1>1. IInv => NoStraySession
  BY DEF IInv
<1> QED
  BY <1>1, Invariant, PTL

\* No forward of byID listens for a session whose hook, disconnect and tunnel
\* loop are all past, except those that started too late for them; and no
\* listener of a fixed port is out of byID's reach.
THEOREM ListenersStop == Spec => []NoDeadListener
<1>1. IInv => NoDeadListener
  BY DEF IInv
<1> QED
  BY <1>1, Invariant, PTL

\* A session that is gone has given up its claim on the VPN tunnel, except one
\* it took after its hook had run.
THEOREM ClaimsGivenUp == Spec => []ClaimsEnd
<1>1. IInv => ClaimsEnd
  BY DEF IInv
<1> QED
  BY <1>1, Invariant, PTL
=============================================================================
