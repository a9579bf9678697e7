--------------------------- MODULE LazySSHProofs ----------------------------
(***************************************************************************)
(* Proofs about LazySSH, for any number of dials and of sessions: one      *)
(* connect at a time, no session forgotten or closed early, and a retry    *)
(* never on the session that was just lost.                                *)
(***************************************************************************)
EXTENDS LazySSH, TLAPS

Running == {"connecting", "hook", "returned"}

\* The connect under way is the one in inflight, beside no client; a client
\* has no goroutine left to install it.
ConnectInv ==
    /\ \A s \in Sessions : run[s] \in Running => inflight = s /\ client = None
    /\ \A s \in Sessions : client = s => run[s] = "none"
    /\ client # None => ~closed
    /\ \A s \in Sessions : run[s] = "connecting" => sess[s] = "none"
    /\ \A s \in Sessions : run[s] = "discard" => closed

\* What refers to a session refers to one whose connect is over, and what is
\* to be dropped is dead or the tab is closed.
RefInv ==
    /\ \A s \in closing : run[s] = "none" /\ (sess[s] = "live" => closed)
    /\ \A s \in hooks : run[s] # "connecting" /\ sess[s] # "live"
    /\ \A d \in Dials : got[d] # None => run[got[d]] = "none"
    /\ \A d \in Dials : pc[d] \in {"open", "invalidate"} => got[d] # None
    /\ \A d \in Dials : pc[d] = "invalidate" => sess[got[d]] # "live"

\* A session that a dial found gone is not coming back to it.
LostInv ==
    /\ \A d \in Dials : lost[d] # None => client # lost[d] /\ run[lost[d]] \notin Running
    /\ \A d \in Dials : pc[d] = "open" => got[d] # lost[d]

LInv == TypeOK /\ ConnectInv /\ RefInv /\ NoSessionLeaked /\ LiveSessionKept /\ LostInv
-----------------------------------------------------------------------------
LEMMA InitLInv == Init => LInv
<1> SUFFICES ASSUME Init PROVE LInv
  OBVIOUS
<1>1. TypeOK
  <2>1. hooked \in [Sessions -> BOOLEAN]
    <3>1. hooked = [s \in Sessions |-> FALSE]
      BY DEF Init
    <3> QED
      BY <3>1, Zenon
  <2>2. live \in [Dials -> BOOLEAN]
    <3>1. live = [d \in Dials |-> TRUE]
      BY DEF Init
    <3> QED
      BY <3>1, Zenon
  <2>3. run \in [Sessions -> Runs] /\ sess \in [Sessions -> SessStates] /\ pc \in [Dials -> PCs]
    BY DEF Init, Runs, SessStates, PCs
  <2>4. attempt \in [Dials -> 0..1]
    BY DEF Init
  <2> QED
    BY <2>1, <2>2, <2>3, <2>4 DEF Init, TypeOK
<1>2. ConnectInv /\ NoSessionLeaked /\ LiveSessionKept
  BY LazyAssumption DEF Init, ConnectInv, NoSessionLeaked, LiveSessionKept, Running
<1>3. RefInv /\ LostInv
  BY LazyAssumption DEF Init, RefInv, LostInv
<1> QED
  BY <1>1, <1>2, <1>3 DEF LInv

\* No step leaves the types.
LEMMA StepTypeOK == TypeOK /\ RefInv /\ [Next]_vars => TypeOK'
<1> SUFFICES ASSUME TypeOK, RefInv, [Next]_vars PROVE TypeOK'
  OBVIOUS
<1> USE DEF TypeOK, Runs, SessStates, PCs, lazy, conns, dials
<1>1. ASSUME NEW d \in Dials, BeginDial(d) PROVE TypeOK'
  BY <1>1 DEF BeginDial
<1>2. ASSUME NEW d \in Dials, CancelDial(d) PROVE TypeOK'
  BY <1>2 DEF CancelDial
<1>3. ASSUME NEW d \in Dials, ClientClosed(d) PROVE TypeOK'
  BY <1>3 DEF ClientClosed, Return
<1>4. ASSUME NEW d \in Dials, ClientHas(d) PROVE TypeOK'
  BY <1>4 DEF ClientHas
<1>5. ASSUME NEW d \in Dials, ClientJoins(d) PROVE TypeOK'
  BY <1>5 DEF ClientJoins
<1>6. ASSUME NEW d \in Dials, ClientConnects(d) PROVE TypeOK'
  BY <1>6 DEF ClientConnects, Unreferenced
<1>7. ASSUME NEW d \in Dials, WaitCancelled(d) PROVE TypeOK'
  BY <1>7 DEF WaitCancelled, Return
<1>8. ASSUME NEW d \in Dials, WaitHas(d) PROVE TypeOK'
  BY <1>8 DEF WaitHas
<1>9. ASSUME NEW d \in Dials, WaitFails(d) PROVE TypeOK'
  BY <1>9 DEF WaitFails, Return
<1>10. ASSUME NEW d \in Dials, WaitAgain(d) PROVE TypeOK'
  BY <1>10 DEF WaitAgain
<1>11. ASSUME NEW d \in Dials, OpenReturns(d) PROVE TypeOK'
  BY <1>11 DEF OpenReturns, Return
<1>12. ASSUME NEW d \in Dials, OpenGone(d) PROVE TypeOK'
  BY <1>12 DEF OpenGone
<1>13. ASSUME NEW d \in Dials, DialInvalidates(d) PROVE TypeOK'
  <2>1. got[d] \in Sessions
    BY <1>13 DEF DialInvalidates, RefInv
  <2>2. closing' \subseteq Sessions /\ client' \in Sessions \cup {None}
    BY <1>13, <2>1 DEF DialInvalidates, Invalidate
  <2>3. attempt' \in [Dials -> 0..1]
    BY <1>13 DEF DialInvalidates, Return
  <2>4. lost' \in [Dials -> Sessions \cup {None}] /\ got' \in [Dials -> Sessions \cup {None}]
        /\ chan' \in [Dials -> Sessions \cup {None}]
    BY <1>13, <2>1 DEF DialInvalidates, Return
  <2>5. pc' \in [Dials -> PCs]
    BY <1>13 DEF DialInvalidates, Return
  <2>6. live' \in [Dials -> BOOLEAN]
    <3>1. live' = live \/ live' = [live EXCEPT ![d] = TRUE]
      BY <1>13 DEF DialInvalidates, Return
    <3>2. live \in [Dials -> BOOLEAN]
      OBVIOUS
    <3> QED
      BY <3>1, <3>2, Zenon
  <2> QED
    BY <1>13, <2>2, <2>3, <2>4, <2>5, <2>6 DEF DialInvalidates
<1>14. ASSUME NEW s \in Sessions, ConnectFails(s) PROVE TypeOK'
  BY <1>14 DEF ConnectFails
<1>15. ASSUME NEW s \in Sessions, ConnectOpens(s) PROVE TypeOK'
  BY <1>15 DEF ConnectOpens
<1>16. ASSUME NEW s \in Sessions, ConnectHooks(s) PROVE TypeOK'
  <2>1. hooked' \in [Sessions -> BOOLEAN]
    <3>1. hooked \in [Sessions -> BOOLEAN] /\ (sess[s] = "live") \in BOOLEAN
      OBVIOUS
    <3>2. hooked' = [hooked EXCEPT ![s] = (sess[s] = "live")]
      BY <1>16, Zenon DEF ConnectHooks
    <3> QED
      BY <3>1, <3>2, Zenon
  <2> QED
    BY <1>16, <2>1 DEF ConnectHooks
<1>17. ASSUME NEW s \in Sessions, ConnectInstalls(s) PROVE TypeOK'
  BY <1>17 DEF ConnectInstalls
<1>18. ASSUME NEW s \in Sessions, ConnectTooLate(s) PROVE TypeOK'
  BY <1>18 DEF ConnectTooLate
<1>19. ASSUME NEW s \in Sessions, ConnectDiscards(s) PROVE TypeOK'
  BY <1>19 DEF ConnectDiscards, Disconnect
<1>20. ASSUME NEW s \in Sessions, HookInvalidates(s) PROVE TypeOK'
  BY <1>20 DEF HookInvalidates, Invalidate
<1>21. ASSUME NEW s \in Sessions, RunCloseFn(s) PROVE TypeOK'
  BY <1>21 DEF RunCloseFn, Disconnect
<1>22. ASSUME NEW s \in Sessions, SessionDies(s) PROVE TypeOK'
  BY <1>22 DEF SessionDies
<1>23. CASE Close
  BY <1>23 DEF Close
<1>24. CASE UNCHANGED vars
  BY <1>24 DEF vars
<1> QED
  BY <1>1, <1>2, <1>3, <1>4, <1>5, <1>6, <1>7, <1>8, <1>9, <1>10, <1>11, <1>12, <1>13, <1>14, <1>15, <1>16, <1>17, <1>18, <1>19, <1>20, <1>21, <1>22, <1>23, <1>24
     DEF Next, DialStep, SessionStep, ConnectStep

\* Every step keeps the invariant: the parts a step may disturb, one by one.
LEMMA StepLInv == LInv /\ [Next]_vars => LInv'
<1> SUFFICES ASSUME LInv, [Next]_vars PROVE LInv'
  OBVIOUS
<1> USE LazyAssumption DEF LInv, lazy, conns, dials
<1>0. TypeOK /\ TypeOK'
  BY StepTypeOK
<1> DEFINE Rest == ConnectInv' /\ NoSessionLeaked' /\ LiveSessionKept' /\ RefInv' /\ LostInv'
<1>1. ASSUME NEW d \in Dials, BeginDial(d) PROVE Rest
  <2>1. ConnectInv'
    BY <1>0, <1>1 DEF TypeOK, BeginDial, ConnectInv, Running
  <2>2. NoSessionLeaked'
    BY <1>0, <1>1 DEF TypeOK, BeginDial, NoSessionLeaked, ConnectInv, Running
  <2>3. LiveSessionKept'
    BY <1>0, <1>1 DEF TypeOK, BeginDial, LiveSessionKept, RefInv, ConnectInv
  <2>4. RefInv'
    BY <1>0, <1>1 DEF TypeOK, BeginDial, RefInv, ConnectInv, Running
  <2>5. LostInv'
    BY <1>0, <1>1 DEF TypeOK, BeginDial, LostInv, RefInv, ConnectInv, Running
  <2> QED
    BY <2>1, <2>2, <2>3, <2>4, <2>5
<1>2. ASSUME NEW d \in Dials, CancelDial(d) PROVE Rest
  <2>1. ConnectInv'
    BY <1>0, <1>2 DEF TypeOK, CancelDial, ConnectInv, Running
  <2>2. NoSessionLeaked'
    BY <1>0, <1>2 DEF TypeOK, CancelDial, NoSessionLeaked, ConnectInv, Running
  <2>3. LiveSessionKept'
    BY <1>0, <1>2 DEF TypeOK, CancelDial, LiveSessionKept, RefInv, ConnectInv
  <2>4. RefInv'
    BY <1>0, <1>2 DEF TypeOK, CancelDial, RefInv, ConnectInv, Running
  <2>5. LostInv'
    BY <1>0, <1>2 DEF TypeOK, CancelDial, LostInv, RefInv, ConnectInv, Running
  <2> QED
    BY <2>1, <2>2, <2>3, <2>4, <2>5
<1>3. ASSUME NEW d \in Dials, ClientClosed(d) PROVE Rest
  <2>1. ConnectInv'
    BY <1>0, <1>3 DEF TypeOK, ClientClosed, Return, ConnectInv, Running
  <2>2. NoSessionLeaked'
    BY <1>0, <1>3 DEF TypeOK, ClientClosed, Return, NoSessionLeaked, ConnectInv, Running
  <2>3. LiveSessionKept'
    BY <1>0, <1>3 DEF TypeOK, ClientClosed, Return, LiveSessionKept, RefInv, ConnectInv
  <2>4. RefInv'
    BY <1>0, <1>3 DEF TypeOK, ClientClosed, Return, RefInv, ConnectInv, Running
  <2>5. LostInv'
    BY <1>0, <1>3 DEF TypeOK, ClientClosed, Return, LostInv, RefInv, ConnectInv, Running
  <2> QED
    BY <2>1, <2>2, <2>3, <2>4, <2>5
<1>4. ASSUME NEW d \in Dials, ClientHas(d) PROVE Rest
  <2>1. ConnectInv'
    BY <1>0, <1>4 DEF TypeOK, ClientHas, ConnectInv, Running
  <2>2. NoSessionLeaked'
    BY <1>0, <1>4 DEF TypeOK, ClientHas, NoSessionLeaked, ConnectInv, Running
  <2>3. LiveSessionKept'
    BY <1>0, <1>4 DEF TypeOK, ClientHas, LiveSessionKept, RefInv, ConnectInv
  <2>4. RefInv'
    BY <1>0, <1>4 DEF TypeOK, ClientHas, RefInv, ConnectInv, Running
  <2>5. LostInv'
    BY <1>0, <1>4 DEF TypeOK, ClientHas, LostInv, RefInv, ConnectInv, Running
  <2> QED
    BY <2>1, <2>2, <2>3, <2>4, <2>5
<1>5. ASSUME NEW d \in Dials, ClientJoins(d) PROVE Rest
  <2>1. ConnectInv'
    BY <1>0, <1>5 DEF TypeOK, ClientJoins, ConnectInv, Running
  <2>2. NoSessionLeaked'
    BY <1>0, <1>5 DEF TypeOK, ClientJoins, NoSessionLeaked, ConnectInv, Running
  <2>3. LiveSessionKept'
    BY <1>0, <1>5 DEF TypeOK, ClientJoins, LiveSessionKept, RefInv, ConnectInv
  <2>4. RefInv'
    BY <1>0, <1>5 DEF TypeOK, ClientJoins, RefInv, ConnectInv, Running
  <2>5. LostInv'
    BY <1>0, <1>5 DEF TypeOK, ClientJoins, LostInv, RefInv, ConnectInv, Running
  <2> QED
    BY <2>1, <2>2, <2>3, <2>4, <2>5
<1>6. ASSUME NEW d \in Dials, ClientConnects(d) PROVE Rest
  <2>1. ConnectInv'
    BY <1>0, <1>6 DEF TypeOK, ClientConnects, Unreferenced, ConnectInv, Running
  <2>2. NoSessionLeaked'
    BY <1>0, <1>6 DEF TypeOK, ClientConnects, Unreferenced, NoSessionLeaked, ConnectInv, Running
  <2>3. LiveSessionKept'
    BY <1>0, <1>6 DEF TypeOK, ClientConnects, Unreferenced, LiveSessionKept, RefInv, ConnectInv
  <2>4. RefInv'
    BY <1>0, <1>6 DEF TypeOK, ClientConnects, Unreferenced, RefInv, ConnectInv, Running
  <2>5. LostInv'
    BY <1>0, <1>6 DEF TypeOK, ClientConnects, Unreferenced, LostInv, RefInv, ConnectInv, Running
  <2> QED
    BY <2>1, <2>2, <2>3, <2>4, <2>5
<1>7. ASSUME NEW d \in Dials, WaitCancelled(d) PROVE Rest
  <2>1. ConnectInv'
    BY <1>0, <1>7 DEF TypeOK, WaitCancelled, Return, ConnectInv, Running
  <2>2. NoSessionLeaked'
    BY <1>0, <1>7 DEF TypeOK, WaitCancelled, Return, NoSessionLeaked, ConnectInv, Running
  <2>3. LiveSessionKept'
    BY <1>0, <1>7 DEF TypeOK, WaitCancelled, Return, LiveSessionKept, RefInv, ConnectInv
  <2>4. RefInv'
    BY <1>0, <1>7 DEF TypeOK, WaitCancelled, Return, RefInv, ConnectInv, Running
  <2>5. LostInv'
    BY <1>0, <1>7 DEF TypeOK, WaitCancelled, Return, LostInv, RefInv, ConnectInv, Running
  <2> QED
    BY <2>1, <2>2, <2>3, <2>4, <2>5
<1>8. ASSUME NEW d \in Dials, WaitHas(d) PROVE Rest
  <2>1. ConnectInv'
    BY <1>0, <1>8 DEF TypeOK, WaitHas, ConnectInv, Running
  <2>2. NoSessionLeaked'
    BY <1>0, <1>8 DEF TypeOK, WaitHas, NoSessionLeaked, ConnectInv, Running
  <2>3. LiveSessionKept'
    BY <1>0, <1>8 DEF TypeOK, WaitHas, LiveSessionKept, RefInv, ConnectInv
  <2>4. RefInv'
    BY <1>0, <1>8 DEF TypeOK, WaitHas, RefInv, ConnectInv, Running
  <2>5. LostInv'
    BY <1>0, <1>8 DEF TypeOK, WaitHas, LostInv, RefInv, ConnectInv, Running
  <2> QED
    BY <2>1, <2>2, <2>3, <2>4, <2>5
<1>9. ASSUME NEW d \in Dials, WaitFails(d) PROVE Rest
  <2>1. ConnectInv'
    BY <1>0, <1>9 DEF TypeOK, WaitFails, Return, ConnectInv, Running
  <2>2. NoSessionLeaked'
    BY <1>0, <1>9 DEF TypeOK, WaitFails, Return, NoSessionLeaked, ConnectInv, Running
  <2>3. LiveSessionKept'
    BY <1>0, <1>9 DEF TypeOK, WaitFails, Return, LiveSessionKept, RefInv, ConnectInv
  <2>4. RefInv'
    BY <1>0, <1>9 DEF TypeOK, WaitFails, Return, RefInv, ConnectInv, Running
  <2>5. LostInv'
    BY <1>0, <1>9 DEF TypeOK, WaitFails, Return, LostInv, RefInv, ConnectInv, Running
  <2> QED
    BY <2>1, <2>2, <2>3, <2>4, <2>5
<1>10. ASSUME NEW d \in Dials, WaitAgain(d) PROVE Rest
  <2>1. ConnectInv'
    BY <1>0, <1>10 DEF TypeOK, WaitAgain, ConnectInv, Running
  <2>2. NoSessionLeaked'
    BY <1>0, <1>10 DEF TypeOK, WaitAgain, NoSessionLeaked, ConnectInv, Running
  <2>3. LiveSessionKept'
    BY <1>0, <1>10 DEF TypeOK, WaitAgain, LiveSessionKept, RefInv, ConnectInv
  <2>4. RefInv'
    BY <1>0, <1>10 DEF TypeOK, WaitAgain, RefInv, ConnectInv, Running
  <2>5. LostInv'
    BY <1>0, <1>10 DEF TypeOK, WaitAgain, LostInv, RefInv, ConnectInv, Running
  <2> QED
    BY <2>1, <2>2, <2>3, <2>4, <2>5
<1>11. ASSUME NEW d \in Dials, OpenReturns(d) PROVE Rest
  <2>1. ConnectInv'
    BY <1>0, <1>11 DEF TypeOK, OpenReturns, Return, ConnectInv, Running
  <2>2. NoSessionLeaked'
    BY <1>0, <1>11 DEF TypeOK, OpenReturns, Return, NoSessionLeaked, ConnectInv, Running
  <2>3. LiveSessionKept'
    BY <1>0, <1>11 DEF TypeOK, OpenReturns, Return, LiveSessionKept, RefInv, ConnectInv
  <2>4. RefInv'
    BY <1>0, <1>11 DEF TypeOK, OpenReturns, Return, RefInv, ConnectInv, Running
  <2>5. LostInv'
    BY <1>0, <1>11 DEF TypeOK, OpenReturns, Return, LostInv, RefInv, ConnectInv, Running
  <2> QED
    BY <2>1, <2>2, <2>3, <2>4, <2>5
<1>12. ASSUME NEW d \in Dials, OpenGone(d) PROVE Rest
  <2>1. ConnectInv'
    BY <1>0, <1>12 DEF TypeOK, OpenGone, ConnectInv, Running
  <2>2. NoSessionLeaked'
    BY <1>0, <1>12 DEF TypeOK, OpenGone, NoSessionLeaked, ConnectInv, Running
  <2>3. LiveSessionKept'
    BY <1>0, <1>12 DEF TypeOK, OpenGone, LiveSessionKept, RefInv, ConnectInv
  <2>4. RefInv'
    BY <1>0, <1>12 DEF TypeOK, OpenGone, RefInv, ConnectInv, Running
  <2>5. LostInv'
    BY <1>0, <1>12 DEF TypeOK, OpenGone, LostInv, RefInv, ConnectInv, Running
  <2> QED
    BY <2>1, <2>2, <2>3, <2>4, <2>5
<1>13. ASSUME NEW d \in Dials, DialInvalidates(d) PROVE Rest
  <2>1. ConnectInv'
    BY <1>0, <1>13 DEF TypeOK, DialInvalidates, Invalidate, Return, ConnectInv, Running
  <2>2. NoSessionLeaked'
    BY <1>0, <1>13 DEF TypeOK, DialInvalidates, Invalidate, Return, NoSessionLeaked, ConnectInv, Running
  <2>3. LiveSessionKept'
    BY <1>0, <1>13 DEF TypeOK, DialInvalidates, Invalidate, Return, LiveSessionKept, RefInv, ConnectInv
  <2>4. RefInv'
    BY <1>0, <1>13 DEF TypeOK, DialInvalidates, Invalidate, Return, RefInv, ConnectInv, Running
  <2>5. LostInv'
    BY <1>0, <1>13 DEF TypeOK, DialInvalidates, Invalidate, Return, LostInv, RefInv, ConnectInv, Running
  <2> QED
    BY <2>1, <2>2, <2>3, <2>4, <2>5
<1>14. ASSUME NEW s \in Sessions, ConnectFails(s) PROVE Rest
  <2>1. ConnectInv'
    BY <1>0, <1>14 DEF TypeOK, ConnectFails, ConnectInv, Running
  <2>2. NoSessionLeaked'
    BY <1>0, <1>14 DEF TypeOK, ConnectFails, NoSessionLeaked, ConnectInv, Running
  <2>3. LiveSessionKept'
    BY <1>0, <1>14 DEF TypeOK, ConnectFails, LiveSessionKept, RefInv, ConnectInv
  <2>4. RefInv'
    BY <1>0, <1>14 DEF TypeOK, ConnectFails, RefInv, ConnectInv, Running
  <2>5. LostInv'
    BY <1>0, <1>14 DEF TypeOK, ConnectFails, LostInv, RefInv, ConnectInv, Running
  <2> QED
    BY <2>1, <2>2, <2>3, <2>4, <2>5
<1>15. ASSUME NEW s \in Sessions, ConnectOpens(s) PROVE Rest
  <2>1. ConnectInv'
    BY <1>0, <1>15 DEF TypeOK, ConnectOpens, ConnectInv, Running
  <2>2. NoSessionLeaked'
    BY <1>0, <1>15 DEF TypeOK, ConnectOpens, NoSessionLeaked, ConnectInv, Running
  <2>3. LiveSessionKept'
    BY <1>0, <1>15 DEF TypeOK, ConnectOpens, LiveSessionKept, RefInv, ConnectInv
  <2>4. RefInv'
    BY <1>0, <1>15 DEF TypeOK, ConnectOpens, RefInv, ConnectInv, Running
  <2>5. LostInv'
    BY <1>0, <1>15 DEF TypeOK, ConnectOpens, LostInv, RefInv, ConnectInv, Running
  <2> QED
    BY <2>1, <2>2, <2>3, <2>4, <2>5
<1>16. ASSUME NEW s \in Sessions, ConnectHooks(s) PROVE Rest
  <2>1. ConnectInv'
    BY <1>0, <1>16 DEF TypeOK, ConnectHooks, ConnectInv, Running
  <2>2. NoSessionLeaked'
    BY <1>0, <1>16 DEF TypeOK, ConnectHooks, NoSessionLeaked, ConnectInv, Running
  <2>3. LiveSessionKept'
    BY <1>0, <1>16 DEF TypeOK, ConnectHooks, LiveSessionKept, RefInv, ConnectInv
  <2>4. RefInv'
    BY <1>0, <1>16 DEF TypeOK, ConnectHooks, RefInv, ConnectInv, Running
  <2>5. LostInv'
    BY <1>0, <1>16 DEF TypeOK, ConnectHooks, LostInv, RefInv, ConnectInv, Running
  <2> QED
    BY <2>1, <2>2, <2>3, <2>4, <2>5
<1>17. ASSUME NEW s \in Sessions, ConnectInstalls(s) PROVE Rest
  <2>1. ConnectInv'
    BY <1>0, <1>17 DEF TypeOK, ConnectInstalls, ConnectInv, Running
  <2>2. NoSessionLeaked'
    BY <1>0, <1>17 DEF TypeOK, ConnectInstalls, NoSessionLeaked, ConnectInv, Running
  <2>3. LiveSessionKept'
    BY <1>0, <1>17 DEF TypeOK, ConnectInstalls, LiveSessionKept, RefInv, ConnectInv
  <2>4. RefInv'
    BY <1>0, <1>17 DEF TypeOK, ConnectInstalls, RefInv, ConnectInv, Running
  <2>5. LostInv'
    BY <1>0, <1>17 DEF TypeOK, ConnectInstalls, LostInv, RefInv, ConnectInv, Running
  <2> QED
    BY <2>1, <2>2, <2>3, <2>4, <2>5
<1>18. ASSUME NEW s \in Sessions, ConnectTooLate(s) PROVE Rest
  <2>1. ConnectInv'
    BY <1>0, <1>18 DEF TypeOK, ConnectTooLate, ConnectInv, Running
  <2>2. NoSessionLeaked'
    BY <1>0, <1>18 DEF TypeOK, ConnectTooLate, NoSessionLeaked, ConnectInv, Running
  <2>3. LiveSessionKept'
    BY <1>0, <1>18 DEF TypeOK, ConnectTooLate, LiveSessionKept, RefInv, ConnectInv
  <2>4. RefInv'
    BY <1>0, <1>18 DEF TypeOK, ConnectTooLate, RefInv, ConnectInv, Running
  <2>5. LostInv'
    BY <1>0, <1>18 DEF TypeOK, ConnectTooLate, LostInv, RefInv, ConnectInv, Running
  <2> QED
    BY <2>1, <2>2, <2>3, <2>4, <2>5
<1>19. ASSUME NEW s \in Sessions, ConnectDiscards(s) PROVE Rest
  <2>1. ConnectInv'
    BY <1>0, <1>19 DEF TypeOK, ConnectDiscards, Disconnect, ConnectInv, Running
  <2>2. NoSessionLeaked'
    BY <1>0, <1>19 DEF TypeOK, ConnectDiscards, Disconnect, NoSessionLeaked, ConnectInv, Running
  <2>3. LiveSessionKept'
    BY <1>0, <1>19 DEF TypeOK, ConnectDiscards, Disconnect, LiveSessionKept, RefInv, ConnectInv
  <2>4. RefInv'
    BY <1>0, <1>19 DEF TypeOK, ConnectDiscards, Disconnect, RefInv, ConnectInv, Running
  <2>5. LostInv'
    BY <1>0, <1>19 DEF TypeOK, ConnectDiscards, Disconnect, LostInv, RefInv, ConnectInv, Running
  <2> QED
    BY <2>1, <2>2, <2>3, <2>4, <2>5
<1>20. ASSUME NEW s \in Sessions, HookInvalidates(s) PROVE Rest
  <2>1. ConnectInv'
    BY <1>0, <1>20 DEF TypeOK, HookInvalidates, Invalidate, ConnectInv, Running
  <2>2. NoSessionLeaked'
    BY <1>0, <1>20 DEF TypeOK, HookInvalidates, Invalidate, NoSessionLeaked, ConnectInv, Running
  <2>3. LiveSessionKept'
    BY <1>0, <1>20 DEF TypeOK, HookInvalidates, Invalidate, LiveSessionKept, RefInv, ConnectInv
  <2>4. RefInv'
    BY <1>0, <1>20 DEF TypeOK, HookInvalidates, Invalidate, RefInv, ConnectInv, Running
  <2>5. LostInv'
    BY <1>0, <1>20 DEF TypeOK, HookInvalidates, Invalidate, LostInv, RefInv, ConnectInv, Running
  <2> QED
    BY <2>1, <2>2, <2>3, <2>4, <2>5
<1>21. ASSUME NEW s \in Sessions, RunCloseFn(s) PROVE Rest
  <2>1. ConnectInv'
    BY <1>0, <1>21 DEF TypeOK, RunCloseFn, Disconnect, ConnectInv, Running
  <2>2. NoSessionLeaked'
    BY <1>0, <1>21 DEF TypeOK, RunCloseFn, Disconnect, NoSessionLeaked, ConnectInv, Running
  <2>3. LiveSessionKept'
    BY <1>0, <1>21 DEF TypeOK, RunCloseFn, Disconnect, LiveSessionKept, RefInv, ConnectInv
  <2>4. RefInv'
    BY <1>0, <1>21 DEF TypeOK, RunCloseFn, Disconnect, RefInv, ConnectInv, Running
  <2>5. LostInv'
    BY <1>0, <1>21 DEF TypeOK, RunCloseFn, Disconnect, LostInv, RefInv, ConnectInv, Running
  <2> QED
    BY <2>1, <2>2, <2>3, <2>4, <2>5
<1>22. ASSUME NEW s \in Sessions, SessionDies(s) PROVE Rest
  <2>1. ConnectInv'
    BY <1>0, <1>22 DEF TypeOK, SessionDies, ConnectInv, Running
  <2>2. NoSessionLeaked'
    BY <1>0, <1>22 DEF TypeOK, SessionDies, NoSessionLeaked, ConnectInv, Running
  <2>3. LiveSessionKept'
    BY <1>0, <1>22 DEF TypeOK, SessionDies, LiveSessionKept, RefInv, ConnectInv
  <2>4. RefInv'
    BY <1>0, <1>22 DEF TypeOK, SessionDies, RefInv, ConnectInv, Running
  <2>5. LostInv'
    BY <1>0, <1>22 DEF TypeOK, SessionDies, LostInv, RefInv, ConnectInv, Running
  <2> QED
    BY <2>1, <2>2, <2>3, <2>4, <2>5
<1>23. ASSUME Close PROVE Rest
  <2>1. ConnectInv'
    BY <1>0, <1>23 DEF TypeOK, Close, ConnectInv, Running
  <2>2. NoSessionLeaked'
    BY <1>0, <1>23 DEF TypeOK, Close, NoSessionLeaked, ConnectInv, Running
  <2>3. LiveSessionKept'
    BY <1>0, <1>23 DEF TypeOK, Close, LiveSessionKept, RefInv, ConnectInv
  <2>4. RefInv'
    BY <1>0, <1>23 DEF TypeOK, Close, RefInv, ConnectInv, Running
  <2>5. LostInv'
    BY <1>0, <1>23 DEF TypeOK, Close, LostInv, RefInv, ConnectInv, Running
  <2> QED
    BY <2>1, <2>2, <2>3, <2>4, <2>5
<1>24. ASSUME UNCHANGED vars PROVE Rest
  BY <1>24 DEF vars, ConnectInv, NoSessionLeaked, LiveSessionKept, RefInv, LostInv
<1> QED
  BY <1>0, <1>1, <1>2, <1>3, <1>4, <1>5, <1>6, <1>7, <1>8, <1>9, <1>10, <1>11, <1>12, <1>13, <1>14, <1>15, <1>16, <1>17, <1>18, <1>19, <1>20, <1>21, <1>22, <1>23, <1>24
     DEF Next, DialStep, SessionStep, ConnectStep
-----------------------------------------------------------------------------
LEMMA Invariant == Spec => []LInv
<1>1. LInv /\ UNCHANGED vars => LInv'
  BY StepLInv
<1> QED
  BY InitLInv, StepLInv, PTL DEF Spec

\* Every field of LazySSH and every local of its goroutines keeps its type.
THEOREM TypeCorrect == Spec => []TypeOK
<1>1. LInv => TypeOK
  BY DEF LInv
<1> QED
  BY <1>1, Invariant, PTL

\* The connects of a tab never run side by side, nor beside its client.
THEOREM SingleFlight == Spec => []OneConnect
<1>1. LInv => OneConnect
  BY DEF LInv, ConnectInv, OneConnect, Running
<1> QED
  BY <1>1, Invariant, PTL

\* A live session is the tab's, on its way into it, or about to be closed,
\* whatever Close, Invalidate and a late connect do in between.
THEOREM NothingLeaks == Spec => []NoSessionLeaked
<1>1. LInv => NoSessionLeaked
  BY DEF LInv
<1> QED
  BY <1>1, Invariant, PTL

\* A report about an older session never closes the one in use.
THEOREM StaleReportIgnored == Spec => []LiveSessionKept
<1>1. LInv => LiveSessionKept
  BY DEF LInv
<1> QED
  BY <1>1, Invariant, PTL

\* The retry of a dial is never made on the session its first attempt lost.
THEOREM RetryIsFresh == Spec => []HealsOnNextDial
<1>1. LInv => HealsOnNextDial
  BY DEF LInv, LostInv, HealsOnNextDial
<1> QED
  BY <1>1, Invariant, PTL
=============================================================================
