------------------------------ MODULE Tunnels -------------------------------
(***************************************************************************)
(* The standing tunnel of a connection (app_tunnels.go): a session without *)
(* a shell that is kept up for its forwards, next to the terminals of the  *)
(* same connection (Sessions).                                             *)
(*                                                                         *)
(* The map has one tunnelEntry for the connection or none ("stopped").  An *)
(* entry's stop channel is closed when it leaves the map, so a loop whose  *)
(* stop is open serves the current entry, and no other loop's view of an   *)
(* entry matters.                                                          *)
(***************************************************************************)
EXTENDS Sessions

CONSTANTS
    Loops       \* identities of goroutines in tunnelConnectLoop

VARIABLES
    tun,        \* tunnels[connection]
    lp,         \* the loops
    stopping,   \* sessions TunnelStop is about to disconnect
    autostarted, \* tunnelsAutostarted
    launching   \* TunnelsAutostart is about to start what it listed

tunVars == <<tun, lp, stopping, autostarted, launching>>
vars == <<sessVars, tunVars>>

TunnelType ==
    [state : {"stopped", "connecting", "connected", "reconnecting", "error"},
     sess : Sessions \cup {None},
     vaultLocked : BOOLEAN]

\* tunnelConnectLoop: wait for a delay, connect, opening (the rest of
\* sshConnectWith), list and start (its forwards), mark (connected or not),
\* drop (disconnect what nobody wants).
LoopType == [pc : {"idle", "wait", "connect", "opening", "list", "start", "mark", "drop"},
             stop : BOOLEAN, sess : Sessions \cup {None}, patient : BOOLEAN]

Stopped == [state |-> "stopped", sess |-> None, vaultLocked |-> FALSE]
IdleLoop == [pc |-> "idle", stop |-> FALSE, sess |-> None, patient |-> FALSE]

Init ==
    /\ SessInit
    /\ tun = Stopped
    /\ lp = [l \in Loops |-> IdleLoop]
    /\ stopping = {}
    /\ autostarted = FALSE /\ launching = FALSE
-----------------------------------------------------------------------------
\* tunnelHoldsForwards.
Holds == tun.state \notin {"stopped", "error"}

\* The entry leaves the map and its stop channel is closed.
CloseStop ==
    [l \in Loops |-> IF lp[l].pc = "idle" THEN lp[l] ELSE [lp[l] EXCEPT !.stop = TRUE]]

\* A goroutine starts tunnelConnectLoop.
Spawns(loops, pc, patient) ==
    \E l \in Loops :
        /\ lp[l].pc = "idle"
        /\ lp' = [loops EXCEPT ![l] = [IdleLoop EXCEPT !.pc = pc, !.patient = patient]]

\* tunnelStart: nothing to do if one is up or on its way, else a new entry.
\* A patient start (at launch) goes on trying.
TunnelStart(patient) ==
    /\ ~Holds
    /\ tun' = [Stopped EXCEPT !.state = "connecting"]
    /\ Spawns(CloseStop, "connect", patient)
    /\ UNCHANGED <<sessVars, stopping>>

ByHand == TunnelStart(FALSE) /\ UNCHANGED <<autostarted, launching>>

\* TunnelsAutostart lists the tunnels: at first those that are stopped, later
\* only those that failed on a locked vault.
Autostart ==
    /\ autostarted' = TRUE
    /\ launching' = \/ launching
                    \/ IF autostarted THEN tun.state = "error" /\ tun.vaultLocked
                                      ELSE tun.state = "stopped"
    /\ UNCHANGED <<sessVars, tun, lp, stopping>>

\* It then starts what it listed, whatever has become of it since.
AutostartStarts ==
    /\ launching /\ launching' = FALSE
    /\ IF Holds THEN UNCHANGED <<sessVars, tun, lp, stopping>> ELSE TunnelStart(TRUE)
    /\ UNCHANGED autostarted

\* TunnelStop takes the entry out under the lock; the connect it cancels may
\* fail anyway (LoopFails).
TunnelStop ==
    /\ tun.state # "stopped"
    /\ tun' = Stopped
    /\ lp' = CloseStop
    /\ stopping' = stopping \cup ({tun.sess} \ {None})
    /\ UNCHANGED <<sessVars, autostarted, launching>>

\* Then it disconnects the session the entry had.
StopDisconnects(s) ==
    /\ s \in stopping
    /\ stopping' = stopping \ {s}
    /\ Disconnects(s)
    /\ UNCHANGED <<tun, lp, autostarted, launching>>
-----------------------------------------------------------------------------
(* tunnelConnectLoop.                                                      *)

LoopReturns(l) == lp' = [lp EXCEPT ![l] = IdleLoop]

\* The entry is not current any more: stop was closed.
LoopStopped(l) ==
    /\ lp[l].pc = "wait" /\ lp[l].stop
    /\ LoopReturns(l)
    /\ UNCHANGED <<sessVars, tun, stopping, autostarted, launching>>

\* The delay is over.
LoopTries(l) ==
    /\ lp[l].pc = "wait"
    /\ lp' = [lp EXCEPT ![l].pc = "connect"]
    /\ UNCHANGED <<sessVars, tun, stopping, autostarted, launching>>

\* The connect fails: for good (a login, a host key, a cancel), on a locked
\* vault, or because the network or the server is away.
LoopFails(l) ==
    /\ lp[l].pc = "connect"
    /\ \/ lp[l].stop /\ LoopReturns(l) /\ UNCHANGED tun
       \/ \E locked \in BOOLEAN :
          /\ ~lp[l].stop
          /\ tun' = [tun EXCEPT !.state = "error", !.vaultLocked = locked]
          /\ LoopReturns(l)
       \/ /\ ~lp[l].stop /\ lp[l].patient
          /\ tun' = [tun EXCEPT !.state = "reconnecting", !.vaultLocked = FALSE]
          /\ lp' = [lp EXCEPT ![l].pc = "wait"]
    /\ UNCHANGED <<sessVars, stopping, autostarted, launching>>

LoopOpens(l, s) ==
    /\ lp[l].pc = "connect"
    /\ Opens(s, "tunnel")
    /\ lp' = [lp EXCEPT ![l].pc = "opening", ![l].sess = s]
    /\ UNCHANGED <<claims, kept, rc, tun, stopping, autostarted, launching>>

Mut_NoCurrentCheck(l) ==
    LET s == lp[l].sess IN
    /\ lp[l].pc = "opening" /\ ss[s].opening = "returned"
    /\ ss' = [ss EXCEPT ![s].opening = "done"]
    /\ tun' = IF lp[l].stop THEN tun ELSE [tun EXCEPT !.sess = s]
    /\ lp' = [lp EXCEPT ![l].pc = "list"]
    /\ UNCHANGED <<pool, claims, fwdVars, kept, rc, stopping, autostarted, launching>>

Mut_NoPoolCheck(l) ==
    LET s == lp[l].sess IN
    /\ lp[l].pc = "opening" /\ ss[s].opening = "returned"
    /\ ss' = [ss EXCEPT ![s].opening = "done"]
    /\ \/ lp[l].stop /\ lp' = [lp EXCEPT ![l].pc = "drop"] /\ UNCHANGED tun
       \/ /\ ~lp[l].stop
          /\ tun' = [tun EXCEPT !.sess = s]
          /\ lp' = [lp EXCEPT ![l].pc = "list"]
    /\ UNCHANGED <<pool, claims, fwdVars, kept, rc, stopping, autostarted, launching>>

\* Back with a session, under the lock: stopped meanwhile; or the session is
\* gone already; or it is the tunnel's from now on.
LoopChecks(l) ==
    LET s == lp[l].sess IN
    /\ lp[l].pc = "opening" /\ ss[s].opening = "returned"
    /\ ss' = [ss EXCEPT ![s].opening = "done"]
    /\ \/ lp[l].stop /\ lp' = [lp EXCEPT ![l].pc = "drop"] /\ UNCHANGED tun
       \/ /\ ~lp[l].stop /\ s \notin pool
          /\ tun' = [tun EXCEPT !.state = "reconnecting"]
          /\ lp' = [lp EXCEPT ![l].pc = "wait", ![l].sess = None]
       \/ /\ ~lp[l].stop /\ s \in pool
          /\ tun' = [tun EXCEPT !.sess = s]
          /\ lp' = [lp EXCEPT ![l].pc = "list"]
    /\ UNCHANGED <<pool, claims, fwdVars, kept, rc, stopping, autostarted, launching>>

LoopDrops(l) ==
    /\ lp[l].pc = "drop"
    /\ Disconnects(lp[l].sess)
    /\ LoopReturns(l)
    /\ UNCHANGED <<tun, stopping, autostarted, launching>>

\* forwardsAutoStartFor: its own lookup may come right after the one under the
\* lock, so the session need not be in the pool when it lists what runs, ...
LoopLists(l) ==
    LET s == lp[l].sess
        F == NotRunning(Specs) IN
    /\ lp[l].pc = "list"
    /\ ss' = [ss EXCEPT ![s].todo = F]
    /\ lp' = [lp EXCEPT ![l].pc = IF F = {} THEN "mark" ELSE "start"]
    /\ UNCHANGED <<pool, claims, fwdVars, kept, rc, tun, stopping, autostarted, launching>>

\* ... and it starts the rest, one by one; a start fails, or all do as the
\* session had left the pool.
LoopStarts(l) ==
    LET s == lp[l].sess IN
    /\ lp[l].pc = "start"
    /\ \E f \in ss[s].todo, ok \in BOOLEAN :
          /\ StartForward(f, s, ok)
          /\ ss' = [ss EXCEPT ![s].todo = @ \ {f}]
          /\ lp' = [lp EXCEPT ![l].pc = IF ss[s].todo = {f} THEN "mark" ELSE @]
    /\ UNCHANGED <<pool, claims, kept, rc, tun, stopping, autostarted, launching>>

Mut_MarksOnly(l) ==
    /\ lp[l].pc = "mark"
    /\ tun' = IF ~lp[l].stop /\ tun.sess = lp[l].sess
              THEN [tun EXCEPT !.state = "connected", !.vaultLocked = FALSE] ELSE tun
    /\ LoopReturns(l)
    /\ UNCHANGED <<sessVars, stopping, autostarted, launching>>

\* Connected, unless the tunnel was stopped or its session dropped meanwhile.
\* A hook that has stopped the forwards twice and waits for the lock comes
\* too late for those of this loop.
LoopMarks(l) ==
    LET s == lp[l].sess IN
    /\ lp[l].pc = "mark"
    /\ \/ /\ ~lp[l].stop /\ tun.sess = s
          /\ tun' = [tun EXCEPT !.state = "connected", !.vaultLocked = FALSE]
          /\ ss' = IF ss[s].life = "again" THEN [ss EXCEPT ![s].late = @ \cup {"start"}]
                   ELSE ss
          /\ UNCHANGED fwdVars
       \/ /\ lp[l].stop \/ tun.sess # s
          /\ StopAllForSession(s)
          /\ UNCHANGED <<tun, ss>>
    /\ LoopReturns(l)
    /\ UNCHANGED <<pool, claims, kept, rc, stopping, autostarted, launching>>
-----------------------------------------------------------------------------
(* The close hook of a tunnel's session (tunnelSessionClosed).             *)

\* It stops the session's forwards a second time, ...
HookStopsAgain(s) ==
    /\ ss[s].life = "removed"
    /\ ss' = [ss EXCEPT ![s].life = "again"]
    /\ StopAllForSession(s)
    /\ UNCHANGED <<pool, claims, kept, rc, tunVars>>

Mut_AnySession(s) ==
    /\ ss[s].life = "again"
    /\ ss' = [ss EXCEPT ![s] = Over(s)]
    /\ IF Holds /\ ~ss[s].byUser
       THEN /\ tun' = [tun EXCEPT !.state = "reconnecting", !.sess = None]
            /\ Spawns(lp, "wait", TRUE)
       ELSE UNCHANGED <<tun, lp>>
    /\ UNCHANGED <<pool, claims, fwdVars, kept, rc, stopping, autostarted, launching>>

\* ... and, if the session is the tunnel's, ends the tunnel or brings it back.
HookTunnel(s) ==
    /\ ss[s].life = "again"
    /\ ss' = [ss EXCEPT ![s] = Over(s)]
    /\ \/ tun.sess # s /\ UNCHANGED <<tun, lp>>
       \/ /\ tun.sess = s /\ ss[s].byUser
          /\ tun' = Stopped /\ lp' = CloseStop
       \/ /\ tun.sess = s /\ ~ss[s].byUser
          /\ tun' = [tun EXCEPT !.state = "reconnecting", !.sess = None]
          /\ Spawns(lp, "wait", TRUE)
    /\ UNCHANGED <<pool, claims, fwdVars, kept, rc, stopping, autostarted, launching>>
-----------------------------------------------------------------------------
\* Sessions the tunnel's side still refers to: their identity is taken.
Referred == stopping \cup {tun.sess} \cup {lp[l].sess : l \in Loops}

LoopStep(l) ==
    \/ LoopStopped(l) \/ LoopTries(l) \/ LoopFails(l) \/ LoopChecks(l)
    \/ LoopDrops(l) \/ LoopLists(l) \/ LoopStarts(l) \/ LoopMarks(l)
    \/ \E s \in Sessions \ Referred : LoopOpens(l, s)

Next ==
    \/ \E s \in Sessions : (SessStep(s, Holds) \/ SessEnv(s)) /\ UNCHANGED tunVars
    \/ \E s \in Sessions \ Referred :
        /\ OpenTerminal(s) \/ \E o \in Sessions : RcOpens(o, s)
        /\ UNCHANGED tunVars
    \/ \E s \in Sessions : StopDisconnects(s) \/ HookStopsAgain(s) \/ HookTunnel(s)
    \/ \E l \in Loops : LoopStep(l)
    \/ ByHand \/ Autostart \/ AutostartStarts \/ TunnelStop

Spec == Init /\ [][Next]_vars
-----------------------------------------------------------------------------
TypeOK ==
    /\ ss \in [Sessions -> SessionType] /\ rc \in [Sessions -> RcType]
    /\ pool \subseteq Sessions /\ claims \subseteq Sessions
    /\ forwards \in [Specs -> Sessions \cup {None}]
    /\ bySess \in [Sessions -> SUBSET Specs] /\ orphans \subseteq Specs
    /\ kept \in [Sessions -> SUBSET Specs]
    /\ tun \in TunnelType /\ lp \in [Loops -> LoopType]
    /\ stopping \subseteq Sessions /\ autostarted \in BOOLEAN /\ launching \in BOOLEAN

\* The loops that work for the tunnel as it is now.
Serving ==
    {l \in Loops : /\ lp[l].pc # "idle" /\ ~lp[l].stop
                   /\ lp[l].pc \in {"list", "start", "mark"} => lp[l].sess = tun.sess}

\* "A tunnel is meant to stay up": a tunnel that is on its way up has one
\* loop working on it, and one that is up, stopped or failed has none, however
\* drops, late hooks, stops and starts fall between its steps.
OneLoop ==
    Cardinality(Serving) = IF tun.state \in {"connecting", "reconnecting"} THEN 1 ELSE 0

\* s is up, or its hook is on its way to the tunnel.
UpOrHooked(s) == ss[s].life \in {"live", "due", "stopped", "removed", "again"}

\* "Checked under tunnelsMu, so a close after this point finds the id set and
\* reconnects": a tunnel that shows as connected has a live session, or that
\* session's hook is about to bring it back.  The exception is a session that
\* ended before SetOnClose: it has no hook.
ConnectedIsUp ==
    tun.state = "connected" => UpOrHooked(tun.sess) \/ "hook" \in ss[tun.sess].late

\* "Stopped while connecting: drop what we just opened": a live tunnel
\* session is the tunnel's, or a loop has it in hand, or TunnelStop is about
\* to disconnect it.
NoStraySession ==
    \A s \in Sessions : ss[s].kind = "tunnel" /\ ss[s].life = "live" =>
        \/ tun.sess = s
        \/ s \in stopping
        \/ \E l \in Loops : lp[l].sess = s /\ lp[l].pc \in {"opening", "drop"}

\* "so we don't leak listeners pointing at a dead SSH client": a forward's
\* session is alive, or a hook or the tunnel's loop has yet to stop it, and
\* no listener of a fixed port is lost from byID (NoOrphan is about the rest).
\* The exceptions are exactly the starts the hook comes too early for (late).
NoDeadListener ==
    /\ \A f \in Specs : LET s == forwards[f] IN s # None =>
        \/ ss[s].life \in {"live", "due"}
        \/ ss[s].kind = "tunnel" /\ ss[s].life \in {"stopped", "removed"}
        \/ \E l \in Loops : lp[l].sess = s /\ lp[l].pc \in {"start", "mark"}
        \/ "start" \in ss[s].late \/ "hook" \in ss[s].late
    /\ orphans \subseteq AutoPorts

\* "a spec already running in another session of this connection ... must not
\* start twice: the second start replaces the first in the pool and orphans
\* its listener" (forwardsAutoStartFor): no listener is out of byID's reach.
NoOrphan == orphans = {}

\* A session that is gone gives up its claim on the VPN tunnel, unless it
\* claimed the tunnel after its hook had run.
ClaimsEnd ==
    \A s \in claims :
        ss[s].life \in {"live", "due", "stopped"} \/ "claim" \in ss[s].late
=============================================================================
