------------------------------ MODULE Sessions ------------------------------
(***************************************************************************)
(* The life of the SSH sessions of one saved connection: the connect       *)
(* (sshConnectWith in app.go), the close hook it hangs on the session, the *)
(* session pool, the port forwards, the claims that keep a VPN tunnel up,  *)
(* and the auto-reconnect of a terminal.  Tunnels adds the standing tunnel *)
(* of the connection.                                                      *)
(*                                                                         *)
(* A session's transport may end at any point of all this.  Its wait       *)
(* goroutine then runs the close hook that is set by that time.            *)
(***************************************************************************)
EXTENDS Naturals, FiniteSets

CONSTANTS
    Sessions,       \* identities of sessions, used again once forgotten
    Specs,          \* the connection's saved forwards
    AutoPorts,      \* those a second listener can open for beside the first:
                    \* without a fixed port, which the first one would hold
    ViaVPN,         \* the connection goes through a VPN profile
    None,           \* no session
    MaxAttempts,    \* reconnect_max_attempts
    MaxTerminals    \* bound: terminals the user has open, lost ones included

ASSUME SessionAssumption ==
    /\ None \notin Sessions /\ ViaVPN \in BOOLEAN /\ AutoPorts \subseteq Specs
    /\ MaxAttempts \in Nat \ {0} /\ MaxTerminals \in Nat

VARIABLES
    ss,         \* the sessions: see SessionType
    pool,       \* Pool.sessions
    claims,     \* wgSessProfile: sessions that hold the VPN tunnel
    forwards,   \* ForwardPool.byID: the session a forward listens for
    bySess,     \* ForwardPool.bySess
    orphans,    \* observer: forwards with an open listener that byID has lost
    kept,       \* reconnectForwards, by lost session
    rc          \* the reconnect loop of a lost session

fwdVars == <<forwards, bySess, orphans>>
sessVars == <<ss, pool, claims, fwdVars, kept, rc>>

\* How far sshConnectWith has come with the session.
Openings ==
    {"added", "hooked", "listing", "starting", "started", "returned", "done"}

\* none: not there (yet, or any more); missed: it ended before it had a hook;
\* due ... again: it ended, and the hook's next step is to stop its forwards,
\* leave the pool, stop them again and (a tunnel's) tell the tunnel.
Lives == {"none", "live", "missed", "due", "stopped", "removed", "again"}

SessionType ==
    [kind : {"term", "tunnel"}, life : Lives, opening : Openings,
     user : BOOLEAN,        \* userInitiatedClose
     byUser : BOOLEAN,      \* the hook's userInit
     todo : SUBSET Specs,   \* what is to start and was seen running nowhere
     late : SUBSET {"hook", "start", "claim"}]
         \* observer: the hook was set, a forward started or the VPN claimed
         \* after the hook's turn for it

RcType == [pc : {"idle", "wait", "connect", "opening", "list", "register"},
           new : Sessions \cup {None}, tries : 0..MaxAttempts, cancelled : BOOLEAN]

NoSession == [kind |-> "term", life |-> "none", opening |-> "done",
              user |-> FALSE, byUser |-> FALSE, todo |-> {}, late |-> {}]
NoLoop == [pc |-> "idle", new |-> None, tries |-> 0, cancelled |-> FALSE]

SessInit ==
    /\ ss = [s \in Sessions |-> NoSession]
    /\ pool = {} /\ claims = {}
    /\ forwards = [f \in Specs |-> None]
    /\ bySess = [s \in Sessions |-> {}] /\ orphans = {}
    /\ kept = [s \in Sessions |-> {}]
    /\ rc = [s \in Sessions |-> NoLoop]
-----------------------------------------------------------------------------
\* Nothing in the registries, no goroutine and no loop knows s.
Forgotten(s) ==
    /\ s \notin pool \cup claims
    /\ \A f \in Specs : forwards[f] # s
    /\ ss[s].life = "none" /\ ss[s].opening = "done"
    /\ rc[s].pc = "idle"
    /\ \A o \in Sessions : rc[o].new # s

\* ForwardPool.StopAllForSession stops what byID holds under the session's
\* ids, whichever session that is by now, and takes it from that one's set.
StopAllForSession(s) ==
    /\ forwards' = [f \in Specs |-> IF f \in bySess[s] THEN None ELSE forwards[f]]
    /\ bySess' = [o \in Sessions |->
                     bySess[o] \ {f \in bySess[s] : forwards[f] = o}]
    /\ UNCHANGED orphans

\* ForwardPool.List: what runs in no session.
NotRunning(F) == {f \in F : forwards[f] = None}

\* register overwrites what byID holds: nothing can stop that listener any more.
Register(f, s) ==
    /\ forwards' = [forwards EXCEPT ![f] = s]
    /\ bySess' = [bySess EXCEPT ![s] = @ \cup {f}]
    /\ orphans' = IF forwards[f] = None THEN orphans ELSE orphans \cup {f}

\* startForwardFor: a listener opens, unless its port is taken, and is
\* registered; or the start fails.
StartForward(f, s, ok) ==
    IF ok
    THEN /\ f \in AutoPorts \/ (forwards[f] = None /\ f \notin orphans)
         /\ Register(f, s)
    ELSE UNCHANGED fwdVars

\* Connect returned a session: its meta is stored and it joins the pool.
Opens(s, kind) ==
    /\ Forgotten(s)
    /\ ss' = [ss EXCEPT ![s] = [NoSession EXCEPT !.kind = kind, !.life = "live",
                                                 !.opening = "added"]]
    /\ pool' = pool \cup {s}
    /\ bySess' = [bySess EXCEPT ![s] = {}]
    /\ UNCHANGED <<forwards, orphans>>

\* SetOnClose stores the hook, also for a session that is gone.  A tunnel's
\* session starts no forwards here.
Hooked(s) ==
    /\ ss[s].opening = "added"
    /\ ss' = [ss EXCEPT ![s].opening =
                  IF ss[s].kind = "term" THEN "hooked" ELSE "started"]
    /\ UNCHANGED <<pool, claims, fwdVars, kept, rc>>

\* A terminal's forwards, unless the tunnel holds them: forwardsAutoStartFor
\* looks the session up, ...
LooksUp(s, holds) ==
    /\ ss[s].opening = "hooked"
    /\ ss' = [ss EXCEPT ![s].opening =
                  IF ~holds /\ s \in pool THEN "listing" ELSE "started"]
    /\ UNCHANGED <<pool, claims, fwdVars, kept, rc>>

\* ... lists what runs, under the pool's lock, ...
Lists(s) ==
    /\ ss[s].opening = "listing"
    /\ ss' = [ss EXCEPT ![s].todo = NotRunning(Specs), ![s].opening =
                  IF NotRunning(Specs) = {} THEN "started" ELSE "starting"]
    /\ UNCHANGED <<pool, claims, fwdVars, kept, rc>>

\* A forward that starts after the hook stopped the session's is nobody's.
Late(s, ok) == IF ~ok \/ ss[s].life \in {"live", "due"} THEN {} ELSE {"start"}

\* ... and starts what did not, one by one, whatever runs by then.  A forward
\* that does not start by itself is one whose start fails.
Starts(s) ==
    /\ ss[s].opening = "starting"
    /\ \E f \in ss[s].todo, ok \in BOOLEAN :
          /\ StartForward(f, s, ok)
          /\ ss' = [ss EXCEPT ![s].todo = @ \ {f}, ![s].late = @ \cup Late(s, ok),
                              ![s].opening = IF ss[s].todo = {f} THEN "started" ELSE @]
    /\ UNCHANGED <<pool, claims, kept, rc>>

\* A loop waits for the connect of s to return.
Awaited(s) == ss[s].kind = "tunnel" \/ \E o \in Sessions : rc[o].new = s

\* wgTrackSession: a session through a VPN claims its tunnel, and the connect
\* returns.
Tracks(s) ==
    /\ ss[s].opening = "started"
    /\ claims' = IF ViaVPN THEN claims \cup {s} ELSE claims
    /\ ss' = [ss EXCEPT ![s].opening = IF Awaited(s) THEN "returned" ELSE "done",
                        ![s].late = IF ~ViaVPN \/ ss[s].life \in {"live", "due", "stopped"}
                                    THEN @ ELSE @ \cup {"claim"}]
    /\ UNCHANGED <<pool, fwdVars, kept, rc>>
-----------------------------------------------------------------------------
(* The end of a session.                                                   *)

\* closedOnce: the hook of now is the one that runs.
Ends(s, user) ==
    IF ss[s].opening = "added"
    THEN [ss EXCEPT ![s].life = "missed", ![s].late = {"hook"}]
    ELSE [ss EXCEPT ![s].life = "due", ![s].user = user]

\* The server, the network or the keepalive ends it.
Dies(s) ==
    /\ ss[s].life = "live"
    /\ ss' = Ends(s, FALSE)
    /\ UNCHANGED <<pool, claims, fwdVars, kept, rc>>

\* What is left of s when its hook has run or there was none.
Over(s) == [NoSession EXCEPT !.kind = ss[s].kind, !.opening = ss[s].opening,
                             !.todo = ss[s].todo, !.late = ss[s].late]

\* SshDisconnect.  Of two that use closedOnce the second waits for the first,
\* so what is left to remove is only a session that had no hook.
Disconnects(s) ==
    /\ \/ s \notin pool /\ UNCHANGED <<ss, pool, fwdVars>>
       \/ /\ s \in pool /\ ss[s].life = "live"
          /\ ss' = Ends(s, TRUE)
          /\ StopAllForSession(s) /\ UNCHANGED pool
       \/ /\ s \in pool /\ ss[s].life = "missed"
          /\ ss' = [ss EXCEPT ![s] = Over(s)]
          /\ StopAllForSession(s) /\ pool' = pool \ {s}
       \/ /\ s \in pool /\ ss[s].life = "due"
          /\ ss' = [ss EXCEPT ![s].user = TRUE]
          /\ StopAllForSession(s) /\ UNCHANGED pool
       \/ /\ s \in pool /\ ss[s].life = "stopped" /\ UNCHANGED ss
          /\ StopAllForSession(s) /\ UNCHANGED pool
    /\ UNCHANGED <<claims, kept, rc>>

\* The hook notes who ended the session, remembers what was running if it is
\* to come back (a tunnel's list is dropped unread), and stops its forwards.
HookStops(s) ==
    /\ ss[s].life = "due"
    /\ ss' = [ss EXCEPT ![s].life = "stopped", ![s].user = FALSE,
                        ![s].byUser = ss[s].user]
    /\ kept' = IF ss[s].user \/ ss[s].kind = "tunnel" THEN kept
               ELSE [kept EXCEPT ![s] = {f \in Specs : forwards[f] = s}]
    /\ StopAllForSession(s)
    /\ UNCHANGED <<pool, claims, rc>>

Mut_KeepsClaim(s) ==
    /\ ss[s].life = "stopped" /\ ss[s].kind = "term"
    /\ pool' = pool \ {s}
    /\ ss' = [ss EXCEPT ![s] = Over(s)]
    /\ UNCHANGED <<claims, fwdVars, kept, rc>>

\* It leaves the pool and gives up its claim.  A terminal's hook ends by
\* starting the reconnect loop (spawnReconnect).
HookRemoves(s) ==
    /\ ss[s].life = "stopped"
    /\ pool' = pool \ {s} /\ claims' = claims \ {s}
    /\ \/ /\ ss[s].kind = "tunnel"
          /\ ss' = [ss EXCEPT ![s].life = "removed"]
          /\ UNCHANGED rc
       \/ /\ ss[s].kind = "term"
          /\ ss' = [ss EXCEPT ![s] = Over(s)]
          /\ rc' = IF ss[s].byUser THEN rc
                   ELSE [rc EXCEPT ![s] = [NoLoop EXCEPT !.pc = "wait"]]
    /\ UNCHANGED <<fwdVars, kept>>
-----------------------------------------------------------------------------
(* A terminal is opened, and opened again by its reconnect loop.           *)

\* A terminal session that is there, or that a reconnect loop works for.
IsTerminal(s) == ss[s].kind = "term" /\ (ss[s].life # "none" \/ rc[s].pc # "idle")

OpenTerminal(s) ==
    /\ Cardinality({o \in Sessions : IsTerminal(o)}) < MaxTerminals
    /\ Opens(s, "term")
    /\ UNCHANGED <<claims, kept, rc>>

SshCancelReconnect(o) ==
    /\ rc[o].pc # "idle" /\ ~rc[o].cancelled
    /\ rc' = [rc EXCEPT ![o].cancelled = TRUE]
    /\ UNCHANGED <<ss, pool, claims, fwdVars, kept>>

\* The loop returns: what it remembered is dropped.
RcDone(o) ==
    /\ rc' = [rc EXCEPT ![o] = NoLoop]
    /\ kept' = [kept EXCEPT ![o] = {}]

RcCancelled(o) ==
    /\ rc[o].pc = "wait" /\ rc[o].cancelled
    /\ RcDone(o)
    /\ UNCHANGED <<ss, pool, claims, fwdVars>>

\* The delay is over; with a cancel at hand select takes either.
RcTries(o) ==
    /\ rc[o].pc = "wait"
    /\ rc' = [rc EXCEPT ![o].pc = "connect", ![o].tries = @ + 1]
    /\ UNCHANGED <<ss, pool, claims, fwdVars, kept>>

RcFails(o) ==
    /\ rc[o].pc = "connect"
    /\ \/ /\ rc[o].tries < MaxAttempts
          /\ rc' = [rc EXCEPT ![o].pc = "wait"]
          /\ UNCHANGED kept
       \/ rc[o].tries = MaxAttempts /\ RcDone(o)
    /\ UNCHANGED <<ss, pool, claims, fwdVars>>

RcOpens(o, s) ==
    /\ rc[o].pc = "connect"
    /\ Opens(s, "term")
    /\ rc' = [rc EXCEPT ![o].pc = "opening", ![o].new = s]
    /\ UNCHANGED <<claims, kept>>

\* restoreForwardsOnReconnect takes what ran at the drop and, if that is
\* anything, looks the new session up, ...
RcRestores(o) ==
    LET s == rc[o].new IN
    /\ rc[o].pc = "opening" /\ ss[s].opening = "returned"
    /\ \/ /\ kept[o] # {} /\ s \in pool
          /\ ss' = [ss EXCEPT ![s].opening = "done", ![s].todo = kept[o]]
          /\ rc' = [rc EXCEPT ![o].pc = "list"]
          /\ kept' = [kept EXCEPT ![o] = {}]
       \/ /\ kept[o] = {} \/ s \notin pool
          /\ ss' = [ss EXCEPT ![s].opening = "done"]
          /\ RcDone(o)
    /\ UNCHANGED <<pool, claims, fwdVars>>

\* ... lists what runs already ...
RcLists(o) ==
    LET s == rc[o].new
        F == NotRunning(ss[s].todo) IN
    /\ rc[o].pc = "list"
    /\ ss' = [ss EXCEPT ![s].todo = F]
    /\ IF F = {} THEN RcDone(o)
       ELSE rc' = [rc EXCEPT ![o].pc = "register"] /\ UNCHANGED kept
    /\ UNCHANGED <<pool, claims, fwdVars>>

\* ... and starts the rest for it, one by one.
RcRegisters(o) ==
    LET s == rc[o].new IN
    /\ rc[o].pc = "register"
    /\ \E f \in ss[s].todo, ok \in BOOLEAN :
          /\ StartForward(f, s, ok)
          /\ ss' = [ss EXCEPT ![s].todo = @ \ {f}, ![s].late = @ \cup Late(s, ok)]
          /\ IF ss[s].todo = {f} THEN RcDone(o) ELSE UNCHANGED <<rc, kept>>
    /\ UNCHANGED <<pool, claims>>
-----------------------------------------------------------------------------
\* What a session's goroutines do; holds says whether the tunnel holds the
\* connection's forwards.
SessStep(s, holds) ==
    \/ Hooked(s) \/ LooksUp(s, holds) \/ Lists(s) \/ Starts(s) \/ Tracks(s)
    \/ HookStops(s) \/ HookRemoves(s)
    \/ RcCancelled(s) \/ RcTries(s) \/ RcFails(s) \/ RcRestores(s)
    \/ RcLists(s) \/ RcRegisters(s)

\* What happens to it, and what the user asks for.
SessEnv(s) ==
    \/ Dies(s) \/ SshCancelReconnect(s)
    \/ s \in pool /\ ss[s].opening = "done" /\ Disconnects(s)
=============================================================================
