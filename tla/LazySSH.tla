------------------------------- MODULE LazySSH -------------------------------
(***************************************************************************)
(* The one SSH session a Kafka or Database tab dials through               *)
(* (internal/sshchan/lazy.go), with the connect the application gives it   *)
(* (sshChanConnect in app_sshchan.go).                                     *)
(*                                                                         *)
(* Every action is one critical section of LazySSH.mu, or a step outside   *)
(* it; that a connect closes its channel is part of its last action.  A    *)
(* session and the connect attempt that opens it share an identity, used   *)
(* again once nothing refers to it.                                        *)
(***************************************************************************)
EXTENDS Naturals

CONSTANTS
    Dials,      \* goroutines that dial through the tab
    Sessions,   \* identities of connect attempts and their sessions
    None        \* nil

ASSUME LazyAssumption == None \notin Sessions

VARIABLES
    client,     \* LazySSH.client
    inflight,   \* LazySSH.inflight
    lastErr,    \* is LazySSH.lastErr set?
    closed,     \* LazySSH.closed
    run,        \* where the connect goroutine of a session is; at "none" it
                \* has closed its channel and ended
    sess,       \* the session: see SessStates
    hooked,     \* its end will call the Invalidate hook of SetOnClose
    hooks,      \* sessions with a hook goroutine on its way to Invalidate
    closing,    \* sessions whose closeFn is about to run
    pc,         \* where a dial is
    chan,       \* the connect it waits for
    got,        \* the client it opens a channel on
    live,       \* is its context live?
    attempt,    \* its attempt in Dial
    lost        \* observer: the session its first attempt found gone

lazy == <<client, inflight, lastErr, closed>>
conns == <<run, sess, hooked, hooks, closing>>
dials == <<pc, chan, got, live, attempt, lost>>
vars == <<lazy, conns, dials>>
-----------------------------------------------------------------------------
Runs == {"none", "connecting", "hook", "returned", "discard"}

\* dead: the server or the network ended it; closed: Disconnect did.
SessStates == {"none", "live", "dead", "closed"}

PCs == {"idle", "client", "wait", "open", "invalidate"}

Init ==
    /\ client = None /\ inflight = None /\ lastErr = FALSE /\ closed = FALSE
    /\ run = [s \in Sessions |-> "none"]
    /\ sess = [s \in Sessions |-> "none"]
    /\ hooked = [s \in Sessions |-> FALSE]
    /\ hooks = {} /\ closing = {}
    /\ pc = [d \in Dials |-> "idle"]
    /\ chan = [d \in Dials |-> None]
    /\ got = [d \in Dials |-> None]
    /\ live = [d \in Dials |-> TRUE]
    /\ attempt = [d \in Dials |-> 0]
    /\ lost = [d \in Dials |-> None]

Unreferenced(s) ==
    /\ s # client /\ run[s] = "none" /\ s \notin hooks /\ s \notin closing
    /\ \A d \in Dials : chan[d] # s /\ got[d] # s

Return(d) ==
    /\ pc' = [pc EXCEPT ![d] = "idle"]
    /\ chan' = [chan EXCEPT ![d] = None]
    /\ got' = [got EXCEPT ![d] = None]
    /\ live' = [live EXCEPT ![d] = TRUE]
    /\ attempt' = [attempt EXCEPT ![d] = 0]
    /\ lost' = [lost EXCEPT ![d] = None]
-----------------------------------------------------------------------------
(* Client.                                                                 *)

BeginDial(d) ==
    /\ pc[d] = "idle"
    /\ pc' = [pc EXCEPT ![d] = "client"]
    /\ UNCHANGED <<lazy, conns, chan, got, live, attempt, lost>>

\* Only a dial that waits or opens a channel looks at its context.
CancelDial(d) ==
    /\ pc[d] \in {"wait", "open"} /\ live[d]
    /\ live' = [live EXCEPT ![d] = FALSE]
    /\ UNCHANGED <<lazy, conns, pc, chan, got, attempt, lost>>

\* ErrTransportClosed.
ClientClosed(d) ==
    /\ pc[d] = "client" /\ closed
    /\ Return(d)
    /\ UNCHANGED <<lazy, conns>>

ClientHas(d) ==
    /\ pc[d] = "client" /\ ~closed /\ client # None
    /\ got' = [got EXCEPT ![d] = client]
    /\ pc' = [pc EXCEPT ![d] = "open"]
    /\ UNCHANGED <<lazy, conns, chan, live, attempt, lost>>

ClientJoins(d) ==
    /\ pc[d] = "client" /\ ~closed /\ client = None
    /\ inflight # None
    /\ chan' = [chan EXCEPT ![d] = inflight]
    /\ pc' = [pc EXCEPT ![d] = "wait"]
    /\ UNCHANGED <<lazy, conns, got, live, attempt, lost>>

Mut_NoSingleFlight(d) ==
    /\ pc[d] = "client" /\ ~closed /\ client = None
    /\ \E s \in Sessions :
        /\ Unreferenced(s)
        /\ inflight' = s
        /\ run' = [run EXCEPT ![s] = "connecting"]
        /\ sess' = [sess EXCEPT ![s] = "none"]
        /\ hooked' = [hooked EXCEPT ![s] = FALSE]
        /\ chan' = [chan EXCEPT ![d] = s]
        /\ lost' = [x \in Dials |-> IF lost[x] = s THEN None ELSE lost[x]]
    /\ pc' = [pc EXCEPT ![d] = "wait"]
    /\ UNCHANGED <<client, lastErr, closed, hooks, closing, got, live, attempt>>

\* The first dial starts the connect the others share.
ClientConnects(d) ==
    /\ pc[d] = "client" /\ ~closed /\ client = None
    /\ inflight = None
    /\ \E s \in Sessions :
        /\ Unreferenced(s)
        /\ inflight' = s
        /\ run' = [run EXCEPT ![s] = "connecting"]
        /\ sess' = [sess EXCEPT ![s] = "none"]
        /\ hooked' = [hooked EXCEPT ![s] = FALSE]
        /\ chan' = [chan EXCEPT ![d] = s]
        /\ lost' = [x \in Dials |-> IF lost[x] = s THEN None ELSE lost[x]]
    /\ pc' = [pc EXCEPT ![d] = "wait"]
    /\ UNCHANGED <<client, lastErr, closed, hooks, closing, got, live, attempt>>

WaitCancelled(d) ==
    /\ pc[d] = "wait" /\ ~live[d]
    /\ Return(d)
    /\ UNCHANGED <<lazy, conns>>

\* What a wait that ended reads under the lock: the client of now, else the
\* error of the connect that failed last, else it goes round again.
WaitHas(d) ==
    /\ pc[d] = "wait" /\ run[chan[d]] = "none" /\ client # None
    /\ got' = [got EXCEPT ![d] = client]
    /\ chan' = [chan EXCEPT ![d] = None]
    /\ pc' = [pc EXCEPT ![d] = "open"]
    /\ UNCHANGED <<lazy, conns, live, attempt, lost>>

WaitFails(d) ==
    /\ pc[d] = "wait" /\ run[chan[d]] = "none" /\ client = None /\ lastErr
    /\ Return(d)
    /\ UNCHANGED <<lazy, conns>>

WaitAgain(d) ==
    /\ pc[d] = "wait" /\ run[chan[d]] = "none" /\ client = None /\ ~lastErr
    /\ chan' = [chan EXCEPT ![d] = None]
    /\ pc' = [pc EXCEPT ![d] = "client"]
    /\ UNCHANGED <<lazy, conns, got, live, attempt, lost>>
-----------------------------------------------------------------------------
(* The connect goroutine.                                                  *)

Mut_FailForgets(s) ==
    /\ run[s] = "connecting"
    /\ inflight' = None
    /\ run' = [run EXCEPT ![s] = "none"]
    /\ UNCHANGED <<client, lastErr, closed, sess, hooked, hooks, closing, dials>>

ConnectFails(s) ==
    /\ run[s] = "connecting"
    /\ inflight' = None /\ lastErr' = TRUE
    /\ run' = [run EXCEPT ![s] = "none"]
    /\ UNCHANGED <<client, closed, sess, hooked, hooks, closing, dials>>

ConnectOpens(s) ==
    /\ run[s] = "connecting"
    /\ sess' = [sess EXCEPT ![s] = "live"]
    /\ run' = [run EXCEPT ![s] = "hook"]
    /\ UNCHANGED <<lazy, hooked, hooks, closing, dials>>

\* SetOnClose only stores the hook: a session that is gone never calls it.
ConnectHooks(s) ==
    /\ run[s] = "hook"
    /\ hooked' = [hooked EXCEPT ![s] = (sess[s] = "live")]
    /\ run' = [run EXCEPT ![s] = "returned"]
    /\ UNCHANGED <<lazy, sess, hooks, closing, dials>>

Mut_InstallAlways(s) ==
    /\ run[s] = "returned"
    /\ inflight' = None
    /\ client' = s /\ lastErr' = FALSE
    /\ run' = [run EXCEPT ![s] = "none"]
    /\ UNCHANGED <<closed, sess, hooked, hooks, closing, dials>>

ConnectInstalls(s) ==
    /\ run[s] = "returned" /\ ~closed
    /\ inflight' = None
    /\ client' = s /\ lastErr' = FALSE
    /\ run' = [run EXCEPT ![s] = "none"]
    /\ UNCHANGED <<closed, sess, hooked, hooks, closing, dials>>

\* The tab was closed meanwhile.
ConnectTooLate(s) ==
    /\ run[s] = "returned" /\ closed
    /\ inflight' = None
    /\ run' = [run EXCEPT ![s] = "discard"]
    /\ UNCHANGED <<client, lastErr, closed, sess, hooked, hooks, closing, dials>>

\* Disconnect, and the hook it calls through the session's close-once.
Disconnect(s) ==
    /\ sess' = [sess EXCEPT ![s] = IF @ = "live" THEN "closed" ELSE @]
    /\ hooks' = IF hooked[s] THEN hooks \cup {s} ELSE hooks
    /\ hooked' = [hooked EXCEPT ![s] = FALSE]

ConnectDiscards(s) ==
    /\ run[s] = "discard"
    /\ Disconnect(s)
    /\ run' = [run EXCEPT ![s] = "none"]
    /\ UNCHANGED <<lazy, closing, dials>>

-----------------------------------------------------------------------------
(* Dial, Invalidate and Close.                                             *)

\* A channel, a refusal by the far side, or the end of the dial's context.
OpenReturns(d) ==
    /\ pc[d] = "open"
    /\ sess[got[d]] = "live" \/ ~live[d]
    /\ Return(d)
    /\ UNCHANGED <<lazy, conns>>

OpenGone(d) ==
    /\ pc[d] = "open"
    /\ sess[got[d]] # "live" /\ live[d]
    /\ pc' = [pc EXCEPT ![d] = "invalidate"]
    /\ UNCHANGED <<lazy, conns, chan, got, live, attempt, lost>>

Mut_DropsAny(s) ==
    /\ client' = None
    /\ closing' = closing \cup ({client} \ {None})

Mut_DropsNothing(s) == UNCHANGED <<client, closing>>

\* Invalidate(s): closeFn runs after the lock is released.
Invalidate(s) ==
    IF client = s THEN client' = None /\ closing' = closing \cup {s}
                  ELSE UNCHANGED <<client, closing>>

\* After the first attempt the dial asks for a client again; after the second
\* it returns the error.
DialInvalidates(d) ==
    /\ pc[d] = "invalidate"
    /\ Invalidate(got[d])
    /\ \/ /\ attempt[d] = 0
          /\ attempt' = [attempt EXCEPT ![d] = 1]
          /\ pc' = [pc EXCEPT ![d] = "client"]
          /\ got' = [got EXCEPT ![d] = None]
          /\ lost' = [lost EXCEPT ![d] = got[d]]
          /\ UNCHANGED <<chan, live>>
       \/ attempt[d] = 1 /\ Return(d)
    /\ UNCHANGED <<inflight, lastErr, closed, run, sess, hooked, hooks>>

HookInvalidates(s) ==
    /\ s \in hooks
    /\ hooks' = hooks \ {s}
    /\ Invalidate(s)
    /\ UNCHANGED <<inflight, lastErr, closed, run, sess, hooked, dials>>

RunCloseFn(s) ==
    /\ s \in closing
    /\ closing' = closing \ {s}
    /\ Disconnect(s)
    /\ UNCHANGED <<lazy, run, dials>>

\* The session ends by itself and calls its hook, if it has one by then.
SessionDies(s) ==
    /\ sess[s] = "live"
    /\ sess' = [sess EXCEPT ![s] = "dead"]
    /\ hooks' = IF hooked[s] THEN hooks \cup {s} ELSE hooks
    /\ hooked' = [hooked EXCEPT ![s] = FALSE]
    /\ UNCHANGED <<lazy, run, closing, dials>>

Mut_CloseForgets ==
    /\ ~closed
    /\ closed' = TRUE
    /\ client' = None
    /\ UNCHANGED <<inflight, lastErr, run, sess, hooked, hooks, closing, dials>>

\* The tab is closed; a connect in flight is cancelled.
Close ==
    /\ ~closed
    /\ closed' = TRUE
    /\ client' = None
    /\ closing' = closing \cup ({client} \ {None})
    /\ UNCHANGED <<inflight, lastErr, run, sess, hooked, hooks, dials>>
-----------------------------------------------------------------------------
DialStep(d) ==
    \/ ClientClosed(d) \/ ClientHas(d) \/ ClientJoins(d) \/ ClientConnects(d)
    \/ WaitCancelled(d) \/ WaitHas(d) \/ WaitFails(d) \/ WaitAgain(d)
    \/ OpenReturns(d) \/ OpenGone(d) \/ DialInvalidates(d)

ConnectStep(s) ==
    \/ ConnectFails(s) \/ ConnectOpens(s) \/ ConnectHooks(s)
    \/ ConnectInstalls(s) \/ ConnectTooLate(s) \/ ConnectDiscards(s)

\* What the goroutines of a session do.
SessionStep(s) == ConnectStep(s) \/ HookInvalidates(s) \/ RunCloseFn(s)

Next ==
    \/ \E d \in Dials : BeginDial(d) \/ CancelDial(d) \/ DialStep(d)
    \/ \E s \in Sessions : SessionStep(s) \/ SessionDies(s)
    \/ Close

Spec == Init /\ [][Next]_vars

\* Connects end (dial and handshake are bounded) and goroutines run on;
\* nothing makes a user close a tab or a session die.  Fairness of a dial is
\* strong because the finite set of identities may be used up for a while.
FairSpec ==
    /\ Spec
    /\ \A d \in Dials : SF_vars(DialStep(d))
    /\ \A s \in Sessions : WF_vars(SessionStep(s))
-----------------------------------------------------------------------------
TypeOK ==
    /\ client \in Sessions \cup {None} /\ inflight \in Sessions \cup {None}
    /\ lastErr \in BOOLEAN /\ closed \in BOOLEAN
    /\ run \in [Sessions -> Runs]
    /\ sess \in [Sessions -> SessStates]
    /\ hooked \in [Sessions -> BOOLEAN]
    /\ hooks \subseteq Sessions /\ closing \subseteq Sessions
    /\ pc \in [Dials -> PCs]
    /\ chan \in [Dials -> Sessions \cup {None}]
    /\ got \in [Dials -> Sessions \cup {None}]
    /\ live \in [Dials -> BOOLEAN]
    /\ attempt \in [Dials -> 0..1]
    /\ lost \in [Dials -> Sessions \cup {None}]

\* "LazySSH holds the one SSH session a tab's connections ride on ... shares
\* that connect between concurrent dials": connects never run side by side,
\* nor beside a session that is in use.
OneConnect ==
    \A s \in Sessions :
        run[s] \in {"connecting", "hook", "returned"} => inflight = s /\ client = None

\* No session outlives its use: one that is live is the tab's, is on its way
\* into it, or a goroutine is about to close it; a closed tab has none.
NoSessionLeaked ==
    \A s \in Sessions : sess[s] = "live" =>
        \/ client = s /\ ~closed
        \/ run[s] \in {"hook", "returned", "discard"}
        \/ s \in closing

\* "A stale c is ignored": until the tab is closed no session is closed that
\* has not died, however late a dial or a hook reports an older one.
LiveSessionKept == \A s \in Sessions : sess[s] = "closed" => closed

\* "A dropped tunnel heals on the next dial": the second attempt of a dial is
\* never made on the session the first one found gone, whether or not the
\* session's hook ran, so a dial gives up only after two sessions died on it.
HealsOnNextDial == \A d \in Dials : pc[d] = "open" => got[d] # lost[d]

\* Once sessions stop dying, every dial comes back, from a shared connect
\* that succeeds, fails or is cut short by Close.
DialsReturn ==
    <>[][\A s \in Sessions : ~SessionDies(s)]_vars
        => \A d \in Dials : pc[d] # "idle" ~> pc[d] = "idle"

\* "Close tears the session down and cancels a connect in flight."
CloseTearsDown == closed ~> [](\A s \in Sessions : sess[s] # "live")
=============================================================================
