------------------------------ MODULE Terminal ------------------------------
(***************************************************************************)
(* A terminal pane that attaches to a running session                      *)
(* (frontend/src/lib/Terminal.svelte), composed with the output path that  *)
(* feeds it.  It subscribes first, buffers what arrives, fetches a         *)
(* snapshot of the ring, and uses the snapshot's byte counter to tell what *)
(* it has; from then on it reassembles live chunks by their counters.      *)
(*                                                                         *)
(* The webview runs one handler at a time, so each is one action.  Events  *)
(* cross the Wails bus, which may let one overtake Skew others.            *)
(***************************************************************************)
EXTENDS OutBatch, SequencesExt

CONSTANTS
    Skew,       \* how many earlier events a delivery may overtake (0: none)
    Budget,     \* GAP_FRAME_BUDGET
    MaxMounts   \* bound: times the pane is mounted or restored

ASSUME TermAssumption == Skew \in Nat /\ Budget \in Nat /\ MaxMounts \in Nat

VARIABLES
    phase,      \* off, asked (subscribed), replied (snapshot taken), live
    snap,       \* the snapshot on its way back
    watermark,  \* its counter, once it is there
    buffered,   \* events that arrived before it
    pending,    \* live chunks that are not written yet
    writeCum,   \* end of what was written; -1 before the first live chunk
    gapFrames,  \* flushes in a row that left something behind a gap
    raf,        \* is a frame scheduled?
    screen,     \* what was written to xterm since the last reset
    mounts,
    gone,       \* the session left the pool
    overtook,   \* observer: bytes that overtook others before the snapshot
    forced      \* observer: a flush wrote past a gap

view == <<phase, snap, watermark, buffered, pending, writeCum, gapFrames, raf,
          screen, mounts>>
seen == <<overtook, forced>>
vars == <<outVars, view, gone, seen>>

NoSnap == [data |-> <<>>, cum |-> 0]

Init ==
    /\ OutInit
    /\ phase = "off" /\ snap = NoSnap /\ watermark = 0
    /\ buffered = <<>> /\ pending = {} /\ writeCum = -1
    /\ gapFrames = 0 /\ raf = FALSE /\ screen = <<>>
    /\ mounts = 0 /\ gone = FALSE
    /\ overtook = {} /\ forced = FALSE
-----------------------------------------------------------------------------
(* Attaching.                                                              *)

\* Subscribe and ask for the snapshot: on mount, and again when a pane that
\* dropped its hidden buffer is shown (unwire, reset, rewire), which is not
\* before its last snapshot came (a buffer is dropped after a delay).
Wire ==
    /\ mounts < MaxMounts
    /\ phase \in {"off", "live"}
    /\ phase' = "asked" /\ mounts' = mounts + 1
    /\ screen' = <<>> /\ buffered' = <<>> /\ pending' = {}
    /\ writeCum' = -1 /\ gapFrames' = 0 /\ raf' = FALSE
    /\ watermark' = 0 /\ snap' = NoSnap
    /\ overtook' = {} /\ forced' = FALSE
    /\ UNCHANGED <<outVars, gone>>

\* unwire, when the pane is detached or closed.
Unwire ==
    /\ phase = "live"
    /\ phase' = "off"
    /\ pending' = {} /\ gapFrames' = 0 /\ raf' = FALSE
    /\ UNCHANGED <<outVars, snap, watermark, buffered, writeCum, screen, mounts,
                   gone, seen>>

\* SshGetScrollback: ring and counter under one lock; nothing of a session
\* that left the pool.
Snapshot ==
    /\ phase = "asked"
    /\ phase' = "replied"
    /\ snap' = IF gone THEN NoSnap ELSE [data |-> scroll, cum |-> total]
    /\ UNCHANGED <<outVars, watermark, buffered, pending, writeCum, gapFrames,
                   raf, screen, mounts, gone, seen>>

Mut_NoWatermark(e, w) == e.data

\* The part of a buffered chunk the snapshot does not have (writeChunk).
PartBeyond(e, w) ==
    IF e.cum <= w THEN <<>>
    ELSE LET start == Len(e.data) - (e.cum - w) IN
         IF start > 0 THEN SubSeq(e.data, start + 1, Len(e.data)) ELSE e.data

\* The snapshot arrives: it is written, then what was buffered meanwhile.
Reply ==
    /\ phase = "replied"
    /\ phase' = "live"
    /\ watermark' = snap.cum
    /\ screen' = snap.data \o
                 FlattenSeq([i \in 1..Len(buffered) |->
                                PartBeyond(buffered[i], snap.cum)])
    /\ buffered' = <<>>
    /\ UNCHANGED <<outVars, snap, pending, writeCum, gapFrames, raf, mounts, gone,
                   seen>>
-----------------------------------------------------------------------------
(* Live output.                                                            *)

Mut_FlushAnyway(a, p, force) ==
    IF p.end <= a.cum THEN a
    ELSE [cum |-> p.end,
          out |-> a.out \o SubSeq(p.data, 1 + (IF a.cum > p.start THEN a.cum - p.start
                                               ELSE 0), Len(p.data)),
          left |-> a.left]

\* One chunk of flushLive; a is what is written so far, and force says that
\* the frame budget of a gap is used up.
FlushOne(a, p, force) ==
    IF p.end <= a.cum THEN a
    ELSE IF p.start <= a.cum \/ force
    THEN LET overlap == IF a.cum > p.start THEN a.cum - p.start ELSE 0 IN
         [cum |-> p.end,
          out |-> a.out \o SubSeq(p.data, overlap + 1, Len(p.data)),
          left |-> a.left]
    ELSE [a EXCEPT !.left = @ \cup {p}]

Mut_NoReschedule(left) ==
    /\ raf' = FALSE
    /\ gapFrames' = IF left # {} THEN gapFrames + 1 ELSE 0

\* What waits behind a gap gets another frame, and the frames are counted.
Reschedule(left) ==
    /\ raf' = (left # {})
    /\ gapFrames' = IF left # {} THEN gapFrames + 1 ELSE 0

\* The chunks P one by one, each after those that start before it
\* (pending.sort), from what is written so far on.
Latest(P) == CHOOSE p \in P : \A q \in P : q.start <= p.start

Flushed(P, from, force) ==
    MapThenFoldSet(LAMBDA p, a : FlushOne(a, p, force),
                   [cum |-> from, out |-> <<>>, left |-> {}],
                   LAMBDA p : p, Latest, P)

\* flushLive on the chunks P: the run from writeCum on is written, the rest
\* waits for another frame.
FlushLive(P) ==
    LET from == IF writeCum < 0 THEN watermark ELSE writeCum
        force == gapFrames >= Budget
        done == Flushed(P, from, force)
    IN
    /\ writeCum' = done.cum
    /\ screen' = screen \o done.out
    /\ pending' = done.left
    /\ Reschedule(done.left)
    /\ forced' = (forced \/ (force /\ Len(done.out) < done.cum - from))

\* An event reaches the webview, at most Skew places early.
Deliver(i) ==
    LET e == wire[i]
        chunk == [start |-> e.cum - Len(e.data), end |-> e.cum, data |-> e.data]
    IN
    /\ i <= Len(wire)
    /\ wire' = RemoveAt(wire, i)
    /\ CASE phase = "off" -> UNCHANGED <<view, overtook, forced>>
         [] phase \in {"asked", "replied"} ->
              /\ buffered' = Append(buffered, e)
              /\ overtook' = IF i > 1 THEN overtook \cup ToSet(e.data) ELSE overtook
              /\ UNCHANGED <<phase, snap, watermark, pending, writeCum, gapFrames,
                             raf, screen, mounts, forced>>
         [] phase = "live" ->
              /\ IF raf THEN /\ pending' = pending \cup {chunk}
                             /\ UNCHANGED <<writeCum, gapFrames, raf, screen, forced>>
                        ELSE FlushLive(pending \cup {chunk})
              /\ UNCHANGED <<phase, snap, watermark, buffered, mounts, overtook>>
    /\ UNCHANGED <<read, carry, batch, pump, emitted, scroll, total, gone>>

\* The animation frame scheduled for a gap.
Frame ==
    /\ raf
    /\ FlushLive(pending)
    /\ UNCHANGED <<outVars, phase, snap, watermark, buffered, mounts, gone,
                   overtook>>

\* The close hook removes the session from the pool.
Leave ==
    /\ ~gone
    /\ gone' = TRUE
    /\ UNCHANGED <<outVars, view, seen>>
-----------------------------------------------------------------------------
Next ==
    \/ OutNext /\ UNCHANGED <<view, gone, seen>>
    \/ Wire \/ Unwire \/ Snapshot \/ Reply \/ Frame \/ Leave
    \/ \E i \in 1..(Skew + 1) : Deliver(i)

Spec == Init /\ [][Next]_vars

\* What happens without being asked: timers, goroutines, calls and the
\* webview's event loop run on.
RunsOn ==
    \/ (TimerFires \/ TimerFlushes \/ PumpCloses) /\ UNCHANGED <<view, gone, seen>>
    \/ Snapshot \/ Reply \/ Frame \/ Deliver(1)

\* Nothing makes the remote send, the stream end or the user act.
FairSpec == Spec /\ WF_vars(RunsOn)
-----------------------------------------------------------------------------
TypeOK ==
    /\ OutTypeOK
    /\ phase \in {"off", "asked", "replied", "live"}
    /\ watermark \in Nat /\ writeCum \in Nat \cup {-1}
    /\ gapFrames \in 0..Budget
    /\ raf = (pending # {})
    /\ screen \in Seq(1..Total)
    /\ phase # "live" => pending = {}

OnScreen == ToSet(screen)

\* The session had left the pool when the snapshot was taken.
NothingToFetch == gone /\ watermark = 0

\* "every chunk gets written twice", the bug the attach path once had: no
\* byte is on the screen twice, however snapshot, buffered and live chunks
\* overlap, and none out of order unless it overtook another on the bus
\* while the snapshot was awaited.
OnceAndInOrder ==
    \A i, j \in 1..Len(screen) : i < j =>
        /\ screen[i] # screen[j]
        /\ screen[i] > screen[j] => screen[i] \in overtook

\* "bytes written by the shell BETWEEN our snapshot call and our subscribe
\* call would otherwise vanish": a byte missing between two that are shown is
\* still on its way, unless a gap was given up on, or there was nothing to
\* fetch any more when the pane asked.
NoSilentHole ==
    \A b \in 1..Total :
        /\ phase = "live" /\ b \notin OnScreen
        /\ \E x \in OnScreen : x < b
        /\ \E x \in OnScreen : x > b
        => \/ forced \/ NothingToFetch
           \/ \E e \in ToSet(wire) \cup pending : b \in ToSet(e.data)

\* "a never-arriving chunk can't freeze output": an attached pane that is
\* behind what was emitted catches up with it.
Behind == phase = "live" /\ \A x \in OnScreen : x < total

CatchesUp == (Behind /\ total > 0) ~> (~Behind \/ NothingToFetch)
=============================================================================
