------------------------------ MODULE OutBatch ------------------------------
(***************************************************************************)
(* The output of one session on its way to those who watch it: the pump    *)
(* that reads the PTY and holds back an incomplete escape sequence or rune *)
(* (pumpOutput in internal/ssh/session.go; internal/local has the same     *)
(* pump without the hold), the coalescer (internal/outbatch), and the      *)
(* scrollback ring, which numbers every chunk it hands to the event bus.   *)
(*                                                                         *)
(* A byte is its position in the stream: the content that decides where a  *)
(* read may be cut, and where the ring finds a line start, is left to      *)
(* chance within the limits the code sets.                                 *)
(***************************************************************************)
EXTENDS Integers, Sequences

CONSTANTS
    Total,      \* bound: bytes the remote sends
    MaxRead,    \* size of the pump's read buffer
    MaxHold,    \* longest incomplete tail the splitter keeps (maxSeq)
    MaxBytes,   \* outbatch.MaxBytes
    Cap, Slack, \* scrollbackCap, scrollbackSlack
    MaxScan,    \* how far trimToLineStart looks for a line end
    MaxFired    \* bound: timer callbacks waiting for the coalescer's lock

ASSUME OutAssumption ==
    /\ Total \in Nat /\ MaxRead \in Nat \ {0} /\ MaxHold \in Nat
    /\ MaxBytes \in Nat \ {0}
    /\ Cap \in Nat \ {0} /\ Slack \in Nat /\ MaxScan \in 0..(Cap - 1)
    /\ MaxFired \in Nat \ {0}

VARIABLES
    read,       \* bytes read from the PTY
    carry,      \* the tail the pump holds back
    buf,        \* Coalescer.buf
    quiet,      \* has Window passed since lastEmit?
    timer,      \* Coalescer.timer: nil, armed, or set and gone off
    fired,      \* Flush callbacks that have not got the lock yet
    pump,       \* where pumpOutput is
    emitted,    \* everything handed to emit so far
    scroll,     \* scrollbackBuf.buf
    total,      \* scrollbackBuf.totalEmitted
    wire        \* pty_output events on their way to the webview

batch == <<buf, quiet, timer, fired>>
sink == <<emitted, scroll, total, wire>>
outVars == <<read, carry, batch, pump, sink>>
-----------------------------------------------------------------------------
OutInit ==
    /\ read = 0 /\ carry = <<>>
    /\ buf = <<>> /\ quiet = TRUE /\ timer = "nil" /\ fired = 0
    /\ pump = "read"
    /\ emitted = <<>> /\ scroll = <<>> /\ total = 0 /\ wire = <<>>

\* n bytes that follow the ones read so far.
Fresh(n) == [i \in 1..n |-> read + i]

\* The last n of s.
LastOf(s, n) == SubSeq(s, Len(s) - n + 1, Len(s))
AllBut(s, n) == SubSeq(s, 1, Len(s) - n)

\* Past cap and slack the ring is cut back to the cap, and to a line start if
\* there is one near the cut.
Mut_TrimTail(s) ==
    IF Len(s) <= Cap + Slack THEN {s} ELSE {AllBut(s, Len(s) - Cap)}

Trim(s) ==
    IF Len(s) <= Cap + Slack THEN {s}
    ELSE {LastOf(s, Cap - k) : k \in 0..MaxScan}

\* appendAndEmit: ring, counter and event under one lock.
Emit(data) ==
    /\ emitted' = emitted \o data
    /\ scroll' \in Trim(scroll \o data)
    /\ total' = total + Len(data)
    /\ wire' = Append(wire, [data |-> data, cum |-> total + Len(data)])

Mut_FlushKeepsBuf ==
    /\ timer' = "nil"
    /\ IF buf = <<>> THEN UNCHANGED <<buf, quiet, sink>>
       ELSE Emit(buf) /\ UNCHANGED buf /\ quiet' = FALSE

\* flushLocked: a timer that has gone off cannot be stopped any more.
FlushLocked ==
    /\ timer' = "nil"
    /\ IF buf = <<>> THEN UNCHANGED <<buf, quiet, sink>>
       ELSE Emit(buf) /\ buf' = <<>> /\ quiet' = FALSE

Mut_EmitPast(data) ==
    IF data = <<>> THEN UNCHANGED <<buf, quiet, timer, sink>>
    ELSE IF quiet
    THEN Emit(data) /\ quiet' = FALSE /\ UNCHANGED <<buf, timer>>
    ELSE LET all == buf \o data IN
         IF Len(all) >= MaxBytes
         THEN Emit(all) /\ buf' = <<>> /\ quiet' = FALSE /\ timer' = "nil"
         ELSE /\ buf' = all
              /\ timer' = IF timer = "nil" THEN "armed" ELSE timer
              /\ UNCHANGED <<quiet, sink>>

Mut_TimerOnlyIfQuiet(data) ==
    IF data = <<>> THEN UNCHANGED <<buf, quiet, timer, sink>>
    ELSE IF buf = <<>> /\ quiet
    THEN Emit(data) /\ quiet' = FALSE /\ UNCHANGED <<buf, timer>>
    ELSE LET all == buf \o data IN
         IF Len(all) >= MaxBytes
         THEN Emit(all) /\ buf' = <<>> /\ quiet' = FALSE /\ timer' = "nil"
         ELSE /\ buf' = all
              /\ timer' = IF timer = "nil" /\ fired = 0 THEN "armed" ELSE timer
              /\ UNCHANGED <<quiet, sink>>

\* Push: at once after a quiet spell, else held until the timer or the limit.
Push(data) ==
    IF data = <<>> THEN UNCHANGED <<buf, quiet, timer, sink>>
    ELSE IF buf = <<>> /\ quiet
    THEN Emit(data) /\ quiet' = FALSE /\ UNCHANGED <<buf, timer>>
    ELSE LET all == buf \o data IN
         IF Len(all) >= MaxBytes
         THEN Emit(all) /\ buf' = <<>> /\ quiet' = FALSE /\ timer' = "nil"
         ELSE /\ buf' = all
              /\ timer' = IF timer = "nil" THEN "armed" ELSE timer
              /\ UNCHANGED <<quiet, sink>>
-----------------------------------------------------------------------------
\* One read of the pump: n bytes arrive, h of them and of the carry are an
\* incomplete tail (splitAtSafeBoundary), the rest is pushed.
PumpReads(n, h) ==
    LET data == carry \o Fresh(n) IN
    /\ pump = "read"
    /\ read + n <= Total
    /\ h <= Len(data)
    /\ read' = read + n
    /\ carry' = LastOf(data, h)
    /\ Push(AllBut(data, h))
    /\ UNCHANGED <<fired, pump>>

\* The read fails: the channel is at its end.  The tail is pushed as it is ...
PumpTail ==
    /\ pump = "read"
    /\ pump' = "tail"
    /\ carry' = <<>>
    /\ Push(carry)
    /\ UNCHANGED <<read, fired>>

\* ... and the coalescer closed.
PumpCloses ==
    /\ pump = "tail"
    /\ pump' = "end"
    /\ FlushLocked
    /\ UNCHANGED <<read, carry, fired>>

\* Window has passed since the last emit.
QuietSpell ==
    /\ ~quiet
    /\ quiet' = TRUE
    /\ UNCHANGED <<read, carry, buf, timer, fired, pump, sink>>

\* The timer starts a goroutine; the field stays set until the next flush.
TimerFires ==
    /\ timer = "armed" /\ fired < MaxFired
    /\ timer' = "fired" /\ fired' = fired + 1
    /\ UNCHANGED <<read, carry, buf, quiet, pump, sink>>

\* The goroutine gets the lock, however late.
TimerFlushes ==
    /\ fired > 0
    /\ fired' = fired - 1
    /\ FlushLocked
    /\ UNCHANGED <<read, carry, pump>>

OutNext ==
    \/ \E n \in 1..MaxRead, h \in 0..MaxHold : PumpReads(n, h)
    \/ PumpTail \/ PumpCloses \/ QuietSpell \/ TimerFires \/ TimerFlushes

OutSpec == OutInit /\ [][OutNext]_outVars
-----------------------------------------------------------------------------
OutTypeOK ==
    /\ read \in 0..Total
    /\ carry \in Seq(1..Total) /\ buf \in Seq(1..Total)
    /\ emitted \in Seq(1..Total) /\ scroll \in Seq(1..Total)
    /\ total \in Nat
    /\ quiet \in BOOLEAN /\ timer \in {"nil", "armed", "fired"}
    /\ fired \in 0..MaxFired
    /\ pump \in {"read", "tail", "end"}
    /\ wire \in Seq([data : Seq(1..Total), cum : Nat])

\* "batches chunks passed to Push and hands them to emit in the same order":
\* what was emitted, what the coalescer holds and what the pump holds back
\* are, in this order, what was read, so no flush reorders, repeats or loses
\* a byte, whichever of reader, timer and close runs it.
InOrderSoFar ==
    /\ read = Len(emitted) + Len(buf) + Len(carry)
    /\ \A i \in 1..Len(emitted) : emitted[i] = i
    /\ \A i \in 1..Len(buf) : buf[i] = Len(emitted) + i
    /\ \A i \in 1..Len(carry) : carry[i] = Len(emitted) + Len(buf) + i

\* "the rest of a burst is held for at most Window": a byte that is held has
\* a timer that will flush it or a callback on its way, also after a stale
\* callback flushed in between and stopped a timer that was not its own.
HeldHasTimer ==
    buf # <<>> => timer = "armed" \/ (timer = "fired" /\ fired > 0)

\* "taken under the same lock so they're consistent": a snapshot ends with
\* the byte its counter names and has no hole, whatever was cut off its head.
SnapshotFits ==
    /\ total = Len(emitted)
    /\ Len(scroll) <= total
    /\ \A i \in 1..Len(scroll) : scroll[i] = total - Len(scroll) + i

\* The output path as Stream sees it.
SentBytes == [i \in 1..read |-> i]

Abs == INSTANCE Stream WITH sent <- SentBytes, shown <- emitted, over <- pump = "end"

\* The pump and the coalescer implement Stream: in order, once, and all of it
\* by the time the session's output is over.
DeliversStream == Abs!Spec
=============================================================================
