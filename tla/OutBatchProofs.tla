--------------------------- MODULE OutBatchProofs ---------------------------
(***************************************************************************)
(* Proofs about OutBatch, for a stream of any length and any limits: types *)
(* are kept, nothing is reordered, repeated, lost or left without a timer, *)
(* a snapshot fits its counter, and the output path implements Stream.     *)
(***************************************************************************)
EXTENDS OutBatch, SequenceTheorems, TLAPS

Bytes == 1..Total

\* s is a piece of the stream: the bytes that follow the first n.
Run(s, n) == s \in Seq(Bytes) /\ \A i \in 1..Len(s) : s[i] = n + i

\* What reader, timer and close share: the bytes that were emitted, the ones
\* in the coalescer and the ones the pump holds back are consecutive runs;
\* the ring is the end of what was emitted; bytes are held only under a timer
\* and not after the end.
SinkInv ==
    /\ Run(emitted, 0) /\ total = Len(emitted)
    /\ scroll \in Seq(Bytes) /\ Len(scroll) <= total
    /\ Run(scroll, total - Len(scroll))
    /\ wire \in Seq([data : Seq(Bytes), cum : Nat])

BatchInv ==
    /\ Run(buf, Len(emitted))
    /\ quiet \in BOOLEAN /\ timer \in {"nil", "armed", "fired"}
    /\ fired \in 0..MaxFired
    /\ buf # <<>> => timer # "nil"
    /\ timer = "fired" => fired > 0

PumpInv ==
    /\ read \in 0..Total
    /\ Run(carry, Len(emitted) + Len(buf))
    /\ read = Len(emitted) + Len(buf) + Len(carry)
    /\ pump \in {"read", "tail", "end"}
    /\ pump # "read" => carry = <<>>
    /\ pump = "end" => buf = <<>>

OInv == SinkInv /\ BatchInv /\ PumpInv
-----------------------------------------------------------------------------
(* Pieces of the stream.                                                   *)

LEMMA EmptyRun == \A n : Run(<<>>, n) /\ Len(<<>>) = 0
  BY EmptySeq DEF Run

\* Two pieces that follow each other make one.
LEMMA ConcatRun ==
  ASSUME NEW n \in Nat, NEW s, NEW t, Run(s, n), Run(t, n + Len(s))
  PROVE  Run(s \o t, n) /\ Len(s \o t) = Len(s) + Len(t)
<1>1. s \in Seq(Bytes) /\ t \in Seq(Bytes)
  BY DEF Run
<1>2. /\ s \o t \in Seq(Bytes)
      /\ Len(s \o t) = Len(s) + Len(t)
      /\ \A i \in 1..Len(s) + Len(t) :
            (s \o t)[i] = IF i <= Len(s) THEN s[i] ELSE t[i - Len(s)]
  BY <1>1, ConcatProperties, Zenon
<1>3. Len(s) \in Nat /\ Len(t) \in Nat
  BY <1>1, LenProperties
<1>4. ASSUME NEW i \in 1..Len(s) + Len(t) PROVE (s \o t)[i] = n + i
  <2>1. CASE i <= Len(s)
    BY <1>2, <1>3, <2>1 DEF Run
  <2>2. CASE ~(i <= Len(s))
    <3>1. i - Len(s) \in 1..Len(t)
      BY <1>3, <2>2
    <3>2. t[i - Len(s)] = n + Len(s) + (i - Len(s))
      BY <3>1 DEF Run
    <3> QED BY <1>2, <1>3, <2>2, <3>1, <3>2
  <2> QED BY <2>1, <2>2
<1> QED BY <1>2, <1>4 DEF Run

\* The head and the tail of a piece are pieces.
LEMMA SplitRun ==
  ASSUME NEW n \in Nat, NEW s, Run(s, n), NEW h \in 0..Len(s)
  PROVE  /\ Run(AllBut(s, h), n) /\ Len(AllBut(s, h)) = Len(s) - h
         /\ Run(LastOf(s, h), n + (Len(s) - h)) /\ Len(LastOf(s, h)) = h
<1>1. s \in Seq(Bytes) /\ Len(s) \in Nat
  BY LenProperties DEF Run
<1>2. \A i \in 1..Len(s) : s[i] \in Bytes
  BY <1>1, ElementOfSeq
<1>3. /\ AllBut(s, h) \in Seq(Bytes)
      /\ Len(AllBut(s, h)) = IF 1 <= Len(s) - h THEN (Len(s) - h) - 1 + 1 ELSE 0
      /\ \A i \in 1..(Len(s) - h) - 1 + 1 : AllBut(s, h)[i] = s[1 + i - 1]
  <2>1. 1 \in Int /\ Len(s) - h \in Int /\ \A i \in 1..(Len(s) - h) : s[i] \in Bytes
    BY <1>1, <1>2
  <2> QED BY <2>1, SubSeqProperties DEF AllBut
<1>4. /\ LastOf(s, h) \in Seq(Bytes)
      /\ Len(LastOf(s, h)) = IF Len(s) - h + 1 <= Len(s)
                             THEN Len(s) - (Len(s) - h + 1) + 1 ELSE 0
      /\ \A i \in 1..Len(s) - (Len(s) - h + 1) + 1 :
            LastOf(s, h)[i] = s[(Len(s) - h + 1) + i - 1]
  <2>1. /\ Len(s) - h + 1 \in Int /\ Len(s) \in Int
        /\ \A i \in (Len(s) - h + 1)..Len(s) : s[i] \in Bytes
    BY <1>1, <1>2
  <2> QED BY <2>1, SubSeqProperties DEF LastOf
<1>5. Run(AllBut(s, h), n) /\ Len(AllBut(s, h)) = Len(s) - h
  BY <1>1, <1>3 DEF Run
<1>6. Len(LastOf(s, h)) = h
  BY <1>1, <1>4
<1>7. ASSUME NEW i \in 1..h PROVE LastOf(s, h)[i] = n + (Len(s) - h) + i
  <2>1. /\ Len(s) - (Len(s) - h + 1) + 1 = h
        /\ (Len(s) - h + 1) + i - 1 = Len(s) - h + i
        /\ Len(s) - h + i \in 1..Len(s)
    BY <1>1
  <2>2. LastOf(s, h)[i] = s[Len(s) - h + i]
    BY <1>4, <2>1
  <2> QED BY <1>1, <2>1, <2>2 DEF Run
<1> QED BY <1>4, <1>5, <1>6, <1>7 DEF Run

\* What a read brings is the next piece.
LEMMA FreshRun ==
  ASSUME NEW n \in Nat, read \in Nat, read + n <= Total, Total \in Nat
  PROVE  Run(Fresh(n), read) /\ Len(Fresh(n)) = n
<1>1. Fresh(n) \in [1..n -> Bytes]
  BY DEF Fresh, Bytes
<1>2. Fresh(n) \in Seq(Bytes) /\ Len(Fresh(n)) = n
  BY <1>1
<1> QED BY <1>2 DEF Run, Fresh
-----------------------------------------------------------------------------
(* Emitting and pushing.                                                   *)

\* Emitting the next piece keeps ring, counter and events consistent.
LEMMA EmitKeeps ==
  ASSUME SinkInv, NEW data, Run(data, Len(emitted)), Emit(data)
  PROVE  SinkInv' /\ Len(emitted') = Len(emitted) + Len(data)
<1> DEFINE s == scroll \o data
           from == total - Len(scroll)
<1>1. /\ Len(emitted) \in Nat /\ Len(data) \in Nat /\ Len(scroll) \in Nat
      /\ data \in Seq(Bytes)
  BY LenProperties DEF SinkInv, Run
<1>2. Run(emitted', 0) /\ Len(emitted') = Len(emitted) + Len(data)
  <2>1. Run(emitted, 0) /\ Run(data, 0 + Len(emitted)) /\ emitted' = emitted \o data
    BY <1>1 DEF SinkInv, Emit
  <2> QED BY <2>1, ConcatRun
<1>3. total' = Len(emitted') /\ total' = total + Len(data)
  BY <1>2 DEF SinkInv, Emit
<1>4. /\ from \in Nat /\ Run(s, from)
      /\ Len(s) = Len(scroll) + Len(data) /\ Len(s) \in Nat
  <2>1. from \in Nat /\ Run(scroll, from) /\ from + Len(scroll) = Len(emitted)
    BY <1>1 DEF SinkInv
  <2>2. Run(s, from) /\ Len(s) = Len(scroll) + Len(data)
    BY <2>1, ConcatRun
  <2> QED BY <1>1, <2>1, <2>2
<1>5. scroll' \in Seq(Bytes) /\ Len(scroll') <= total' /\ Run(scroll', total' - Len(scroll'))
  <2>1. scroll' \in Trim(s)
    BY DEF Emit
  <2>2. from + Len(s) = total'
    BY <1>1, <1>2, <1>3, <1>4 DEF SinkInv
  <2> HIDE DEF s, from
  <2>3. CASE Len(s) <= Cap + Slack
    <3>1. scroll' = s
      BY <2>1, <2>3 DEF Trim
    <3>2. total' - Len(s) = from /\ Len(s) <= total'
      BY <1>4, <2>2
    <3> QED BY <1>4, <3>1, <3>2 DEF Run
  <2>4. CASE ~(Len(s) <= Cap + Slack)
    <3>1. PICK k \in 0..MaxScan : scroll' = LastOf(s, Cap - k)
      BY <2>1, <2>4 DEF Trim
    <3>2. Cap - k \in 0..Len(s)
      BY <1>4, <2>4, OutAssumption
    <3>3. Run(LastOf(s, Cap - k), from + (Len(s) - (Cap - k))) /\ Len(LastOf(s, Cap - k)) = Cap - k
      <4>1. \A h \in 0..Len(s) :
              Run(LastOf(s, h), from + (Len(s) - h)) /\ Len(LastOf(s, h)) = h
        BY <1>4, SplitRun
      <4> QED BY <3>2, <4>1
    <3>4. from + (Len(s) - (Cap - k)) = total' - (Cap - k) /\ Cap - k <= total'
      BY <1>4, <2>2, <3>2
    <3> QED BY <3>1, <3>3, <3>4 DEF Run
  <2> QED BY <2>3, <2>4
<1>6. wire' \in Seq([data : Seq(Bytes), cum : Nat])
  <2>1. total + Len(data) \in Nat /\ wire \in Seq([data : Seq(Bytes), cum : Nat])
    BY <1>1 DEF SinkInv
  <2>2. [data |-> data, cum |-> total + Len(data)] \in [data : Seq(Bytes), cum : Nat]
    BY <1>1, <2>1
  <2> QED BY <2>1, <2>2 DEF Emit
<1> QED BY <1>2, <1>3, <1>5, <1>6 DEF SinkInv

\* The timer, the limit or the end of the stream: the buffer goes out whole.
LEMMA FlushKeeps ==
  ASSUME SinkInv, BatchInv, FlushLocked
  PROVE  /\ SinkInv' /\ buf' = <<>> /\ timer' = "nil" /\ quiet' \in BOOLEAN
         /\ Len(emitted') = Len(emitted) + Len(buf)
<1>1. CASE buf = <<>>
  BY <1>1, EmptyRun, LenProperties DEF FlushLocked, BatchInv, SinkInv, Run, sink
<1>2. CASE buf # <<>>
  BY <1>2, EmitKeeps DEF FlushLocked, BatchInv
<1> QED BY <1>1, <1>2

\* Push: the piece is emitted, alone or behind what was held, or held behind it.
LEMMA PushKeeps ==
  ASSUME SinkInv, BatchInv, fired' = fired,
         NEW data, Run(data, Len(emitted) + Len(buf)), Push(data)
  PROVE  /\ SinkInv' /\ BatchInv'
         /\ Len(emitted') + Len(buf') = Len(emitted) + Len(buf) + Len(data)
         /\ Len(emitted) <= Len(emitted')
<1>1. /\ Len(emitted) \in Nat /\ Len(buf) \in Nat /\ Len(data) \in Nat
      /\ Len(<<>>) = 0
  BY LenProperties, EmptySeq DEF SinkInv, BatchInv, Run
<1>2. CASE data = <<>>
  BY <1>1, <1>2 DEF Push, SinkInv, BatchInv, sink
<1>3. CASE data # <<>> /\ buf = <<>> /\ quiet
  <2>1. Emit(data) /\ quiet' = FALSE /\ buf' = buf /\ timer' = timer
    BY <1>3 DEF Push
  <2>2. SinkInv' /\ Len(emitted') = Len(emitted) + Len(data)
    BY <1>1, <1>3, <2>1, EmitKeeps
  <2>3. buf' = <<>> /\ Run(buf', Len(emitted'))
    BY <1>3, <2>1, EmptyRun, Zenon
  <2>4. BatchInv'
    BY <2>1, <2>3 DEF BatchInv
  <2>5. Len(buf') = 0
    BY <2>3, EmptySeq, Zenon
  <2> QED BY <1>1, <1>3, <2>2, <2>4, <2>5
<1>4. CASE data # <<>> /\ ~(buf = <<>> /\ quiet)
  <2> DEFINE all == buf \o data
  <2>1. Run(all, Len(emitted)) /\ Len(all) = Len(buf) + Len(data)
    BY <1>1, ConcatRun DEF BatchInv
  <2>2. CASE Len(all) >= MaxBytes
    <3>1. Emit(all) /\ buf' = <<>> /\ quiet' = FALSE /\ timer' = "nil"
      BY <1>4, <2>2 DEF Push
    <3>2. SinkInv' /\ Len(emitted') = Len(emitted) + Len(all)
      BY <2>1, <3>1, EmitKeeps
    <3>3. Run(buf', Len(emitted'))
      BY <3>1, EmptyRun, Zenon
    <3>4. BatchInv'
      BY <3>1, <3>3 DEF BatchInv
    <3>5. Len(buf') = 0
      BY <3>1, EmptySeq, Zenon
    <3> QED BY <1>1, <2>1, <3>2, <3>4, <3>5
  <2>3. CASE ~(Len(all) >= MaxBytes)
    <3>1. /\ buf' = all /\ timer' = IF timer = "nil" THEN "armed" ELSE timer
          /\ UNCHANGED <<quiet, sink>>
      BY <1>4, <2>3 DEF Push
    <3>2. SinkInv' /\ emitted' = emitted
      BY <3>1 DEF SinkInv, sink
    <3> QED BY <1>1, <2>1, <3>1, <3>2 DEF BatchInv
  <2> QED BY <2>2, <2>3
<1> QED BY <1>2, <1>3, <1>4
-----------------------------------------------------------------------------
(* The invariant.                                                          *)

\* The lengths of a state that satisfies the invariant.
LEMMA Lengths ==
  OInv => /\ Len(emitted) \in Nat /\ Len(buf) \in Nat /\ Len(carry) \in Nat
          /\ read \in Nat /\ Len(<<>>) = 0 /\ Total \in Nat
  BY LenProperties, EmptySeq, OutAssumption DEF OInv, SinkInv, BatchInv, PumpInv, Run

LEMMA InitOInv == OutInit => OInv
<1> SUFFICES ASSUME OutInit PROVE OInv
  OBVIOUS
<1>1. Len(<<>>) = 0 /\ <<>> \in Seq(Bytes) /\ \A n : Run(<<>>, n)
  BY EmptyRun, EmptySeq
<1>2. SinkInv
  BY <1>1 DEF OutInit, SinkInv
<1>3. BatchInv
  BY <1>1, OutAssumption DEF OutInit, BatchInv
<1>4. PumpInv
  BY <1>1, OutAssumption DEF OutInit, PumpInv
<1> QED BY <1>2, <1>3, <1>4 DEF OInv

LEMMA PumpReadsKeeps ==
  ASSUME OInv, NEW n \in 1..MaxRead, NEW h \in 0..MaxHold, PumpReads(n, h)
  PROVE  OInv' /\ Len(emitted) <= Len(emitted')
<1> DEFINE data == carry \o Fresh(n)
           at == Len(emitted) + Len(buf)
<1>1. /\ pump = "read" /\ pump' = "read" /\ read + n <= Total /\ h <= Len(data)
      /\ read' = read + n /\ carry' = LastOf(data, h) /\ fired' = fired
      /\ Push(AllBut(data, h))
  BY DEF PumpReads
<1>2. n \in Nat /\ h \in Nat /\ at \in Nat /\ Len(carry) \in Nat
  BY Lengths, OutAssumption
<1>3. Run(data, at) /\ Len(data) = Len(carry) + n
  <2>1. Run(Fresh(n), read) /\ Len(Fresh(n)) = n
    BY <1>1, <1>2, FreshRun, Lengths
  <2>2. Run(carry, at) /\ at + Len(carry) = read
    BY DEF OInv, PumpInv
  <2> QED BY <1>2, <2>1, <2>2, ConcatRun
<1> HIDE DEF data, at
<1>4. /\ Run(AllBut(data, h), at) /\ Len(AllBut(data, h)) = Len(data) - h
      /\ Run(LastOf(data, h), at + (Len(data) - h)) /\ Len(LastOf(data, h)) = h
  <2>1. h \in 0..Len(data)
    BY <1>1, <1>2, <1>3
  <2>2. \A k \in 0..Len(data) :
          /\ Run(AllBut(data, k), at) /\ Len(AllBut(data, k)) = Len(data) - k
          /\ Run(LastOf(data, k), at + (Len(data) - k)) /\ Len(LastOf(data, k)) = k
    BY <1>2, <1>3, SplitRun
  <2> QED BY <2>1, <2>2
<1>5. /\ SinkInv' /\ BatchInv'
      /\ Len(emitted') + Len(buf') = at + (Len(data) - h)
      /\ Len(emitted) <= Len(emitted')
  BY <1>1, <1>4, PushKeeps DEF OInv, at
<1>6. PumpInv'
  <2>1. Run(carry', Len(emitted') + Len(buf')) /\ Len(carry') = h
    BY <1>1, <1>4, <1>5
  <2>2. read' = Len(emitted') + Len(buf') + Len(carry')
    <3>1. read = at + Len(carry)
      BY DEF OInv, PumpInv, at
    <3> QED BY <1>1, <1>2, <1>3, <1>5, <2>1, <3>1
  <2>3. read' \in 0..Total
    BY <1>1, <1>2, Lengths, OutAssumption
  <2>4. pump' = "read"
    BY <1>1
  <2> QED BY <2>1, <2>2, <2>3, <2>4 DEF PumpInv
<1> QED BY <1>5, <1>6 DEF OInv

LEMMA PumpTailKeeps ==
  ASSUME OInv, PumpTail PROVE OInv' /\ Len(emitted) <= Len(emitted')
<1>1. /\ SinkInv' /\ BatchInv'
      /\ Len(emitted') + Len(buf') = Len(emitted) + Len(buf) + Len(carry)
      /\ Len(emitted) <= Len(emitted')
  BY PushKeeps DEF PumpTail, OInv, PumpInv
<1>2. Run(carry', Len(emitted') + Len(buf')) /\ Len(carry') = 0
  BY EmptyRun, Zenon DEF PumpTail
<1>3. PumpInv'
  BY <1>1, <1>2, Lengths DEF PumpTail, OInv, PumpInv
<1> QED BY <1>1, <1>3 DEF OInv

\* The two steps that flush what is held.
LEMMA FlushesKeep ==
  ASSUME OInv, FlushLocked, UNCHANGED <<read, carry>>, fired' \in 0..MaxFired,
         \/ pump' = pump
         \/ pump = "tail" /\ pump' = "end"
  PROVE  OInv' /\ Len(emitted') = Len(emitted) + Len(buf)
<1>1. /\ SinkInv' /\ buf' = <<>> /\ timer' = "nil" /\ quiet' \in BOOLEAN
      /\ Len(emitted') = Len(emitted) + Len(buf)
  BY FlushKeeps DEF OInv
<1>2. Run(buf', Len(emitted')) /\ Len(buf') = 0
  BY <1>1, EmptyRun, Zenon
<1>3. BatchInv'
  BY <1>1, <1>2 DEF BatchInv
<1>4. PumpInv'
  <2>1. Len(emitted') + Len(buf') = Len(emitted) + Len(buf)
    BY <1>1, <1>2, Lengths
  <2>2. Run(carry', Len(emitted') + Len(buf'))
    BY <2>1 DEF OInv, PumpInv
  <2>3. read' = Len(emitted') + Len(buf') + Len(carry')
    BY <2>1 DEF OInv, PumpInv
  <2> QED BY <1>1, <2>2, <2>3 DEF OInv, PumpInv
<1> QED BY <1>1, <1>3, <1>4 DEF OInv

\* Every step keeps the invariant and takes nothing back.
LEMMA StepOInv ==
  ASSUME OInv, [OutNext]_outVars
  PROVE  OInv' /\ Len(emitted) <= Len(emitted')
<1>1. ASSUME NEW n \in 1..MaxRead, NEW h \in 0..MaxHold, PumpReads(n, h)
      PROVE  OInv' /\ Len(emitted) <= Len(emitted')
  BY <1>1, PumpReadsKeeps
<1>2. CASE PumpTail
  BY <1>2, PumpTailKeeps
<1>3. CASE PumpCloses
  <2>1. OInv' /\ Len(emitted') = Len(emitted) + Len(buf)
    BY <1>3, FlushesKeep DEF PumpCloses, OInv, BatchInv
  <2> QED BY <2>1, Lengths
<1>4. CASE TimerFlushes
  <2>1. fired' \in 0..MaxFired
    BY <1>4, OutAssumption DEF TimerFlushes, OInv, BatchInv
  <2>2. OInv' /\ Len(emitted') = Len(emitted) + Len(buf)
    BY <1>4, <2>1, FlushesKeep DEF TimerFlushes
  <2> QED BY <2>2, Lengths
<1>5. CASE QuietSpell
  BY <1>5, Lengths DEF QuietSpell, OInv, SinkInv, BatchInv, PumpInv, sink
<1>6. CASE TimerFires
  BY <1>6, Lengths, OutAssumption DEF TimerFires, OInv, SinkInv, BatchInv, PumpInv, sink
<1>7. CASE UNCHANGED outVars
  BY <1>7, Lengths DEF OInv, SinkInv, BatchInv, PumpInv, outVars, batch, sink
<1> QED BY <1>1, <1>2, <1>3, <1>4, <1>5, <1>6, <1>7 DEF OutNext
-----------------------------------------------------------------------------
(* The theorems.                                                           *)

LEMMA Invariant == OutSpec => []OInv
<1>1. OutInit => OInv
  BY InitOInv
<1>2. OInv /\ [OutNext]_outVars => OInv'
  BY StepOInv
<1> QED BY <1>1, <1>2, PTL DEF OutSpec

\* Every variable of the output path keeps its type: in particular no chunk
\* holds a byte the remote did not send (pumpOutput, Push, appendAndEmit).
THEOREM TypeCorrect == OutSpec => []OutTypeOK
<1>1. OInv => OutTypeOK
  BY DEF OInv, SinkInv, BatchInv, PumpInv, OutTypeOK, Run, Bytes
<1> QED BY <1>1, Invariant, PTL

\* Push, the timer's flush and Close hand on what the pump read in its order,
\* once, whatever the sizes of reads, holds, limits and bursts.
THEOREM OrderKept == OutSpec => []InOrderSoFar
<1>1. OInv => InOrderSoFar
  BY DEF OInv, SinkInv, BatchInv, PumpInv, InOrderSoFar, Run
<1> QED BY <1>1, Invariant, PTL

\* What Push holds back has a timer, or a callback that waits for the lock.
THEOREM HeldIsTimed == OutSpec => []HeldHasTimer
<1>1. OInv => HeldHasTimer
  BY DEF OInv, BatchInv, HeldHasTimer
<1> QED BY <1>1, Invariant, PTL

\* A snapshot of the ring is the end of the stream its counter names.
THEOREM SnapshotCorrect == OutSpec => []SnapshotFits
<1>1. OInv => SnapshotFits
  BY DEF OInv, SinkInv, SnapshotFits, Run
<1> QED BY <1>1, Invariant, PTL
-----------------------------------------------------------------------------
(* The output path implements Stream.                                      *)

\* What the remote has sent, as Stream sees it.
LEMMA SentProperties ==
  OInv => /\ Len(SentBytes) = read
          /\ \A i \in 1..read : SentBytes[i] = i
<1> SUFFICES ASSUME OInv
             PROVE  Len(SentBytes) = read /\ \A i \in 1..read : SentBytes[i] = i
  OBVIOUS
<1>1. read \in Nat
  BY Lengths
<1> QED BY <1>1 DEF SentBytes

\* Prefixes of the stream are ordered by their length.
LEMMA StreamPrefixes ==
  ASSUME OInv, OInv', Len(emitted) <= Len(emitted'), read <= read'
  PROVE  /\ Abs!Begins(SentBytes, SentBytes') /\ Abs!Begins(emitted, emitted')
         /\ Abs!Begins(emitted', SentBytes')
<1>1. /\ Len(emitted) \in Nat /\ Len(emitted') \in Nat /\ read \in Nat /\ read' \in Nat
      /\ \A i \in 1..Len(emitted) : emitted[i] = i
      /\ \A i \in 1..Len(emitted') : emitted'[i] = i
  BY LenProperties DEF OInv, SinkInv, PumpInv, Run
<1>2. Len(emitted') <= read'
  BY LenProperties DEF OInv, SinkInv, BatchInv, PumpInv, Run
<1>3. /\ Len(SentBytes) = read /\ \A i \in 1..read : SentBytes[i] = i
      /\ Len(SentBytes') = read' /\ \A i \in 1..read' : SentBytes'[i] = i
  <2>1. Len(SentBytes) = read /\ \A i \in 1..read : SentBytes[i] = i
    BY SentProperties
  <2>2. Len(SentBytes') = read' /\ \A i \in 1..read' : SentBytes'[i] = i
    BY <1>1 DEF SentBytes
  <2> QED BY <2>1, <2>2
<1> HIDE DEF SentBytes
<1> QED BY <1>1, <1>2, <1>3 DEF Abs!Begins

\* The pump, the coalescer and the ring show the remote's bytes in order, each
\* once, and all of them by the time pumpOutput has closed the coalescer.
THEOREM Refinement == OutSpec => DeliversStream
<1>1. OutInit => Abs!Init
  <2> SUFFICES ASSUME OutInit PROVE Abs!Init
    OBVIOUS
  <2>1. SentBytes = <<>> /\ emitted = <<>> /\ (pump = "end") = FALSE
    BY DEF OutInit, SentBytes
  <2> QED BY <2>1 DEF Abs!Init
<1>2. OInv /\ OInv' /\ [OutNext]_outVars => [Abs!Next]_Abs!vars
  <2> SUFFICES ASSUME OInv, OInv', [OutNext]_outVars
               PROVE  Abs!Next \/ UNCHANGED Abs!vars
    OBVIOUS
  <2>1. Len(emitted) <= Len(emitted')
    BY StepOInv
  <2>2. CASE PumpCloses
    <3>1. /\ pump = "tail" /\ pump' = "end" /\ read' = read
          /\ Len(emitted') = read'
      <4>1. pump = "tail" /\ pump' = "end" /\ read' = read /\ carry' = carry
        BY <2>2 DEF PumpCloses
      <4>2. buf' = <<>> /\ carry' = <<>>
        BY <4>1 DEF OInv, PumpInv
      <4>3. Len(buf') = 0 /\ Len(carry') = 0
        BY <4>2, EmptySeq, Zenon
      <4>4. Len(emitted') \in Nat /\ read' = Len(emitted') + Len(buf') + Len(carry')
        BY LenProperties DEF OInv, SinkInv, PumpInv, Run
      <4> QED BY <4>1, <4>3, <4>4
    <3>2. SentBytes' = SentBytes
      BY <3>1 DEF SentBytes
    <3>3. /\ Abs!Begins(emitted, emitted') /\ Abs!Begins(emitted', SentBytes)
      BY <2>1, <3>1, <3>2, StreamPrefixes, Lengths
    <3>4. Len(emitted') = Len(SentBytes)
      BY <3>1, SentProperties
    <3> QED BY <3>1, <3>2, <3>3, <3>4 DEF Abs!Next, Abs!Finish
  <2>3. CASE pump # "end" /\ ~PumpCloses /\ [OutNext]_outVars
    <3>1. pump' # "end" /\ read <= read'
      BY <2>3, Lengths, OutAssumption
         DEF OutNext, PumpReads, PumpTail, QuietSpell, TimerFires, TimerFlushes, outVars
    <3>2. /\ Abs!Begins(SentBytes, SentBytes') /\ Abs!Begins(emitted, emitted')
          /\ Abs!Begins(emitted', SentBytes')
      BY <2>1, <3>1, StreamPrefixes
    <3> QED BY <2>3, <3>1, <3>2 DEF Abs!Next, Abs!Flow
  <2>4. CASE pump = "end"
    <3>1. pump' = pump /\ read' = read
      BY <2>4 DEF OutNext, PumpReads, PumpTail, PumpCloses, QuietSpell, TimerFires,
                  TimerFlushes, outVars
    <3>2. emitted' = emitted
      <4>1. buf = <<>>
        BY <2>4 DEF OInv, PumpInv
      <4> QED BY <2>4, <4>1
              DEF OutNext, PumpReads, PumpTail, PumpCloses, QuietSpell, TimerFires,
                  TimerFlushes, FlushLocked, outVars, sink
    <3> QED BY <3>1, <3>2 DEF Abs!vars, SentBytes
  <2> QED BY <2>2, <2>3, <2>4
<1>3. OutSpec => []OInv
  BY Invariant
<1> QED BY <1>1, <1>2, <1>3, PTL DEF OutSpec, DeliversStream, Abs!Spec
=============================================================================
