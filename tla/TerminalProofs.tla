--------------------------- MODULE TerminalProofs ---------------------------
(***************************************************************************)
(* Proofs about Terminal, for a stream of any length, any reordering, any  *)
(* frame budget and any number of mounts: types are kept, the screen shows *)
(* every byte at most once and in order, and attaching leaves no hole.     *)
(*                                                                         *)
(* One flush writes any number of chunks, and one reply any number of      *)
(* buffered events: what they amount to is proved by induction on their    *)
(* number, which is done here on sets of numbers, by the least element.    *)
(***************************************************************************)
EXTENDS Terminal, OutBatchProofs, FiniteSetTheorems
-----------------------------------------------------------------------------
(* Induction and recursion over the naturals, in first-order form.         *)

LEMMA Least ==
    ASSUME NEW S \in SUBSET Nat, S # {}
    PROVE  \E n \in S : \A k \in S : n <= k
<1>1. PICK n \in S : \A k \in S : ~ (<<k, n>> \in OpToRel(<, Nat))
  BY NatLessThanWellFounded, WFMin
<1>2. \A k \in S : ~(k < n)
  BY <1>1 DEF OpToRel
<1> QED
  BY <1>2

LEMMA Steps ==
    ASSUME NEW n \in Nat, NEW S, 0 \in S, \A i \in 1..n : i - 1 \in S => i \in S
    PROVE  \A i \in 0..n : i \in S
<1> DEFINE T == {i \in 0..n : i \notin S}
<1> SUFFICES ASSUME T # {} PROVE FALSE
  OBVIOUS
<1>1. T \in SUBSET Nat
  OBVIOUS
<1>2. PICK i \in T : \A k \in T : i <= k
  <2> HIDE DEF T
  <2> QED BY <1>1, Least
<1>3. i \in 1..n /\ i \notin S
  BY <1>2
<1>4. i - 1 \notin T
  BY <1>2, <1>3
<1> QED
  BY <1>3, <1>4
-----------------------------------------------------------------------------
(* The invariant.                                                          *)

\* data is a nonempty piece of the first n bytes and ends with byte end, so
\* that these are its bytes.
IsPiece(data, end, n) ==
    /\ data \in Seq(Bytes) /\ end \in 0..n
    /\ Len(data) \in 1..end /\ Run(data, end - Len(data))

Within(data, end, b) == end - Len(data) < b /\ b <= end

\* What is on its way comes in the order of the stream.
WireInv ==
    /\ \A i \in 1..Len(wire) : IsPiece(wire[i].data, wire[i].cum, total)
    /\ \A i, j \in 1..Len(wire) : i < j => wire[i].cum <= wire[j].cum - Len(wire[j].data)

\* The ring is never cut down to nothing.
RingInv == total > 0 => Len(scroll) > 0

ViewType ==
    /\ phase \in {"off", "asked", "replied", "live"}
    /\ watermark \in Nat /\ writeCum \in Nat \cup {-1}
    /\ gapFrames \in 0..Budget /\ gone \in BOOLEAN /\ forced \in BOOLEAN
    /\ raf = (pending # {})
    /\ screen \in Seq(Bytes) /\ \A i \in 1..Len(screen) : screen[i] <= total
    /\ phase # "live" => pending = {}

\* Event e reached the pane before f did, or will: it comes first in the
\* stream, or its bytes are known to have overtaken.
InTurn(e, f, early) ==
    \/ e.cum <= f.cum - Len(f.data)
    \/ f.cum <= e.cum - Len(e.data) /\ \A k \in 1..Len(e.data) : e.data[k] \in early

\* While the snapshot is awaited nothing is on the screen, and what came
\* meanwhile is in turn.
BufInv ==
    /\ screen = <<>> /\ writeCum = -1
    /\ buffered \in Seq([data : Seq(Bytes), cum : Nat])
    /\ \A i \in 1..Len(buffered) : IsPiece(buffered[i].data, buffered[i].cum, total)
    /\ \A i, j \in 1..Len(buffered) : i < j => InTurn(buffered[i], buffered[j], overtook)
    /\ \A i \in 1..Len(buffered), k \in 1..Len(wire) : InTurn(buffered[i], wire[k], overtook)

OnWire(b) == \E i \in 1..Len(wire) : Within(wire[i].data, wire[i].cum, b)
InBuffer(b) == \E i \in 1..Len(buffered) : Within(buffered[i].data, buffered[i].cum, b)
IsPending(b) == \E p \in pending : Within(p.data, p.end, b)

\* The snapshot ends with the byte its counter names, and what came after it
\* is on its way or here.
SnapInv ==
    /\ snap.cum \in 0..total /\ snap.data \in Seq(Bytes)
    /\ Len(snap.data) <= snap.cum /\ Run(snap.data, snap.cum - Len(snap.data))
    /\ snap.cum > 0 => Len(snap.data) > 0
    /\ \/ gone /\ snap.cum = 0
       \/ \A b \in (snap.cum + 1)..total : OnWire(b) \/ InBuffer(b)

\* Where the next live chunk belongs.
Upto == IF writeCum < 0 THEN watermark ELSE writeCum

IsShown(b) == \E i \in 1..Len(screen) : screen[i] = b

PendingInv ==
    /\ IsFiniteSet(pending)
    /\ \A p \in pending : IsPiece(p.data, p.end, total) /\ p.start = p.end - Len(p.data)

\* A byte that may still be written is not there yet, and what is there
\* belongs before it or has overtaken.
AheadInv ==
    \A b \in (Upto + 1)..total : OnWire(b) \/ IsPending(b) =>
        \A i \in 1..Len(screen) :
            screen[i] # b /\ (screen[i] > b => screen[i] \in overtook)

\* Up to there nothing is missing but a beginning, and what is beyond is
\* there, or will come.
WholeInv ==
    forced \/ NothingToFetch \/
        /\ \A b \in 1..Upto : (\E i \in 1..Len(screen) : screen[i] < b) => IsShown(b)
        /\ \A b \in (Upto + 1)..total : IsShown(b) \/ OnWire(b) \/ IsPending(b)

IInv ==
    /\ OInv /\ WireInv /\ RingInv /\ ViewType
    /\ phase \in {"asked", "replied"} => BufInv
    /\ phase = "replied" => SnapInv
    /\ phase = "live" => PendingInv /\ AheadInv /\ WholeInv
    /\ OnceAndInOrder
-----------------------------------------------------------------------------
(* flushLive: the chunks one by one.                                       *)

LEMMA LatestIn ==
    ASSUME NEW s, s # {}, NEW n \in Nat, \A p \in s : p.start \in 0..n
    PROVE  Latest(s) \in s
<1> DEFINE T == {n - p.start : p \in s}
<1>1. T \in SUBSET Nat /\ T # {}
  OBVIOUS
<1>2. PICK k \in T : \A l \in T : k <= l
  <2> HIDE DEF T
  <2> QED BY <1>1, Least
<1>3. PICK p \in s : k = n - p.start
  BY <1>2
<1>4. ASSUME NEW q \in s PROVE q.start <= p.start
  <2>1. k <= n - q.start /\ p.start \in 0..n /\ q.start \in 0..n
    BY <1>2
  <2> QED BY <1>3, <2>1
<1> QED
  BY <1>4 DEF Latest

LEMMA SmallerByOne ==
    ASSUME NEW P, IsFiniteSet(P), NEW s \in SUBSET P, NEW x \in s
    PROVE  /\ Cardinality(s) \in Nat /\ Cardinality(s) <= Cardinality(P)
           /\ s \ {x} \in SUBSET P /\ Cardinality(s \ {x}) = Cardinality(s) - 1
<1>1. IsFiniteSet(s) /\ Cardinality(s) <= Cardinality(P)
  BY FS_Subset
<1>2. Cardinality(s) \in Nat
  BY <1>1, FS_CardinalityType
<1>3. Cardinality(s \ {x}) = Cardinality(s) - 1
  BY <1>1, FS_RemoveElement
<1> QED
  BY <1>1, <1>2, <1>3

Fresh0(from) == [cum |-> from, out |-> <<>>, left |-> {}]

\* f[s] is what flushing the chunks s makes.
Recurs(f, P, from, force) ==
    /\ Flushed(P, from, force) = f[P] /\ f[{}] = Fresh0(from)
    /\ \A s \in SUBSET P : s # {} =>
         f[s] = FlushOne(f[s \ {Latest(s)}], Latest(s), force)

\* The recursion of Flushed is well founded: each chunk is flushed after the
\* ones before it.
LEMMA FlushedSteps ==
    ASSUME NEW P, IsFiniteSet(P), NEW n \in Nat, \A p \in P : p.start \in 0..n,
           NEW from, NEW force
    PROVE  \E f : Recurs(f, P, from, force)
<1> DEFINE Upon(g, s) == IF s = {} THEN Fresh0(from)
                         ELSE FlushOne(g[s \ {Latest(s)}], Latest(s), force)
           Size(k) == {s \in SUBSET P : Cardinality(s) <= k}
           Good(k) == \E g : g = [s \in Size(k) |-> Upon(g, s)]
           N == Cardinality(P)
           S == {k \in 0..N : Good(k)}
<1>0. N \in Nat
  BY FS_CardinalityType
<1>1. ASSUME NEW s \in SUBSET P, s # {}
      PROVE  /\ Latest(s) \in s /\ s \ {Latest(s)} \in SUBSET P
             /\ Cardinality(s) \in Nat \ {0} /\ Cardinality(s) <= N
             /\ Cardinality(s \ {Latest(s)}) = Cardinality(s) - 1
  <2>1. Latest(s) \in s
    BY <1>1, LatestIn
  <2>2. IsFiniteSet(s) /\ Cardinality(s) # 0
    BY <1>1, FS_Subset, FS_EmptySet
  <2> QED
    BY <2>1, <2>2, SmallerByOne
<1>2. Cardinality({}) = 0
  BY FS_EmptySet
<1>3. 0 \in S
  <2>1. ASSUME NEW s \in Size(0), s # {} PROVE FALSE
    <3>1. s \in SUBSET P /\ Cardinality(s) <= 0
      OBVIOUS
    <3>2. Cardinality(s) \in Nat \ {0}
      BY <1>1, <2>1, <3>1
    <3> QED BY <3>1, <3>2
  <2> DEFINE g == [s \in Size(0) |-> Fresh0(from)]
  <2>2. g = [s \in Size(0) |-> Upon(g, s)]
    BY <2>1
  <2>3. Good(0)
    <3> HIDE DEF g, Upon, Size
    <3> QED BY <2>2
  <2> HIDE DEF Good, N
  <2> QED BY <1>0, <2>3
<1>4. ASSUME NEW k \in 1..N, k - 1 \in S PROVE k \in S
  <2>1. PICK g : g = [s \in Size(k - 1) |-> Upon(g, s)]
    BY <1>4
  <2> DEFINE h == [s \in Size(k) |-> IF s \in Size(k - 1) THEN g[s] ELSE Upon(g, s)]
  <2>2. ASSUME NEW s \in Size(k) PROVE h[s] = Upon(h, s)
    <3>1. CASE s = {}
      <4>1. s \in Size(k - 1)
        BY <1>2, <3>1
      <4>2. g[s] = Fresh0(from)
        BY <2>1, <3>1, <4>1
      <4> QED BY <3>1, <4>1, <4>2
    <3>2. CASE s # {}
      <4>1. s \ {Latest(s)} \in Size(k - 1) /\ s \ {Latest(s)} \in Size(k)
        BY <1>1, <3>2
      <4>2. h[s \ {Latest(s)}] = g[s \ {Latest(s)}]
        BY <4>1
      <4>3. h[s] = Upon(g, s)
        <5>1. CASE s \in Size(k - 1)
          <6>1. g[s] = Upon(g, s)
            <7> HIDE DEF Upon
            <7> QED BY <2>1, <5>1
          <6> HIDE DEF Upon
          <6> QED BY <5>1, <6>1
        <5>2. CASE s \notin Size(k - 1)
          <6> HIDE DEF Upon, Size
          <6> QED BY <5>2
        <5> QED BY <5>1, <5>2
      <4> HIDE DEF h
      <4> QED BY <3>2, <4>2, <4>3
    <3> QED BY <3>1, <3>2
  <2>3. h = [s \in Size(k) |-> Upon(h, s)]
    <3>1. h = [s \in Size(k) |-> h[s]]
      OBVIOUS
    <3> HIDE DEF h, Upon
    <3> QED BY <2>2, <3>1
  <2>4. Good(k)
    <3> HIDE DEF h, Upon, Size
    <3> QED BY <2>3
  <2> HIDE DEF Good, N
  <2> QED BY <1>0, <2>4
<1>5. Good(N)
  <2>1. \A i \in 0..N : i \in S
    <3> HIDE DEF S, N
    <3> QED BY <1>0, <1>3, <1>4, Steps
  <2>2. N \in 0..N
    BY <1>0
  <2> QED BY <2>1, <2>2
<1>6. Size(N) = SUBSET P
  <2>1. ASSUME NEW s \in SUBSET P PROVE Cardinality(s) <= N
    BY FS_Subset
  <2> QED BY <2>1
<1> DEFINE f == CHOOSE g : g = [s \in SUBSET P |-> Upon(g, s)]
<1>7. f = [s \in SUBSET P |-> Upon(f, s)]
  BY <1>5, <1>6
<1>8. Flushed(P, from, force) = f[P]
  BY DEF Flushed, MapThenFoldSet, Fresh0
<1>9. f[{}] = Fresh0(from)
  <2> HIDE DEF f
  <2> QED BY <1>7
<1>10. ASSUME NEW s \in SUBSET P, s # {} PROVE f[s] = FlushOne(f[s \ {Latest(s)}], Latest(s), force)
  <2> HIDE DEF f
  <2> QED BY <1>7, <1>10
<1> HIDE DEF f
<1> QED
  BY <1>8, <1>9, <1>10 DEF Recurs

\* out are bytes in their order, from byte from on and up to byte cum.
Climbs(out, from, cum) ==
    /\ out \in Seq(Bytes)
    /\ \A i \in 1..Len(out) : from < out[i] /\ out[i] <= cum
    /\ \A i, j \in 1..Len(out) : i < j => out[i] < out[j]
    /\ Len(out) <= cum - from
    /\ Len(out) = cum - from => \A i \in 1..Len(out) : out[i] = from + i

\* What chunks s leave behind, one after another from byte from on.
FollowsAs(out, cum, left, s, from, force) ==
    /\ from <= cum /\ Climbs(out, from, cum)
    /\ \A i \in 1..Len(out) : \E p \in s : Within(p.data, p.end, out[i])
    /\ ~force => Len(out) = cum - from
    /\ force => left = {}
    /\ \A p \in s : p.end <= cum \/ p \in left

Follows(a, s, from, force) ==
    /\ a \in [cum : Nat, out : Seq(Bytes), left : SUBSET s]
    /\ FollowsAs(a.out, a.cum, a.left, s, from, force)

LEMMA TailOfRun ==
    ASSUME NEW d, NEW m \in Nat, Run(d, m), NEW k \in 0..Len(d)
    PROVE  /\ Run(SubSeq(d, k + 1, Len(d)), m + k)
           /\ Len(SubSeq(d, k + 1, Len(d))) = Len(d) - k
<1>1. Len(d) \in Nat
  BY LenProperties DEF Run
<1> DEFINE h == Len(d) - k
<1>2. h \in 0..Len(d) /\ Len(d) - h = k
  BY <1>1
<1>3. Run(LastOf(d, h), m + (Len(d) - h)) /\ Len(LastOf(d, h)) = h
  <2> HIDE DEF h
  <2> QED BY <1>2, SplitRun
<1>4. LastOf(d, h) = SubSeq(d, k + 1, Len(d))
  BY <1>2 DEF LastOf
<1> HIDE DEF h
<1> QED
  BY <1>2, <1>3, <1>4, <1>1

\* t is the nonempty run of the bytes after c, up to byte end.
Spans(t, c, end) ==
    /\ t \in Seq(Bytes) /\ c \in Nat /\ end \in Nat
    /\ \E l \in Nat : l = Len(t) /\ l > 0 /\ end = c + l /\ \A i \in 1..l : t[i] = c + i

\* new is out and something after it, between c and end.
Grows(new, out, from, cum, c, end) ==
    /\ Climbs(new, from, end)
    /\ \A i \in 1..Len(new) :
         \/ i \in 1..Len(out) /\ new[i] = out[i]
         \/ c < new[i] /\ new[i] <= end
    /\ c = cum /\ Len(out) = cum - from => Len(new) = end - from

\* Bytes that follow after, up to byte end.
LEMMA ClimbsOn ==
    ASSUME NEW from \in Nat, NEW cum \in Nat, from <= cum, NEW out, Climbs(out, from, cum),
           NEW t, NEW c \in Nat, cum <= c, NEW end \in Nat, Spans(t, c, end)
    PROVE  Grows(out \o t, out, from, cum, c, end)
<1>0. PICK l \in Nat : l = Len(t) /\ l > 0 /\ end = c + l /\ \A i \in 1..l : t[i] = c + i
  BY DEF Spans
<1> DEFINE new == out \o t
<1>7. t \in Seq(Bytes) /\ \A i \in 1..l : t[i] = c + i
  BY <1>0 DEF Spans
<1>8. c >= cum /\ c + l = end /\ l > 0
  BY <1>0
<1>9. PICK m \in Nat : m = Len(out)
  BY LenProperties DEF Climbs
<1>10. /\ \A i \in 1..m : out[i] \in Nat /\ from < out[i] /\ out[i] <= cum
       /\ \A i, j \in 1..m : i < j => out[i] < out[j]
       /\ m <= cum - from
       /\ m = cum - from => \A i \in 1..m : out[i] = from + i
  <2>1. \A i \in 1..m : out[i] \in Bytes
    BY <1>9, ElementOfSeq DEF Climbs
  <2> QED BY <1>9, <2>1 DEF Climbs, Bytes
<1>11. /\ new \in Seq(Bytes) /\ Len(new) = m + l
       /\ \A i \in 1..(m + l) : new[i] = IF i <= m THEN out[i] ELSE t[i - m]
  BY <1>0, <1>7, <1>9, ConcatProperties DEF Climbs
<1> HIDE DEF new
<1>12. ASSUME NEW i \in 1..(m + l), i <= m PROVE i \in 1..m /\ new[i] = out[i]
  BY <1>11, <1>12
<1>13. ASSUME NEW i \in 1..(m + l), ~(i <= m) PROVE new[i] = c + (i - m)
  <2>1. i - m \in 1..l
    BY <1>13
  <2> QED BY <1>7, <1>11, <1>13, <2>1
<1>14. ASSUME NEW i \in 1..(m + l)
       PROVE  /\ from < new[i] /\ new[i] <= end
              /\ \/ i \in 1..m /\ new[i] = out[i]
                 \/ c < new[i]
  <2>1. CASE i <= m
    <3>1. i \in 1..m /\ new[i] = out[i]
      BY <1>12, <2>1
    <3>2. out[i] \in Nat /\ from < out[i] /\ out[i] <= cum
      BY <1>10, <3>1
    <3> QED BY <1>8, <3>1, <3>2
  <2>2. CASE ~(i <= m)
    <3>1. new[i] = c + (i - m)
      BY <1>13, <2>2
    <3> QED BY <1>8, <2>2, <3>1
  <2> QED BY <2>1, <2>2
<1>15. ASSUME NEW i \in 1..(m + l), NEW j \in 1..(m + l), i < j PROVE new[i] < new[j]
  <2>1. CASE j <= m
    <3>1. i <= m
      BY <1>15, <2>1
    <3>2. i \in 1..m /\ j \in 1..m /\ new[i] = out[i] /\ new[j] = out[j]
      BY <1>12, <2>1, <3>1
    <3> QED BY <1>10, <1>15, <3>2
  <2>2. CASE i <= m /\ ~(j <= m)
    <3>1. i \in 1..m /\ new[i] = out[i] /\ new[j] = c + (j - m)
      BY <1>12, <1>13, <2>2
    <3>2. out[i] \in Nat /\ out[i] <= cum
      BY <1>10, <3>1
    <3> QED BY <1>8, <2>2, <3>1, <3>2
  <2>3. CASE ~(i <= m)
    <3>1. ~(j <= m)
      BY <1>15, <2>3
    <3>2. new[i] = c + (i - m) /\ new[j] = c + (j - m)
      BY <1>13, <2>3, <3>1
    <3> QED BY <1>15, <3>2
  <2> QED BY <2>1, <2>2, <2>3
<1>16. m + l <= end - from
  BY <1>8, <1>10
<1>17. ASSUME m + l = end - from, NEW i \in 1..(m + l) PROVE new[i] = from + i
  <2>1. m = cum - from /\ c = cum /\ m + from = cum
    BY <1>8, <1>10, <1>17
  <2>2. CASE i <= m
    BY <1>10, <1>12, <2>1, <2>2
  <2>3. CASE ~(i <= m)
    BY <1>13, <2>1, <2>3
  <2> QED BY <2>2, <2>3
<1>18. c = cum /\ m = cum - from => m + l = end - from
  BY <1>8
<1>19. Climbs(new, from, end)
  BY <1>11, <1>14, <1>15, <1>16, <1>17 DEF Climbs
<1> QED
  BY <1>9, <1>11, <1>14, <1>18, <1>19 DEF new, Grows

\* The overlap of a chunk with what was written.
Overlap(cum, start) == IF cum > start THEN cum - start ELSE 0

Rest(data, cum, start) == SubSeq(data, Overlap(cum, start) + 1, Len(data))

\* c is where the part of a chunk that is written begins.
Resumes(c, cum, start) == cum <= c /\ start <= c /\ (start <= cum => c = cum)

\* What is written of a chunk: the part that is beyond what was written.
LEMMA ChunkRest ==
    ASSUME NEW cum \in Nat, NEW start \in Nat, NEW end \in Nat, NEW data,
           Spans(data, start, end), cum < end
    PROVE  \E c \in Nat : Spans(Rest(data, cum, start), c, end) /\ Resumes(c, cum, start)
<1>0. PICK len \in Nat : len = Len(data) /\ len > 0 /\ end = start + len /\ Run(data, start)
  BY DEF Spans, Run
<1>1. PICK k \in Nat : /\ k = Overlap(cum, start)
                       /\ k <= len /\ k < len /\ cum <= start + k
                       /\ start <= cum => start + k = cum
  <2>1. CASE cum > start
    BY <1>0, <2>1 DEF Overlap
  <2>2. CASE ~(cum > start)
    BY <1>0, <2>2 DEF Overlap
  <2> QED BY <2>1, <2>2
<1> DEFINE t == Rest(data, cum, start)
<1>2. t = SubSeq(data, k + 1, Len(data))
  BY <1>1 DEF Rest
<1> HIDE DEF t
<1>3. Run(t, start + k) /\ Len(t) = len - k
  <2>1. k \in 0..Len(data)
    BY <1>0, <1>1
  <2> QED BY <1>0, <1>2, <2>1, TailOfRun
<1> DEFINE c == start + k
           l == len - k
<1>4. /\ c \in Nat /\ l \in Nat /\ l > 0 /\ end = c + l
      /\ cum <= c /\ start <= c /\ (start <= cum => c = cum)
  BY <1>0, <1>1
<1>5. t \in Seq(Bytes) /\ Len(t) = l /\ \A i \in 1..l : t[i] = c + i
  BY <1>3 DEF Run
<1> HIDE DEF c, l
<1>6. Spans(t, c, end)
  BY <1>4, <1>5 DEF Spans
<1>7. Resumes(c, cum, start)
  BY <1>4 DEF Resumes
<1> HIDE DEF t
<1> QED
  BY <1>4, <1>6, <1>7 DEF t

\* A chunk of flushLive is a piece of the stream.
LEMMA PieceSpans ==
    ASSUME NEW data, NEW end, NEW n \in Nat, IsPiece(data, end, n)
    PROVE  /\ end \in Nat /\ end - Len(data) \in Nat
           /\ Spans(data, end - Len(data), end)
<1>1. end \in Nat /\ Len(data) \in 1..end
  BY DEF IsPiece
<1>2. PICK start \in Nat, l \in Nat : start = end - Len(data) /\ l = Len(data)
                                      /\ l > 0 /\ end = start + l
  BY <1>1
<1>3. Run(data, start)
  BY <1>2 DEF IsPiece
<1>4. Spans(data, start, end)
  BY <1>1, <1>2, <1>3 DEF Spans, Run
<1> QED
  BY <1>1, <1>2, <1>4

\* A chunk that is there already is passed over.
LEMMA FlushPasses ==
    ASSUME NEW s, NEW p \in s, NEW from, NEW force, NEW out, NEW cum, NEW left,
           FollowsAs(out, cum, left, s \ {p}, from, force), p.end <= cum
    PROVE  FollowsAs(out, cum, left, s, from, force)
<1>1. /\ from <= cum /\ Climbs(out, from, cum)
      /\ \A i \in 1..Len(out) : \E q \in s : Within(q.data, q.end, out[i])
      /\ ~force => Len(out) = cum - from
      /\ force => left = {}
      /\ \A q \in s \ {p} : q.end <= cum \/ q \in left
  BY DEF FollowsAs
<1>2. \A q \in s : q.end <= cum \/ q \in left
  BY <1>1
<1> QED
  BY <1>1, <1>2 DEF FollowsAs

\* A chunk behind a gap is left for another frame.
LEMMA FlushLeaves ==
    ASSUME NEW s, NEW p \in s, NEW from, NEW force, NEW out, NEW cum, NEW left,
           FollowsAs(out, cum, left, s \ {p}, from, force), ~force
    PROVE  FollowsAs(out, cum, left \cup {p}, s, from, force)
<1>1. /\ from <= cum /\ Climbs(out, from, cum)
      /\ \A i \in 1..Len(out) : \E q \in s : Within(q.data, q.end, out[i])
      /\ ~force => Len(out) = cum - from
      /\ \A q \in s \ {p} : q.end <= cum \/ q \in left
  BY DEF FollowsAs
<1>2. \A q \in s : q.end <= cum \/ q \in left \cup {p}
  BY <1>1
<1> QED
  BY <1>1, <1>2 DEF FollowsAs

\* Any other chunk is written as far as it is new.
LEMMA FlushWrites ==
    ASSUME NEW s, NEW p \in s, NEW n \in Nat, NEW from \in Nat, NEW force,
           \A q \in s : IsPiece(q.data, q.end, n),
           NEW start \in Nat, start = p.end - Len(p.data),
           NEW out, NEW cum \in Nat, NEW left,
           FollowsAs(out, cum, left, s \ {p}, from, force),
           ~(p.end <= cum), start <= cum \/ force
    PROVE  FollowsAs(out \o Rest(p.data, cum, start), p.end, left, s, from, force)
<1>1. \A q \in s : q.end \in Nat
  BY DEF IsPiece
<1>2. PICK end \in Nat : end = p.end /\ Spans(p.data, start, end)
  <2>1. IsPiece(p.data, p.end, n)
    OBVIOUS
  <2> QED BY <2>1, PieceSpans
<1>3. cum < end
  BY <1>2
<1>4. /\ from <= cum /\ Climbs(out, from, cum)
      /\ \A i \in 1..Len(out) : \E q \in s : Within(q.data, q.end, out[i])
      /\ ~force => Len(out) = cum - from
      /\ force => left = {}
      /\ \A q \in s \ {p} : q.end <= cum \/ q \in left
  BY DEF FollowsAs
<1> DEFINE t == Rest(p.data, cum, start)
<1>5. PICK c \in Nat : Spans(t, c, end) /\ Resumes(c, cum, start)
  BY <1>2, <1>3, ChunkRest
<1> HIDE DEF t
<1> DEFINE new == out \o t
<1>6. Grows(new, out, from, cum, c, end)
  <2>1. cum <= c
    BY <1>5 DEF Resumes
  <2> HIDE DEF new
  <2>2. Grows(out \o t, out, from, cum, c, end)
    BY <1>4, <1>5, <2>1, ClimbsOn
  <2> QED BY <2>2 DEF new
<1> HIDE DEF new
<1>7. ASSUME NEW i \in 1..Len(new) PROVE \E q \in s : Within(q.data, q.end, new[i])
  <2>1. CASE i \in 1..Len(out) /\ new[i] = out[i]
    BY <1>4, <2>1
  <2>2. CASE c < new[i] /\ new[i] <= end
    <3>1. new \in Seq(Bytes)
      BY <1>6 DEF Grows, Climbs
    <3>2. new[i] \in Nat
      <4>1. new[i] \in Bytes
        BY <3>1, ElementOfSeq
      <4> QED BY <4>1 DEF Bytes
    <3>3. start <= c
      BY <1>5 DEF Resumes
    <3>4. start < new[i]
      BY <2>2, <3>2, <3>3
    <3>5. Within(p.data, p.end, new[i])
      BY <1>2, <2>2, <3>4 DEF Within
    <3> QED BY <3>5
  <2> QED BY <1>6, <2>1, <2>2 DEF Grows
<1>8. ASSUME NEW q \in s PROVE q.end <= end \/ q \in left
  <2>1. CASE q = p
    <3>1. end <= end
      OBVIOUS
    <3> QED BY <1>2, <2>1, <3>1
  <2>2. CASE q # p
    <3>1. PICK e \in Nat : e = q.end
      BY <1>1
    <3>2. e <= cum \/ q \in left
      BY <1>4, <2>2, <3>1
    <3>3. e <= end \/ q \in left
      BY <1>3, <3>2
    <3> QED BY <3>1, <3>3
  <2> QED BY <2>1, <2>2
<1>9. ~force => Len(new) = end - from
  <2>1. ASSUME ~force PROVE Len(new) = end - from
    <3>1. c = cum
      BY <1>5, <2>1 DEF Resumes
    <3> QED BY <1>4, <1>6, <2>1, <3>1 DEF Grows
  <2> QED BY <2>1
<1>10. from <= end
  BY <1>3, <1>4
<1>11. Climbs(new, from, end)
  BY <1>6 DEF Grows
<1>12. FollowsAs(new, end, left, s, from, force)
  BY <1>4, <1>7, <1>8, <1>9, <1>10, <1>11 DEF FollowsAs
<1> QED
  BY <1>2, <1>12 DEF new, t

LEMMA FlushOneFollows ==
    ASSUME NEW s, NEW p \in s, NEW n \in Nat, NEW from \in Nat, NEW force,
           force \in BOOLEAN,
           \A q \in s : IsPiece(q.data, q.end, n),
           p.start = p.end - Len(p.data),
           NEW a, Follows(a, s \ {p}, from, force)
    PROVE  Follows(FlushOne(a, p, force), s, from, force)
<1> DEFINE b == FlushOne(a, p, force)
<1>1. PICK start \in Nat : start = p.start /\ start = p.end - Len(p.data)
  <2>1. p.end \in Nat /\ Len(p.data) \in 1..p.end
    BY DEF IsPiece
  <2> QED BY <2>1
<1>2. PICK out \in Seq(Bytes), cum \in Nat, left \in SUBSET (s \ {p}) :
        /\ out = a.out /\ cum = a.cum /\ left = a.left
        /\ a = [cum |-> cum, out |-> out, left |-> left]
        /\ FollowsAs(out, cum, left, s \ {p}, from, force)
  BY DEF Follows
<1>3. p.end \in Nat
  BY DEF IsPiece
<1>4. CASE p.end <= cum
  <2>1. b = a
    BY <1>2, <1>4 DEF FlushOne
  <2>2. FollowsAs(out, cum, left, s, from, force)
    BY <1>2, <1>4, FlushPasses
  <2> HIDE DEF b
  <2>3. Follows(a, s, from, force)
    BY <1>2, <2>2 DEF Follows
  <2> QED BY <2>1, <2>3 DEF b
<1>5. CASE ~(p.end <= cum) /\ (start <= cum \/ force)
  <2> DEFINE new == out \o Rest(p.data, cum, start)
  <2>1. b = [cum |-> p.end, out |-> new, left |-> left]
    BY <1>1, <1>2, <1>5 DEF FlushOne, Rest, Overlap
  <2>2. FollowsAs(new, p.end, left, s, from, force)
    BY <1>1, <1>2, <1>5, FlushWrites
  <2> HIDE DEF new, b
  <2>3. new \in Seq(Bytes)
    BY <2>2 DEF FollowsAs, Climbs
  <2>4. b \in [cum : Nat, out : Seq(Bytes), left : SUBSET s]
        /\ b.cum = p.end /\ b.out = new /\ b.left = left
    BY <1>3, <2>1, <2>3
  <2>5. Follows(b, s, from, force)
    BY <2>2, <2>4 DEF Follows
  <2> QED BY <2>5 DEF b
<1>6. CASE ~(p.end <= cum) /\ ~(start <= cum \/ force)
  <2>1. b = [a EXCEPT !.left = a.left \cup {p}]
    BY <1>1, <1>2, <1>6 DEF FlushOne
  <2> HIDE DEF b
  <2>2. /\ b \in [cum : Nat, out : Seq(Bytes), left : SUBSET s]
        /\ b.cum = cum /\ b.out = out /\ b.left = left \cup {p}
    BY <1>2, <2>1
  <2>3. FollowsAs(out, cum, left \cup {p}, s, from, force)
    BY <1>2, <1>6, FlushLeaves
  <2>4. Follows(b, s, from, force)
    BY <2>2, <2>3 DEF Follows
  <2> QED BY <2>4 DEF b
<1> QED
  BY <1>4, <1>5, <1>6

\* What flushLive makes of the chunks P.
LEMMA FlushedFollows ==
    ASSUME NEW P, IsFiniteSet(P), NEW n \in Nat, NEW from \in Nat, NEW force,
           force \in BOOLEAN,
           \A p \in P : IsPiece(p.data, p.end, n) /\ p.start = p.end - Len(p.data)
    PROVE  Follows(Flushed(P, from, force), P, from, force)
<1>1. \A p \in P : p.start \in 0..n
  BY DEF IsPiece
<1>2. PICK f : Recurs(f, P, from, force)
  BY <1>1, FlushedSteps
<1> DEFINE N == Cardinality(P)
           S == {k \in 0..N : \A s \in SUBSET P :
                    Cardinality(s) = k => Follows(f[s], s, from, force)}
<1>3. N \in Nat
  BY FS_CardinalityType
<1>4. 0 \in S
  <2>1. ASSUME NEW s \in SUBSET P, Cardinality(s) = 0 PROVE Follows(f[s], s, from, force)
    <3>1. s = {}
      BY <2>1, FS_Subset, FS_EmptySet
    <3>2. Climbs(<<>>, from, from)
      BY EmptySeq DEF Climbs
    <3>3. Len(<<>>) = 0
      BY EmptySeq
    <3>4. Follows(Fresh0(from), {}, from, force)
      <4>1. FollowsAs(<<>>, from, {}, {}, from, force)
        BY <3>2, <3>3 DEF FollowsAs
      <4> DEFINE a == Fresh0(from)
      <4>2. /\ a \in [cum : Nat, out : Seq(Bytes), left : SUBSET {}]
            /\ a.out = <<>> /\ a.cum = from /\ a.left = {}
        BY EmptySeq DEF Fresh0
      <4> HIDE DEF a
      <4>3. Follows(a, {}, from, force)
        BY <4>1, <4>2 DEF Follows
      <4> QED BY <4>3 DEF a
    <3> QED BY <1>2, <3>1, <3>4 DEF Recurs
  <2> HIDE DEF N
  <2> QED BY <1>3, <2>1
<1>5. ASSUME NEW k \in 1..N, k - 1 \in S PROVE k \in S
  <2>1. ASSUME NEW s \in SUBSET P, Cardinality(s) = k PROVE Follows(f[s], s, from, force)
    <3>1. s # {}
      <4>1. k # 0 /\ Cardinality({}) = 0
        BY FS_EmptySet
      <4> QED BY <2>1, <4>1
    <3>2. PICK p \in s : p = Latest(s)
      BY <1>1, <3>1, LatestIn
    <3>3. s \ {p} \in SUBSET P /\ Cardinality(s \ {p}) = k - 1
      BY <2>1, SmallerByOne
    <3>4. Follows(f[s \ {p}], s \ {p}, from, force)
      BY <1>5, <3>3
    <3>5. f[s] = FlushOne(f[s \ {p}], p, force)
      BY <1>2, <3>1, <3>2 DEF Recurs
    <3>6. Follows(FlushOne(f[s \ {p}], p, force), s, from, force)
      <4>1. \A q \in s : IsPiece(q.data, q.end, n)
        OBVIOUS
      <4>2. p.start = p.end - Len(p.data)
        OBVIOUS
      <4>3. Follows(f[s \ {p}], s \ {p}, from, force)
        BY <3>4
      <4> HIDE DEF S
      <4> QED BY <4>1, <4>2, <4>3, FlushOneFollows
    <3> QED BY <3>5, <3>6
  <2> HIDE DEF N
  <2> QED BY <1>3, <2>1
<1>6. N \in S
  <2>1. \A i \in 0..N : i \in S
    <3> HIDE DEF S, N
    <3> QED BY <1>3, <1>4, <1>5, Steps
  <2> QED BY <1>3, <2>1
<1> QED
  BY <1>2, <1>6 DEF Recurs

\* What may still be written is what it was, with chunks P for the pending ones.
Covers(P) ==
    \A b \in Nat :
        OnWire(b) \/ IsPending(b) <=> OnWire(b)' \/ \E p \in P : Within(p.data, p.end, b)

ArePieces(P) ==
    /\ IsFiniteSet(P)
    /\ \A p \in P : IsPiece(p.data, p.end, total) /\ p.start = p.end - Len(p.data)

LiveInv == ViewType /\ PendingInv /\ AheadInv /\ WholeInv /\ OnceAndInOrder

LEMMA LiveTyped ==
    ASSUME OInv, ViewType
    PROVE  /\ Upto \in Nat /\ total \in Nat /\ Total \in Nat /\ Len(screen) \in Nat
           /\ \A i \in 1..Len(screen) : screen[i] \in Nat /\ screen[i] <= total
<1>1. total \in Nat /\ Total \in Nat
  BY Lengths DEF OInv, SinkInv
<1>2. Len(screen) \in Nat /\ \A i \in 1..Len(screen) : screen[i] \in Bytes
  BY LenProperties, ElementOfSeq DEF ViewType
<1>3. Upto \in Nat
  BY DEF ViewType, Upto
<1> QED
  BY <1>1, <1>2, <1>3 DEF Bytes, ViewType

\* A byte within a piece of the stream is one of those that were emitted.
LEMMA WithinPiece ==
    ASSUME NEW n \in Nat, NEW data, NEW end, IsPiece(data, end, n), NEW b, b \in Nat,
           Within(data, end, b)
    PROVE  b \in 1..n /\ b <= end
<1>1. end \in Nat /\ end <= n /\ Len(data) \in Nat /\ Len(data) <= end
  BY DEF IsPiece
<1> QED
  BY <1>1 DEF Within

\* The run that flushLive writes.
LEMMA FlushLiveRun ==
    ASSUME OInv, ViewType, NEW P, ArePieces(P), FlushLive(P)
    PROVE  \E out \in Seq(Bytes), cum \in Nat, left \in SUBSET P, force \in BOOLEAN :
             /\ force <=> gapFrames >= Budget
             /\ FollowsAs(out, cum, left, P, Upto, force)
             /\ writeCum' = cum /\ screen' = screen \o out /\ pending' = left
             /\ raf' = (left # {})
             /\ gapFrames' = (IF left # {} THEN gapFrames + 1 ELSE 0)
             /\ forced' = (forced \/ (force /\ Len(out) < cum - Upto))
<1> DEFINE force == gapFrames >= Budget
           d == Flushed(P, Upto, force)
<1>1. Upto \in Nat /\ total \in Nat
  BY LiveTyped
<1>2. Follows(d, P, Upto, force)
  <2> DEFINE g == gapFrames >= Budget
  <2>1. g \in BOOLEAN
    OBVIOUS
  <2> HIDE DEF g
  <2>2. Follows(Flushed(P, Upto, g), P, Upto, g)
    BY <1>1, <2>1, FlushedFollows DEF ArePieces
  <2> QED BY <2>2 DEF g
<1>3. /\ writeCum' = d.cum /\ screen' = screen \o d.out /\ pending' = d.left
      /\ raf' = (d.left # {})
      /\ gapFrames' = (IF d.left # {} THEN gapFrames + 1 ELSE 0)
      /\ forced' = (forced \/ (force /\ Len(d.out) < d.cum - Upto))
  BY DEF FlushLive, Reschedule, Upto
<1> HIDE DEF d
<1>4. d.out \in Seq(Bytes) /\ d.cum \in Nat /\ d.left \in SUBSET P
      /\ FollowsAs(d.out, d.cum, d.left, P, Upto, force)
  BY <1>2 DEF Follows
<1>5. force \in BOOLEAN /\ (force <=> gapFrames >= Budget)
  OBVIOUS
<1> HIDE DEF force
<1> QED
  BY <1>3, <1>4, <1>5

LEMMA FlushLiveKeeps ==
    ASSUME OInv, LiveInv, NEW P, ArePieces(P), Covers(P), FlushLive(P), phase = "live",
           UNCHANGED <<phase, watermark, gone, overtook, total>>
    PROVE  LiveInv'
<1>1. PICK out \in Seq(Bytes), cum \in Nat, left \in SUBSET P, force \in BOOLEAN :
             /\ force <=> gapFrames >= Budget
             /\ FollowsAs(out, cum, left, P, Upto, force)
             /\ writeCum' = cum /\ screen' = screen \o out /\ pending' = left
             /\ raf' = (left # {})
             /\ gapFrames' = (IF left # {} THEN gapFrames + 1 ELSE 0)
             /\ forced' = (forced \/ (force /\ Len(out) < cum - Upto))
  BY FlushLiveRun DEF LiveInv
<1>2. PICK from \in Nat : from = Upto
  BY LiveTyped DEF LiveInv
<1>3. PICK m \in Nat : m = Len(screen)
  BY LiveTyped DEF LiveInv
<1>4. PICK l \in Nat : l = Len(out)
  BY LenProperties
<1>5. /\ from <= cum /\ \A i \in 1..l : out[i] \in Nat /\ from < out[i] /\ out[i] <= cum
      /\ \A i, j \in 1..l : i < j => out[i] < out[j]
      /\ l = cum - from => \A i \in 1..l : out[i] = from + i
      /\ \A i \in 1..l : \E p \in P : Within(p.data, p.end, out[i])
      /\ ~force => l = cum - from
      /\ force => left = {}
      /\ \A p \in P : p.end <= cum \/ p \in left
      /\ l <= cum - from
  <2>1. \A i \in 1..l : out[i] \in Nat
    <3>1. \A i \in 1..l : out[i] \in Bytes
      BY <1>4, ElementOfSeq
    <3> QED BY <3>1 DEF Bytes
  <2>2. FollowsAs(out, cum, left, P, from, force)
    BY <1>1, <1>2
  <2> QED BY <1>4, <2>1, <2>2 DEF FollowsAs, Climbs
<1>6. /\ \A i \in 1..m : screen[i] \in Nat /\ screen[i] <= total
      /\ total \in Nat /\ screen \in Seq(Bytes)
  BY <1>3, LiveTyped DEF LiveInv, ViewType
<1>7. /\ screen' \in Seq(Bytes) /\ Len(screen') = m + l
      /\ \A i \in 1..m : screen'[i] = screen[i]
      /\ \A i \in 1..l : screen'[m + i] = out[i]
  <2>1. /\ screen' \in Seq(Bytes) /\ Len(screen') = m + l
        /\ \A i \in 1..(m + l) : screen'[i] = IF i <= m THEN screen[i] ELSE out[i - m]
    BY <1>1, <1>3, <1>4, <1>6, ConcatProperties
  <2>2. ASSUME NEW i \in 1..l PROVE screen'[m + i] = out[i]
    <3>1. m + i \in 1..(m + l) /\ ~(m + i <= m) /\ (m + i) - m = i
      OBVIOUS
    <3> QED BY <2>1, <3>1
  <2> QED BY <2>1, <2>2
<1>8. ASSUME NEW i \in 1..(m + l)
      PROVE  i \in 1..m \/ \E k \in 1..l : i = m + k
  <2>1. CASE i <= m
    BY <2>1
  <2>2. CASE ~(i <= m)
    <3>1. i - m \in 1..l /\ i = m + (i - m)
      BY <2>2
    <3> QED BY <3>1
  <2> QED BY <2>1, <2>2
<1>9. ASSUME NEW i \in 1..l PROVE OnWire(out[i]) \/ IsPending(out[i])
  BY <1>5 DEF Covers
<1>10. ASSUME NEW i \in 1..l
       PROVE  /\ out[i] \in (from + 1)..total
              /\ \A k \in 1..m : screen[k] # out[i] /\ (screen[k] > out[i] => screen[k] \in overtook)
  <2>1. out[i] <= total
    <3>1. PICK p \in P : Within(p.data, p.end, out[i])
      BY <1>5
    <3> QED BY <1>5, <1>6, <3>1, WithinPiece DEF ArePieces
  <2>2. out[i] \in (from + 1)..total
    BY <1>5, <1>6, <2>1
  <2> QED BY <1>2, <1>3, <1>9, <2>2 DEF LiveInv, AheadInv
<1>11. Upto' = cum
  BY <1>1 DEF Upto
<1>12. OnceAndInOrder'
  <2>1. ASSUME NEW i \in 1..(m + l), NEW j \in 1..(m + l), i < j
        PROVE  /\ screen'[i] # screen'[j]
               /\ screen'[i] > screen'[j] => screen'[i] \in overtook
    <3>1. CASE i \in 1..m /\ j \in 1..m
      BY <1>3, <1>7, <2>1, <3>1 DEF LiveInv, OnceAndInOrder
    <3>2. ASSUME i \in 1..m, NEW k \in 1..l, j = m + k
          PROVE  /\ screen'[i] # screen'[j]
                 /\ screen'[i] > screen'[j] => screen'[i] \in overtook
      BY <1>7, <1>10, <3>2
    <3>3. ASSUME NEW h \in 1..l, NEW k \in 1..l, i = m + h, j = m + k
          PROVE  /\ screen'[i] # screen'[j]
                 /\ screen'[i] > screen'[j] => screen'[i] \in overtook
      <4>1. h < k /\ screen'[i] = out[h] /\ screen'[j] = out[k]
        BY <1>7, <2>1, <3>3
      <4>2. out[h] < out[k] /\ out[h] \in Nat /\ out[k] \in Nat
        BY <1>5, <4>1
      <4> QED BY <4>1, <4>2
    <3>4. i \in 1..m \/ j \notin 1..m
      BY <2>1
    <3> QED BY <1>8, <3>1, <3>2, <3>3, <3>4
  <2> QED BY <1>7, <2>1 DEF OnceAndInOrder
<1>13. AheadInv'
  <2>1. ASSUME NEW b \in (cum + 1)..total, OnWire(b)' \/ IsPending(b)', NEW i \in 1..(m + l)
        PROVE  screen'[i] # b /\ (screen'[i] > b => screen'[i] \in overtook)
    <3>1. OnWire(b) \/ IsPending(b)
      <4>1. IsPending(b)' => \E p \in P : Within(p.data, p.end, b)
        BY <1>1 DEF IsPending
      <4> QED BY <1>6, <2>1, <4>1 DEF Covers
    <3>2. b \in (from + 1)..total
      BY <1>5, <1>6
    <3>3. CASE i \in 1..m
      BY <1>2, <1>3, <1>7, <3>1, <3>2, <3>3 DEF LiveInv, AheadInv
    <3>4. ASSUME NEW k \in 1..l, i = m + k
          PROVE  screen'[i] # b /\ (screen'[i] > b => screen'[i] \in overtook)
      <4>1. screen'[i] = out[k] /\ out[k] \in Nat /\ out[k] <= cum
        BY <1>5, <1>7, <3>4
      <4>2. out[k] < b
        BY <1>6, <4>1
      <4> QED BY <1>6, <4>1, <4>2
    <3> QED BY <1>8, <3>3, <3>4
  <2>2. total' = total /\ overtook' = overtook
    OBVIOUS
  <2> QED BY <1>7, <1>11, <2>1, <2>2 DEF AheadInv
<1>14. WholeInv'
  <2>1. SUFFICES ASSUME ~forced', ~NothingToFetch'
        PROVE  /\ \A b \in 1..cum : (\E i \in 1..(m + l) : screen'[i] < b) => IsShown(b)'
               /\ \A b \in (cum + 1)..total : IsShown(b)' \/ OnWire(b)' \/ IsPending(b)'
    BY <1>7, <1>11 DEF WholeInv
  <2>2. /\ ~forced /\ ~NothingToFetch
        /\ l = cum - from
    <3>1. ~forced /\ ~(force /\ Len(out) < cum - Upto)
      BY <1>1, <2>1
    <3>2. l = cum - from
      BY <1>2, <1>4, <1>5, <3>1
    <3> QED BY <2>1, <3>1, <3>2 DEF NothingToFetch
  <2>3. /\ \A b \in 1..from : (\E i \in 1..m : screen[i] < b) => IsShown(b)
        /\ \A b \in (from + 1)..total : IsShown(b) \/ OnWire(b) \/ IsPending(b)
    BY <1>2, <1>3, <2>2 DEF LiveInv, WholeInv
  <2>4. \A b : IsShown(b) => IsShown(b)'
    <3>1. \A i \in 1..m : i \in 1..(m + l)
      OBVIOUS
    <3> QED BY <1>3, <1>7, <3>1 DEF IsShown
  <2>5. ASSUME NEW b \in 1..cum, NEW i \in 1..(m + l), screen'[i] < b PROVE IsShown(b)'
    <3>1. CASE b <= from
      <4>1. CASE i \in 1..m
        <5>1. screen[i] < b /\ b \in 1..from
          BY <1>7, <2>5, <3>1, <4>1
        <5> QED BY <2>3, <2>4, <4>1, <5>1
      <4>2. ASSUME NEW k \in 1..l, i = m + k PROVE FALSE
        <5>1. screen'[i] = out[k] /\ out[k] \in Nat /\ from < out[k]
          BY <1>5, <1>7, <4>2
        <5> QED BY <2>5, <3>1, <5>1
      <4> QED BY <1>8, <4>1, <4>2
    <3>2. CASE ~(b <= from)
      <4>1. b - from \in 1..l /\ from + (b - from) = b
        BY <2>2, <3>2
      <4>2. out[b - from] = b
        BY <1>5, <2>2, <4>1
      <4>3. screen'[m + (b - from)] = b /\ m + (b - from) \in 1..(m + l)
        BY <1>7, <4>1, <4>2
      <4> QED BY <1>7, <4>3 DEF IsShown
    <3> QED BY <3>1, <3>2
  <2>6. ASSUME NEW b \in (cum + 1)..total PROVE IsShown(b)' \/ OnWire(b)' \/ IsPending(b)'
    <3>1. b \in (from + 1)..total /\ b \in Nat
      BY <1>5, <1>6
    <3>2. CASE IsShown(b)
      BY <2>4, <3>2
    <3>3. ASSUME NEW p \in P, Within(p.data, p.end, b) PROVE IsPending(b)'
      <4>1. p.end \in Nat /\ b <= p.end
        BY <1>6, <3>1, <3>3, WithinPiece DEF ArePieces, IsPiece
      <4>2. p \in left
        BY <1>5, <4>1
      <4> QED BY <1>1, <3>3, <4>2 DEF IsPending
    <3> QED BY <2>3, <3>1, <3>2, <3>3 DEF Covers
  <2> QED BY <2>5, <2>6
<1>15. PendingInv'
  <2>1. IsFiniteSet(left)
    BY FS_Subset DEF ArePieces
  <2> QED BY <1>1, <2>1 DEF PendingInv, ArePieces
<1>16. ViewType'
  <2>1. \A i \in 1..(m + l) : screen'[i] <= total
    <3>1. ASSUME NEW i \in 1..(m + l) PROVE screen'[i] <= total
      <4>1. ASSUME NEW k \in 1..l, i = m + k PROVE screen'[i] <= total
        <5>1. out[k] \in (from + 1)..total /\ screen'[i] = out[k]
          BY <1>7, <1>10, <4>1
        <5> QED BY <1>6, <5>1
      <4> QED BY <1>6, <1>7, <1>8, <4>1
    <3> QED BY <3>1
  <2>2. gapFrames' \in 0..Budget
    <3>1. gapFrames \in 0..Budget /\ Budget \in Nat
      BY TermAssumption DEF LiveInv, ViewType
    <3>2. left # {} => ~(gapFrames >= Budget)
      BY <1>1, <1>5
    <3> QED BY <1>1, <3>1, <3>2
  <2>3. forced' \in BOOLEAN
    BY <1>1, <1>4 DEF LiveInv, ViewType
  <2>4. raf' = (pending' # {})
    BY <1>1
  <2> QED BY <1>1, <1>7, <2>1, <2>2, <2>3, <2>4 DEF LiveInv, ViewType
<1> QED
  BY <1>12, <1>13, <1>14, <1>15, <1>16 DEF LiveInv

\* A chunk that waits for the frame that is scheduled.
LEMMA QueueKeeps ==
    ASSUME OInv, LiveInv, NEW P, ArePieces(P), Covers(P), pending' = P, phase = "live",
           raf, P # {},
           UNCHANGED <<phase, watermark, gone, overtook, total, writeCum, gapFrames, raf,
                       screen, forced>>
    PROVE  LiveInv'
<1>1. Upto' = Upto /\ NothingToFetch' = NothingToFetch /\ (\A b : IsShown(b)' <=> IsShown(b))
  BY DEF Upto, NothingToFetch, IsShown
<1>2. Upto \in Nat /\ total \in Nat
  BY LiveTyped DEF LiveInv
<1>3. \A b \in Nat : OnWire(b)' \/ IsPending(b)' <=> OnWire(b) \/ IsPending(b)
  BY DEF Covers, IsPending
<1>4. \A b \in (Upto + 1)..total : b \in Nat
  BY <1>2
<1>5. AheadInv'
  BY <1>1, <1>3, <1>4 DEF LiveInv, AheadInv
<1>6. WholeInv'
  BY <1>1, <1>3, <1>4 DEF LiveInv, WholeInv
<1>7. PendingInv'
  BY DEF PendingInv, ArePieces
<1>8. ViewType'
  BY DEF LiveInv, ViewType
<1>9. OnceAndInOrder'
  BY DEF LiveInv, OnceAndInOrder
<1> QED
  BY <1>5, <1>6, <1>7, <1>8, <1>9 DEF LiveInv
-----------------------------------------------------------------------------
(* What is on its way.                                                     *)

Events == [data : Seq(Bytes), cum : Nat]

LEMMA Removed ==
    ASSUME NEW S, NEW w \in Seq(S), NEW i \in 1..Len(w)
    PROVE  /\ RemoveAt(w, i) \in Seq(S) /\ Len(RemoveAt(w, i)) = Len(w) - 1
           /\ \A k \in 1..(Len(w) - 1) : RemoveAt(w, i)[k] = IF k < i THEN w[k] ELSE w[k + 1]
<1> DEFINE a == SubSeq(w, 1, i - 1)
           b == SubSeq(w, i + 1, Len(w))
<1>1. PICK n \in Nat : n = Len(w)
  BY LenProperties
<1>2. i \in 1..n /\ i \in Nat /\ \A k \in 1..n : w[k] \in S
  BY <1>1, ElementOfSeq
<1>3. /\ a \in Seq(S) /\ Len(a) = i - 1
      /\ \A k \in 1..(i - 1) : a[k] = w[k]
  <2>1. /\ a \in Seq(S) /\ Len(a) = IF 1 <= i - 1 THEN (i - 1) - 1 + 1 ELSE 0
        /\ \A k \in 1..((i - 1) - 1 + 1) : a[k] = w[1 + k - 1]
    <3>1. 1 \in Int /\ i - 1 \in Int /\ \A k \in 1..(i - 1) : w[k] \in S
      BY <1>2
    <3> QED BY <3>1, SubSeqProperties
  <2> HIDE DEF a
  <2>2. (i - 1) - 1 + 1 = i - 1 /\ \A k \in 1..(i - 1) : 1 + k - 1 = k
    BY <1>2
  <2> QED BY <1>2, <2>1, <2>2
<1>4. /\ b \in Seq(S) /\ Len(b) = n - i
      /\ \A k \in 1..(n - i) : b[k] = w[i + k]
  <2>1. /\ b \in Seq(S) /\ Len(b) = IF i + 1 <= n THEN n - (i + 1) + 1 ELSE 0
        /\ \A k \in 1..(n - (i + 1) + 1) : b[k] = w[(i + 1) + k - 1]
    <3>1. i + 1 \in Int /\ n \in Int /\ \A k \in (i + 1)..n : w[k] \in S
      BY <1>2
    <3> QED BY <1>1, <3>1, SubSeqProperties
  <2> HIDE DEF b
  <2>2. n - (i + 1) + 1 = n - i /\ \A k \in 1..(n - i) : (i + 1) + k - 1 = i + k
    BY <1>2
  <2> QED BY <1>2, <2>1, <2>2
<1>5. RemoveAt(w, i) = a \o b
  BY DEF RemoveAt
<1> HIDE DEF a, b
<1>6. /\ a \o b \in Seq(S) /\ Len(a \o b) = n - 1
      /\ \A k \in 1..(n - 1) : (a \o b)[k] = IF k <= i - 1 THEN a[k] ELSE b[k - (i - 1)]
  <2>1. (i - 1) + (n - i) = n - 1
    BY <1>2
  <2>2. /\ a \o b \in Seq(S) /\ Len(a \o b) = (i - 1) + (n - i)
        /\ \A k \in 1..((i - 1) + (n - i)) :
              (a \o b)[k] = IF k <= i - 1 THEN a[k] ELSE b[k - (i - 1)]
    <3>1. PICK p \in Nat, q \in Nat : p = i - 1 /\ q = n - i
      BY <1>2
    <3>2. Len(a) = p /\ Len(b) = q
      BY <1>3, <1>4, <3>1
    <3>3. /\ a \o b \in Seq(S) /\ Len(a \o b) = p + q
          /\ \A k \in 1..(p + q) : (a \o b)[k] = IF k <= p THEN a[k] ELSE b[k - p]
      BY <1>3, <1>4, <3>2, ConcatProperties
    <3> QED BY <3>1, <3>3
  <2> QED BY <2>1, <2>2
<1>7. ASSUME NEW k \in 1..(n - 1)
      PROVE  (a \o b)[k] = IF k < i THEN w[k] ELSE w[k + 1]
  <2>1. CASE k < i
    <3>1. k <= i - 1 /\ k \in 1..(i - 1)
      BY <1>2, <2>1
    <3> QED BY <1>3, <1>6, <2>1, <3>1
  <2>2. CASE ~(k < i)
    <3>1. ~(k <= i - 1) /\ k - (i - 1) \in 1..(n - i) /\ i + (k - (i - 1)) = k + 1
      BY <1>2, <2>2
    <3> QED BY <1>4, <1>6, <2>2, <3>1
  <2> QED BY <2>1, <2>2
<1> QED
  BY <1>1, <1>5, <1>6, <1>7

\* Where the events were that are left, and that their order is kept.
LEMMA Delivered ==
    ASSUME OInv, WireInv, NEW i \in 1..Len(wire), wire' = RemoveAt(wire, i),
           UNCHANGED <<read, carry, batch, pump, emitted, scroll, total>>
    PROVE  /\ OInv' /\ WireInv'
           /\ \A k \in 1..Len(wire') : \E j \in 1..Len(wire) : j # i /\ wire'[k] = wire[j]
           /\ \A b : OnWire(b) <=> OnWire(b)' \/ Within(wire[i].data, wire[i].cum, b)
<1>1. PICK n \in Nat : n = Len(wire)
  BY LenProperties DEF OInv, SinkInv
<1>2. i \in 1..n
  BY <1>1
<1>3. /\ wire' \in Seq(Events) /\ Len(wire') = n - 1
      /\ \A k \in 1..(n - 1) : wire'[k] = IF k < i THEN wire[k] ELSE wire[k + 1]
  <2>1. wire \in Seq(Events)
    BY DEF OInv, SinkInv, Events
  <2> QED BY <1>1, <2>1, Removed
<1>4. OInv'
  <2>1. SinkInv'
    BY <1>3 DEF OInv, SinkInv, Events, Run
  <2>2. BatchInv'
    BY DEF OInv, BatchInv, batch, Run
  <2>3. PumpInv'
    BY DEF OInv, PumpInv, batch, Run
  <2> QED BY <2>1, <2>2, <2>3 DEF OInv
<1> DEFINE At(k) == IF k < i THEN k ELSE k + 1
<1>5. ASSUME NEW k \in 1..(n - 1) PROVE At(k) \in 1..n /\ At(k) # i /\ wire'[k] = wire[At(k)]
  <2>1. CASE k < i
    BY <1>2, <1>3, <2>1
  <2>2. CASE ~(k < i)
    BY <1>2, <1>3, <2>2
  <2> QED BY <2>1, <2>2
<1>6. ASSUME NEW j \in 1..n, j # i PROVE \E k \in 1..(n - 1) : At(k) = j
  <2>1. CASE j < i
    <3>1. j \in 1..(n - 1) /\ At(j) = j
      BY <1>2, <2>1
    <3> QED BY <3>1
  <2>2. CASE ~(j < i)
    <3>1. j - 1 \in 1..(n - 1) /\ At(j - 1) = j
      BY <1>2, <1>6, <2>2
    <3> QED BY <3>1
  <2> QED BY <2>1, <2>2
<1>7. ASSUME NEW k \in 1..(n - 1), NEW l \in 1..(n - 1), k < l PROVE At(k) < At(l)
  BY <1>2, <1>7
<1> HIDE DEF At
<1>8. WireInv'
  <2>1. \A k \in 1..(n - 1) : IsPiece(wire'[k].data, wire'[k].cum, total)
    BY <1>1, <1>5 DEF WireInv
  <2>2. ASSUME NEW k \in 1..(n - 1), NEW l \in 1..(n - 1), k < l
        PROVE  wire'[k].cum <= wire'[l].cum - Len(wire'[l].data)
    <3>1. /\ At(k) \in 1..n /\ At(l) \in 1..n /\ At(k) < At(l)
          /\ wire'[k] = wire[At(k)] /\ wire'[l] = wire[At(l)]
      BY <1>5, <1>7, <2>2
    <3> QED BY <1>1, <3>1 DEF WireInv
  <2> QED BY <1>3, <2>1, <2>2 DEF WireInv, IsPiece
<1>9. \A k \in 1..Len(wire') : \E j \in 1..Len(wire) : j # i /\ wire'[k] = wire[j]
  BY <1>1, <1>3, <1>5
<1>10. ASSUME NEW b, NEW j \in 1..n, Within(wire[j].data, wire[j].cum, b)
       PROVE  OnWire(b)' \/ Within(wire[i].data, wire[i].cum, b)
  <2>1. CASE j = i
    BY <1>10, <2>1
  <2>2. CASE j # i
    <3>1. PICK k \in 1..(n - 1) : wire'[k] = wire[j]
      BY <1>5, <1>6, <2>2
    <3> QED BY <1>3, <1>10, <3>1 DEF OnWire, Within
  <2> QED BY <2>1, <2>2
<1>11. ASSUME NEW b, OnWire(b)' PROVE OnWire(b)
  <2>1. PICK k \in 1..Len(wire') : Within(wire'[k].data, wire'[k].cum, b)
    BY <1>11 DEF OnWire, Within
  <2> QED BY <1>9, <2>1 DEF OnWire
<1> QED
  BY <1>1, <1>4, <1>8, <1>9, <1>10, <1>11 DEF OnWire

LEMMA PieceGrows ==
    ASSUME NEW data, NEW end, NEW m \in Nat, NEW n \in Nat, m <= n, IsPiece(data, end, m)
    PROVE  IsPiece(data, end, n)
BY DEF IsPiece

\* appendAndEmit puts at most one event on its way: the bytes that follow.
Sends(e) ==
    /\ wire' = Append(wire, e) /\ e \in Events /\ Run(e.data, total)
    /\ e.cum = total' /\ total' = total + Len(e.data) /\ Len(e.data) > 0

Emits == UNCHANGED <<wire, total>> \/ \E e : Sends(e)

LEMMA EmitSends ==
    ASSUME SinkInv, NEW data, Run(data, Len(emitted)), data # <<>>, Emit(data)
    PROVE  Emits /\ RingInv'
<1>1. /\ data \in Seq(Bytes) /\ total \in Nat /\ Len(scroll) \in Nat /\ scroll \in Seq(Bytes)
      /\ Len(data) \in Nat \ {0}
  BY LenProperties, EmptySeq DEF SinkInv, Run
<1> DEFINE e == [data |-> data, cum |-> total + Len(data)]
           s == scroll \o data
<1>2. Sends(e)
  <2>1. Run(data, total)
    BY DEF SinkInv
  <2>2. e \in Events /\ e.data = data /\ e.cum = total + Len(data)
    BY <1>1 DEF Events
  <2> HIDE DEF e
  <2>3. wire' = Append(wire, e) /\ total' = total + Len(data)
    BY DEF Emit, e
  <2> QED BY <1>1, <2>1, <2>2, <2>3 DEF Sends
<1>3. Len(scroll') > 0
  <2>1. s \in Seq(Bytes) /\ Len(s) = Len(scroll) + Len(data) /\ scroll' \in Trim(s)
    BY <1>1, ConcatProperties DEF Emit
  <2> HIDE DEF s
  <2>2. CASE Len(s) <= Cap + Slack
    BY <1>1, <2>1, <2>2 DEF Trim
  <2>3. CASE ~(Len(s) <= Cap + Slack)
    <3>1. PICK k \in 0..MaxScan : scroll' = LastOf(s, Cap - k)
      BY <2>1, <2>3 DEF Trim
    <3>2. PICK n \in Nat : n = Len(s) /\ n > Cap + Slack
      BY <1>1, <2>1, <2>3, OutAssumption
    <3>3. PICK h \in Nat : h = Cap - k /\ h > 0 /\ h <= n
      BY <3>2, OutAssumption
    <3>4. \A j \in 1..n : s[j] \in Bytes
      BY <2>1, <3>2, ElementOfSeq
    <3>5. Len(SubSeq(s, n - h + 1, n)) = IF n - h + 1 <= n THEN n - (n - h + 1) + 1 ELSE 0
      <4>1. n - h + 1 \in Int /\ n \in Int /\ \A j \in (n - h + 1)..n : s[j] \in Bytes
        BY <3>3, <3>4
      <4> QED BY <4>1, SubSeqProperties
    <3>6. scroll' = SubSeq(s, n - h + 1, n)
      BY <3>1, <3>2, <3>3 DEF LastOf
    <3> QED BY <3>3, <3>5, <3>6
  <2> QED BY <2>2, <2>3
<1> QED
  BY <1>2, <1>3 DEF Emits, RingInv

LEMMA FlushSends ==
    ASSUME SinkInv, BatchInv, RingInv, FlushLocked
    PROVE  Emits /\ RingInv'
<1>1. CASE buf = <<>>
  BY <1>1 DEF FlushLocked, sink, Emits, RingInv
<1>2. CASE buf # <<>>
  BY <1>2, EmitSends DEF FlushLocked, BatchInv
<1> QED
  BY <1>1, <1>2

LEMMA PushSends ==
    ASSUME SinkInv, BatchInv, RingInv, NEW data, Run(data, Len(emitted) + Len(buf)), Push(data)
    PROVE  Emits /\ RingInv'
<1>1. CASE UNCHANGED sink
  BY <1>1 DEF sink, Emits, RingInv
<1>2. Len(emitted) \in Nat /\ Len(buf) \in Nat /\ Len(data) \in Nat
  BY LenProperties DEF SinkInv, BatchInv, Run
<1>3. CASE data # <<>> /\ buf = <<>> /\ Emit(data)
  <2>1. Len(buf) = 0
    BY <1>3, EmptySeq
  <2>2. Run(data, Len(emitted))
    BY <1>2, <2>1
  <2> QED BY <1>3, <2>2, EmitSends
<1>4. CASE data # <<>> /\ Emit(buf \o data)
  <2>1. Run(buf \o data, Len(emitted)) /\ Len(buf \o data) = Len(buf) + Len(data)
    BY <1>2, ConcatRun DEF BatchInv
  <2>2. Len(data) > 0
    BY <1>2, <1>4, EmptySeq DEF Run
  <2>3. buf \o data # <<>>
    <3>1. Len(buf \o data) # 0
      BY <1>2, <2>1, <2>2
    <3> QED BY <3>1, EmptySeq
  <2> QED BY <1>4, <2>1, <2>3, EmitSends
<1> QED
  BY <1>1, <1>3, <1>4 DEF Push

LEMMA OutSends ==
    ASSUME OInv, RingInv, [OutNext]_outVars
    PROVE  Emits /\ RingInv'
<1>1. ASSUME NEW n \in 1..MaxRead, NEW h \in 0..MaxHold, PumpReads(n, h)
      PROVE  Emits /\ RingInv'
  <2> DEFINE data == carry \o Fresh(n)
             at == Len(emitted) + Len(buf)
  <2>1. pump = "read" /\ read + n <= Total /\ h <= Len(data) /\ Push(AllBut(data, h))
    BY <1>1 DEF PumpReads
  <2>2. n \in Nat /\ h \in Nat /\ at \in Nat /\ Len(carry) \in Nat
    BY Lengths, OutAssumption
  <2>3. Run(data, at) /\ Len(data) = Len(carry) + n
    <3>1. Run(Fresh(n), read) /\ Len(Fresh(n)) = n
      BY <2>1, <2>2, FreshRun, Lengths
    <3>2. Run(carry, at) /\ at + Len(carry) = read
      BY DEF OInv, PumpInv
    <3> QED BY <2>2, <3>1, <3>2, ConcatRun
  <2> HIDE DEF data
  <2>4. h \in 0..Len(data)
    BY <2>1, <2>2, <2>3
  <2>5. Run(AllBut(data, h), at)
    <3> HIDE DEF at
    <3> QED BY <2>2, <2>3, <2>4, SplitRun
  <2> QED BY <2>1, <2>5, PushSends DEF OInv
<1>2. CASE PumpTail
  BY <1>2, PushSends DEF PumpTail, OInv, PumpInv
<1>3. CASE PumpCloses \/ TimerFlushes
  BY <1>3, FlushSends DEF PumpCloses, TimerFlushes, OInv
<1>4. CASE QuietSpell \/ TimerFires \/ UNCHANGED outVars
  BY <1>4 DEF QuietSpell, TimerFires, outVars, sink, Emits, RingInv
<1> QED
  BY <1>1, <1>2, <1>3, <1>4 DEF OutNext

\* An event more is after all others, and brings the bytes that are new.
SentMore ==
    /\ WireInv' /\ total <= total'
    /\ \A b \in Nat : OnWire(b)' <=> OnWire(b) \/ (total < b /\ b <= total')
    /\ \A k \in 1..Len(wire') :
         \/ k \in 1..Len(wire) /\ wire'[k] = wire[k]
         \/ wire'[k].cum - Len(wire'[k].data) = total

LEMMA SentOn ==
    ASSUME OInv, OInv', WireInv, Emits
    PROVE  SentMore
<1>1. total \in Nat /\ total' \in Nat /\ wire \in Seq(Events)
  BY Lengths, LenProperties DEF OInv, SinkInv, Events, Run
<1>2. PICK n \in Nat : n = Len(wire)
  BY <1>1, LenProperties
<1>3. CASE UNCHANGED <<wire, total>>
  BY <1>1, <1>3 DEF SentMore, WireInv, OnWire, Within, IsPiece
<1>4. ASSUME NEW e, Sends(e) PROVE SentMore
  <2>1. /\ e.data \in Seq(Bytes) /\ e.cum = total' /\ total' = total + Len(e.data)
        /\ Len(e.data) \in Nat /\ Len(e.data) > 0 /\ Run(e.data, total)
    BY <1>4, LenProperties DEF Sends, Events
  <2>2. /\ Len(wire') = n + 1 /\ wire'[n + 1] = e
        /\ \A k \in 1..n : wire'[k] = wire[k]
    BY <1>1, <1>2, <1>4, AppendProperties DEF Sends
  <2>3. \A k \in 1..(n + 1) : k \in 1..n \/ k = n + 1
    OBVIOUS
  <2>4. total <= total' /\ total' - Len(e.data) = total
    BY <1>1, <2>1
  <2>5. IsPiece(e.data, e.cum, total')
    BY <1>1, <2>1, <2>4 DEF IsPiece
  <2>6. \A k \in 1..n : IsPiece(wire[k].data, wire[k].cum, total)
    BY <1>2 DEF WireInv
  <2>7. WireInv'
    <3>1. ASSUME NEW k \in 1..(n + 1) PROVE IsPiece(wire'[k].data, wire'[k].cum, total')
      BY <1>1, <2>2, <2>3, <2>4, <2>5, <2>6, PieceGrows
    <3>2. ASSUME NEW k \in 1..(n + 1), NEW l \in 1..(n + 1), k < l
          PROVE  wire'[k].cum <= wire'[l].cum - Len(wire'[l].data)
      <4>1. k \in 1..n
        BY <3>2
      <4>2. CASE l \in 1..n
        BY <1>2, <2>2, <3>2, <4>1, <4>2 DEF WireInv
      <4>3. CASE l = n + 1
        <5>1. wire'[k].cum <= total
          BY <2>2, <2>6, <4>1 DEF IsPiece
        <5>2. wire'[l].cum - Len(wire'[l].data) = total
          BY <2>1, <2>2, <2>4, <4>3
        <5> QED BY <5>1, <5>2
      <4> QED BY <2>3, <4>2, <4>3
    <3> QED BY <2>2, <3>1, <3>2 DEF WireInv, IsPiece
  <2>8. ASSUME NEW b \in Nat PROVE OnWire(b)' <=> OnWire(b) \/ (total < b /\ b <= total')
    <3>1. OnWire(b)' <=> \E k \in 1..(n + 1) : Within(wire'[k].data, wire'[k].cum, b)
      BY <2>2 DEF OnWire, Within
    <3>2. OnWire(b) <=> \E k \in 1..n : Within(wire[k].data, wire[k].cum, b)
      BY <1>2 DEF OnWire
    <3>3. Within(e.data, e.cum, b) <=> (total < b /\ b <= total')
      BY <2>1, <2>4 DEF Within
    <3>4. \A k \in 1..n : k \in 1..(n + 1)
      OBVIOUS
    <3>5. n + 1 \in 1..(n + 1)
      OBVIOUS
    <3> QED BY <2>2, <2>3, <3>1, <3>2, <3>3, <3>4, <3>5
  <2>9. \A k \in 1..Len(wire') :
          \/ k \in 1..Len(wire) /\ wire'[k] = wire[k]
          \/ wire'[k].cum - Len(wire'[k].data) = total
    BY <1>2, <2>1, <2>2, <2>3, <2>4
  <2> QED BY <2>4, <2>7, <2>8, <2>9 DEF SentMore
<1> QED
  BY <1>3, <1>4 DEF Emits

\* The session goes on and the pane does nothing.
LEMMA OutKeeps ==
    ASSUME IInv, [OutNext]_outVars, UNCHANGED <<view, gone, seen>>
    PROVE  IInv'
<1>1. /\ OInv /\ OInv' /\ WireInv /\ SentMore /\ RingInv' /\ ViewType /\ OnceAndInOrder
      /\ (phase \in {"asked", "replied"} => BufInv) /\ (phase = "replied" => SnapInv)
      /\ (phase = "live" => PendingInv /\ AheadInv /\ WholeInv)
  BY StepOInv, OutSends, SentOn DEF IInv
<1>2. /\ total \in Nat /\ total' \in Nat /\ total <= total'
      /\ \A i \in 1..Len(screen) : screen[i] \in Nat /\ screen[i] <= total
      /\ Upto \in Nat /\ Len(screen) \in Nat
  <2>1. total' \in Nat
    BY <1>1, LenProperties DEF OInv, SinkInv, Run
  <2> QED BY <1>1, <2>1, LiveTyped DEF SentMore
<1>3. /\ phase' = phase /\ snap' = snap /\ watermark' = watermark /\ buffered' = buffered
      /\ pending' = pending /\ writeCum' = writeCum /\ gapFrames' = gapFrames /\ raf' = raf
      /\ screen' = screen /\ gone' = gone /\ overtook' = overtook /\ forced' = forced
  BY DEF view, seen
<1>4. /\ Upto' = Upto /\ (NothingToFetch' <=> NothingToFetch)
      /\ (\A b : IsShown(b)' <=> IsShown(b)) /\ (\A b : IsPending(b)' <=> IsPending(b))
      /\ (\A b : InBuffer(b)' <=> InBuffer(b))
  BY <1>3 DEF Upto, NothingToFetch, IsShown, IsPending, InBuffer, Within
<1>5. ViewType'
  BY <1>1, <1>2, <1>3 DEF ViewType
<1>6. OnceAndInOrder'
  BY <1>1, <1>3 DEF OnceAndInOrder
<1>7. ASSUME phase \in {"asked", "replied"} PROVE BufInv'
  <2>1. BufInv
    BY <1>1, <1>7
  <2>2. \A i \in 1..Len(buffered) :
          /\ IsPiece(buffered[i].data, buffered[i].cum, total')
          /\ buffered[i].cum \in Nat /\ buffered[i].cum <= total
    BY <1>2, <2>1, PieceGrows DEF BufInv, IsPiece
  <2>3. ASSUME NEW i \in 1..Len(buffered), NEW k \in 1..Len(wire')
        PROVE  InTurn(buffered[i], wire'[k], overtook)
    <3>1. CASE k \in 1..Len(wire) /\ wire'[k] = wire[k]
      BY <2>1, <3>1 DEF BufInv
    <3>2. CASE wire'[k].cum - Len(wire'[k].data) = total
      BY <2>2, <3>2 DEF InTurn
    <3> QED BY <1>1, <3>1, <3>2 DEF SentMore
  <2> QED BY <1>3, <2>1, <2>2, <2>3 DEF BufInv, InTurn, IsPiece
<1>8. ASSUME phase = "replied" PROVE SnapInv'
  <2>1. SnapInv
    BY <1>1, <1>8
  <2>2. snap.cum \in 0..total'
    BY <1>2, <2>1 DEF SnapInv
  <2>3. ASSUME ~(gone /\ snap.cum = 0), NEW b \in (snap.cum + 1)..total'
        PROVE  OnWire(b)' \/ InBuffer(b)
    <3>1. b \in Nat
      BY <2>2
    <3>2. CASE b <= total
      <4>1. b \in (snap.cum + 1)..total
        BY <1>2, <2>2, <3>2
      <4> QED BY <1>1, <2>1, <2>3, <3>1, <4>1 DEF SnapInv, SentMore
    <3>3. CASE ~(b <= total)
      BY <1>1, <1>2, <2>2, <3>1, <3>3 DEF SentMore
    <3> QED BY <3>2, <3>3
  <2> QED BY <1>3, <1>4, <2>1, <2>2, <2>3 DEF SnapInv, Run
<1>9. ASSUME phase = "live" PROVE PendingInv' /\ AheadInv' /\ WholeInv'
  <2>1. PendingInv /\ AheadInv /\ WholeInv
    BY <1>1, <1>9
  <2>2. PendingInv'
    BY <1>2, <1>3, <2>1, PieceGrows DEF PendingInv
  <2>3. ASSUME NEW b \in (Upto + 1)..total', OnWire(b)' \/ IsPending(b), NEW i \in 1..Len(screen)
        PROVE  screen[i] # b /\ (screen[i] > b => screen[i] \in overtook)
    <3>1. b \in Nat
      BY <1>2
    <3>2. CASE b <= total
      <4>1. b \in (Upto + 1)..total
        BY <1>2, <3>2
      <4>2. OnWire(b) \/ IsPending(b)
        BY <1>1, <1>2, <2>3, <3>1, <3>2 DEF SentMore
      <4> QED BY <2>1, <4>1, <4>2 DEF AheadInv
    <3>3. CASE ~(b <= total)
      BY <1>2, <3>1, <3>3
    <3> QED BY <3>2, <3>3
  <2>4. AheadInv'
    BY <1>3, <1>4, <2>3 DEF AheadInv
  <2>5. ASSUME ~(forced \/ NothingToFetch), NEW b \in (Upto + 1)..total'
        PROVE  IsShown(b) \/ OnWire(b)' \/ IsPending(b)
    <3>1. b \in Nat
      BY <1>2
    <3>2. CASE b <= total
      <4>1. b \in (Upto + 1)..total
        BY <1>2, <3>2
      <4> QED BY <1>1, <2>1, <2>5, <3>1, <4>1 DEF WholeInv, SentMore
    <3>3. CASE ~(b <= total)
      BY <1>1, <1>2, <3>1, <3>3 DEF SentMore
    <3> QED BY <3>2, <3>3
  <2>6. WholeInv'
    BY <1>3, <1>4, <2>1, <2>5 DEF WholeInv
  <2> QED BY <2>2, <2>4, <2>6
<1> QED
  BY <1>1, <1>3, <1>5, <1>6, <1>7, <1>8, <1>9 DEF IInv, SentMore
-----------------------------------------------------------------------------
(* The snapshot and what was buffered meanwhile.                           *)

\* The elements of F are those of the first n parts, in this order.
Places(F, parts, n, S) ==
    /\ F \in Seq(S)
    /\ \A i \in 1..n : \A j \in 1..Len(parts[i]) : \E k \in 1..Len(F) : F[k] = parts[i][j]
    /\ \A k \in 1..Len(F) : \E i \in 1..n : \E j \in 1..Len(parts[i]) : F[k] = parts[i][j]
    /\ \A k, l \in 1..Len(F) : k < l =>
         \E i, h \in 1..n : \E j \in 1..Len(parts[i]), g \in 1..Len(parts[h]) :
           F[k] = parts[i][j] /\ F[l] = parts[h][g] /\ (i < h \/ (i = h /\ j < g))

LEMMA PlacesFirst ==
    ASSUME NEW S, NEW parts, parts[1] \in Seq(S)
    PROVE  Places(parts[1], parts, 1, S)
<1>1. \A i \in 1..1 : i = 1
  OBVIOUS
<1>2. 1 \in 1..1
  OBVIOUS
<1> QED
  BY <1>1, <1>2 DEF Places

LEMMA PlacesMore ==
    ASSUME NEW S, NEW parts, NEW n \in Nat, NEW F, Places(F, parts, n, S),
           parts[n + 1] \in Seq(S)
    PROVE  Places(F \o parts[n + 1], parts, n + 1, S)
<1> DEFINE G == F \o parts[n + 1]
<1>1. PICK a \in Nat : a = Len(F)
  BY LenProperties DEF Places
<1>2. PICK b \in Nat : b = Len(parts[n + 1])
  BY LenProperties
<1>3. /\ G \in Seq(S) /\ Len(G) = a + b
      /\ \A k \in 1..(a + b) : G[k] = IF k <= a THEN F[k] ELSE parts[n + 1][k - a]
  BY <1>1, <1>2, ConcatProperties DEF Places
<1> HIDE DEF G
<1>4. ASSUME NEW k \in 1..a PROVE k \in 1..(a + b) /\ G[k] = F[k]
  BY <1>3
<1>5. ASSUME NEW j \in 1..b PROVE a + j \in 1..(a + b) /\ G[a + j] = parts[n + 1][j]
  <2>1. a + j \in 1..(a + b) /\ ~(a + j <= a) /\ (a + j) - a = j
    OBVIOUS
  <2> QED BY <1>3, <2>1
<1>6. ASSUME NEW k \in 1..(a + b) PROVE k \in 1..a \/ \E j \in 1..b : k = a + j
  <2>1. CASE ~(k <= a)
    <3>1. k - a \in 1..b /\ k = a + (k - a)
      BY <2>1
    <3> QED BY <3>1
  <2> QED BY <2>1
<1>7. \A i \in 1..(n + 1) : i \in 1..n \/ i = n + 1
  OBVIOUS
<1>8. n + 1 \in 1..(n + 1) /\ \A i \in 1..n : i \in 1..(n + 1) /\ i < n + 1
  OBVIOUS
<1>9. ASSUME NEW i \in 1..(n + 1), NEW j \in 1..Len(parts[i])
      PROVE  \E k \in 1..(a + b) : G[k] = parts[i][j]
  <2>1. CASE i \in 1..n
    <3>1. PICK k \in 1..a : F[k] = parts[i][j]
      BY <1>1, <2>1 DEF Places
    <3> QED BY <1>4, <3>1
  <2>2. CASE i = n + 1
    BY <1>2, <1>5, <2>2
  <2> QED BY <1>7, <2>1, <2>2
<1>10. ASSUME NEW k \in 1..(a + b)
       PROVE  \E i \in 1..(n + 1) : \E j \in 1..Len(parts[i]) : G[k] = parts[i][j]
  <2>1. CASE k \in 1..a
    <3>1. PICK i \in 1..n : \E j \in 1..Len(parts[i]) : F[k] = parts[i][j]
      BY <1>1, <2>1 DEF Places
    <3>2. i \in 1..(n + 1) /\ G[k] = F[k]
      BY <1>4, <1>8, <2>1
    <3> QED BY <3>1, <3>2
  <2>2. ASSUME NEW j \in 1..b, k = a + j
        PROVE  \E i \in 1..(n + 1) : \E g \in 1..Len(parts[i]) : G[k] = parts[i][g]
    BY <1>2, <1>5, <1>8, <2>2
  <2> QED BY <1>6, <2>1, <2>2
<1>11. ASSUME NEW k \in 1..(a + b), NEW l \in 1..(a + b), k < l
       PROVE  \E i, h \in 1..(n + 1) : \E j \in 1..Len(parts[i]), g \in 1..Len(parts[h]) :
                G[k] = parts[i][j] /\ G[l] = parts[h][g] /\ (i < h \/ (i = h /\ j < g))
  <2>1. CASE k \in 1..a /\ l \in 1..a
    <3>1. PICK i \in 1..n, h \in 1..n : \E j \in 1..Len(parts[i]), g \in 1..Len(parts[h]) :
            F[k] = parts[i][j] /\ F[l] = parts[h][g] /\ (i < h \/ (i = h /\ j < g))
      BY <1>1, <1>11, <2>1 DEF Places
    <3>2. i \in 1..(n + 1) /\ h \in 1..(n + 1) /\ G[k] = F[k] /\ G[l] = F[l]
      BY <1>4, <1>8, <2>1
    <3> QED BY <3>1, <3>2
  <2>2. ASSUME k \in 1..a, NEW g \in 1..b, l = a + g
        PROVE  \E i, h \in 1..(n + 1) : \E j \in 1..Len(parts[i]), q \in 1..Len(parts[h]) :
                G[k] = parts[i][j] /\ G[l] = parts[h][q] /\ (i < h \/ (i = h /\ j < q))
    <3>1. PICK i \in 1..n : \E j \in 1..Len(parts[i]) : F[k] = parts[i][j]
      BY <1>1, <2>2 DEF Places
    <3>2. PICK j \in 1..Len(parts[i]) : F[k] = parts[i][j]
      BY <3>1
    <3>3. i \in 1..(n + 1) /\ i < n + 1 /\ G[k] = parts[i][j]
      BY <1>4, <1>8, <2>2, <3>2
    <3>4. g \in 1..Len(parts[n + 1]) /\ G[l] = parts[n + 1][g]
      BY <1>2, <1>5, <2>2
    <3> QED BY <1>8, <3>3, <3>4
  <2>3. ASSUME NEW j \in 1..b, NEW g \in 1..b, k = a + j, l = a + g
        PROVE  \E i, h \in 1..(n + 1) : \E p \in 1..Len(parts[i]), q \in 1..Len(parts[h]) :
                G[k] = parts[i][p] /\ G[l] = parts[h][q] /\ (i < h \/ (i = h /\ p < q))
    <3>1. j < g
      BY <1>11, <2>3
    <3>2. /\ j \in 1..Len(parts[n + 1]) /\ g \in 1..Len(parts[n + 1])
          /\ G[k] = parts[n + 1][j] /\ G[l] = parts[n + 1][g]
      BY <1>2, <1>5, <2>3
    <3> QED BY <1>8, <3>1, <3>2
  <2>4. k \in 1..a \/ l \notin 1..a
    BY <1>11
  <2> QED BY <1>6, <2>1, <2>2, <2>3, <2>4
<1>12. Places(G, parts, n + 1, S)
  BY <1>3, <1>9, <1>10, <1>11 DEF Places
<1> QED
  BY <1>12 DEF G

\* FlattenSeq puts the parts one behind the other.
LEMMA Flattened ==
    ASSUME NEW S, NEW N \in Nat, NEW parts \in Seq(Seq(S)), Len(parts) = N
    PROVE  Places(FlattenSeq(parts), parts, N, S)
<1>1. \A i \in 1..N : parts[i] \in Seq(S)
  BY ElementOfSeq
<1>2. CASE N = 0
  <2>1. FlattenSeq(parts) = parts
    BY <1>2 DEF FlattenSeq
  <2>2. parts = <<>>
    BY <1>2, EmptySeq
  <2>3. Places(<<>>, parts, 0, S)
    BY EmptySeq DEF Places
  <2> QED BY <1>2, <2>1, <2>2, <2>3
<1>3. CASE N # 0
  <2> DEFINE Upon(g, i) == IF i = 1 THEN parts[i] ELSE g[i - 1] \o parts[i]
             Good(k) == \E g : g = [i \in 1..k |-> Upon(g, i)]
             T == {k \in 0..N : Good(k)}
  <2>1. 0 \in T
    <3> DEFINE g == [i \in 1..0 |-> parts[i]]
    <3>1. g = [i \in 1..0 |-> Upon(g, i)]
      OBVIOUS
    <3>2. Good(0)
      <4> HIDE DEF g, Upon
      <4> QED BY <3>1
    <3> HIDE DEF Good
    <3> QED BY <3>2
  <2>2. ASSUME NEW k \in 1..N, k - 1 \in T PROVE k \in T
    <3>1. PICK g : g = [i \in 1..(k - 1) |-> Upon(g, i)]
      BY <2>2
    <3> DEFINE h == [i \in 1..k |-> IF i \in 1..(k - 1) THEN g[i] ELSE Upon(g, i)]
    <3>2. ASSUME NEW i \in 1..k PROVE h[i] = Upon(h, i)
      <4>1. h[i] = Upon(g, i)
        <5>1. CASE i \in 1..(k - 1)
          <6>1. g[i] = Upon(g, i)
            <7> HIDE DEF Upon
            <7> QED BY <3>1, <5>1
          <6> HIDE DEF Upon
          <6> QED BY <5>1, <6>1
        <5>2. CASE i \notin 1..(k - 1)
          <6> HIDE DEF Upon
          <6> QED BY <5>2
        <5> QED BY <5>1, <5>2
      <4>2. i # 1 => h[i - 1] = g[i - 1]
        <5>1. i # 1 => i - 1 \in 1..(k - 1) /\ i - 1 \in 1..k
          OBVIOUS
        <5> HIDE DEF Upon
        <5> QED BY <5>1
      <4> HIDE DEF h
      <4> QED BY <4>1, <4>2
    <3>3. h = [i \in 1..k |-> Upon(h, i)]
      <4>1. h = [i \in 1..k |-> h[i]]
        OBVIOUS
      <4> HIDE DEF h, Upon
      <4> QED BY <3>2, <4>1
    <3>4. Good(k)
      <4> HIDE DEF h, Upon
      <4> QED BY <3>3
    <3> HIDE DEF Good
    <3> QED BY <3>4
  <2>3. Good(N)
    <3>1. \A i \in 0..N : i \in T
      <4> HIDE DEF T
      <4> QED BY <2>1, <2>2, Steps
    <3> HIDE DEF Good
    <3> QED BY <3>1
  <2> DEFINE f == CHOOSE g : g = [i \in 1..N |-> Upon(g, i)]
  <2>4. f = [i \in 1..N |-> Upon(f, i)]
    BY <2>3
  <2>5. FlattenSeq(parts) = f[N]
    BY <1>3 DEF FlattenSeq
  <2> HIDE DEF f
  <2>6. \A i \in 1..N : f[i] = IF i = 1 THEN parts[i] ELSE f[i - 1] \o parts[i]
    BY <2>4
  <2> DEFINE W == {k \in 0..N : k > 0 => Places(f[k], parts, k, S)}
  <2>7. 0 \in W
    OBVIOUS
  <2>8. ASSUME NEW k \in 1..N, k - 1 \in W PROVE k \in W
    <3>1. CASE k = 1
      <4>1. f[1] = parts[1] /\ parts[1] \in Seq(S)
        BY <1>1, <2>6, <3>1
      <4> QED BY <3>1, <4>1, PlacesFirst
    <3>2. CASE k # 1
      <4>1. PICK n \in Nat : k = n + 1 /\ n > 0 /\ k - 1 = n
        BY <3>2
      <4>2. f[k] = f[n] \o parts[n + 1] /\ parts[n + 1] \in Seq(S)
        BY <1>1, <2>6, <3>2, <4>1
      <4>3. Places(f[n], parts, n, S)
        BY <2>8, <4>1
      <4>4. Places(f[n] \o parts[n + 1], parts, n + 1, S)
        BY <4>2, <4>3, PlacesMore
      <4>5. Places(f[k], parts, k, S)
        BY <4>1, <4>2, <4>4
      <4> QED BY <4>5
    <3> QED BY <3>1, <3>2
  <2>9. N \in W
    <3>1. \A i \in 0..N : i \in W
      <4> HIDE DEF W
      <4> QED BY <2>7, <2>8, Steps
    <3> QED BY <3>1
  <2> QED BY <1>3, <2>5, <2>9
<1> QED
  BY <1>2, <1>3

\* p are the bytes of event e beyond w, in their order.
Remains(p, e, w) ==
    /\ p \in Seq(Bytes)
    /\ \A j \in 1..Len(p) : Within(e.data, e.cum, p[j]) /\ p[j] > w
    /\ \A i, j \in 1..Len(p) : i < j => p[i] < p[j]
    /\ \A b \in Nat : Within(e.data, e.cum, b) /\ b > w => \E j \in 1..Len(p) : p[j] = b

\* What is written of a buffered event: its bytes beyond the snapshot.
LEMMA Beyond ==
    ASSUME NEW e, NEW n \in Nat, IsPiece(e.data, e.cum, n), NEW w \in Nat
    PROVE  Remains(PartBeyond(e, w), e, w)
<1> DEFINE p == PartBeyond(e, w)
<1>0. PICK cum \in Nat, len \in Nat : cum = e.cum /\ len = Len(e.data) /\ len <= cum
  BY DEF IsPiece
<1>1. /\ cum = e.cum /\ len = Len(e.data) /\ len <= cum /\ e.data \in Seq(Bytes)
      /\ \A i \in 1..len : e.data[i] = cum - len + i
  BY <1>0 DEF IsPiece, Run
<1>2. PICK from \in Nat :
        /\ from >= w /\ from >= cum - len
        /\ p \in Seq(Bytes) /\ from + Len(p) = IF cum <= w THEN from ELSE cum
        /\ \A j \in 1..Len(p) : p[j] = from + j
        /\ cum > w => from = w \/ from = cum - len
  <2>1. CASE cum <= w
    <3>1. p = <<>>
      BY <1>1, <2>1 DEF PartBeyond
    <3>2. /\ w + Len(<<>>) = w /\ <<>> \in Seq(Bytes)
          /\ \A j \in 1..Len(<<>>) : <<>>[j] = w + j
      BY EmptySeq
    <3> HIDE DEF p
    <3> QED BY <1>1, <2>1, <3>1, <3>2
  <2>2. CASE ~(cum <= w) /\ len - (cum - w) > 0
    <3> DEFINE start == len - (cum - w)
    <3>1. p = SubSeq(e.data, start + 1, Len(e.data))
      BY <1>1, <2>2 DEF PartBeyond
    <3>2. Run(e.data, cum - len) /\ cum - len \in Nat
      BY <1>1 DEF Run
    <3>3. start \in 0..Len(e.data)
      BY <1>1, <2>2
    <3>4. Run(p, (cum - len) + start) /\ Len(p) = Len(e.data) - start
      <4> HIDE DEF start, p
      <4> QED BY <3>1, <3>2, <3>3, TailOfRun
    <3> HIDE DEF p
    <3>5. (cum - len) + start = w /\ w + Len(p) = cum
      BY <1>1, <2>2, <3>4
    <3>6. p \in Seq(Bytes) /\ \A j \in 1..Len(p) : p[j] = w + j
      BY <3>4, <3>5 DEF Run
    <3>7. w >= w /\ w >= cum - len
      BY <1>1, <2>2
    <3> QED BY <2>2, <3>5, <3>6, <3>7
  <2>3. CASE ~(cum <= w) /\ ~(len - (cum - w) > 0)
    <3>1. p = e.data
      BY <1>1, <2>3 DEF PartBeyond
    <3> HIDE DEF p
    <3> DEFINE from == cum - len
    <3>2. from \in Nat /\ from >= w /\ from + len = cum /\ from = cum - len
      BY <1>1, <2>3
    <3> HIDE DEF from
    <3>3. p \in Seq(Bytes) /\ Len(p) = len /\ \A j \in 1..Len(p) : p[j] = from + j
      BY <1>1, <3>1, <3>2
    <3> QED BY <2>3, <3>2, <3>3
  <2> QED BY <2>1, <2>2, <2>3
<1> HIDE DEF p
<1>3. PICK l \in Nat : l = Len(p)
  BY <1>2, LenProperties
<1>4. ASSUME NEW j \in 1..l PROVE Within(e.data, e.cum, p[j]) /\ p[j] > w
  <2>1. p[j] = from + j /\ cum > w /\ from + l = cum
    BY <1>2, <1>3
  <2> QED BY <1>1, <1>2, <2>1 DEF Within
<1>5. ASSUME NEW i \in 1..l, NEW j \in 1..l, i < j PROVE p[i] < p[j]
  BY <1>2, <1>3, <1>5
<1>6. ASSUME NEW b \in Nat, Within(e.data, e.cum, b), b > w PROVE \E j \in 1..l : p[j] = b
  <2>1. cum > w /\ b <= cum /\ cum - len < b
    BY <1>1, <1>6 DEF Within
  <2>2. b - from \in 1..l /\ from + (b - from) = b
    BY <1>2, <1>3, <1>6, <2>1
  <2> QED BY <1>2, <1>3, <2>2
<1> QED
  BY <1>2, <1>3, <1>4, <1>5, <1>6 DEF p, Remains

LEMMA TurnOrder ==
    ASSUME NEW e, NEW f, NEW m \in Nat, NEW n \in Nat,
           IsPiece(e.data, e.cum, m), IsPiece(f.data, f.cum, n),
           NEW early, InTurn(e, f, early), NEW x \in Nat, NEW y \in Nat,
           Within(e.data, e.cum, x), Within(f.data, f.cum, y)
    PROVE  x # y /\ (x > y => x \in early)
<1>0. PICK a \in Nat, b \in Nat, c \in Nat, d \in Nat :
        a = e.cum /\ b = Len(e.data) /\ c = f.cum /\ d = Len(f.data) /\ b <= a /\ d <= c
  BY DEF IsPiece
<1>1. /\ a = e.cum /\ b = Len(e.data) /\ c = f.cum /\ d = Len(f.data)
      /\ b <= a /\ d <= c /\ \A i \in 1..b : e.data[i] = a - b + i
  BY <1>0 DEF IsPiece, Run
<1>2. a - b < x /\ x <= a /\ c - d < y /\ y <= c
  BY <1>1 DEF Within
<1>3. CASE a <= c - d
  BY <1>2, <1>3
<1>4. CASE c <= a - b /\ \A k \in 1..b : e.data[k] \in early
  <2>1. x - (a - b) \in 1..b /\ a - b + (x - (a - b)) = x
    BY <1>2
  <2>2. x \in early
    BY <1>1, <1>4, <2>1
  <2>3. y < x
    BY <1>2, <1>4
  <2> QED BY <2>2, <2>3
<1> QED
  BY <1>1, <1>3, <1>4 DEF InTurn

LEMMA ReplyKeeps ==
    ASSUME IInv, Reply
    PROVE  IInv'
<1> DEFINE parts == [i \in 1..Len(buffered) |-> PartBeyond(buffered[i], snap.cum)]
           F == FlattenSeq(parts)
<1>1. /\ OInv /\ WireInv /\ RingInv /\ ViewType /\ BufInv /\ SnapInv
  BY DEF IInv, Reply
<1>2. PICK w \in Nat : w = snap.cum /\ w <= total /\ total \in Nat
  BY <1>1, Lengths DEF SnapInv, OInv, SinkInv
<1>3. PICK n \in Nat : n = Len(buffered)
  BY <1>1, LenProperties DEF BufInv
<1>4. \A i \in 1..n : IsPiece(buffered[i].data, buffered[i].cum, total)
  BY <1>1, <1>3 DEF BufInv
<1>5. /\ parts \in Seq(Seq(Bytes)) /\ Len(parts) = n
      /\ \A i \in 1..n : parts[i] = PartBeyond(buffered[i], w)
  <2>1. parts \in [1..n -> Seq(Bytes)]
    <3>1. \A i \in 1..n : PartBeyond(buffered[i], w) \in Seq(Bytes)
      BY <1>2, <1>4, Beyond DEF Remains
    <3> QED BY <1>2, <1>3, <3>1
  <2>2. \A i \in 1..n : parts[i] = PartBeyond(buffered[i], w)
    BY <1>2, <1>3
  <2>3. Len(parts) = n
    BY <1>3
  <2> HIDE DEF parts
  <2> QED BY <2>1, <2>2, <2>3
<1> HIDE DEF parts
<1>6. Places(F, parts, n, Bytes)
  BY <1>5, Flattened
<1> HIDE DEF F
<1>7. PICK m \in Nat, l \in Nat, o \in Nat :
        m = Len(snap.data) /\ l = Len(F) /\ o = w - m /\ o + m = w
  <2>1. PICK m \in Nat, l \in Nat : m = Len(snap.data) /\ l = Len(F) /\ m <= w
    BY <1>1, <1>2, <1>6, LenProperties DEF SnapInv, Places
  <2>2. w - m \in Nat /\ (w - m) + m = w
    BY <2>1
  <2> QED BY <2>1, <2>2
<1>a. \A i \in 1..m : o + i \in Nat /\ o + i <= w
  BY <1>7
<1>8. /\ snap.data \in Seq(Bytes) /\ \A i \in 1..m : snap.data[i] = o + i
      /\ w > 0 => m > 0
  BY <1>1, <1>2, <1>7 DEF SnapInv, Run
<1>9. /\ phase = "replied" /\ phase' = "live" /\ watermark' = w /\ buffered' = <<>>
      /\ screen' = snap.data \o F
      /\ UNCHANGED <<outVars, snap, pending, writeCum, gapFrames, raf, mounts, gone, seen>>
  BY <1>2 DEF Reply, F, parts
<1>10. /\ screen' \in Seq(Bytes) /\ Len(screen') = m + l
       /\ \A i \in 1..m : screen'[i] = o + i
       /\ \A i \in 1..l : screen'[m + i] = F[i]
  <2>1. /\ screen' \in Seq(Bytes) /\ Len(screen') = m + l
        /\ \A i \in 1..(m + l) : screen'[i] = IF i <= m THEN snap.data[i] ELSE F[i - m]
    BY <1>6, <1>7, <1>8, <1>9, ConcatProperties DEF Places
  <2>2. ASSUME NEW i \in 1..l PROVE screen'[m + i] = F[i]
    <3>1. m + i \in 1..(m + l) /\ ~(m + i <= m) /\ (m + i) - m = i
      OBVIOUS
    <3> QED BY <2>1, <3>1
  <2> QED BY <1>8, <2>1, <2>2
<1>11. ASSUME NEW i \in 1..(m + l)
       PROVE  i \in 1..m \/ \E k \in 1..l : i = m + k
  <2>1. CASE ~(i <= m)
    <3>1. i - m \in 1..l /\ i = m + (i - m)
      BY <2>1
    <3> QED BY <3>1
  <2> QED BY <2>1
<1>12. ASSUME NEW i \in 1..n
       PROVE  /\ \A j \in 1..Len(parts[i]) :
                   Within(buffered[i].data, buffered[i].cum, parts[i][j]) /\ parts[i][j] > w
              /\ \A j, k \in 1..Len(parts[i]) : j < k => parts[i][j] < parts[i][k]
              /\ \A b \in Nat : Within(buffered[i].data, buffered[i].cum, b) /\ b > w =>
                   \E j \in 1..Len(parts[i]) : parts[i][j] = b
  <2> DEFINE e == buffered[i]
             p == PartBeyond(e, w)
  <2>1. parts[i] = p /\ IsPiece(e.data, e.cum, total)
    BY <1>4, <1>5
  <2> HIDE DEF e
  <2>2. /\ \A j \in 1..Len(p) : Within(e.data, e.cum, p[j]) /\ p[j] > w
        /\ \A j, k \in 1..Len(p) : j < k => p[j] < p[k]
        /\ \A b \in Nat : Within(e.data, e.cum, b) /\ b > w =>
                   \E j \in 1..Len(p) : p[j] = b
    <3>1. Remains(p, e, w)
      BY <1>2, <2>1, Beyond
    <3> HIDE DEF p
    <3> QED BY <3>1 DEF Remains
  <2> HIDE DEF p
  <2> QED BY <2>1, <2>2 DEF e
<1>13. \A i \in 1..l : F[i] \in Nat
  <2>1. \A i \in 1..l : F[i] \in Bytes
    BY <1>6, <1>7, ElementOfSeq DEF Places
  <2> QED BY <2>1 DEF Bytes
<1>14. ASSUME NEW k \in 1..l
       PROVE  /\ F[k] > w /\ F[k] <= total
              /\ \E i \in 1..n : Within(buffered[i].data, buffered[i].cum, F[k])
  <2>1. PICK i \in 1..n : \E j \in 1..Len(parts[i]) : F[k] = parts[i][j]
    BY <1>6, <1>7 DEF Places
  <2>2. Within(buffered[i].data, buffered[i].cum, F[k]) /\ F[k] > w
    BY <1>12, <2>1
  <2>3. F[k] \in 1..total
    BY <1>2, <1>4, <1>13, <2>2, WithinPiece
  <2> QED BY <2>2, <2>3
<1>15. ASSUME NEW b \in Nat, NEW i \in 1..n, Within(buffered[i].data, buffered[i].cum, b), b > w
       PROVE  \E k \in 1..l : F[k] = b
  <2>1. PICK j \in 1..Len(parts[i]) : parts[i][j] = b
    BY <1>12, <1>15
  <2> QED BY <1>6, <1>7, <2>1 DEF Places
<1>16. ASSUME NEW k \in 1..l, NEW h \in 1..l, k < h
       PROVE  F[k] # F[h] /\ (F[k] > F[h] => F[k] \in overtook)
  <2>1. PICK i \in 1..n, j \in 1..n : \E a \in 1..Len(parts[i]), b \in 1..Len(parts[j]) :
           F[k] = parts[i][a] /\ F[h] = parts[j][b] /\ (i < j \/ (i = j /\ a < b))
    BY <1>6, <1>7, <1>16 DEF Places
  <2>2. PICK a \in 1..Len(parts[i]), b \in 1..Len(parts[j]) :
           F[k] = parts[i][a] /\ F[h] = parts[j][b] /\ (i < j \/ (i = j /\ a < b))
    BY <2>1
  <2>3. CASE i = j /\ a < b
    <3>1. F[k] < F[h]
      BY <1>12, <2>2, <2>3
    <3> QED BY <1>13, <3>1
  <2>4. CASE i < j
    <3>1. InTurn(buffered[i], buffered[j], overtook)
      BY <1>1, <1>3, <2>4 DEF BufInv
    <3>2. /\ Within(buffered[i].data, buffered[i].cum, F[k])
          /\ Within(buffered[j].data, buffered[j].cum, F[h])
      BY <1>12, <2>2
    <3> QED BY <1>2, <1>4, <1>13, <3>1, <3>2, TurnOrder
  <2> QED BY <2>2, <2>3, <2>4
<1>17. OInv' /\ WireInv' /\ RingInv'
  <2>1. UNCHANGED outVars
    BY <1>9
  <2>2. OInv'
    BY <1>1, <2>1, StepOInv
  <2> QED BY <1>1, <2>1, <2>2 DEF outVars, sink, WireInv, RingInv, IsPiece, Run
<1>18. total' = total /\ overtook' = overtook /\ wire' = wire /\ forced' = forced
  BY <1>9 DEF outVars, sink, seen
<1>19. ViewType'
  <2>1. \A i \in 1..(m + l) : screen'[i] <= total
    <3>1. \A i \in 1..m : screen'[i] <= total
      BY <1>2, <1>a, <1>10
    <3>2. \A k \in 1..l : screen'[m + k] <= total
      BY <1>10, <1>14
    <3> QED BY <1>11, <3>1, <3>2
  <2>2. pending = {}
    BY <1>1, <1>9 DEF ViewType
  <2> QED BY <1>1, <1>2, <1>9, <1>10, <1>18, <2>1, <2>2 DEF ViewType
<1>20. OnceAndInOrder'
  <2>1. ASSUME NEW i \in 1..(m + l), NEW j \in 1..(m + l), i < j
        PROVE  /\ screen'[i] # screen'[j]
               /\ screen'[i] > screen'[j] => screen'[i] \in overtook
    <3>1. CASE i \in 1..m /\ j \in 1..m
      BY <1>10, <2>1, <3>1
    <3>2. ASSUME i \in 1..m, NEW k \in 1..l, j = m + k
          PROVE  screen'[i] < screen'[j] /\ screen'[i] \in Nat /\ screen'[j] \in Nat
      <4>1. screen'[i] = o + i /\ screen'[j] = F[k] /\ F[k] > w /\ F[k] \in Nat
        BY <1>10, <1>13, <1>14, <3>2
      <4>2. o + i \in Nat /\ o + i <= w
        BY <1>a, <3>2
      <4> QED BY <4>1, <4>2
    <3>3. ASSUME NEW k \in 1..l, NEW h \in 1..l, i = m + k, j = m + h
          PROVE  /\ screen'[i] # screen'[j]
                 /\ screen'[i] > screen'[j] => screen'[i] \in overtook
      <4>1. k < h /\ screen'[i] = F[k] /\ screen'[j] = F[h]
        BY <1>10, <2>1, <3>3
      <4> QED BY <1>16, <4>1
    <3>4. i \in 1..m \/ j \notin 1..m
      BY <2>1
    <3>5. CASE i \in 1..m /\ j \notin 1..m
      <4>1. screen'[i] < screen'[j] /\ screen'[i] \in Nat /\ screen'[j] \in Nat
        BY <1>11, <3>2, <3>5
      <4> QED BY <4>1
    <3>6. CASE i \notin 1..m /\ j \notin 1..m
      BY <1>11, <3>3, <3>6
    <3> QED BY <3>1, <3>4, <3>5, <3>6
  <2> QED BY <1>10, <1>18, <2>1 DEF OnceAndInOrder
<1>21. Upto' = w /\ pending' = {}
  BY <1>1, <1>9 DEF Upto, BufInv, ViewType
<1>22. AheadInv'
  <2>1. ASSUME NEW b \in (w + 1)..total, NEW q \in 1..Len(wire),
               Within(wire[q].data, wire[q].cum, b), NEW i \in 1..(m + l)
        PROVE  screen'[i] # b /\ (screen'[i] > b => screen'[i] \in overtook)
    <3>1. CASE i \in 1..m
      <4>1. screen'[i] = o + i
        BY <1>10, <3>1
      <4>2. o + i \in Nat /\ o + i <= w
        BY <1>a, <3>1
      <4>3. screen'[i] < b /\ screen'[i] \in Nat
        BY <1>2, <4>1, <4>2
      <4> QED BY <4>3
    <3>2. ASSUME NEW k \in 1..l, i = m + k
          PROVE  screen'[i] # b /\ (screen'[i] > b => screen'[i] \in overtook)
      <4>1. screen'[i] = F[k]
        BY <1>10, <3>2
      <4>2. PICK j \in 1..n : Within(buffered[j].data, buffered[j].cum, F[k])
        BY <1>14
      <4>3. InTurn(buffered[j], wire[q], overtook)
        BY <1>1, <1>3 DEF BufInv
      <4>4. IsPiece(wire[q].data, wire[q].cum, total)
        BY <1>1 DEF WireInv
      <4>5. b \in Nat
        BY <1>2
      <4> QED BY <1>2, <1>4, <1>13, <2>1, <4>1, <4>2, <4>3, <4>4, <4>5, TurnOrder
    <3> QED BY <1>11, <3>1, <3>2
  <2>2. \A b : OnWire(b)' <=> OnWire(b)
    BY <1>18 DEF OnWire, Within
  <2>3. \A b : ~IsPending(b)'
    BY <1>21 DEF IsPending
  <2> QED BY <1>10, <1>18, <1>21, <2>1, <2>2, <2>3 DEF AheadInv, OnWire
<1>23. WholeInv'
  <2>1. SUFFICES ASSUME ~NothingToFetch'
        PROVE  /\ \A b \in 1..w : (\E i \in 1..(m + l) : screen'[i] < b) => IsShown(b)'
               /\ \A b \in (w + 1)..total : IsShown(b)' \/ OnWire(b)' \/ IsPending(b)'
    BY <1>10, <1>18, <1>21 DEF WholeInv
  <2>2. ~(gone /\ w = 0)
    BY <1>9, <2>1 DEF NothingToFetch
  <2>3. ASSUME NEW b \in 1..w, NEW i \in 1..(m + l), screen'[i] < b PROVE IsShown(b)'
    <3>1. CASE i \in 1..m
      <4>1. o + i < b /\ i \in Nat
        BY <1>10, <2>3, <3>1
      <4>2. b - o \in 1..m /\ o + (b - o) = b
        <5>1. o + m = w
          BY <1>7
        <5>2. b \in Nat /\ b <= w /\ o < b
          BY <4>1
        <5> QED BY <5>1, <5>2
      <4>3. b - o \in 1..(m + l) /\ screen'[b - o] = b
        BY <1>10, <4>2
      <4> QED BY <1>10, <4>3 DEF IsShown
    <3>2. ASSUME NEW k \in 1..l, i = m + k PROVE FALSE
      <4>1. screen'[i] = F[k] /\ F[k] > w /\ F[k] \in Nat
        BY <1>10, <1>13, <1>14, <3>2
      <4> QED BY <2>3, <4>1
    <3> QED BY <1>11, <3>1, <3>2
  <2>4. ASSUME NEW b \in (w + 1)..total PROVE IsShown(b)' \/ OnWire(b)'
    <3>1. OnWire(b) \/ InBuffer(b)
      BY <1>1, <1>2, <2>2 DEF SnapInv
    <3>2. CASE OnWire(b)
      BY <1>18, <3>2 DEF OnWire, Within
    <3>3. CASE InBuffer(b)
      <4>1. PICK i \in 1..n : Within(buffered[i].data, buffered[i].cum, b)
        BY <1>3, <3>3 DEF InBuffer
      <4>2. b \in Nat /\ b > w
        BY <1>2
      <4>3. PICK k \in 1..l : F[k] = b
        BY <1>15, <4>1, <4>2
      <4>4. m + k \in 1..(m + l) /\ screen'[m + k] = b
        BY <1>10, <4>3
      <4> QED BY <1>10, <4>4 DEF IsShown
    <3> QED BY <3>1, <3>2, <3>3
  <2> QED BY <2>3, <2>4
<1>24. PendingInv'
  BY <1>21, FS_EmptySet DEF PendingInv
<1> QED
  BY <1>9, <1>17, <1>19, <1>20, <1>22, <1>23, <1>24 DEF IInv
-----------------------------------------------------------------------------
(* The other steps.                                                        *)

\* Nothing happens to the session.
LEMMA OutFrame ==
    ASSUME OInv, WireInv, RingInv, UNCHANGED outVars
    PROVE  /\ OInv' /\ WireInv' /\ RingInv' /\ total' = total /\ wire' = wire
           /\ \A b : OnWire(b)' <=> OnWire(b)
<1>1. OInv'
  BY StepOInv
<1>2. total' = total /\ wire' = wire /\ scroll' = scroll
  BY DEF outVars, sink
<1> QED
  BY <1>1, <1>2 DEF WireInv, RingInv, OnWire, Within, IsPiece, Run

LEMMA InitIInv == Init => IInv
<1> SUFFICES ASSUME Init PROVE IInv
  OBVIOUS
<1>1. OInv
  BY InitOInv DEF Init
<1>2. Len(<<>>) = 0 /\ <<>> \in Seq(Bytes)
  BY EmptySeq
<1>3. WireInv /\ RingInv
  BY <1>2 DEF Init, OutInit, WireInv, RingInv
<1>4. ViewType
  <2>1. 0 \in 0..Budget /\ \A i \in 1..0 : screen[i] <= total
    BY TermAssumption
  <2>2. raf = (pending # {})
    BY DEF Init
  <2> QED BY <1>2, <2>1, <2>2 DEF Init, ViewType
<1>5. OnceAndInOrder
  BY <1>2 DEF Init, OnceAndInOrder
<1> QED
  BY <1>1, <1>3, <1>4, <1>5 DEF Init, IInv

LEMMA WireKeeps ==
    ASSUME IInv, Wire
    PROVE  IInv'
<1>1. OInv' /\ WireInv' /\ RingInv' /\ total' = total /\ wire' = wire
  BY OutFrame DEF IInv, Wire
<1>2. Len(<<>>) = 0 /\ <<>> \in Seq(Bytes) /\ <<>> \in Seq(Events)
  BY EmptySeq
<1>3. /\ phase' = "asked" /\ screen' = <<>> /\ buffered' = <<>> /\ pending' = {}
      /\ writeCum' = -1 /\ gapFrames' = 0 /\ raf' = FALSE /\ watermark' = 0
      /\ forced' = FALSE /\ gone' = gone
  BY DEF Wire
<1>4. ViewType'
  <2>1. 0 \in 0..Budget /\ \A i \in 1..0 : screen'[i] <= total'
    BY TermAssumption
  <2>2. raf' = (pending' # {})
    BY <1>3
  <2>3. gone' \in BOOLEAN /\ forced' \in BOOLEAN
    BY <1>3 DEF IInv, ViewType
  <2> QED BY <1>2, <1>3, <2>1, <2>2, <2>3 DEF ViewType
<1>5. OnceAndInOrder'
  BY <1>2, <1>3 DEF OnceAndInOrder
<1>6. BufInv'
  BY <1>2, <1>3 DEF BufInv, Events
<1> QED
  BY <1>1, <1>3, <1>4, <1>5, <1>6 DEF IInv

LEMMA UnwireKeeps ==
    ASSUME IInv, Unwire
    PROVE  IInv'
<1>1. OInv' /\ WireInv' /\ RingInv' /\ total' = total /\ wire' = wire
  BY OutFrame DEF IInv, Unwire
<1>2. ViewType'
  <2>1. /\ phase' = "off" /\ pending' = {} /\ gapFrames' = 0 /\ raf' = FALSE
        /\ watermark' = watermark /\ writeCum' = writeCum /\ screen' = screen
        /\ gone' = gone /\ forced' = forced
    BY DEF Unwire, seen
  <2>2. 0 \in 0..Budget
    BY TermAssumption
  <2>3. raf' = (pending' # {})
    BY <2>1
  <2> QED BY <1>1, <2>1, <2>2, <2>3 DEF IInv, ViewType
<1>3. OnceAndInOrder'
  BY DEF IInv, Unwire, OnceAndInOrder, seen
<1> QED
  BY <1>1, <1>2, <1>3 DEF IInv, Unwire

LEMMA SnapshotKeeps ==
    ASSUME IInv, Snapshot
    PROVE  IInv'
<1>1. OInv' /\ WireInv' /\ RingInv' /\ total' = total /\ wire' = wire
  BY OutFrame DEF IInv, Snapshot
<1>2. /\ phase = "asked" /\ phase' = "replied" /\ screen' = screen /\ buffered' = buffered
      /\ writeCum' = writeCum /\ overtook' = overtook /\ forced' = forced /\ gone' = gone
      /\ pending' = pending /\ watermark' = watermark /\ gapFrames' = gapFrames /\ raf' = raf
  BY DEF Snapshot, seen
<1>3. ViewType'
  BY <1>1, <1>2 DEF IInv, ViewType
<1>4. OnceAndInOrder'
  BY <1>2 DEF IInv, OnceAndInOrder
<1>5. BufInv'
  BY <1>1, <1>2 DEF IInv, BufInv, InTurn, IsPiece, Run
<1>6. SnapInv'
  <2>1. /\ total \in Nat /\ scroll \in Seq(Bytes) /\ Len(scroll) <= total
        /\ Run(scroll, total - Len(scroll)) /\ (total > 0 => Len(scroll) > 0)
    BY Lengths DEF IInv, OInv, SinkInv, RingInv
  <2>2. CASE gone
    <3>1. snap' = NoSnap
      BY <2>2 DEF Snapshot
    <3>2. snap'.cum = 0 /\ snap'.data = <<>>
      BY <3>1 DEF NoSnap
    <3>3. Len(<<>>) = 0 /\ Run(<<>>, 0)
      BY EmptyRun
    <3> QED BY <1>1, <1>2, <2>1, <2>2, <3>2, <3>3 DEF SnapInv, Run
  <2>3. CASE ~gone
    <3>1. snap' = [data |-> scroll, cum |-> total]
      BY <2>3 DEF Snapshot
    <3>2. snap'.cum = total /\ snap'.data = scroll
      BY <3>1
    <3>3. (snap'.cum + 1)..total' = {}
      BY <1>1, <2>1, <3>2
    <3> QED BY <1>1, <2>1, <3>2, <3>3 DEF SnapInv, Run
  <2> QED BY <2>2, <2>3
<1> QED
  BY <1>1, <1>2, <1>3, <1>4, <1>5, <1>6 DEF IInv

LEMMA LeaveKeeps ==
    ASSUME IInv, Leave
    PROVE  IInv'
<1>1. /\ OInv' /\ WireInv' /\ RingInv' /\ total' = total /\ wire' = wire
      /\ \A b : OnWire(b)' <=> OnWire(b)
  BY OutFrame DEF IInv, Leave
<1>2. /\ phase' = phase /\ snap' = snap /\ watermark' = watermark /\ buffered' = buffered
      /\ pending' = pending /\ writeCum' = writeCum /\ gapFrames' = gapFrames /\ raf' = raf
      /\ screen' = screen /\ gone' = TRUE /\ overtook' = overtook /\ forced' = forced
  BY DEF Leave, view, seen
<1>3. /\ Upto' = Upto /\ (NothingToFetch => NothingToFetch')
      /\ (\A b : IsShown(b)' <=> IsShown(b)) /\ (\A b : IsPending(b)' <=> IsPending(b))
      /\ (\A b : InBuffer(b)' <=> InBuffer(b))
  BY <1>2 DEF Upto, NothingToFetch, IsShown, IsPending, InBuffer, Within
<1>4. ViewType' /\ OnceAndInOrder'
  BY <1>1, <1>2 DEF IInv, ViewType, OnceAndInOrder
<1>5. BufInv => BufInv'
  BY <1>1, <1>2 DEF BufInv, InTurn, IsPiece, Run
<1>6. SnapInv => SnapInv'
  BY <1>1, <1>2, <1>3 DEF SnapInv, Run
<1>7. PendingInv => PendingInv'
  BY <1>1, <1>2 DEF PendingInv, IsPiece, Run
<1>8. AheadInv => AheadInv'
  BY <1>1, <1>2, <1>3 DEF AheadInv
<1>9. WholeInv => WholeInv'
  BY <1>1, <1>2, <1>3 DEF WholeInv
<1> QED
  BY <1>1, <1>2, <1>4, <1>5, <1>6, <1>7, <1>8, <1>9 DEF IInv

LEMMA FrameKeeps ==
    ASSUME IInv, Frame
    PROVE  IInv'
<1>1. OInv' /\ WireInv' /\ RingInv' /\ total' = total /\ \A b : OnWire(b)' <=> OnWire(b)
  BY OutFrame DEF IInv, Frame
<1>2. /\ raf /\ FlushLive(pending) /\ phase' = phase /\ watermark' = watermark
      /\ gone' = gone /\ overtook' = overtook
  BY DEF Frame
<1>3. phase = "live"
  BY <1>2 DEF IInv, ViewType
<1>4. LiveInv /\ OInv
  BY <1>3 DEF IInv, LiveInv
<1>5. ArePieces(pending) /\ Covers(pending)
  BY <1>1, <1>4 DEF LiveInv, PendingInv, ArePieces, Covers, IsPending
<1>6. LiveInv'
  BY <1>1, <1>2, <1>3, <1>4, <1>5, FlushLiveKeeps
<1> QED
  BY <1>1, <1>2, <1>3, <1>6 DEF IInv, LiveInv

\* An event comes while the snapshot is awaited.
LEMMA BuffersOn ==
    ASSUME OInv, WireInv, ViewType, BufInv, NEW i \in 1..Len(wire), wire' = RemoveAt(wire, i),
           UNCHANGED <<read, carry, batch, pump, emitted, scroll, total>>,
           buffered' = Append(buffered, wire[i]),
           overtook' = (IF i > 1 THEN overtook \cup ToSet(wire[i].data) ELSE overtook),
           UNCHANGED <<screen, writeCum>>
    PROVE  /\ BufInv'
           /\ \A b : OnWire(b) \/ InBuffer(b) => OnWire(b)' \/ InBuffer(b)'
<1> DEFINE e == wire[i]
<1>1. /\ WireInv'
      /\ \A k \in 1..Len(wire') : \E j \in 1..Len(wire) : j # i /\ wire'[k] = wire[j]
      /\ \A b : OnWire(b) <=> OnWire(b)' \/ Within(wire[i].data, wire[i].cum, b)
  BY Delivered
<1>2. PICK n \in Nat : n = Len(buffered)
  BY LenProperties DEF BufInv
<1>3. e \in Events /\ IsPiece(e.data, e.cum, total)
  BY ElementOfSeq DEF OInv, SinkInv, Events, WireInv
<1>4. /\ buffered' \in Seq(Events) /\ Len(buffered') = n + 1 /\ buffered'[n + 1] = e
      /\ \A k \in 1..n : buffered'[k] = buffered[k]
  <2>1. buffered \in Seq(Events) /\ buffered' = Append(buffered, e)
    BY DEF BufInv, Events
  <2> HIDE DEF e
  <2> QED BY <1>2, <1>3, <2>1, AppendProperties
<1>5. \A k \in 1..(n + 1) : k \in 1..n \/ k = n + 1
  OBVIOUS
<1>6. overtook \subseteq overtook' /\ total' = total
  OBVIOUS
<1>7. ASSUME NEW k \in 1..n
      PROVE  /\ IsPiece(buffered[k].data, buffered[k].cum, total)
             /\ \A h \in 1..n : k < h => InTurn(buffered[k], buffered[h], overtook')
             /\ \A h \in 1..Len(wire) : InTurn(buffered[k], wire[h], overtook')
  BY <1>2, <1>6 DEF BufInv, InTurn
<1>8. ASSUME NEW j \in 1..Len(wire), j # i PROVE InTurn(e, wire[j], overtook')
  <2>1. Len(wire) \in Nat
    BY LenProperties DEF OInv, SinkInv
  <2>2. CASE i < j
    BY <2>2 DEF WireInv, InTurn
  <2>3. CASE j < i
    <3>1. wire[j].cum <= e.cum - Len(e.data)
      BY <2>3 DEF WireInv
    <3>2. i > 1
      BY <2>1, <2>3
    <3>3. \A k \in 1..Len(e.data) : e.data[k] \in overtook'
      <4>1. ToSet(e.data) \subseteq overtook'
        BY <3>2
      <4>2. DOMAIN e.data = 1..Len(e.data)
        BY <1>3, LenProperties DEF IsPiece
      <4> QED BY <4>1, <4>2 DEF ToSet
    <3> QED BY <3>1, <3>3 DEF InTurn
  <2> QED BY <1>8, <2>1, <2>2, <2>3
<1> HIDE DEF e
<1>9. ASSUME NEW k \in 1..(n + 1) PROVE IsPiece(buffered'[k].data, buffered'[k].cum, total)
  BY <1>3, <1>4, <1>5, <1>7
<1>10. ASSUME NEW k \in 1..(n + 1), NEW h \in 1..(n + 1), k < h
       PROVE  InTurn(buffered'[k], buffered'[h], overtook')
  <2>1. k \in 1..n
    BY <1>10
  <2>2. CASE h \in 1..n
    BY <1>4, <1>7, <1>10, <2>1, <2>2
  <2>3. CASE h = n + 1
    BY <1>4, <1>7, <2>1, <2>3 DEF e
  <2> QED BY <1>5, <2>2, <2>3
<1>11. ASSUME NEW k \in 1..(n + 1), NEW h \in 1..Len(wire')
       PROVE  InTurn(buffered'[k], wire'[h], overtook')
  <2>1. PICK j \in 1..Len(wire) : j # i /\ wire'[h] = wire[j]
    BY <1>1
  <2>2. CASE k \in 1..n
    BY <1>4, <1>7, <2>1, <2>2
  <2>3. CASE k = n + 1
    BY <1>4, <1>8, <2>1, <2>3
  <2> QED BY <1>5, <2>2, <2>3
<1>12. BufInv'
  <2>1. screen' = <<>> /\ writeCum' = -1
    BY DEF BufInv
  <2> QED BY <1>4, <1>6, <1>9, <1>10, <1>11, <2>1 DEF BufInv, Events, InTurn, IsPiece, Run
<1>13. ASSUME NEW b, OnWire(b) \/ InBuffer(b) PROVE OnWire(b)' \/ InBuffer(b)'
  <2>1. \A k \in 1..(n + 1) : Within(buffered'[k].data, buffered'[k].cum, b) => InBuffer(b)'
    BY <1>4 DEF InBuffer, Within
  <2>2. CASE InBuffer(b)
    <3>1. PICK k \in 1..n : Within(buffered[k].data, buffered[k].cum, b)
      BY <1>2, <2>2 DEF InBuffer
    <3>2. k \in 1..(n + 1)
      OBVIOUS
    <3> QED BY <1>4, <2>1, <3>1, <3>2
  <2>3. CASE OnWire(b)
    <3>1. OnWire(b)' \/ Within(e.data, e.cum, b)
      BY <1>1, <2>3 DEF e
    <3>2. n + 1 \in 1..(n + 1)
      OBVIOUS
    <3> QED BY <1>4, <2>1, <3>1, <3>2
  <2> QED BY <1>13, <2>2, <2>3
<1> QED
  BY <1>12, <1>13

LEMMA DeliverKeeps ==
    ASSUME IInv, NEW i \in 1..(Skew + 1), Deliver(i)
    PROVE  IInv'
<1> DEFINE e == wire[i]
           chunk == [start |-> e.cum - Len(e.data), end |-> e.cum, data |-> e.data]
<1>0. OInv /\ WireInv /\ RingInv /\ ViewType /\ OnceAndInOrder
  BY DEF IInv
<1>1. /\ i \in 1..Len(wire) /\ wire' = RemoveAt(wire, i)
      /\ UNCHANGED <<read, carry, batch, pump, emitted, scroll, total, gone>>
  <2>1. i \in Nat /\ i > 0 /\ Len(wire) \in Nat
    BY <1>0, TermAssumption, LenProperties DEF OInv, SinkInv
  <2> QED BY <2>1 DEF Deliver
<1>2. /\ OInv' /\ WireInv'
      /\ \A b : OnWire(b) <=> OnWire(b)' \/ Within(wire[i].data, wire[i].cum, b)
  BY <1>0, <1>1, Delivered
<1>3. total' = total /\ gone' = gone /\ RingInv'
  BY <1>0, <1>1 DEF RingInv
<1>4. CASE phase = "off"
  <2>1. UNCHANGED <<view, overtook, forced>>
    BY <1>4 DEF Deliver
  <2>2. ViewType' /\ OnceAndInOrder' /\ phase' = "off"
    BY <1>0, <1>3, <1>4, <2>1 DEF view, ViewType, OnceAndInOrder
  <2> QED BY <1>2, <1>3, <2>2 DEF IInv
<1>5. CASE phase \in {"asked", "replied"}
  <2>1. /\ buffered' = Append(buffered, e)
        /\ overtook' = (IF i > 1 THEN overtook \cup ToSet(e.data) ELSE overtook)
        /\ UNCHANGED <<phase, snap, watermark, pending, writeCum, gapFrames,
                       raf, screen, mounts, forced>>
    BY <1>5 DEF Deliver
  <2>2. BufInv
    BY <1>5 DEF IInv
  <2>3. /\ BufInv'
        /\ \A b : OnWire(b) \/ InBuffer(b) => OnWire(b)' \/ InBuffer(b)'
    <3>1. UNCHANGED <<screen, writeCum>>
      BY <2>1
    <3> QED BY <1>0, <1>1, <2>1, <2>2, <3>1, BuffersOn
  <2>4. ViewType'
    BY <1>0, <1>3, <2>1 DEF ViewType
  <2>5. OnceAndInOrder'
    <3>1. screen' = <<>> /\ Len(<<>>) = 0
      BY <2>3, EmptySeq DEF BufInv
    <3> QED BY <3>1 DEF OnceAndInOrder
  <2>6. phase = "replied" => SnapInv'
    <3>1. CASE phase = "replied"
      BY <1>3, <2>1, <2>3, <3>1 DEF IInv, SnapInv, Run
    <3> QED BY <3>1
  <2>7. phase' \in {"asked", "replied"} /\ phase' = phase
    BY <1>5, <2>1
  <2> QED BY <1>2, <1>3, <2>3, <2>4, <2>5, <2>6, <2>7 DEF IInv
<1>6. CASE phase = "live"
  <2> DEFINE P == pending \cup {chunk}
  <2>1. /\ IF raf THEN /\ pending' = P
                       /\ UNCHANGED <<writeCum, gapFrames, raf, screen, forced>>
                  ELSE FlushLive(P)
        /\ UNCHANGED <<phase, snap, watermark, buffered, mounts, overtook>>
    BY <1>6 DEF Deliver
  <2>2. LiveInv
    BY <1>6 DEF IInv, LiveInv
  <2>3. IsPiece(e.data, e.cum, total)
    BY <1>0, <1>1 DEF WireInv
  <2>4. /\ chunk.data = e.data /\ chunk.end = e.cum
        /\ chunk.start = chunk.end - Len(chunk.data)
    OBVIOUS
  <2>5. ArePieces(P)
    <3> HIDE DEF chunk, e
    <3>1. IsFiniteSet(P)
      BY <2>2, FS_AddElement DEF LiveInv, PendingInv
    <3>2. \A p \in P : IsPiece(p.data, p.end, total) /\ p.start = p.end - Len(p.data)
      BY <2>2, <2>3, <2>4 DEF LiveInv, PendingInv
    <3> HIDE DEF P
    <3> QED BY <3>1, <3>2 DEF ArePieces
  <2>6. Covers(P)
    <3> HIDE DEF chunk
    <3>1. \A b : (\E p \in P : Within(p.data, p.end, b))
                 <=> IsPending(b) \/ Within(e.data, e.cum, b)
      BY <2>4 DEF IsPending
    <3> HIDE DEF P
    <3> QED BY <1>2, <3>1 DEF Covers
  <2>7. P # {}
    OBVIOUS
  <2> HIDE DEF P
  <2>8. LiveInv'
    <3>1. CASE raf
      BY <1>0, <1>3, <1>6, <2>1, <2>2, <2>5, <2>6, <2>7, <3>1, QueueKeeps
    <3>2. CASE ~raf
      BY <1>0, <1>3, <1>6, <2>1, <2>2, <2>5, <2>6, <3>2, FlushLiveKeeps
    <3> QED BY <3>1, <3>2
  <2>9. phase' = "live"
    BY <1>6, <2>1
  <2> QED BY <1>2, <1>3, <2>8, <2>9 DEF IInv, LiveInv
<1>7. phase \in {"off", "asked", "replied", "live"}
  BY <1>0 DEF ViewType
<1> QED
  BY <1>4, <1>5, <1>6, <1>7
-----------------------------------------------------------------------------
(* The theorems.                                                           *)

LEMMA StepIInv == IInv /\ [Next]_vars => IInv'
<1> SUFFICES ASSUME IInv, [Next]_vars PROVE IInv'
  OBVIOUS
<1>1. CASE OutNext /\ UNCHANGED <<view, gone, seen>>
  BY <1>1, OutKeeps
<1>2. CASE Wire
  BY <1>2, WireKeeps
<1>3. CASE Unwire
  BY <1>3, UnwireKeeps
<1>4. CASE Snapshot
  BY <1>4, SnapshotKeeps
<1>5. CASE Reply
  BY <1>5, ReplyKeeps
<1>6. CASE Frame
  BY <1>6, FrameKeeps
<1>7. CASE Leave
  BY <1>7, LeaveKeeps
<1>8. ASSUME NEW i \in 1..(Skew + 1), Deliver(i) PROVE IInv'
  BY <1>8, DeliverKeeps
<1>9. CASE UNCHANGED vars
  <2>1. UNCHANGED outVars /\ UNCHANGED <<view, gone, seen>>
    BY <1>9 DEF vars
  <2> QED BY <2>1, OutKeeps
<1> QED
  BY <1>1, <1>2, <1>3, <1>4, <1>5, <1>6, <1>7, <1>8, <1>9 DEF Next

LEMMA PaneInvariant == Spec => []IInv
<1> QED
  BY InitIInv, StepIInv, PTL DEF Spec

\* Every variable of the pane and of the output path keeps its type; the frame
\* budget is never overrun, and a frame is scheduled if and only if chunks wait
\* (Reschedule in flushLive).
THEOREM PaneTypeCorrect == Spec => []TypeOK
<1>1. IInv => TypeOK
  <2> SUFFICES ASSUME IInv PROVE TypeOK
    OBVIOUS
  <2>1. OutTypeOK
    BY DEF IInv, OInv, SinkInv, BatchInv, PumpInv, OutTypeOK, Run, Bytes
  <2> QED BY <2>1 DEF IInv, ViewType, TypeOK, Bytes
<1> QED
  BY <1>1, PaneInvariant, PTL

\* Whatever the snapshot, the buffered events and the live chunks have in
\* common, and however late or early events come, no byte is on the screen
\* twice, and none out of order that did not overtake another while the
\* snapshot was awaited (the attach path and flushLive of Terminal.svelte).
THEOREM ShownOnceInOrder == Spec => []OnceAndInOrder
<1>1. IInv => OnceAndInOrder
  BY DEF IInv
<1> QED
  BY <1>1, PaneInvariant, PTL

\* A byte that is missing between two shown ones is on its way or waits for a
\* frame, unless the budget of a gap was used up or the session had gone when
\* the snapshot was taken: attaching leaves no hole of its own.
THEOREM AttachLeavesNoHole == Spec => []NoSilentHole
<1>1. IInv => NoSilentHole
  <2> SUFFICES ASSUME IInv, NEW b \in 1..Total, phase = "live", b \notin OnScreen,
                      NEW x \in OnScreen, x < b, NEW y \in OnScreen, y > b,
                      ~forced, ~NothingToFetch
               PROVE  \E e \in ToSet(wire) \cup pending : b \in ToSet(e.data)
    BY DEF NoSilentHole
  <2>1. OInv /\ ViewType /\ WireInv /\ PendingInv /\ WholeInv
    BY DEF IInv
  <2>2. /\ Upto \in Nat /\ total \in Nat /\ Total \in Nat /\ Len(screen) \in Nat
        /\ \A i \in 1..Len(screen) : screen[i] \in Nat /\ screen[i] <= total
    BY <2>1, LiveTyped
  <2>3. DOMAIN screen = 1..Len(screen)
    BY <2>1, LenProperties DEF ViewType
  <2>4. ~IsShown(b) /\ (\E i \in 1..Len(screen) : screen[i] < b)
    BY <2>3 DEF OnScreen, ToSet, IsShown
  <2>5. b \in Nat /\ b > 0 /\ b <= total
    BY <2>2, <2>3 DEF OnScreen, ToSet
  <2>6. ~(b <= Upto)
    <3>1. b <= Upto => b \in 1..Upto
      BY <2>2, <2>5
    <3> QED BY <2>1, <2>4, <3>1 DEF WholeInv
  <2>7. b \in (Upto + 1)..total
    BY <2>2, <2>5, <2>6
  <2>8. OnWire(b) \/ IsPending(b)
    BY <2>1, <2>4, <2>7 DEF WholeInv
  <2>9. ASSUME NEW data, NEW end, IsPiece(data, end, total), Within(data, end, b)
        PROVE  b \in ToSet(data)
    <3>1. PICK l \in Nat, c \in Nat : /\ l = Len(data) /\ c = end /\ l <= c
                                     /\ \A k \in 1..l : data[k] = c - l + k
                                     /\ DOMAIN data = 1..l
      BY <2>9, LenProperties DEF IsPiece, Run
    <3>2. b - (c - l) \in 1..l /\ c - l + (b - (c - l)) = b
      BY <2>5, <2>9, <3>1 DEF Within
    <3> QED BY <3>1, <3>2 DEF ToSet
  <2>10. CASE OnWire(b)
    <3>1. PICK k \in 1..Len(wire) : Within(wire[k].data, wire[k].cum, b)
      BY <2>10 DEF OnWire
    <3>2. DOMAIN wire = 1..Len(wire)
      BY <2>1, LenProperties DEF OInv, SinkInv
    <3>3. wire[k] \in ToSet(wire) /\ b \in ToSet(wire[k].data)
      BY <2>1, <2>9, <3>1, <3>2 DEF ToSet, WireInv
    <3> QED BY <3>3
  <2>11. CASE IsPending(b)
    BY <2>1, <2>9, <2>11 DEF IsPending, PendingInv
  <2> QED BY <2>8, <2>10, <2>11
<1> QED
  BY <1>1, PaneInvariant, PTL
=============================================================================
