------------------------ MODULE OutputStream_proofs ------------------------
(***************************************************************************)
(* Proofs about the output stream, for every set of clients, every ring    *)
(* and channel size, and every number of frames.                           *)
(***************************************************************************)
EXTENDS OutputStream, SequenceTheorems, WellFoundedInduction, TLAPS

-----------------------------------------------------------------------------
(***************************************************************************)
(* The ring.                                                               *)
(***************************************************************************)

\* A non-empty set of naturals has a least element: what the eviction loop
\* stops at exists.
LEMMA LeastNat ==
  ASSUME NEW T, T \subseteq Nat, T # {}
  PROVE  \E k \in T : \A j \in T : k <= j
<1>1. \E R : IsWellFoundedOn(R, Nat) /\ \A j, k \in Nat : j < k => <<j, k>> \in R
  <2>1. \A j, k \in Nat : j < k => <<j, k>> \in OpToRel(<, Nat)
    BY Zenon DEF OpToRel
  <2> QED  BY <2>1, NatLessThanWellFounded, Zenon
<1>2. PICK R : IsWellFoundedOn(R, Nat) /\ \A j, k \in Nat : j < k => <<j, k>> \in R
  BY <1>1
<1>3. PICK k \in T : \A j \in T : ~(<<j, k>> \in R)
  <2>1. ASSUME NEW Q, IsWellFoundedOn(Q, Nat)
        PROVE  \E x \in T : \A y \in T : ~(<<y, x>> \in Q)
    BY <2>1, WFMin, Zenon
  <2> QED  BY <1>2, <2>1, Zenon
<1>4. ASSUME NEW j \in T PROVE k <= j
  <2>1. ~(j < k)
    BY <1>2, <1>3
  <2> QED  BY <2>1
<1> QED  BY <1>4

\* The eviction loop of push ends with at least one frame left and with what
\* is left within the bounds.
LEMMA EvictedStops ==
  ASSUME NEW all \in Seq(Frame), all # << >>, NEW bytes
  PROVE  /\ Evicted(all, bytes) \in 0 .. (Len(all) - 1)
         /\ MayStay(all, bytes, Evicted(all, bytes))
<1> DEFINE T == {k \in 0 .. Len(all) : MayStay(all, bytes, k)}
<1>1. Len(all) \in Nat /\ Len(all) > 0
  BY EmptySeq, LenProperties
<1>2. Len(all) - 1 \in T
  BY <1>1 DEF MayStay
<1>3. PICK k \in T : \A j \in T : k <= j
  <2> T \subseteq Nat
    BY <1>1
  <2> QED  BY <1>2, LeastNat
<1>4. k \in 0 .. Len(all) /\ MayStay(all, bytes, k)
        /\ \A j \in 0 .. (k - 1) : ~MayStay(all, bytes, j)
  BY <1>1, <1>3
<1> DEFINE e == Evicted(all, bytes)
<1>5. e \in 0 .. Len(all) /\ MayStay(all, bytes, e)
        /\ \A j \in 0 .. (e - 1) : ~MayStay(all, bytes, j)
  BY <1>4 DEF Evicted
<1>6. e # Len(all)
  BY <1>1, <1>2, <1>5
<1> QED  BY <1>1, <1>5, <1>6

\* A run of frames whose sequence numbers are consecutive and end at latest.
Consecutive(fs, latest) ==
  /\ Len(fs) <= latest
  /\ \A i \in 1 .. Len(fs) : fs[i].seq = latest - Len(fs) + i

\* The suffix of a sequence that starts at k.
LEMMA SuffixProperties ==
  ASSUME NEW S, NEW s \in Seq(S), NEW k \in 1 .. Len(s)
  PROVE  /\ SubSeq(s, k, Len(s)) \in Seq(S)
         /\ Len(SubSeq(s, k, Len(s))) = Len(s) - k + 1
         /\ \A i \in 1 .. (Len(s) - k + 1) : SubSeq(s, k, Len(s))[i] = s[k + i - 1]
<1>1. Len(s) \in Nat /\ k \in Int /\ Len(s) \in Int
  BY LenProperties
<1>2. \A i \in k .. Len(s) : s[i] \in S
  BY <1>1, ElementOfSeq
<1> DEFINE n == Len(s)
<1> HIDE DEF n
<1>3. n \in Int /\ \A i \in k .. n : s[i] \in S
  BY <1>1, <1>2 DEF n
<1>4. /\ SubSeq(s, k, n) \in Seq(S)
      /\ Len(SubSeq(s, k, n)) = IF k <= n THEN n - k + 1 ELSE 0
      /\ \A i \in 1 .. (n - k + 1) : SubSeq(s, k, n)[i] = s[k + i - 1]
  BY <1>1, <1>3, SubSeqProperties
<1> QED  BY <1>1, <1>4 DEF n

\* Appending the next frame, and dropping frames at the front, keep a run
\* consecutive.
LEMMA AppendConsecutive ==
  ASSUME NEW fs \in Seq(Frame), NEW latest \in Nat, Consecutive(fs, latest),
         NEW f \in Frame, f.seq = latest + 1
  PROVE  /\ Append(fs, f) \in Seq(Frame)
         /\ Append(fs, f) # << >>
         /\ Consecutive(Append(fs, f), latest + 1)
<1>1. PICK all : all = Append(fs, f)
  OBVIOUS
<1>2. Len(fs) \in Nat
  BY LenProperties
<1>3. /\ all \in Seq(Frame)
      /\ Len(all) = Len(fs) + 1
      /\ \A i \in 1 .. Len(fs) : all[i] = fs[i]
      /\ all[Len(fs) + 1] = f
  BY <1>1, AppendProperties
<1>4. all # << >>
  BY <1>2, <1>3, EmptySeq
<1>5. ASSUME NEW i \in 1 .. Len(all)
      PROVE  all[i].seq = latest + 1 - Len(all) + i
  <2>1. CASE i \in 1 .. Len(fs)
    BY <1>2, <1>3, <2>1 DEF Consecutive
  <2>2. CASE i = Len(fs) + 1
    BY <1>2, <1>3, <2>2
  <2> QED  BY <1>2, <1>3, <2>1, <2>2
<1>6. Len(all) <= latest + 1
  BY <1>2, <1>3 DEF Consecutive
<1> QED  BY <1>1, <1>3, <1>4, <1>5, <1>6 DEF Consecutive

LEMMA SuffixConsecutive ==
  ASSUME NEW s \in Seq(Frame), NEW latest \in Nat, Consecutive(s, latest),
         NEW k \in 1 .. Len(s), NEW r, r = SubSeq(s, k, Len(s))
  PROVE  Consecutive(r, latest)
<1>1. Len(s) \in Nat
  BY LenProperties
<1>2. Len(r) = Len(s) - k + 1 /\ \A i \in 1 .. Len(r) : r[i] = s[k + i - 1]
  BY SuffixProperties
<1>3. ASSUME NEW i \in 1 .. Len(r) PROVE r[i].seq = latest - Len(r) + i
  <2>1. k + i - 1 \in 1 .. Len(s)
    BY <1>1, <1>2
  <2>2. s[k + i - 1].seq = latest - Len(s) + (k + i - 1)
    BY <2>1 DEF Consecutive
  <2> QED  BY <1>1, <1>2, <2>2
<1>4. Len(r) <= latest
  BY <1>1, <1>2 DEF Consecutive
<1> QED  BY <1>3, <1>4 DEF Consecutive

\* push of the next frame keeps the ring consecutive, non-empty and bounded.
LEMMA PushConsecutive ==
  ASSUME NEW b, b.frames \in Seq(Frame), b.latest_seq \in Nat,
         Consecutive(b.frames, b.latest_seq),
         NEW f \in Frame, f.seq = b.latest_seq + 1,
         NEW n, n = Push(b, f)
  PROVE  /\ n.frames \in Seq(Frame)
         /\ n.frames # << >>
         /\ n.latest_seq = b.latest_seq + 1
         /\ Consecutive(n.frames, n.latest_seq)
         /\ \/ Len(n.frames) <= 1
            \/ Len(n.frames) <= MaxFrames /\ n.bytes <= MaxBytes
<1>1. PICK all : all = Append(b.frames, f)
  OBVIOUS
<1>2. PICK bytes : bytes = b.bytes + f.len
  OBVIOUS
<1>3. PICK k : k = Evicted(all, bytes)
  OBVIOUS
<1>4. /\ n.frames = SubSeq(all, k + 1, Len(all))
      /\ n.bytes = bytes - Bytes(SubSeq(all, 1, k))
      /\ n.latest_seq = b.latest_seq + 1
  BY <1>1, <1>2, <1>3 DEF Push
<1>5. /\ all \in Seq(Frame)
      /\ all # << >>
      /\ Consecutive(all, b.latest_seq + 1)
  BY <1>1, AppendConsecutive
<1>6. k \in 0 .. (Len(all) - 1) /\ MayStay(all, bytes, k)
  BY <1>3, <1>5, EvictedStops
<1>7. k + 1 \in 1 .. Len(all) /\ Len(all) \in Nat
  BY <1>5, <1>6, LenProperties
<1>8. n.frames \in Seq(Frame) /\ Len(n.frames) = Len(all) - k
  <2>1. PICK j : j = k + 1
    OBVIOUS
  <2>2. n.frames = SubSeq(all, j, Len(all)) /\ j \in 1 .. Len(all)
    BY <1>4, <1>7, <2>1
  <2>3. n.frames \in Seq(Frame) /\ Len(n.frames) = Len(all) - j + 1
    BY <1>5, <2>2, SuffixProperties
  <2> QED  BY <1>6, <1>7, <2>1, <2>3
<1>9. n.frames # << >>
  BY <1>6, <1>7, <1>8, EmptySeq
<1>10. b.latest_seq + 1 \in Nat
  OBVIOUS
<1>11. Consecutive(n.frames, n.latest_seq)
  BY <1>4, <1>5, <1>7, <1>10, SuffixConsecutive
<1>12. \/ Len(n.frames) <= 1
       \/ Len(n.frames) <= MaxFrames /\ n.bytes <= MaxBytes
  BY <1>4, <1>6, <1>8 DEF MayStay
<1> QED  BY <1>4, <1>8, <1>9, <1>11, <1>12

\* On a consecutive ring the filter of replay_since finds its first frame.
LEMMA FirstNewerIs ==
  ASSUME NEW fs \in Seq(Frame), NEW latest \in Nat, Consecutive(fs, latest),
         NEW b \in Nat, latest - Len(fs) <= b, b < latest
  PROVE  FirstNewer(fs, b) = b - (latest - Len(fs)) + 1
<1> DEFINE i == b - (latest - Len(fs)) + 1
           P(x) == \A j \in 1 .. Len(fs) : fs[j].seq > b <=> x <= j
<1>1. Len(fs) \in Nat
  BY LenProperties
<1>2. i \in 1 .. Len(fs)
  BY <1>1
<1>3. P(i)
  BY <1>1, <1>2 DEF Consecutive
<1>4. ASSUME NEW x \in 1 .. (Len(fs) + 1), P(x) PROVE x = i
  <2>1. fs[i].seq > b
    BY <1>1, <1>2, <1>3
  <2>2. x <= i
    BY <1>2, <1>4, <2>1
  <2>3. CASE x < i
    <3>1. x \in 1 .. Len(fs)
      BY <1>1, <1>2, <2>3
    <3>2. fs[x].seq > b
      BY <1>4, <3>1
    <3> QED  BY <1>1, <1>2, <1>3, <2>3, <3>1, <3>2
  <2> QED  BY <1>2, <2>2, <2>3
<1> QED  BY <1>1, <1>2, <1>3, <1>4 DEF FirstNewer

\* What replay_since returns on a consecutive ring.
LEMMA ReplayFramesAre ==
  ASSUME NEW b, b.frames \in Seq(Frame), b.latest_seq \in Nat,
         Consecutive(b.frames, b.latest_seq), b.frames # << >>,
         NEW m \in Nat, 0 < m, ~WindowLost(b, m), m < b.latest_seq
  PROVE  /\ ReplayFrames(b, m) \in Seq(Frame)
         /\ Len(ReplayFrames(b, m)) = b.latest_seq - m
         /\ \A i \in 1 .. (b.latest_seq - m) : ReplayFrames(b, m)[i].seq = m + i
<1>1. Len(b.frames) \in Nat /\ Len(b.frames) > 0
  BY LenProperties, EmptySeq
<1>2. b.latest_seq - Len(b.frames) <= m
  BY <1>1 DEF WindowLost, Consecutive
<1>3. ReplayFrames(b, m) = SubSeq(b.frames, FirstNewer(b.frames, m), Len(b.frames))
  <2>1. ~(m >= b.latest_seq)
    OBVIOUS
  <2> QED  BY <2>1, Zenon DEF ReplayFrames
<1>4. PICK fs, latest, r :
        fs = b.frames /\ latest = b.latest_seq /\ r = ReplayFrames(b, m)
  OBVIOUS
<1>5. /\ fs \in Seq(Frame) /\ latest \in Nat /\ Consecutive(fs, latest)
      /\ latest - Len(fs) <= m /\ m < latest
      /\ r = SubSeq(fs, FirstNewer(fs, m), Len(fs))
  BY <1>2, <1>3, <1>4
<1>6. PICK k : k = m - (latest - Len(fs)) + 1
  OBVIOUS
<1>7. Len(fs) \in Nat
  BY <1>5, LenProperties
<1>8. k \in 1 .. Len(fs) /\ Len(fs) - k + 1 = latest - m
  BY <1>5, <1>6, <1>7 DEF Consecutive
<1>9. r = SubSeq(fs, k, Len(fs))
  BY <1>5, <1>6, FirstNewerIs
<1>10. /\ r \in Seq(Frame)
       /\ Len(r) = latest - m
       /\ \A i \in 1 .. (latest - m) : r[i] = fs[k + i - 1]
  BY <1>5, <1>8, <1>9, SuffixProperties
<1>11. ASSUME NEW i \in 1 .. (latest - m)
       PROVE  r[i].seq = m + i
  <2>1. r[i] = fs[k + i - 1]
    BY <1>10
  <2>2. k + i - 1 \in 1 .. Len(fs)
    BY <1>5, <1>6, <1>7, <1>8
  <2>3. fs[k + i - 1].seq = latest - Len(fs) + (k + i - 1)
    BY <1>5, <2>2 DEF Consecutive
  <2> QED  BY <1>5, <1>6, <1>7, <2>1, <2>3
<1> QED  BY <1>4, <1>10, <1>11

\* Partial sums of the payload lengths: what Bytes recurses over.
Adds(fs, m, g) == g[0] = 0 /\ \A n \in 1 .. m : g[n] = g[n - 1] + fs[n].len
Sums(fs, m, g) == g \in [0 .. m -> Int] /\ Adds(fs, m, g)

LEMMA SumsExist ==
  ASSUME NEW fs \in Seq(Frame), NEW m \in Nat, m <= Len(fs)
  PROVE  \E g : Sums(fs, m, g)
<1> DEFINE T == {n \in 0 .. m : ~\E g : Sums(fs, n, g)}
<1>0. m \in 0 .. m
  OBVIOUS
<1> SUFFICES ASSUME T # {} PROVE FALSE
  BY <1>0
<1>1. PICK k \in T : \A j \in T : k <= j
  <2>1. T \subseteq Nat
    OBVIOUS
  <2> QED  BY <2>1, LeastNat
<1>2. k # 0
  <2>1. Sums(fs, 0, [n \in 0 .. 0 |-> 0])
    BY DEF Sums, Adds
  <2> QED  BY <2>1
<1>3. k \in 1 .. m /\ k - 1 \in Nat
  BY <1>2
<1>4. PICK g : Sums(fs, k - 1, g)
  BY <1>1, <1>3
<1>5. fs[k].len \in Nat
  <2>1. fs[k] \in Frame
    BY <1>3, ElementOfSeq, LenProperties
  <2> QED  BY <2>1 DEF Frame
<1>6. PICK h : h = [n \in 0 .. k |-> IF n = k THEN g[k - 1] + fs[k].len ELSE g[n]]
  OBVIOUS
<1>7. Sums(fs, k, h)
  <2>1. \A n \in 0 .. (k - 1) : h[n] = g[n] /\ g[n] \in Int
    BY <1>3, <1>4, <1>6 DEF Sums
  <2>2. k - 1 \in 0 .. (k - 1) /\ h[k] = g[k - 1] + fs[k].len
    BY <1>3, <1>6
  <2>3. h \in [0 .. k -> Int]
    <3>1. PICK x \in Int, y \in Int : x = g[k - 1] /\ y = fs[k].len
      BY <1>5, <2>1, <2>2
    <3>2. h[k] \in Int
      BY <2>2, <3>1
    <3>3. \A n \in 0 .. k : n = k \/ n \in 0 .. (k - 1)
      BY <1>3
    <3>4. \A n \in 0 .. k : h[n] \in Int
      BY <2>1, <3>2, <3>3
    <3> QED  BY <1>6, <3>4
  <2>4. ASSUME NEW n \in 1 .. k PROVE h[n] = h[n - 1] + fs[n].len
    <3>1. CASE n = k
      BY <2>1, <2>2, <3>1
    <3>2. CASE n # k
      <4>1. n \in 1 .. (k - 1) /\ n \in 0 .. (k - 1) /\ n - 1 \in 0 .. (k - 1)
        BY <1>3, <3>2
      <4> QED  BY <1>4, <2>1, <4>1 DEF Sums, Adds
    <3> QED  BY <3>1, <3>2
  <2>5. h[0] = 0
    BY <1>3, <1>4, <2>1 DEF Sums, Adds
  <2> QED  BY <2>3, <2>4, <2>5 DEF Sums, Adds
<1> QED  BY <1>7

LEMMA SumsAgree ==
  ASSUME NEW fs, NEW m \in Nat, NEW g, Adds(fs, m, g), NEW h, Adds(fs, m, h), NEW i \in 0 .. m
  PROVE  g[i] = h[i]
<1> DEFINE T == {n \in 0 .. m : g[n] # h[n]}
<1> SUFFICES ASSUME T # {} PROVE FALSE
  OBVIOUS
<1>1. PICK k \in T : \A j \in T : k <= j
  <2>1. T \subseteq Nat
    OBVIOUS
  <2> QED  BY <2>1, LeastNat
<1>2. k # 0
  BY DEF Adds
<1>3. k \in 1 .. m /\ k - 1 \in 0 .. m /\ k - 1 \notin T
  BY <1>1, <1>2
<1> QED  BY <1>3 DEF Adds

\* Bytes is the last partial sum.
LEMMA BytesAre ==
  ASSUME NEW fs \in Seq(Frame), NEW m \in Nat, m = Len(fs), NEW g, Sums(fs, m, g)
  PROVE  Bytes(fs) = g[m]
<1> DEFINE sum == CHOOSE f : f = [n \in 0 .. Len(fs) |-> IF n = 0 THEN 0 ELSE f[n - 1] + fs[n].len]
<1>1. g = [n \in 0 .. Len(fs) |-> IF n = 0 THEN 0 ELSE g[n - 1] + fs[n].len]
  BY DEF Sums, Adds
<1>2. sum = [n \in 0 .. Len(fs) |-> IF n = 0 THEN 0 ELSE sum[n - 1] + fs[n].len]
  BY <1>1
<1>3. Bytes(fs) = sum[Len(fs)]
  BY DEF Bytes
<1> HIDE DEF sum
<1>4. Adds(fs, m, sum)
  BY <1>2 DEF Adds
<1>5. sum[m] = g[m]
  BY <1>4, SumsAgree DEF Sums
<1> QED  BY <1>3, <1>5

LEMMA AppendBytes ==
  ASSUME NEW fs \in Seq(Frame), NEW f \in Frame
  PROVE  Bytes(Append(fs, f)) = Bytes(fs) + f.len
<1>1. PICK m \in Nat : m = Len(fs)
  BY LenProperties
<1>2. PICK g : Sums(fs, m, g)
  BY <1>1, SumsExist
<1>3. PICK all : all = Append(fs, f)
  OBVIOUS
<1>4. /\ all \in Seq(Frame) /\ Len(all) = m + 1
      /\ \A i \in 1 .. m : all[i] = fs[i]
      /\ all[m + 1] = f
  BY <1>1, <1>3, AppendProperties
<1>5. f.len \in Nat
  BY DEF Frame
<1>6. PICK h : h = [n \in 0 .. m + 1 |-> IF n = m + 1 THEN g[m] + f.len ELSE g[n]]
  OBVIOUS
<1>7. Sums(all, m + 1, h) /\ h[m + 1] = g[m] + f.len
  <2>1. h \in [0 .. m + 1 -> Int]
    BY <1>2, <1>5, <1>6 DEF Sums
  <2>2. ASSUME NEW n \in 1 .. m + 1 PROVE h[n] = h[n - 1] + all[n].len
    <3>1. CASE n = m + 1
      BY <1>4, <1>6, <3>1
    <3>2. CASE n \in 1 .. m
      <4>1. h[n] = g[n] /\ h[n - 1] = g[n - 1] /\ all[n] = fs[n]
        BY <1>4, <1>6, <3>2
      <4> QED  BY <1>2, <3>2, <4>1 DEF Sums, Adds
    <3> QED  BY <3>1, <3>2
  <2>3. h[0] = 0 /\ h[m + 1] = g[m] + f.len
    BY <1>2, <1>6 DEF Sums, Adds
  <2> QED  BY <2>1, <2>2, <2>3 DEF Sums, Adds
<1>8. Bytes(all) = h[m + 1] /\ Bytes(fs) = g[m]
  BY <1>1, <1>2, <1>4, <1>7, BytesAre
<1> QED  BY <1>3, <1>7, <1>8

\* What is dropped at the front and what is left make up the whole.
LEMMA SplitBytes ==
  ASSUME NEW fs \in Seq(Frame), NEW k \in 0 .. (Len(fs) - 1)
  PROVE  /\ Bytes(SubSeq(fs, k + 1, Len(fs))) = Bytes(fs) - Bytes(SubSeq(fs, 1, k))
         /\ Bytes(fs) \in Int /\ Bytes(SubSeq(fs, 1, k)) \in Int
<1>1. PICK m \in Nat : m = Len(fs)
  BY LenProperties
<1>2. PICK g : Sums(fs, m, g)
  BY <1>1, SumsExist
<1>3. PICK front : front = SubSeq(fs, 1, k)
  OBVIOUS
<1>4. /\ front \in Seq(Frame) /\ Len(front) = k
      /\ \A i \in 1 .. k : front[i] = fs[i]
  <2>1. \A i \in 1 .. k : fs[i] \in Frame
    BY <1>1, ElementOfSeq
  <2>2. /\ front \in Seq(Frame)
        /\ Len(front) = IF 1 <= k THEN k - 1 + 1 ELSE 0
        /\ \A i \in 1 .. (k - 1 + 1) : front[i] = fs[1 + i - 1]
    BY <1>3, <2>1, SubSeqProperties
  <2>3. Len(front) = k
    BY <1>1, <2>2
  <2>4. \A i \in 1 .. k : front[i] = fs[i]
    BY <1>1, <2>2
  <2> QED  BY <2>2, <2>3, <2>4
<1>5. PICK j \in 1 .. Len(fs) : j = k + 1
  BY <1>1
<1>6. PICK back : back = SubSeq(fs, j, Len(fs))
  OBVIOUS
<1>7. /\ back \in Seq(Frame) /\ Len(back) = m - k
      /\ \A i \in 1 .. (m - k) : back[i] = fs[k + i]
  <2>1. /\ back \in Seq(Frame) /\ Len(back) = Len(fs) - j + 1
        /\ \A i \in 1 .. (Len(fs) - j + 1) : back[i] = fs[j + i - 1]
    BY <1>6, SuffixProperties
  <2>2. Len(fs) - j + 1 = m - k
    BY <1>1, <1>5
  <2>3. \A i \in 1 .. (m - k) : back[i] = fs[k + i]
    <3> SUFFICES ASSUME NEW i \in 1 .. (m - k) PROVE back[i] = fs[k + i]
      OBVIOUS
    <3>1. j + i - 1 = k + i
      BY <1>1, <1>5
    <3> QED  BY <2>1, <2>2, <3>1
  <2> QED  BY <2>1, <2>2, <2>3
<1>8. Bytes(front) = g[k]
  <2>1. PICK h : h = [n \in 0 .. k |-> g[n]]
    OBVIOUS
  <2>2. Sums(front, k, h)
    <3>0. 0 \in 0 .. k /\ \A n \in 0 .. k : n \in 0 .. m
      BY <1>1
    <3>1. h \in [0 .. k -> Int] /\ h[0] = 0
      BY <1>2, <2>1, <3>0, Zenon DEF Sums, Adds
    <3>2. ASSUME NEW n \in 1 .. k PROVE h[n] = h[n - 1] + front[n].len
      <4>1. h[n] = g[n] /\ h[n - 1] = g[n - 1] /\ front[n] = fs[n] /\ n \in 1 .. m
        BY <1>1, <1>4, <2>1
      <4> QED  BY <1>2, <4>1 DEF Sums, Adds
    <3> QED  BY <3>1, <3>2 DEF Sums, Adds
  <2> QED  BY <1>4, <2>1, <2>2, BytesAre
<1>9. Bytes(back) = g[m] - g[k]
  <2>1. PICK h : h = [n \in 0 .. (m - k) |-> g[k + n] - g[k]]
    OBVIOUS
  <2>2. /\ m - k \in Nat /\ k + 0 = k /\ 0 \in 0 .. (m - k) /\ k \in 0 .. m /\ g[k] \in Int
        /\ \A n \in 0 .. (m - k) : k + n \in 0 .. m /\ g[k + n] \in Int
    <3>1. \A i \in 0 .. m : g[i] \in Int
      BY <1>2 DEF Sums
    <3>2. m - k \in Nat /\ k + 0 = k /\ 0 \in 0 .. (m - k) /\ k \in 0 .. m
      BY <1>1
    <3>3. \A n \in 0 .. (m - k) : k + n \in 0 .. m
      BY <1>1
    <3> QED  BY <3>1, <3>2, <3>3
  <2>3. h \in [0 .. (m - k) -> Int] /\ h[0] = 0
    <3>1. \A x, y \in Int : x - y \in Int /\ y - y = 0
      OBVIOUS
    <3>2. \A n \in 0 .. (m - k) : g[k + n] - g[k] \in Int
      BY <2>2, <3>1, Zenon
    <3>3. h[0] = g[k + 0] - g[k]
      BY <2>1, <2>2, Zenon
    <3>4. h[0] = 0
      BY <2>2, <3>1, <3>3, Zenon
    <3> QED  BY <2>1, <3>2, <3>4, Zenon
  <2>4. ASSUME NEW n \in 1 .. (m - k) PROVE h[n] = h[n - 1] + back[n].len
    <3>1. k + n \in 1 .. m /\ (k + n) - 1 = k + (n - 1) /\ n - 1 \in 0 .. (m - k)
      BY <1>1
    <3>2. g[k + n] = g[k + (n - 1)] + fs[k + n].len
      BY <1>2, <3>1 DEF Sums, Adds
    <3>3. fs[k + n].len \in Nat
      <4>1. fs[k + n] \in Frame
        BY <1>1, <3>1, ElementOfSeq
      <4> QED  BY <4>1 DEF Frame
    <3>4. h[n] = g[k + n] - g[k] /\ h[n - 1] = g[k + (n - 1)] - g[k]
      BY <2>1, <3>1
    <3>5. g[k] \in Int /\ g[k + (n - 1)] \in Int
      BY <2>2, <3>1
    <3>6. back[n] = fs[k + n]
      BY <1>7
    <3>7. PICK x \in Int, y \in Int, z \in Int :
            x = g[k + (n - 1)] /\ y = fs[k + n].len /\ z = g[k]
      BY <3>3, <3>5
    <3>8. h[n] = (x + y) - z /\ h[n - 1] = x - z /\ back[n].len = y
      BY <3>2, <3>4, <3>6, <3>7
    <3>9. (x + y) - z = (x - z) + y
      OBVIOUS
    <3> QED  BY <3>8, <3>9, Zenon
  <2>5. Sums(back, m - k, h)
    BY <2>3, <2>4 DEF Sums, Adds
  <2>6. h[m - k] = g[m] - g[k]
    BY <1>1, <2>1, <2>2
  <2> QED  BY <1>7, <2>2, <2>5, <2>6, BytesAre
<1>10. Bytes(fs) = g[m] /\ g[m] \in Int /\ g[k] \in Int
  BY <1>1, <1>2, BytesAre DEF Sums
<1> QED  BY <1>3, <1>5, <1>6, <1>8, <1>9, <1>10

LEMMA PushBytes ==
  ASSUME NEW b, b.frames \in Seq(Frame), b.bytes = Bytes(b.frames), NEW f \in Frame,
         NEW n, n = Push(b, f)
  PROVE  n.bytes = Bytes(n.frames)
<1>1. PICK all : all = Append(b.frames, f)
  OBVIOUS
<1>2. PICK bytes : bytes = b.bytes + f.len
  OBVIOUS
<1>3. PICK k : k = Evicted(all, bytes)
  OBVIOUS
<1>4. /\ n.frames = SubSeq(all, k + 1, Len(all))
      /\ n.bytes = bytes - Bytes(SubSeq(all, 1, k))
  BY <1>1, <1>2, <1>3 DEF Push
<1>5. all \in Seq(Frame) /\ all # << >>
  BY <1>1, AppendProperties, EmptySeq
<1>6. k \in 0 .. (Len(all) - 1)
  BY <1>3, <1>5, EvictedStops
<1>7. bytes = Bytes(all)
  BY <1>1, <1>2, AppendBytes
<1> QED  BY <1>4, <1>5, <1>6, <1>7, SplitBytes

-----------------------------------------------------------------------------
(***************************************************************************)
(* StreamInv holds initially and every action preserves it.                *)
(***************************************************************************)
LEMMA InitInv == Init => StreamInv
<1> SUFFICES ASSUME Init PROVE StreamInv
  OBVIOUS
<1>1. TypeOK
  BY EmptySeq DEF Init, TypeOK, NewBuffer, Phases
<1>2. RingContiguous /\ RingBounded
  BY EmptySeq DEF Init, RingContiguous, RingBounded, NewBuffer
<1>3. FanoutInv
  BY DEF Init, FanoutInv
<1>4. \A c \in Clients : PositionInv(c) /\ OnStream(c)
  BY DEF Init, PositionInv, OnStream
<1> QED  BY <1>1, <1>2, <1>3, <1>4 DEF StreamInv

LEMMA PtyOutputInv ==
  ASSUME StreamInv, NEW len \in Lens, PtyOutput(len)
  PROVE  StreamInv'
<1> DEFINE f == [seq |-> next_seq, len |-> len]
<1>1. f \in Frame /\ f.seq = buf.latest_seq + 1
  BY StreamAssumption DEF StreamInv, TypeOK, RingContiguous, Frame
<1>2. Consecutive(buf.frames, buf.latest_seq)
  BY DEF StreamInv, RingContiguous, Consecutive
<1>3. buf' = Push(buf, f)
  BY DEF PtyOutput
<1> HIDE DEF f
<1>4. buf.frames \in Seq(Frame) /\ buf.latest_seq \in Nat
  BY DEF StreamInv, TypeOK
<1>5. /\ buf.frames' \in Seq(Frame)
      /\ buf.frames' # << >>
      /\ buf.latest_seq' = buf.latest_seq + 1
      /\ Consecutive(buf.frames', buf.latest_seq')
      /\ \/ Len(buf.frames') <= 1
         \/ Len(buf.frames') <= MaxFrames /\ buf.bytes' <= MaxBytes
  BY <1>1, <1>2, <1>3, <1>4, PushConsecutive
<1>6. TypeOK'
  BY <1>4, <1>5 DEF PtyOutput, StreamInv, TypeOK, socket, history
<1>7. RingContiguous'
  BY <1>4, <1>5 DEF PtyOutput, StreamInv, TypeOK, RingContiguous, Consecutive
<1>8. FanoutInv'
  BY DEF PtyOutput, StreamInv, TypeOK, FanoutInv
<1>9. \A d \in Clients : PositionInv(d)'
  BY DEF PtyOutput, StreamInv, TypeOK, PositionInv, socket, history
<1>10. \A d \in Clients \ (lagged \cup early)' : OnStream(d)'
  BY DEF PtyOutput, StreamInv, OnStream, NextLive, MaxOf, socket, history
<1>11. RingBounded'
  BY <1>5 DEF RingBounded
<1> QED  BY <1>6, <1>7, <1>8, <1>9, <1>10, <1>11 DEF StreamInv

LEMMA FanoutStepInv == StreamInv /\ Fanout => StreamInv'
<1> SUFFICES ASSUME StreamInv, Fanout PROVE StreamInv'
  OBVIOUS
<1>1. TypeOK'
  BY DEF Fanout, StreamInv, TypeOK, socket, history
<1>2. RingContiguous' /\ RingBounded'
  BY DEF Fanout, StreamInv, RingContiguous, RingBounded
<1>3. FanoutInv'
  BY DEF Fanout, StreamInv, TypeOK, FanoutInv
<1>4. \A d \in Clients : PositionInv(d)'
  BY DEF Fanout, StreamInv, TypeOK, FanoutInv, PositionInv, socket, history
<1>5. \A d \in Clients \ (lagged \cup early)' : OnStream(d)'
  BY DEF Fanout, StreamInv, OnStream, NextLive, MaxOf, socket, history
<1> QED  BY <1>1, <1>2, <1>3, <1>4, <1>5 DEF StreamInv

\* What a step of one client's socket leaves of another client's state.
Kept(d) ==
  /\ phase'[d] = phase[d]
  /\ cursor'[d] = cursor[d]
  /\ min_live_seq'[d] = min_live_seq[d]
  /\ mark'[d] = mark[d]
  /\ todo'[d] = todo[d]
  /\ lastSeenSeq'[d] = lastSeenSeq[d]
  /\ base'[d] = base[d]
  /\ outputs'[d] = outputs[d]
  /\ d \in lagged' <=> d \in lagged
  /\ d \in early' <=> d \in early

\* A step of c's socket preserves StreamInv if it does so for c.
LEMMA OneSocket ==
  ASSUME StreamInv, NEW c \in Clients, TypeOK',
         UNCHANGED forwarder,
         \A d \in Clients \ {c} : Kept(d),
         PositionInv(c)',
         c \notin lagged' /\ c \notin early' => OnStream(c)'
  PROVE  StreamInv'
<1>1. RingContiguous' /\ RingBounded' /\ FanoutInv'
  BY DEF StreamInv, RingContiguous, RingBounded, FanoutInv, forwarder
<1>2. ASSUME NEW d \in Clients PROVE PositionInv(d)'
  <2>1. CASE d = c
    BY <2>1
  <2>2. CASE d # c
    BY <2>2 DEF StreamInv, PositionInv, Kept, forwarder
  <2> QED  BY <2>1, <2>2
<1>3. ASSUME NEW d \in Clients, d \notin lagged', d \notin early' PROVE OnStream(d)'
  <2>1. CASE d = c
    BY <1>3, <2>1
  <2>2. CASE d # c
    <3>1. OnStream(d) /\ Kept(d)
      BY <1>3, <2>2 DEF StreamInv, Kept
    <3> QED  BY <3>1 DEF OnStream, NextLive, Kept
  <2> QED  BY <2>1, <2>2
<1>4. \A d \in Clients \ (lagged' \cup early') : OnStream(d)'
  BY <1>3
<1> QED  BY <1>1, <1>2, <1>4 DEF StreamInv

LEMMA ConnectInv ==
  ASSUME StreamInv, NEW c \in Clients, Connect(c)
  PROVE  StreamInv'
<1>1. TypeOK /\ RingContiguous /\ FanoutInv /\ PositionInv(c)
  BY DEF StreamInv
<1>2. c \notin lagged /\ c \notin early => OnStream(c)
  BY DEF StreamInv
<1>3. TypeOK'
  BY <1>1 DEF Connect, TypeOK, Phases, forwarder, history
<1>4. \A d \in Clients \ {c} : Kept(d)
  BY <1>1 DEF Connect, TypeOK, Kept, forwarder, history
<1>5. PositionInv(c)'
  BY <1>1 DEF Connect, TypeOK, RingContiguous, FanoutInv, PositionInv, forwarder, history
<1>6. c \notin lagged' /\ c \notin early' => OnStream(c)'
  BY <1>1, <1>2 DEF Connect, TypeOK, RingContiguous, FanoutInv, PositionInv, OnStream, NextLive, MaxOf, forwarder, history
<1> QED  BY <1>3, <1>4, <1>5, <1>6, OneSocket DEF Connect

LEMMA DropInv ==
  ASSUME StreamInv, NEW c \in Clients, Drop(c)
  PROVE  StreamInv'
<1>1. TypeOK /\ RingContiguous /\ FanoutInv /\ PositionInv(c)
  BY DEF StreamInv
<1>2. c \notin lagged /\ c \notin early => OnStream(c)
  BY DEF StreamInv
<1>3. TypeOK'
  BY <1>1, EmptySeq DEF Drop, TypeOK, Phases, forwarder, history
<1>4. \A d \in Clients \ {c} : Kept(d)
  BY <1>1 DEF Drop, TypeOK, Kept, forwarder, history
<1>5. PositionInv(c)'
  BY <1>1 DEF Drop, TypeOK, RingContiguous, FanoutInv, PositionInv, forwarder, history
<1>6. c \notin lagged' /\ c \notin early' => OnStream(c)'
  BY <1>1, <1>2 DEF Drop, TypeOK, RingContiguous, FanoutInv, PositionInv, OnStream, NextLive, MaxOf, forwarder, history
<1> QED  BY <1>3, <1>4, <1>5, <1>6, OneSocket DEF Drop

LEMMA AttachWithoutBookmarkInv ==
  ASSUME StreamInv, NEW c \in Clients, AttachWithoutBookmark(c)
  PROVE  StreamInv'
<1>1. TypeOK /\ RingContiguous /\ FanoutInv /\ PositionInv(c)
  BY DEF StreamInv
<1>2. c \notin lagged /\ c \notin early => OnStream(c)
  BY DEF StreamInv
<1>3. TypeOK'
  BY <1>1 DEF AttachWithoutBookmark, TypeOK, Phases, forwarder, history
<1>4. \A d \in Clients \ {c} : Kept(d)
  BY <1>1 DEF AttachWithoutBookmark, TypeOK, Kept, forwarder, history
<1>5. PositionInv(c)'
  BY <1>1 DEF AttachWithoutBookmark, TypeOK, RingContiguous, FanoutInv, PositionInv, forwarder, history
<1>6. c \notin lagged' /\ c \notin early' => OnStream(c)'
  BY <1>1, <1>2 DEF AttachWithoutBookmark, TypeOK, RingContiguous, FanoutInv, PositionInv, OnStream, NextLive, MaxOf, forwarder, history
<1> QED  BY <1>3, <1>4, <1>5, <1>6, OneSocket DEF AttachWithoutBookmark

LEMMA AttachReplayInv ==
  ASSUME StreamInv, NEW c \in Clients, AttachReplay(c)
  PROVE  StreamInv'
<1>1. TypeOK /\ RingContiguous /\ FanoutInv /\ PositionInv(c)
  BY DEF StreamInv
<1>2. c \notin lagged /\ c \notin early => OnStream(c)
  BY DEF StreamInv
<1> DEFINE r == ReplayFrames(buf, mark[c])
<1>7. /\ r \in Seq(Frame)
      /\ mark[c] >= buf.latest_seq => r = << >>
      /\ mark[c] < buf.latest_seq =>
           /\ Len(r) = buf.latest_seq - mark[c]
           /\ \A i \in 1 .. (buf.latest_seq - mark[c]) : r[i].seq = mark[c] + i
  <2>1. mark[c] \in Nat /\ buf.latest_seq \in Nat
    BY <1>1 DEF TypeOK
  <2>2. CASE mark[c] >= buf.latest_seq
    BY <2>1, <2>2, EmptySeq DEF ReplayFrames
  <2>3. CASE mark[c] < buf.latest_seq
    <3>1. buf.frames # << >> /\ buf.frames \in Seq(Frame)
      BY <1>1, <2>1, <2>3 DEF TypeOK, RingContiguous
    <3>2. Consecutive(buf.frames, buf.latest_seq)
      BY <1>1 DEF RingContiguous, Consecutive
    <3>3. 0 < mark[c] /\ ~WindowLost(buf, mark[c])
      BY <2>1 DEF AttachReplay
    <3> QED  BY <2>1, <2>3, <3>1, <3>2, <3>3, ReplayFramesAre
  <2> QED  BY <2>1, <2>2, <2>3
<1>8. /\ todo' = [todo EXCEPT ![c] = r]
      /\ todo'[c] = r
      /\ phase' = [phase EXCEPT ![c] = IF r = << >> THEN "live" ELSE "replay"]
  BY <1>1 DEF AttachReplay, TypeOK
<1> HIDE DEF r
<1>3. TypeOK'
  BY <1>1, <1>7, <1>8 DEF AttachReplay, TypeOK, Phases, forwarder, history, RaiseFloor, MaxOf
<1>4. \A d \in Clients \ {c} : Kept(d)
  BY <1>1 DEF AttachReplay, TypeOK, Kept, forwarder, history, RaiseFloor, MaxOf
<1>5. PositionInv(c)'
  <2>1. /\ min_live_seq'[c] = buf.latest_seq
        /\ cursor'[c] = cursor[c] /\ mark'[c] = mark[c]
        /\ lastSeenSeq'[c] = lastSeenSeq[c] /\ base'[c] = base[c]
        /\ phase'[c] # "attach"
        /\ todo'[c] = r /\ phase'[c] = "replay" => r # << >>
        /\ sent' = sent /\ next_seq' = next_seq
    BY <1>1, <1>8 DEF AttachReplay, RaiseFloor, MaxOf, TypeOK, PositionInv, history, forwarder
  <2>2. r # << >> => \A i \in 1 .. Len(r) : r[i].seq <= buf.latest_seq
    BY <1>1, <1>7 DEF TypeOK
  <2> QED  BY <1>1, <1>8, <2>1, <2>2 DEF TypeOK, PositionInv, RingContiguous, FanoutInv
<1>6. c \notin lagged' /\ c \notin early' => OnStream(c)'
  <2> SUFFICES ASSUME c \notin lagged, c \notin early
               PROVE  OnStream(c)'
    BY DEF AttachReplay, history
  <2>1. /\ lastSeenSeq[c] = mark[c] /\ mark[c] > 0
        /\ lastSeenSeq'[c] = mark[c] /\ mark'[c] = mark[c]
        /\ outputs'[c] = outputs[c] /\ base'[c] = base[c] /\ cursor'[c] = cursor[c]
        /\ outputs[c] = lastSeenSeq[c] - base[c]
    BY <1>2 DEF AttachReplay, OnStream, history
  <2>2. min_live_seq'[c] = buf.latest_seq /\ lastSeenSeq[c] <= buf.latest_seq
    BY <1>1 DEF AttachReplay, RaiseFloor, MaxOf, TypeOK, PositionInv, RingContiguous
  <2>3. CASE r = << >>
    <3>1. mark[c] = buf.latest_seq
      BY <1>1, <1>7, <2>1, <2>2, <2>3, EmptySeq DEF TypeOK
    <3>2. phase'[c] = "live"
      BY <1>1, <1>8, <2>3 DEF TypeOK
    <3>3. NextLive(c)' = lastSeenSeq'[c] + 1
      BY <1>1, <2>1, <2>2, <3>1 DEF NextLive, MaxOf, TypeOK, PositionInv, FanoutInv, RingContiguous
    <3> QED  BY <2>1, <3>2, <3>3 DEF OnStream
  <2>4. CASE r # << >>
    <3>1. mark[c] < buf.latest_seq
      BY <1>1, <1>7, <2>4 DEF TypeOK
    <3>2. phase'[c] = "replay"
      BY <1>1, <1>8, <2>4 DEF TypeOK
    <3>3. Len(todo'[c]) = buf.latest_seq - mark[c]
      BY <1>7, <1>8, <3>1
    <3>4. lastSeenSeq'[c] + Len(todo'[c]) = min_live_seq'[c]
      BY <1>1, <2>1, <2>2, <3>3 DEF TypeOK
    <3>5. \A i \in 1 .. Len(todo'[c]) : todo'[c][i].seq = lastSeenSeq'[c] + i
      BY <1>7, <1>8, <2>1, <3>1, <3>3
    <3> QED  BY <2>1, <3>2, <3>4, <3>5 DEF OnStream
  <2> QED  BY <2>3, <2>4
<1> QED  BY <1>3, <1>4, <1>5, <1>6, OneSocket DEF AttachReplay

LEMMA AttachWindowLostInv ==
  ASSUME StreamInv, NEW c \in Clients, AttachWindowLost(c)
  PROVE  StreamInv'
<1>1. TypeOK /\ RingContiguous /\ FanoutInv /\ PositionInv(c)
  BY DEF StreamInv
<1>2. c \notin lagged /\ c \notin early => OnStream(c)
  BY DEF StreamInv
<1>3. TypeOK'
  BY <1>1 DEF AttachWindowLost, TypeOK, Phases, forwarder, RaiseFloor, SkipTo, MaxOf
<1>4. \A d \in Clients \ {c} : Kept(d)
  BY <1>1 DEF AttachWindowLost, TypeOK, Kept, forwarder, RaiseFloor, SkipTo, MaxOf
<1>5. PositionInv(c)'
  BY <1>1 DEF AttachWindowLost, TypeOK, RingContiguous, FanoutInv, PositionInv, forwarder, RaiseFloor, SkipTo, MaxOf
<1>6. c \notin lagged' /\ c \notin early' => OnStream(c)'
  BY <1>1, <1>2 DEF AttachWindowLost, TypeOK, RingContiguous, FanoutInv, PositionInv, OnStream, NextLive, MaxOf, forwarder, RaiseFloor, SkipTo
<1> QED  BY <1>3, <1>4, <1>5, <1>6, OneSocket DEF AttachWindowLost

LEMMA EmitReplayInv ==
  ASSUME StreamInv, NEW c \in Clients, EmitReplay(c)
  PROVE  StreamInv'
<1>1. TypeOK /\ RingContiguous /\ FanoutInv /\ PositionInv(c)
  BY DEF StreamInv
<1>2. c \notin lagged /\ c \notin early => OnStream(c)
  BY DEF StreamInv
<1>7. todo[c] \in Seq(Frame) /\ todo[c] # << >> /\ phase[c] = "replay"
  BY <1>1 DEF EmitReplay, TypeOK, PositionInv
<1>8. /\ Len(todo[c]) \in Nat /\ Len(todo[c]) > 0
      /\ Head(todo[c]) = todo[c][1] /\ Head(todo[c]) \in Frame
      /\ Tail(todo[c]) \in Seq(Frame)
      /\ Len(Tail(todo[c])) = Len(todo[c]) - 1
      /\ \A i \in 1 .. (Len(todo[c]) - 1) : Tail(todo[c])[i] = todo[c][i + 1]
  BY <1>7, HeadTailProperties, LenProperties, EmptySeq, ElementOfSeq
<1>9. PICK n \in Nat \ {0} : n = Head(todo[c]).seq
  BY <1>8 DEF Frame
<1>10. /\ lastSeenSeq' = [lastSeenSeq EXCEPT ![c] = MaxOf(@, n)]
       /\ outputs' = [outputs EXCEPT ![c] = @ + 1]
       /\ base' = [base EXCEPT ![c] = IF lastSeenSeq[c] = 0 THEN n - 1 ELSE @]
       /\ todo' = [todo EXCEPT ![c] = Tail(@)]
       /\ phase' = [phase EXCEPT ![c] = IF Len(todo[c]) = 1 THEN "live" ELSE @]
       /\ UNCHANGED << forwarder, cursor, min_live_seq, mark, lagged, early >>
  BY <1>9 DEF EmitReplay, Render
<1>3. TypeOK'
  <2>1. lastSeenSeq' \in [Clients -> Nat]
    BY <1>1, <1>10 DEF TypeOK, MaxOf
  <2>2. base' \in [Clients -> Nat]
    <3>1. n - 1 \in Nat
      OBVIOUS
    <3> QED  BY <1>1, <1>10, <3>1 DEF TypeOK
  <2>3. outputs' \in [Clients -> Nat] /\ phase' \in [Clients -> Phases]
    BY <1>1, <1>10 DEF TypeOK, Phases
  <2>4. todo' \in [Clients -> Seq(Frame)]
    BY <1>1, <1>8, <1>10 DEF TypeOK
  <2> QED  BY <1>1, <1>10, <2>1, <2>2, <2>3, <2>4 DEF TypeOK, forwarder
<1>11. /\ lastSeenSeq'[c] = MaxOf(lastSeenSeq[c], n)
       /\ outputs'[c] = outputs[c] + 1
       /\ base'[c] = IF lastSeenSeq[c] = 0 THEN n - 1 ELSE base[c]
       /\ todo'[c] = Tail(todo[c])
       /\ phase'[c] = IF Len(todo[c]) = 1 THEN "live" ELSE "replay"
       /\ cursor'[c] = cursor[c] /\ min_live_seq'[c] = min_live_seq[c]
       /\ sent' = sent /\ next_seq' = next_seq
  BY <1>1, <1>7, <1>10 DEF TypeOK, forwarder
<1>12. /\ lastSeenSeq[c] \in Nat /\ min_live_seq[c] \in Nat /\ base[c] \in Nat
       /\ outputs[c] \in Nat /\ cursor[c] \in Nat /\ next_seq \in Nat
  BY <1>1 DEF TypeOK
<1>13. Len(todo'[c]) = Len(todo[c]) - 1 /\ Len(todo[c]) \in Nat /\ Len(todo[c]) > 0
  BY <1>8, <1>11
<1>15. PICK L \in Nat \ {0}, M \in Nat :
         L = Len(todo[c]) /\ M = Len(todo'[c]) /\ M + 1 = L
  BY <1>13
<1>16. L \in Nat /\ M \in Nat /\ M + 1 = L
  BY <1>15
<1>14. ASSUME NEW i \in 1 .. Len(todo'[c])
       PROVE  i + 1 \in 1 .. Len(todo[c]) /\ todo'[c][i] = todo[c][i + 1]
  <2>1. i \in 1 .. (Len(todo[c]) - 1) /\ i + 1 \in 1 .. Len(todo[c])
    BY <1>13
  <2> QED  BY <1>8, <1>11, <2>1
<1>4. \A d \in Clients \ {c} : Kept(d)
  BY <1>1 DEF EmitReplay, TypeOK, Kept, forwarder, Render, MaxOf
<1>5. PositionInv(c)'
  <2>1. n <= min_live_seq[c]
    BY <1>1, <1>7, <1>8, <1>9 DEF PositionInv
  <2>2. /\ cursor[c] <= min_live_seq[c] + 1 /\ min_live_seq[c] < next_seq
        /\ lastSeenSeq[c] < next_seq /\ base[c] <= lastSeenSeq[c]
        /\ cursor[c] <= sent + 1
    BY <1>1, <1>7 DEF PositionInv
  <2>3. lastSeenSeq'[c] < next_seq' /\ base'[c] <= lastSeenSeq'[c]
    BY <1>11, <1>12, <2>1, <2>2 DEF MaxOf
  <2>4. phase'[c] = "replay" =>
          /\ todo'[c] # << >>
          /\ \A i \in 1 .. Len(todo'[c]) : todo'[c][i].seq <= min_live_seq'[c]
    <3> SUFFICES ASSUME phase'[c] = "replay"
                 PROVE  /\ todo'[c] # << >>
                        /\ \A i \in 1 .. Len(todo'[c]) : todo'[c][i].seq <= min_live_seq'[c]
      OBVIOUS
    <3>1. L # 1
      BY <1>11, <1>15
    <3>6. M > 0
      BY <1>16, <3>1
    <3>2. Len(todo'[c]) > 0
      BY <1>15, <3>6
    <3>3. todo'[c] # << >>
      BY <3>2, EmptySeq
    <3>4. \A i \in 1 .. Len(todo[c]) : todo[c][i].seq <= min_live_seq[c]
      BY <1>1, <1>7 DEF PositionInv
    <3>5. \A i \in 1 .. Len(todo'[c]) : todo'[c][i].seq <= min_live_seq[c]
      BY <1>14, <3>4
    <3> QED  BY <1>11, <3>3, <3>5
  <2> QED  BY <1>11, <2>2, <2>3, <2>4 DEF PositionInv
<1>6. c \notin lagged' /\ c \notin early' => OnStream(c)'
  <2> SUFFICES ASSUME c \notin lagged, c \notin early
               PROVE  OnStream(c)'
    BY <1>10
  <2>1. /\ outputs[c] = lastSeenSeq[c] - base[c]
        /\ lastSeenSeq[c] > 0
        /\ lastSeenSeq[c] + Len(todo[c]) = min_live_seq[c]
        /\ \A i \in 1 .. Len(todo[c]) : todo[c][i].seq = lastSeenSeq[c] + i
    BY <1>2, <1>7 DEF OnStream
  <2>2. n = lastSeenSeq[c] + 1
    BY <1>8, <1>9, <2>1
  <2>3. lastSeenSeq'[c] = lastSeenSeq[c] + 1
    BY <1>11, <1>12, <2>2 DEF MaxOf
  <2>4. outputs'[c] = lastSeenSeq'[c] - base'[c]
    BY <1>11, <1>12, <2>1, <2>3
  <2>5. phase'[c] = "replay" =>
          /\ lastSeenSeq'[c] > 0
          /\ lastSeenSeq'[c] + Len(todo'[c]) = min_live_seq'[c]
          /\ \A i \in 1 .. Len(todo'[c]) : todo'[c][i].seq = lastSeenSeq'[c] + i
    <3>1. lastSeenSeq'[c] + Len(todo'[c]) = min_live_seq'[c]
      <4>1. PICK s \in Nat, t \in Nat : s = lastSeenSeq[c] /\ t = min_live_seq[c]
        BY <1>12
      <4>2. s + L = t
        BY <1>15, <2>1, <4>1
      <4>3. (s + 1) + M = t
        BY <1>16, <4>2
      <4> QED  BY <1>11, <1>15, <2>3, <4>1, <4>3
    <3>2. ASSUME NEW i \in 1 .. Len(todo'[c])
          PROVE  todo'[c][i].seq = lastSeenSeq'[c] + i
      <4>1. todo'[c][i] = todo[c][i + 1] /\ i + 1 \in 1 .. Len(todo[c])
        BY <1>14
      <4>2. todo[c][i + 1].seq = lastSeenSeq[c] + (i + 1)
        BY <2>1, <4>1
      <4>3. PICK s \in Nat : s = lastSeenSeq[c]
        BY <1>12
      <4>4. i \in Nat /\ s + (i + 1) = (s + 1) + i
        BY <1>15
      <4>5. todo'[c][i].seq = s + (i + 1)
        BY <4>1, <4>2, <4>3
      <4>6. lastSeenSeq'[c] = s + 1
        BY <2>3, <4>3
      <4> QED  BY <4>4, <4>5, <4>6
    <3> QED  BY <1>12, <2>3, <3>1, <3>2
  <2>6. phase'[c] = "live" => NextLive(c)' = lastSeenSeq'[c] + 1
    <3>1. cursor[c] <= min_live_seq[c] + 1
      BY <1>1, <1>7 DEF PositionInv
    <3>2. phase'[c] = "live" => Len(todo[c]) = 1
      BY <1>11
    <3>3. NextLive(c)' = MaxOf(cursor[c], min_live_seq[c] + 1)
      BY <1>11 DEF NextLive
    <3>4. MaxOf(cursor[c], min_live_seq[c] + 1) = min_live_seq[c] + 1
      BY <1>12, <3>1 DEF MaxOf
    <3>5. lastSeenSeq[c] + Len(todo[c]) = min_live_seq[c]
      BY <2>1
    <3> QED  BY <1>12, <2>3, <3>2, <3>3, <3>4, <3>5
  <2> QED  BY <1>11, <2>4, <2>5, <2>6 DEF OnStream
<1> QED  BY <1>3, <1>4, <1>5, <1>6, OneSocket DEF EmitReplay

LEMMA DropReplayedInv ==
  ASSUME StreamInv, NEW c \in Clients, DropReplayed(c)
  PROVE  StreamInv'
<1>1. TypeOK /\ RingContiguous /\ FanoutInv /\ PositionInv(c)
  BY DEF StreamInv
<1>2. c \notin lagged /\ c \notin early => OnStream(c)
  BY DEF StreamInv
<1>3. TypeOK'
  <2>1. cursor' = [cursor EXCEPT ![c] = cursor[c] + 1]
    BY DEF DropReplayed
  <2>2. cursor' \in [Clients -> Nat \ {0}]
    BY <1>1, <2>1 DEF TypeOK
  <2> QED  BY <1>1, <2>2 DEF DropReplayed, TypeOK, forwarder, history
<1>4. \A d \in Clients \ {c} : Kept(d)
  BY <1>1 DEF DropReplayed, TypeOK, Kept, forwarder, history, Receiving, Oldest
<1>5. PositionInv(c)'
  BY <1>1 DEF DropReplayed, TypeOK, RingContiguous, FanoutInv, PositionInv, forwarder, history, Receiving, Oldest
<1>6. c \notin lagged' /\ c \notin early' => OnStream(c)'
  BY <1>1, <1>2 DEF DropReplayed, TypeOK, RingContiguous, FanoutInv, PositionInv, OnStream, NextLive, MaxOf, forwarder, history, Receiving, Oldest
<1> QED  BY <1>3, <1>4, <1>5, <1>6, OneSocket DEF DropReplayed

LEMMA SendLiveInv ==
  ASSUME StreamInv, NEW c \in Clients, SendLive(c)
  PROVE  StreamInv'
<1>1. TypeOK /\ RingContiguous /\ FanoutInv /\ PositionInv(c)
  BY DEF StreamInv
<1>2. c \notin lagged /\ c \notin early => OnStream(c)
  BY DEF StreamInv
<1>3. TypeOK'
  <2>1. cursor[c] \in Nat \ {0} /\ lastSeenSeq[c] \in Nat /\ base[c] \in Nat /\ outputs[c] \in Nat
    BY <1>1 DEF TypeOK
  <2>2. cursor[c] + 1 \in Nat \ {0} /\ cursor[c] - 1 \in Nat /\ outputs[c] + 1 \in Nat
    BY <2>1
  <2>3. MaxOf(lastSeenSeq[c], cursor[c]) \in Nat
    BY <2>1 DEF MaxOf
  <2>4. cursor' \in [Clients -> Nat \ {0}]
    BY <1>1, <2>2 DEF SendLive, TypeOK
  <2>5. lastSeenSeq' \in [Clients -> Nat] /\ outputs' \in [Clients -> Nat]
    BY <1>1, <2>2, <2>3 DEF SendLive, Render, TypeOK
  <2>6. base' \in [Clients -> Nat]
    BY <1>1, <2>1, <2>2 DEF SendLive, Render, TypeOK
  <2>7. early' \subseteq Clients
    BY <1>1 DEF SendLive, TypeOK
  <2>8. UNCHANGED << forwarder, phase, min_live_seq, mark, todo, lagged >>
    BY DEF SendLive
  <2> QED  BY <1>1, <2>4, <2>5, <2>6, <2>7, <2>8 DEF TypeOK, forwarder
<1>4. \A d \in Clients \ {c} : Kept(d)
  BY <1>1 DEF SendLive, TypeOK, Kept, forwarder, Render, MaxOf, Receiving, Oldest
<1>5. PositionInv(c)'
  <2>1. /\ cursor[c] \in Nat \ {0} /\ lastSeenSeq[c] \in Nat /\ base[c] \in Nat
        /\ min_live_seq[c] \in Nat /\ sent \in Nat /\ next_seq \in Nat \ {0}
    BY <1>1 DEF TypeOK
  <2>2. cursor[c] =< sent /\ sent < next_seq /\ phase[c] # "replay"
    BY <1>1, <2>1 DEF SendLive, Receiving, FanoutInv, TypeOK
  <2>3. /\ lastSeenSeq'[c] = MaxOf(lastSeenSeq[c], cursor[c])
        /\ cursor'[c] = cursor[c] + 1
        /\ base'[c] = IF lastSeenSeq[c] = 0 THEN cursor[c] - 1 ELSE base[c]
    BY <1>1 DEF SendLive, Render, TypeOK
  <2>4. UNCHANGED << next_seq, sent, phase, min_live_seq, mark, todo >>
    BY DEF SendLive, forwarder
  <2>5. lastSeenSeq'[c] < next_seq /\ base'[c] =< lastSeenSeq'[c]
    BY <1>1, <2>1, <2>2, <2>3 DEF MaxOf, PositionInv
  <2> QED  BY <1>1, <2>1, <2>2, <2>3, <2>4, <2>5 DEF PositionInv
<1>6. c \notin lagged' /\ c \notin early' => OnStream(c)'
  <2> SUFFICES ASSUME c \notin lagged', c \notin early'
               PROVE  OnStream(c)'
    OBVIOUS
  <2>1. c \notin lagged /\ c \notin early /\ ~(phase[c] = "attach" /\ mark[c] > 0)
    BY DEF SendLive
  <2>2. /\ phase[c] = "live" \/ (phase[c] = "attach" /\ mark[c] = 0)
        /\ cursor[c] > min_live_seq[c]
    BY <1>1, <2>1 DEF SendLive, Receiving, TypeOK
  <2>3. /\ lastSeenSeq[c] \in Nat /\ min_live_seq[c] \in Nat /\ base[c] \in Nat
        /\ outputs[c] \in Nat /\ cursor[c] \in Nat \ {0}
    BY <1>1 DEF TypeOK
  <2>4. /\ outputs[c] = lastSeenSeq[c] - base[c]
        /\ lastSeenSeq[c] = 0 \/ NextLive(c) = lastSeenSeq[c] + 1
    BY <1>2, <2>1, <2>2 DEF OnStream
  <2>5. lastSeenSeq[c] = 0 \/ cursor[c] = lastSeenSeq[c] + 1
    BY <2>2, <2>3, <2>4 DEF NextLive, MaxOf
  <2>6. /\ lastSeenSeq'[c] = cursor[c]
        /\ cursor'[c] = cursor[c] + 1
        /\ min_live_seq'[c] = min_live_seq[c]
        /\ outputs'[c] = outputs[c] + 1
        /\ base'[c] = IF lastSeenSeq[c] = 0 THEN cursor[c] - 1 ELSE base[c]
        /\ phase'[c] = phase[c] /\ mark'[c] = mark[c]
    BY <1>1, <2>3, <2>5 DEF SendLive, Render, MaxOf, TypeOK
  <2>7. outputs'[c] = lastSeenSeq'[c] - base'[c]
    BY <2>3, <2>4, <2>5, <2>6
  <2>8. NextLive(c)' = lastSeenSeq'[c] + 1
    BY <2>2, <2>3, <2>6 DEF NextLive, MaxOf
  <2> QED  BY <2>2, <2>6, <2>7, <2>8 DEF OnStream
<1> QED  BY <1>3, <1>4, <1>5, <1>6, OneSocket DEF SendLive

LEMMA LaggedInv ==
  ASSUME StreamInv, NEW c \in Clients, Lagged(c)
  PROVE  StreamInv'
<1>1. TypeOK /\ RingContiguous /\ FanoutInv /\ PositionInv(c)
  BY DEF StreamInv
<1>2. c \notin lagged /\ c \notin early => OnStream(c)
  BY DEF StreamInv
<1>3. Oldest \in Nat \ {0} /\ Oldest =< sent + 1
  BY <1>1, StreamAssumption DEF TypeOK, Oldest
<1>4. UNCHANGED << forwarder, phase, min_live_seq, mark, todo, lastSeenSeq, base, outputs, early >>
  BY DEF Lagged
<1>5. cursor' = [cursor EXCEPT ![c] = Oldest] /\ phase[c] # "replay"
  BY DEF Lagged, Receiving
<1>6. TypeOK'
  <2>1. cursor' \in [Clients -> Nat \ {0}]
    BY <1>1, <1>3, <1>5 DEF TypeOK
  <2>2. lagged' \subseteq Clients
    BY <1>1 DEF Lagged, TypeOK
  <2> QED  BY <1>1, <1>4, <2>1, <2>2 DEF TypeOK, forwarder
<1>7. \A d \in Clients \ {c} : Kept(d)
  BY <1>1 DEF Lagged, TypeOK, Kept, forwarder
<1>8. PositionInv(c)'
  <2>1. cursor'[c] = Oldest
    BY <1>1, <1>5 DEF TypeOK
  <2> QED  BY <1>1, <1>3, <1>4, <1>5, <2>1 DEF PositionInv, forwarder
<1>9. c \notin lagged' /\ c \notin early' => OnStream(c)'
  <2> SUFFICES ASSUME c \notin lagged', c \notin early'
               PROVE  OnStream(c)'
    OBVIOUS
  <2>1. /\ c \notin lagged /\ OnStream(c)
        /\ (phase[c] = "live" \/ mark[c] = 0) => Oldest =< min_live_seq[c] + 1
    BY <1>1, <1>2, <1>3, <1>4 DEF Lagged, TypeOK
  <2>2. /\ cursor'[c] = Oldest /\ cursor[c] < Oldest /\ cursor[c] \in Nat \ {0}
        /\ min_live_seq[c] \in Nat
    BY <1>1, <1>5 DEF Lagged, TypeOK
  <2>3. (phase[c] = "live" \/ mark[c] = 0) => NextLive(c)' = NextLive(c)
    BY <1>3, <1>4, <2>1, <2>2 DEF NextLive, MaxOf
  <2> QED  BY <1>4, <1>5, <2>1, <2>3 DEF OnStream
<1> QED  BY <1>6, <1>7, <1>8, <1>9, OneSocket DEF Lagged

(***************************************************************************)
(* The theorems.                                                           *)
(***************************************************************************)
LEMMA NextInv == StreamInv /\ [Next]_vars => StreamInv'
<1> SUFFICES ASSUME StreamInv, [Next]_vars PROVE StreamInv'
  OBVIOUS
<1>1. CASE \E len \in Lens : PtyOutput(len)
  BY <1>1, PtyOutputInv
<1>2. CASE Fanout
  BY <1>2, FanoutStepInv
<1>3. CASE \E c \in Clients : Connect(c) \/ Drop(c) \/ Server(c)
  <2>1. PICK c \in Clients : Connect(c) \/ Drop(c) \/ Server(c)
    BY <1>3
  <2> QED
    BY <2>1, ConnectInv, DropInv, AttachWithoutBookmarkInv, AttachReplayInv,
       AttachWindowLostInv, EmitReplayInv, DropReplayedInv, SendLiveInv, LaggedInv
    DEF Server
<1>4. CASE UNCHANGED vars
  <2>1. TypeOK'
    BY <1>4 DEF StreamInv, TypeOK, vars, forwarder, socket, history
  <2>2. RingContiguous' /\ RingBounded' /\ FanoutInv'
    BY <1>4 DEF StreamInv, RingContiguous, RingBounded, FanoutInv, vars, forwarder
  <2>3. \A c \in Clients : PositionInv(c)'
    BY <1>4 DEF StreamInv, PositionInv, vars, forwarder, socket, history
  <2>4. \A c \in Clients \ (lagged \cup early)' : OnStream(c)'
    BY <1>4 DEF StreamInv, OnStream, NextLive, vars, socket, history
  <2> QED  BY <2>1, <2>2, <2>3, <2>4 DEF StreamInv
<1> QED  BY <1>1, <1>2, <1>3, <1>4 DEF Next

\* StreamInv is an invariant of the output stream: type correctness, the
\* contiguous and bounded ring, and each client's place in the stream (forward_pty_output,
\* run_attached_socket).
THEOREM StreamInvariant == Spec => []StreamInv
<1>1. Init => StreamInv
  BY InitInv
<1>2. StreamInv /\ [Next]_vars => StreamInv'
  BY NextInv
<1> QED  BY <1>1, <1>2, PTL DEF Spec

\* Every variable keeps its type, whatever the sizes of the ring and of the
\* broadcast channel.
THEOREM TypeCorrect == Spec => []TypeOK
<1>1. StreamInv => TypeOK
  BY DEF StreamInv
<1> QED  BY <1>1, StreamInvariant, PTL

\* Across drops, reconnects, replays and lost windows a client that was neither
\* lagged nor overtaken renders every frame of its stream once and in order.
THEOREM StreamIsContinuous == Spec => []ContinuousStream
<1>1. StreamInv => ContinuousStream
  BY DEF StreamInv, ContinuousStream, OnStream
<1> QED  BY <1>1, StreamInvariant, PTL

\* The ring answers every bookmark exactly: all newer frames in order, or
\* window-lost if and only if the next one was evicted (replay_since).
THEOREM ReplayIsExact == Spec => []ReplayAnswerExact
<1>1. ASSUME StreamInv PROVE ReplayAnswerExact
  <2> SUFFICES ASSUME NEW b \in 1 .. buf.latest_seq
               PROVE  IF \E i \in 1 .. Len(buf.frames) : buf.frames[i].seq <= b + 1
                        THEN /\ ~WindowLost(buf, b)
                             /\ Len(ReplayFrames(buf, b)) = buf.latest_seq - b
                             /\ \A i \in 1 .. (buf.latest_seq - b) :
                                  ReplayFrames(buf, b)[i].seq = b + i
                        ELSE WindowLost(buf, b)
    BY DEF ReplayAnswerExact
  <2>1. /\ buf.frames \in Seq(Frame) /\ buf.latest_seq \in Nat
        /\ Len(buf.frames) \in Nat
    BY <1>1, LenProperties DEF StreamInv, TypeOK
  <2>2. Consecutive(buf.frames, buf.latest_seq) /\ buf.frames # << >>
    BY <1>1, <2>1 DEF StreamInv, RingContiguous, Consecutive
  <2>3. Len(buf.frames) > 0 /\ buf.frames[1].seq = buf.latest_seq - Len(buf.frames) + 1
    BY <2>1, <2>2, EmptySeq DEF Consecutive
  <2>4. CASE \E i \in 1 .. Len(buf.frames) : buf.frames[i].seq <= b + 1
    <3>1. buf.frames[1].seq <= b + 1
      BY <2>1, <2>2, <2>3, <2>4 DEF Consecutive
    <3>2. ~WindowLost(buf, b)
      BY <2>1, <2>3, <3>1 DEF WindowLost
    <3>3. CASE b < buf.latest_seq
      BY <2>1, <2>2, <2>4, <3>2, <3>3, ReplayFramesAre
    <3>4. CASE b = buf.latest_seq
      <4>1. ReplayFrames(buf, b) = << >>
        BY <2>1, <3>4 DEF ReplayFrames
      <4> QED  BY <2>1, <2>4, <3>2, <3>4, <4>1, EmptySeq
    <3> QED  BY <2>1, <3>3, <3>4
  <2>5. CASE ~\E i \in 1 .. Len(buf.frames) : buf.frames[i].seq <= b + 1
    <3>1. ~(buf.frames[1].seq <= b + 1) /\ buf.frames[1].seq \in Int
      BY <2>1, <2>3, <2>5
    <3>2. b < buf.latest_seq
      BY <2>1, <2>3, <3>1
    <3>3. WindowLost(buf, b)
      BY <2>1, <2>2, <3>1, <3>2 DEF WindowLost
    <3> QED  BY <2>5, <3>3
  <2> QED  BY <2>4, <2>5
<1>2. StreamInv => ReplayAnswerExact
  BY <1>1
<1> QED  BY <1>2, StreamInvariant, PTL

\* The byte count that eviction is decided on is the sum of the payloads the
\* ring retains, after any history of pushes and evictions (push).
THEOREM ByteCountIsExact == Spec => []ByteCountExact
<1>1. Init => ByteCountExact
  <2>1. PICK fs \in Seq(Frame), m \in Nat : fs = << >> /\ m = 0 /\ m = Len(fs)
    BY EmptySeq
  <2>2. m <= Len(fs)
    BY <2>1
  <2>3. PICK g : Sums(fs, m, g)
    BY <2>2, SumsExist
  <2>4. Bytes(fs) = 0
    BY <2>1, <2>3, BytesAre DEF Sums, Adds
  <2> QED  BY <2>1, <2>4 DEF Init, NewBuffer, ByteCountExact
<1>2. ASSUME StreamInv, ByteCountExact, [Next]_vars PROVE ByteCountExact'
  <2>1. CASE \E len \in Lens : PtyOutput(len)
    <3>1. PICK len \in Lens : PtyOutput(len)
      BY <2>1
    <3>2. PICK f \in Frame : buf' = Push(buf, f)
      BY <1>2, <3>1, StreamAssumption DEF PtyOutput, StreamInv, TypeOK, RingContiguous, Frame
    <3>3. buf.frames \in Seq(Frame)
      BY <1>2 DEF StreamInv, TypeOK
    <3> QED  BY <1>2, <3>2, <3>3, PushBytes DEF ByteCountExact
  <2>2. CASE UNCHANGED buf
    BY <1>2, <2>2 DEF ByteCountExact
  <2>3. (\E len \in Lens : PtyOutput(len)) \/ UNCHANGED buf
    BY <1>2 DEF Next, vars, forwarder, Fanout, Connect, Drop, Server, AttachWithoutBookmark,
       AttachReplay, AttachWindowLost, EmitReplay, DropReplayed, SendLive, Lagged
  <2> QED  BY <2>1, <2>2, <2>3
<1> QED  BY <1>1, <1>2, StreamInvariant, PTL DEF Spec
=============================================================================
