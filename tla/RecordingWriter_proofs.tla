------------------------ MODULE RecordingWriter_proofs -----------------------
(***************************************************************************)
(* Proofs about the recording writer, for every queue capacity, chunk      *)
(* size and number of frames, resizes and failing inserts.                 *)
(***************************************************************************)
EXTENDS RecordingWriter, SequenceTheorems, FiniteSetTheorems, WellFoundedInduction, TLAPS

\* Rows that the database takes and that keep to the hard cap.
Sound(rs) ==
  /\ rs \in Seq(Rows)
  /\ \A i \in DOMAIN rs : RowSchema(rs[i]) /\ rs[i].bytes <= HardCap

\* And what became of frames, in the same terms.
Kept(rs) ==
  /\ rs \in Seq(Fates)
  /\ \A i \in DOMAIN rs : RowSchema(rs[i]) /\ rs[i].bytes <= HardCap

-----------------------------------------------------------------------------
(***************************************************************************)
(* Runs of consecutive spans.                                              *)
(***************************************************************************)
LEMMA RunNone ==
  ASSUME NEW a \in Nat
  PROVE  ConsecutiveFrom(a + 1, << >>) /\ EndOf(<< >>, a) = a
BY DEF ConsecutiveFrom, EndOf

LEMMA RunOne ==
  ASSUME NEW S, NEW x \in S, NEW a \in Nat
  PROVE  /\ ConsecutiveFrom(a + 1, << x >>) <=> x.from = a + 1
         /\ EndOf(<< x >>, a) = x.to
BY DEF ConsecutiveFrom, EndOf

LEMMA RunConcat ==
  ASSUME NEW S, NEW s \in Seq(S), NEW t \in Seq(S), NEW a \in Nat,
         ConsecutiveFrom(a + 1, s), ConsecutiveFrom(EndOf(s, a) + 1, t)
  PROVE  /\ ConsecutiveFrom(a + 1, s \o t)
         /\ EndOf(s \o t, a) = EndOf(t, EndOf(s, a))
<1>1. CASE s = << >>
  <2>1. s \o t = t /\ EndOf(s, a) = a
    BY <1>1, ConcatEmptySeq DEF EndOf
  <2> QED  BY <1>1, <2>1
<1>2. CASE t = << >>
  <2>1. s \o t = s /\ EndOf(t, EndOf(s, a)) = EndOf(s, a)
    BY <1>2, ConcatEmptySeq DEF EndOf
  <2> QED  BY <2>1
<1>3. CASE s # << >> /\ t # << >>
  <2>1. Len(s) \in Nat \ {0} /\ Len(t) \in Nat \ {0}
    BY <1>3, EmptySeq
  <2>2. /\ s \o t \in Seq(S) /\ Len(s \o t) = Len(s) + Len(t)
        /\ \A i \in 1 .. Len(s) + Len(t) :
             (s \o t)[i] = IF i <= Len(s) THEN s[i] ELSE t[i - Len(s)]
    BY ConcatProperties
  <2>3. s \o t # << >>
    BY <2>1, <2>2
  <2>4. (s \o t)[1] = s[1] /\ (s \o t)[Len(s \o t)] = t[Len(t)]
    BY <2>1, <2>2
  <2>5. ASSUME NEW i \in 1 .. Len(s \o t) - 1
        PROVE  (s \o t)[i + 1].from = (s \o t)[i].to + 1
    <3>1. CASE i < Len(s)
      <4>1. (s \o t)[i + 1] = s[i + 1] /\ (s \o t)[i] = s[i] /\ i \in 1 .. Len(s) - 1
        BY <2>1, <2>2, <3>1
      <4> QED  BY <4>1 DEF ConsecutiveFrom
    <3>2. CASE i = Len(s)
      <4>1. (s \o t)[i + 1] = t[1] /\ (s \o t)[i] = s[Len(s)]
        BY <2>1, <2>2, <3>2
      <4> QED  BY <1>3, <4>1 DEF ConsecutiveFrom, EndOf
    <3>3. CASE i > Len(s)
      <4>1. /\ (s \o t)[i + 1] = t[(i - Len(s)) + 1] /\ (s \o t)[i] = t[i - Len(s)]
            /\ i - Len(s) \in 1 .. Len(t) - 1
        BY <2>1, <2>2, <3>3
      <4> QED  BY <4>1 DEF ConsecutiveFrom
    <3> QED  BY <2>1, <2>2, <3>1, <3>2, <3>3
  <2> QED  BY <1>3, <2>3, <2>4, <2>5 DEF ConsecutiveFrom, EndOf
<1> QED  BY <1>1, <1>2, <1>3

LEMMA RunTail ==
  ASSUME NEW S, NEW s \in Seq(S), s # << >>, NEW a \in Nat, ConsecutiveFrom(a + 1, s)
  PROVE  /\ Head(s).from = a + 1
         /\ ConsecutiveFrom(Head(s).to + 1, Tail(s))
         /\ EndOf(Tail(s), Head(s).to) = EndOf(s, a)
<1>1. Len(s) \in Nat \ {0} /\ Head(s) = s[1]
  BY EmptySeq
<1>2. /\ Tail(s) \in Seq(S) /\ Len(Tail(s)) = Len(s) - 1
      /\ \A i \in 1 .. Len(Tail(s)) : Tail(s)[i] = s[i + 1]
  BY HeadTailProperties
<1>3. ASSUME Tail(s) # << >> PROVE Len(Tail(s)) \in Nat \ {0}
  BY <1>2, <1>3, EmptySeq
<1>4. Tail(s) = << >> => Len(s) = 1
  <2>1. Tail(s) = << >> => Len(Tail(s)) = 0
    BY <1>2, EmptySeq
  <2> QED  BY <1>1, <1>2, <2>1
<1>5. Tail(s) # << >> => Tail(s)[1].from = Head(s).to + 1
  BY <1>1, <1>2, <1>3 DEF ConsecutiveFrom
<1>6. \A i \in 1 .. Len(Tail(s)) - 1 : Tail(s)[i + 1].from = Tail(s)[i].to + 1
  BY <1>1, <1>2 DEF ConsecutiveFrom
<1>7. EndOf(Tail(s), Head(s).to) = EndOf(s, a)
  BY <1>1, <1>2, <1>3, <1>4 DEF EndOf
<1> QED  BY <1>1, <1>5, <1>6, <1>7 DEF ConsecutiveFrom

LEMMA RunAppend ==
  ASSUME NEW S, NEW s \in Seq(S), NEW x \in S, NEW a \in Nat,
         ConsecutiveFrom(a + 1, s), x.from = EndOf(s, a) + 1
  PROVE  ConsecutiveFrom(a + 1, Append(s, x)) /\ EndOf(Append(s, x), a) = x.to
<1>1. Len(s) \in Nat /\ Append(s, x) \in Seq(S) /\ Len(Append(s, x)) = Len(s) + 1
  OBVIOUS
<1>2. \A i \in 1 .. Len(s) + 1 : Append(s, x)[i] = IF i <= Len(s) THEN s[i] ELSE x
  BY <1>1
<1>3. Append(s, x) # << >> /\ EndOf(Append(s, x), a) = x.to
  <2>1. Append(s, x) # << >>
    BY <1>1, EmptySeq
  <2>2. Append(s, x)[Len(Append(s, x))] = x
    BY <1>1, <1>2
  <2> QED  BY <2>1, <2>2 DEF EndOf
<1>4. Append(s, x)[1].from = a + 1
  BY <1>1, <1>2 DEF ConsecutiveFrom, EndOf
<1>5. ASSUME NEW i \in 1 .. Len(Append(s, x)) - 1
      PROVE  Append(s, x)[i + 1].from = Append(s, x)[i].to + 1
  <2>1. CASE i = Len(s)
    BY <1>1, <1>2, <2>1 DEF EndOf
  <2>2. CASE i < Len(s)
    BY <1>1, <1>2, <2>2 DEF ConsecutiveFrom
  <2> QED  BY <1>1, <2>1, <2>2
<1> QED  BY <1>3, <1>4, <1>5 DEF ConsecutiveFrom

-----------------------------------------------------------------------------
(***************************************************************************)
(* The frames in the queue.                                                *)
(***************************************************************************)
LEMMA FirstType ==
  ASSUME NEW c \in Commands
  PROVE  First(c) \in Nat /\ c.seq \in Nat
<1>1. c.seq \in Nat /\ c.gap \in Seq(Spans)
  BY DEF Commands
<1>2. CASE c.gap # << >>
  <2>1. c.gap[1] \in Spans
    BY <1>1, <1>2, EmptySeq, ElementOfSeq
  <2> QED  BY <1>1, <1>2, <2>1 DEF First, Spans
<1> QED  BY <1>1, <1>2 DEF First

LEMMA AppendedQueue ==
  ASSUME NEW q \in Seq(Commands), NEW c \in Commands
  PROVE  /\ Append(q, c) \in Seq(Commands)
         /\ Len(q) \in Nat /\ Len(Append(q, c)) = Len(q) + 1
         /\ \A i \in 1 .. Len(q) : Append(q, c)[i] = q[i]
         /\ Append(q, c)[Len(q) + 1] = c
         /\ Outputs(Append(q, c)) =
              Outputs(q) \cup (IF c.cmd = "output" THEN {Len(q) + 1} ELSE {})
         /\ Outputs(q) \subseteq 1 .. Len(q)
<1>1. /\ Append(q, c) \in Seq(Commands)
      /\ Len(q) \in Nat /\ Len(Append(q, c)) = Len(q) + 1
      /\ \A i \in 1 .. Len(q) : Append(q, c)[i] = q[i]
      /\ Append(q, c)[Len(q) + 1] = c
  BY AppendProperties, LenProperties
<1>2. DOMAIN q = 1 .. Len(q) /\ DOMAIN Append(q, c) = 1 .. Len(q) + 1
  BY <1>1, LenProperties
<1>3. Outputs(q) \subseteq 1 .. Len(q)
  BY <1>2 DEF Outputs
<1>4. ASSUME NEW i
      PROVE  i \in Outputs(Append(q, c)) <=>
               i \in Outputs(q) \cup (IF c.cmd = "output" THEN {Len(q) + 1} ELSE {})
  <2>1. CASE i \in 1 .. Len(q)
    <3>1. i # Len(q) + 1 /\ i \in 1 .. Len(q) + 1
      BY <1>1, <2>1
    <3> QED  BY <1>1, <1>2, <2>1, <3>1 DEF Outputs
  <2>2. CASE i = Len(q) + 1
    <3>1. i \notin 1 .. Len(q) /\ i \in 1 .. Len(q) + 1
      BY <1>1, <2>2
    <3> QED  BY <1>1, <1>2, <1>3, <2>2, <3>1 DEF Outputs
  <2>3. CASE i \notin 1 .. Len(q) + 1
    <3>1. i \notin 1 .. Len(q) /\ i # Len(q) + 1
      BY <1>1, <2>3
    <3> QED  BY <1>2, <1>3, <2>3, <3>1 DEF Outputs
  <2> QED  BY <1>1, <2>1, <2>2, <2>3
<1> QED  BY <1>1, <1>3, <1>4

\* Queueing a command that is no output, such as a marker, changes nothing.
LEMMA HoldsAppendOther ==
  ASSUME NEW q \in Seq(Commands), NEW c \in Commands, c.cmd # "output",
         NEW b \in Nat, NEW l \in Nat, QueueHolds(q, b, l)
  PROVE  QueueHolds(Append(q, c), b, l)
<1>1. PICK p : p = Append(q, c)
  OBVIOUS
<1>2. Outputs(p) = Outputs(q)
  <2>1. Outputs(p) = Outputs(q) \cup {}
    BY <1>1, AppendedQueue
  <2> QED  BY <2>1
<1>3. \A i \in Outputs(q) : p[i] = q[i]
  BY <1>1, AppendedQueue
<1>4. \A n \in b + 1 .. l : \E i \in Outputs(p) : First(p[i]) <= n /\ n <= p[i].seq
  BY <1>2, <1>3 DEF QueueHolds
<1>5. /\ \A i \in Outputs(p) : b < First(p[i]) /\ p[i].seq <= l
      /\ \A i, j \in Outputs(p) : i < j => p[i].seq < First(p[j])
  BY <1>2, <1>3 DEF QueueHolds
<1>6. b <= l
  BY DEF QueueHolds
<1>7. QueueHolds(p, b, l)
  BY <1>4, <1>5, <1>6 DEF QueueHolds
<1> QED  BY <1>1, <1>7

\* Queueing the next frame, with the gap before it.
LEMMA HoldsAppendOutput ==
  ASSUME NEW q \in Seq(Commands), NEW c \in Commands, c.cmd = "output",
         NEW b \in Nat, NEW l \in Nat, QueueHolds(q, b, l),
         First(c) = l + 1, l + 1 <= c.seq
  PROVE  QueueHolds(Append(q, c), b, c.seq)
<1> DEFINE p == Append(q, c)
           k == Len(q) + 1
<1>1. /\ Outputs(p) = Outputs(q) \cup {k}
      /\ \A i \in Outputs(q) : i \in 1 .. Len(q) /\ p[i] = q[i] /\ q[i] \in Commands
      /\ p[k] = c /\ Len(q) \in Nat
  BY AppendedQueue, ElementOfSeq
<1>2. c.seq \in Nat /\ \A i \in Outputs(q) : First(q[i]) \in Nat /\ q[i].seq \in Nat
  BY <1>1, FirstType
<1> HIDE DEF p, k
<1>3. b <= l /\ \A i \in Outputs(q) : b < First(q[i]) /\ q[i].seq <= l
  BY DEF QueueHolds
<1>4. ASSUME NEW i \in Outputs(p) PROVE b < First(p[i]) /\ p[i].seq <= c.seq
  BY <1>1, <1>2, <1>3
<1>5. ASSUME NEW i \in Outputs(p), NEW j \in Outputs(p), i < j
      PROVE  p[i].seq < First(p[j])
  <2>1. CASE i \in Outputs(q) /\ j \in Outputs(q)
    BY <1>1, <1>5, <2>1 DEF QueueHolds
  <2>2. CASE i \in Outputs(q) /\ j = k
    BY <1>1, <1>2, <1>3, <2>2
  <2>3. CASE i = k
    <3>1. k \in Nat /\ j \in 1 .. Len(q) \cup {k} /\ k = Len(q) + 1
      BY <1>1 DEF k
    <3>2. ~(k < j)
      BY <1>1, <3>1
    <3> QED  BY <1>5, <2>3, <3>2
  <2> QED  BY <1>1, <2>1, <2>2, <2>3
<1>6. ASSUME NEW n \in b + 1 .. c.seq
      PROVE  \E i \in Outputs(p) : First(p[i]) <= n /\ n <= p[i].seq
  <2>1. CASE n <= l
    <3>1. PICK i \in Outputs(q) : First(q[i]) <= n /\ n <= q[i].seq
      BY <1>2, <2>1 DEF QueueHolds
    <3> QED  BY <1>1, <3>1
  <2>2. CASE l < n
    BY <1>1, <1>2, <2>2
  <2> QED  BY <1>2, <2>1, <2>2
<1>7. b <= c.seq
  BY <1>2, <1>3
<1> QED  BY <1>4, <1>5, <1>6, <1>7 DEF QueueHolds, p

\* The command at the head of the queue is taken.
LEMMA TailQueue ==
  ASSUME NEW q \in Seq(Commands), q # << >>
  PROVE  /\ Tail(q) \in Seq(Commands) /\ Len(Tail(q)) = Len(q) - 1
         /\ Len(q) \in Nat \ {0} /\ Head(q) = q[1] /\ Head(q) \in Commands
         /\ Outputs(q) \subseteq 1 .. Len(q)
         /\ \A i \in Outputs(Tail(q)) : i \in Nat /\ i >= 1 /\ i + 1 \in Outputs(q)
                                        /\ Tail(q)[i] = q[i + 1]
         /\ \A i \in Outputs(q) : i # 1 => i - 1 \in Outputs(Tail(q)) /\ Tail(q)[i - 1] = q[i]
<1>1. /\ Tail(q) \in Seq(Commands) /\ Len(Tail(q)) = Len(q) - 1
      /\ \A i \in 1 .. Len(Tail(q)) : Tail(q)[i] = q[i + 1]
  BY HeadTailProperties
<1>2. Len(q) \in Nat \ {0} /\ Head(q) = q[1]
  BY EmptySeq
<1>3. DOMAIN q = 1 .. Len(q) /\ DOMAIN Tail(q) = 1 .. Len(q) - 1
  BY <1>1, LenProperties
<1>4. Head(q) \in Commands
  BY <1>2, ElementOfSeq
<1>5. ASSUME NEW i \in Outputs(Tail(q))
      PROVE  i \in Nat /\ i >= 1 /\ i + 1 \in Outputs(q) /\ Tail(q)[i] = q[i + 1]
  <2>1. i \in 1 .. Len(q) - 1 /\ Tail(q)[i].cmd = "output"
    BY <1>3 DEF Outputs
  <2>2. i \in Nat /\ i >= 1 /\ i + 1 \in 1 .. Len(q)
    BY <1>2, <2>1
  <2>3. Tail(q)[i] = q[i + 1]
    BY <1>1, <2>1
  <2> QED  BY <1>3, <2>1, <2>2, <2>3 DEF Outputs
<1>6. ASSUME NEW i \in Outputs(q), i # 1
      PROVE  i - 1 \in Outputs(Tail(q)) /\ Tail(q)[i - 1] = q[i]
  <2>1. i \in 1 .. Len(q) /\ q[i].cmd = "output"
    BY <1>3 DEF Outputs
  <2>2. i - 1 \in 1 .. Len(q) - 1 /\ (i - 1) + 1 = i
    BY <1>2, <1>6, <2>1
  <2>3. Tail(q)[i - 1] = q[(i - 1) + 1]
    BY <1>1, <2>2
  <2> QED  BY <1>3, <2>1, <2>2, <2>3 DEF Outputs
<1>7. Outputs(q) \subseteq 1 .. Len(q)
  BY <1>3 DEF Outputs
<1> QED  BY <1>1, <1>2, <1>4, <1>5, <1>6, <1>7

LEMMA HoldsTailOther ==
  ASSUME NEW q \in Seq(Commands), q # << >>, Head(q).cmd # "output",
         NEW b \in Nat, NEW l \in Nat, QueueHolds(q, b, l)
  PROVE  QueueHolds(Tail(q), b, l)
<1>1. PICK t : t = Tail(q)
  OBVIOUS
<1>2. /\ \A i \in Outputs(t) : i \in Nat /\ i >= 1 /\ i + 1 \in Outputs(q) /\ t[i] = q[i + 1]
      /\ \A i \in Outputs(q) : i # 1 => i - 1 \in Outputs(t) /\ t[i - 1] = q[i]
  BY <1>1, TailQueue
<1>3. 1 \notin Outputs(q)
  BY TailQueue DEF Outputs
<1>4. \A i \in Outputs(t) : b < First(t[i]) /\ t[i].seq <= l
  BY <1>2 DEF QueueHolds
<1>5. ASSUME NEW i \in Outputs(t), NEW j \in Outputs(t), i < j
      PROVE  t[i].seq < First(t[j])
  <2>1. i + 1 < j + 1
    BY <1>2, <1>5
  <2> QED  BY <1>2, <2>1 DEF QueueHolds
<1>6. ASSUME NEW n \in b + 1 .. l
      PROVE  \E i \in Outputs(t) : First(t[i]) <= n /\ n <= t[i].seq
  <2>1. PICK i \in Outputs(q) : First(q[i]) <= n /\ n <= q[i].seq
    BY DEF QueueHolds
  <2>2. i - 1 \in Outputs(t) /\ t[i - 1] = q[i]
    BY <1>2, <1>3
  <2> QED  BY <2>1, <2>2
<1>7. b <= l
  BY DEF QueueHolds
<1>8. QueueHolds(t, b, l)
  BY <1>4, <1>5, <1>6, <1>7 DEF QueueHolds
<1> QED  BY <1>1, <1>8

LEMMA HoldsTailOutput ==
  ASSUME NEW q \in Seq(Commands), q # << >>, Head(q).cmd = "output",
         First(Head(q)) <= Head(q).seq,
         NEW b \in Nat, NEW l \in Nat, QueueHolds(q, b, l)
  PROVE  First(Head(q)) = b + 1 /\ QueueHolds(Tail(q), Head(q).seq, l)
<1>1. PICK t : t = Tail(q)
  OBVIOUS
<1>2. /\ \A i \in Outputs(t) : i \in Nat /\ i >= 1 /\ i + 1 \in Outputs(q) /\ t[i] = q[i + 1]
      /\ \A i \in Outputs(q) : i # 1 => i - 1 \in Outputs(t) /\ t[i - 1] = q[i]
  BY <1>1, TailQueue
<1>3. 1 \in Outputs(q) /\ Head(q) = q[1] /\ Outputs(q) \subseteq 1 .. Len(q) /\ Len(q) \in Nat
  <2>1. DOMAIN q = 1 .. Len(q)
    BY LenProperties
  <2>2. 1 \in DOMAIN q
    BY <2>1, TailQueue
  <2> QED  BY <2>2, TailQueue DEF Outputs
<1>4. \A i \in Outputs(q) : i \in Nat /\ i >= 1 /\ First(q[i]) \in Nat /\ q[i].seq \in Nat
  <2>1. ASSUME NEW i \in Outputs(q) PROVE q[i] \in Commands
    BY <1>3, ElementOfSeq
  <2> QED  BY <1>3, <2>1, FirstType
<1>5. \A j \in Outputs(q) : j # 1 => q[1].seq < First(q[j])
  BY <1>3, <1>4 DEF QueueHolds
<1>6. b < First(q[1]) /\ q[1].seq <= l
  BY <1>3 DEF QueueHolds
<1>7. First(Head(q)) = b + 1
  <2>1. b + 1 \in b + 1 .. l
    BY <1>3, <1>4, <1>6
  <2>2. PICK i \in Outputs(q) : First(q[i]) <= b + 1 /\ b + 1 <= q[i].seq
    BY <2>1 DEF QueueHolds
  <2>3. i = 1
    BY <1>3, <1>4, <1>5, <1>6, <2>2
  <2> QED  BY <1>3, <1>4, <1>6, <2>2, <2>3
<1>8. ASSUME NEW i \in Outputs(t)
      PROVE  Head(q).seq < First(t[i]) /\ t[i].seq <= l
  <2>1. i + 1 \in Outputs(q) /\ i + 1 # 1 /\ t[i] = q[i + 1]
    BY <1>2
  <2> QED  BY <1>3, <1>5, <2>1 DEF QueueHolds
<1>9. ASSUME NEW i \in Outputs(t), NEW j \in Outputs(t), i < j
      PROVE  t[i].seq < First(t[j])
  <2>1. i + 1 < j + 1
    BY <1>2, <1>9
  <2> QED  BY <1>2, <2>1 DEF QueueHolds
<1>10. ASSUME NEW n \in Head(q).seq + 1 .. l
       PROVE  \E i \in Outputs(t) : First(t[i]) <= n /\ n <= t[i].seq
  <2>1. n \in b + 1 .. l /\ ~(n <= q[1].seq)
    BY <1>3, <1>4, <1>6
  <2>2. PICK i \in Outputs(q) : First(q[i]) <= n /\ n <= q[i].seq
    BY <2>1 DEF QueueHolds
  <2>3. i - 1 \in Outputs(t) /\ t[i - 1] = q[i]
    BY <1>2, <2>1, <2>2
  <2> QED  BY <2>2, <2>3
<1>11. QueueHolds(t, Head(q).seq, l)
  BY <1>3, <1>6, <1>8, <1>9, <1>10 DEF QueueHolds
<1> QED  BY <1>1, <1>7, <1>11

-----------------------------------------------------------------------------
(***************************************************************************)
(* The rows the writer makes of a batch.                                   *)
(***************************************************************************)
\* An optional value.
LEMMA Optional ==
  ASSUME NEW S, NEW s \in Seq(S), Len(s) <= 1, s # << >>
  PROVE  Len(s) = 1 /\ DOMAIN s = {1} /\ s[1] \in S /\ s = << s[1] >>
<1>1. Len(s) \in Nat /\ Len(s) # 0 /\ DOMAIN s = 1 .. Len(s)
  BY EmptySeq, LenProperties
<1>2. Len(s) = 1
  BY <1>1
<1>3. s[1] \in S
  BY <1>2, ElementOfSeq
<1>4. s = << s[1] >>
  BY <1>2, <1>3
<1> QED  BY <1>1, <1>2, <1>3, <1>4

\* The open batch, if there is one, is within the cap.
GoodBatch(batch) ==
  /\ batch \in Seq(Batches) /\ Len(batch) <= 1
  /\ batch # << >> => /\ 1 <= batch[1].from /\ batch[1].from <= batch[1].to
                      /\ batch[1].bytes <= HardCap

LEMMA EndOfRows ==
  ASSUME NEW s \in Seq(Rows), NEW a \in Nat
  PROVE  EndOf(s, a) \in Nat
<1>1. CASE s # << >>
  <2>1. s[Len(s)] \in Rows
    BY <1>1, EmptySeq, LenProperties, ElementOfSeq
  <2> QED  BY <1>1, <2>1 DEF EndOf, Rows
<1> QED  BY <1>1 DEF EndOf

LEMMA EndOfFates ==
  ASSUME NEW s \in Seq(Fates), NEW a \in Nat
  PROVE  EndOf(s, a) \in Nat
<1>1. CASE s # << >>
  <2>1. s[Len(s)] \in Fates
    BY <1>1, EmptySeq, LenProperties, ElementOfSeq
  <2> QED  BY <1>1, <2>1 DEF EndOf, Fates
<1> QED  BY <1>1 DEF EndOf

LEMMA EndOfBatch ==
  ASSUME NEW s \in Seq(Batches), Len(s) <= 1, NEW a \in Nat
  PROVE  EndOf(s, a) \in Nat
<1>1. CASE s # << >>
  <2>1. s[Len(s)] \in Batches
    BY <1>1, Optional
  <2> QED  BY <1>1, <2>1 DEF EndOf, Batches
<1> QED  BY <1>1 DEF EndOf

LEMMA SoundOne ==
  ASSUME NEW r \in Rows, RowSchema(r), r.bytes <= HardCap
  PROVE  Sound(<< r >>)
BY DEF Sound

LEMMA SoundNone == Sound(<< >>)
BY DEF Sound

LEMMA SoundConcat ==
  ASSUME NEW s, NEW t, Sound(s), Sound(t)
  PROVE  Sound(s \o t)
<1>1. s \in Seq(Rows) /\ t \in Seq(Rows)
  BY DEF Sound
<1>2. /\ s \o t \in Seq(Rows) /\ Len(s \o t) = Len(s) + Len(t)
      /\ \A i \in 1 .. Len(s) + Len(t) :
           (s \o t)[i] = IF i <= Len(s) THEN s[i] ELSE t[i - Len(s)]
  BY <1>1, ConcatProperties
<1>3. Len(s) \in Nat /\ Len(t) \in Nat /\ DOMAIN s = 1 .. Len(s) /\ DOMAIN t = 1 .. Len(t)
  BY <1>1, LenProperties
<1>4. DOMAIN (s \o t) = 1 .. Len(s) + Len(t)
  BY <1>2, LenProperties
<1>5. ASSUME NEW i \in DOMAIN (s \o t)
      PROVE  RowSchema((s \o t)[i]) /\ (s \o t)[i].bytes <= HardCap
  <2>1. CASE i <= Len(s)
    <3>1. i \in DOMAIN s /\ (s \o t)[i] = s[i]
      BY <1>2, <1>3, <1>4, <2>1
    <3> QED  BY <3>1 DEF Sound
  <2>2. CASE ~(i <= Len(s))
    <3>1. i - Len(s) \in DOMAIN t /\ (s \o t)[i] = t[i - Len(s)]
      BY <1>2, <1>3, <1>4, <2>2
    <3> QED  BY <3>1 DEF Sound
  <2> QED  BY <2>1, <2>2
<1> QED  BY <1>2, <1>5 DEF Sound

LEMMA SoundTail ==
  ASSUME NEW s, Sound(s), s # << >>
  PROVE  /\ Sound(Tail(s))
         /\ Head(s) \in Rows /\ RowSchema(Head(s)) /\ Head(s).bytes <= HardCap
<1>1. s \in Seq(Rows) /\ Len(s) \in Nat \ {0} /\ Head(s) = s[1] /\ DOMAIN s = 1 .. Len(s)
  BY EmptySeq, LenProperties DEF Sound
<1>2. /\ Tail(s) \in Seq(Rows) /\ Len(Tail(s)) = Len(s) - 1
      /\ \A i \in 1 .. Len(Tail(s)) : Tail(s)[i] = s[i + 1]
  BY <1>1, HeadTailProperties
<1>3. DOMAIN Tail(s) = 1 .. Len(s) - 1
  BY <1>2, LenProperties
<1>4. ASSUME NEW i \in DOMAIN Tail(s)
      PROVE  RowSchema(Tail(s)[i]) /\ Tail(s)[i].bytes <= HardCap
  <2>1. i + 1 \in DOMAIN s /\ Tail(s)[i] = s[i + 1]
    BY <1>1, <1>2, <1>3
  <2> QED  BY <2>1 DEF Sound
<1>5. 1 \in DOMAIN s /\ s[1] \in Rows
  BY <1>1, ElementOfSeq
<1> QED  BY <1>1, <1>2, <1>4, <1>5 DEF Sound

LEMMA KeptAppend ==
  ASSUME NEW s, Kept(s), NEW r \in Fates, RowSchema(r), r.bytes <= HardCap
  PROVE  /\ Kept(Append(s, r)) /\ Len(s) \in Nat
         /\ DOMAIN s = 1 .. Len(s) /\ DOMAIN Append(s, r) = 1 .. Len(s) + 1
         /\ \A i \in 1 .. Len(s) : Append(s, r)[i] = s[i]
         /\ Append(s, r)[Len(s) + 1] = r
<1>1. PICK t : t = Append(s, r)
  OBVIOUS
<1>2. /\ s \in Seq(Fates) /\ t \in Seq(Fates) /\ Len(s) \in Nat /\ Len(t) = Len(s) + 1
      /\ \A i \in 1 .. Len(s) : t[i] = s[i]
      /\ t[Len(s) + 1] = r
  BY <1>1, AppendProperties, LenProperties DEF Kept
<1>3. DOMAIN s = 1 .. Len(s) /\ DOMAIN t = 1 .. Len(s) + 1
  BY <1>2, LenProperties
<1>4. ASSUME NEW i \in DOMAIN t PROVE RowSchema(t[i]) /\ t[i].bytes <= HardCap
  <2>1. i \in 1 .. Len(s) \/ i = Len(s) + 1
    BY <1>2, <1>3
  <2>2. CASE i \in 1 .. Len(s)
    BY <1>2, <1>3, <2>2 DEF Kept
  <2>3. CASE i = Len(s) + 1
    BY <1>2, <2>3
  <2> QED  BY <2>1, <2>2, <2>3
<1>5. Kept(t)
  BY <1>2, <1>4 DEF Kept
<1> QED  BY <1>1, <1>2, <1>3, <1>5

\* Flushing loses nothing of a batch but what had no bytes.
LEMMA Flushing ==
  ASSUME NEW batch, GoodBatch(batch), NEW a \in Nat, ConsecutiveFrom(a + 1, batch)
  PROVE  /\ Sound(Flush(batch)) /\ ConsecutiveFrom(a + 1, Flush(batch))
         /\ EndOf(Flush(batch), a) = EndOf(batch, a) /\ EndOf(batch, a) \in Nat
<1>1. CASE batch = << >>
  BY <1>1, SoundNone, RunNone DEF Flush, EndOf
<1>2. CASE batch # << >>
  <2>1. Len(batch) = 1 /\ batch[1] \in Batches
    BY <1>2, Optional DEF GoodBatch
  <2>8. PICK kind : kind = IF batch[1].bytes = 0 THEN "empty" ELSE "chunk"
    OBVIOUS
  <2>2. PICK r : r = Row(kind, batch[1].from, batch[1].to, batch[1].bytes)
    OBVIOUS
  <2>3. /\ r \in Rows /\ r.from = batch[1].from /\ r.to = batch[1].to
        /\ r.bytes = batch[1].bytes /\ r.bytes \in Nat /\ r.kind = kind
    BY <2>1, <2>2, <2>8 DEF Row, Rows, Batches
  <2>4. RowSchema(r) /\ r.bytes <= HardCap
    <3>1. r.kind = "chunk" => r.bytes >= 1
      BY <2>3, <2>8
    <3> QED  BY <1>2, <2>3, <3>1 DEF RowSchema, GoodBatch
  <2>5. Flush(batch) = << r >>
    BY <1>2, <2>2, <2>8 DEF Flush
  <2>6. r.from = a + 1 /\ EndOf(batch, a) = r.to /\ r.to \in Nat
    BY <1>2, <2>1, <2>3 DEF ConsecutiveFrom, EndOf, Batches
  <2>7. ConsecutiveFrom(a + 1, << r >>) /\ EndOf(<< r >>, a) = r.to
    BY <2>3, <2>6, RunOne
  <2> QED  BY <2>3, <2>4, <2>5, <2>6, <2>7, SoundOne
<1> QED  BY <1>1, <1>2

-----------------------------------------------------------------------------
(***************************************************************************)
(* The inductive invariant, action by action.                              *)
(***************************************************************************)
IInv == WriterInv /\ NothingUnaccounted

Ledger == << account, writes, open, queue, pending_gap, teed >>

\* What the invariant says of the rows and the batch, in the terms above.
LEMMA Parts ==
  ASSUME IInv
  PROVE  /\ Kept(account) /\ Sound(writes) /\ GoodBatch(open)
         /\ Inserted \in Nat /\ Flushed \in Nat /\ Batched \in Nat
<1>1. Kept(account) /\ Sound(writes)
  BY DEF IInv, WriterInv, TypeOK, WithinHardCap, Sound, Kept
<1>2. GoodBatch(open)
  <2>1. open \in Seq(Batches) /\ Len(open) <= 1
    BY DEF IInv, WriterInv, TypeOK
  <2>2. CASE open # << >>
    <3>1. 1 \in DOMAIN open
      BY <2>1, <2>2, Optional
    <3> QED  BY <2>1, <2>2, <3>1 DEF IInv, WriterInv, WithinHardCap, CarriedInv, GoodBatch
  <2> QED  BY <2>1, <2>2 DEF GoodBatch
<1>3. Inserted \in Nat
  BY <1>1, EndOfFates DEF Kept, Inserted
<1>4. Flushed \in Nat
  BY <1>1, <1>3, EndOfRows DEF Sound, Flushed
<1>5. Batched \in Nat
  BY <1>2, <1>4, EndOfBatch DEF GoodBatch, Batched
<1> QED  BY <1>1, <1>2, <1>3, <1>4, <1>5

\* A step that moves none of the frames keeps their account.
LEMMA SameLedger ==
  ASSUME IInv, UNCHANGED << Ledger, writer >>
  PROVE  NothingUnaccounted' /\ ChunksContinuous' /\ WithinHardCap' /\ CarriedInv'
<1>1. ChunksContinuous'
  BY DEF IInv, WriterInv, Ledger, ChunksContinuous
<1>2. WithinHardCap'
  BY DEF IInv, WriterInv, Ledger, WithinHardCap
<1>3. CarriedInv'
  BY DEF IInv, WriterInv, Ledger, CarriedInv
<1>4. NothingUnaccounted'
  <2>1. Inserted' = Inserted /\ Flushed' = Flushed /\ Batched' = Batched /\ Queued' = Queued
    BY DEF Ledger, Inserted, Flushed, Batched, Queued
  <2> QED  BY <2>1 DEF IInv, Ledger, NothingUnaccounted, Receivable
<1> QED  BY <1>1, <1>2, <1>3, <1>4

\* A step that disposes of no frames keeps the number of silent losses.
LEMMA LossKeeps ==
  ASSUME IInv, account' = account, faults' \in {faults, faults + 1}
  PROVE  LossIsFailure'
<1>1. account \in Seq(Fates) /\ faults \in Nat
  BY DEF IInv, WriterInv, TypeOK
<1> DEFINE L == {i \in DOMAIN account : account[i].kind = "lost"}
<1>2. IsFiniteSet(L) /\ Cardinality(L) <= faults
  <2>1. IsFiniteSet(DOMAIN account)
    <3>1. Len(account) \in Nat /\ DOMAIN account = 1 .. Len(account)
      BY <1>1, LenProperties
    <3> QED  BY <3>1, FS_Interval
  <2>2. IsFiniteSet(L)
    BY <2>1, FS_Subset
  <2> QED  BY <2>2 DEF IInv, WriterInv, LossIsFailure
<1>3. Cardinality(L) \in Nat
  BY <1>2, FS_CardinalityType
<1>4. Cardinality(L) <= faults'
  BY <1>1, <1>2, <1>3
<1>5. L' = L
  OBVIOUS
<1> QED  BY <1>4, <1>5 DEF LossIsFailure

\* A row for the next frames, or one more silent loss together with a failure.
LEMMA LossGrows ==
  ASSUME IInv, NEW r \in Fates, RowSchema(r), r.bytes <= HardCap, account' = Append(account, r),
         \/ r.kind # "lost" /\ faults' = faults
         \/ faults' = faults + 1
  PROVE  LossIsFailure'
<1>1. faults \in Nat
  BY DEF IInv, WriterInv, TypeOK
<1>2. /\ Len(account) \in Nat /\ DOMAIN account = 1 .. Len(account)
      /\ DOMAIN account' = 1 .. Len(account) + 1
      /\ \A i \in 1 .. Len(account) : account'[i] = account[i]
      /\ account'[Len(account) + 1] = r
  BY Parts, KeptAppend
<1> DEFINE L == {i \in DOMAIN account : account[i].kind = "lost"}
           M == {i \in DOMAIN account' : account'[i].kind = "lost"}
           k == Len(account) + 1
<1>3. IsFiniteSet(L) /\ Cardinality(L) \in Nat /\ Cardinality(L) <= faults
  <2>1. IsFiniteSet(DOMAIN account)
    BY <1>2, FS_Interval
  <2>2. IsFiniteSet(L)
    BY <2>1, FS_Subset
  <2> QED  BY <2>2, FS_CardinalityType DEF IInv, WriterInv, LossIsFailure
<1>4. M = IF r.kind = "lost" THEN L \cup {k} ELSE L
  <2>1. ASSUME NEW i
        PROVE  i \in M <=> i \in L \/ (i = k /\ r.kind = "lost")
    <3>1. i \in 1 .. Len(account) + 1 <=> i \in 1 .. Len(account) \/ i = k
      BY <1>2
    <3>2. k \notin 1 .. Len(account)
      BY <1>2
    <3> QED  BY <1>2, <3>1, <3>2
  <2> QED  BY <2>1
<1>5. k \notin L
  BY <1>2
<1> HIDE DEF L, M, k
<1>6. Cardinality(M) <= faults'
  <2>1. CASE r.kind = "lost"
    <3>1. M = L \cup {k} /\ faults' = faults + 1
      BY <1>4, <2>1
    <3>2. Cardinality(L \cup {k}) = Cardinality(L) + 1
      BY <1>3, <1>5, FS_AddElement
    <3> QED  BY <1>1, <1>3, <3>1, <3>2
  <2>2. CASE r.kind # "lost"
    <3>1. M = L /\ faults' \in {faults, faults + 1}
      BY <1>4, <2>2
    <3> QED  BY <1>1, <1>3, <3>1
  <2> QED  BY <2>1, <2>2
<1> QED  BY <1>6 DEF LossIsFailure, M

LEMMA InitStep == Init => IInv
<1> SUFFICES ASSUME Init PROVE IInv
  OBVIOUS
<1> USE WriterAssumption
<1>1. Command("started", 0) \in Commands
  BY DEF Command, Commands
<1>2. queue \in Seq(Commands) /\ Len(queue) = 1 /\ queue[1] = Command("started", 0)
  BY <1>1 DEF Init
<1>3. TypeOK
  BY <1>2 DEF Init, TypeOK
<1>4. ChunksContinuous
  BY DEF Init, ChunksContinuous, ConsecutiveFrom
<1>5. WithinHardCap
  BY DEF Init, WithinHardCap
<1>6. CarriedInv
  BY <1>2 DEF Init, CarriedInv, Carried, Command
<1>7. ClosingInv
  BY DEF Init, ClosingInv, Sealed, Receivable
<1>8. NothingUnaccounted
  <2>1. Inserted = 0 /\ Flushed = 0 /\ Batched = 0 /\ Queued = 0
    BY DEF Init, Inserted, Flushed, Batched, Queued, EndOf
  <2>2. QueueHolds(queue, 0, 0)
    <3>1. Outputs(queue) = {}
      BY <1>2 DEF Outputs, Command
    <3> QED  BY <3>1 DEF QueueHolds
  <2> QED  BY <2>1, <2>2 DEF Init, NothingUnaccounted, ConsecutiveFrom
<1>9. BeforeShutdown
  BY <1>2 DEF Init, BeforeShutdown, Command
<1>10. LossIsFailure
  <2>1. {i \in DOMAIN account : account[i].kind = "lost"} = {} /\ faults = 0
    BY DEF Init
  <2> QED  BY <2>1, FS_EmptySet DEF LossIsFailure
<1> QED  BY <1>3, <1>4, <1>5, <1>6, <1>7, <1>8, <1>9, <1>10 DEF IInv, WriterInv

\* Steps of the producers and the manager that touch neither the frames nor
\* the writer.
Bystander ==
  Stamp \/ ForwarderEnds \/ ResizeRead \/ ShutdownStart \/ ShutdownAcked \/ RuntimeDropped \/ Idle

LEMMA BystanderStep ==
  ASSUME IInv, Bystander \/ UNCHANGED vars
  PROVE  IInv'
<1> USE WriterAssumption
<1>1. UNCHANGED << Ledger, task, markers, faults >>
  BY DEF Bystander, Stamp, ForwarderEnds, ResizeRead, ShutdownStart, ShutdownAcked, RuntimeDropped,
         Idle, vars, producer, control, task, database, Ledger
<1>2. NothingUnaccounted' /\ ChunksContinuous' /\ WithinHardCap' /\ CarriedInv'
  BY <1>1, SameLedger DEF task
<1>3. ClosingInv'
  BY <1>1 DEF IInv, WriterInv, ClosingInv, Sealed, NothingInHand, Receivable, task, Ledger
<1>4. /\ forwarder' \in {"run", "ended"}
      /\ manager' \in {"live", "sending", "waiting", "over", "dropped"}
      /\ last_seq' \in {teed', teed' + 1}
      /\ resize' \in Nat /\ close_seq' \in Nat
      /\ resizes' \in 0 .. MaxResizes /\ faults' \in 0 .. MaxFaults
  <2> USE DEF IInv, WriterInv, TypeOK
  <2>1. CASE Stamp
    BY <2>1 DEF Stamp, producer, control
  <2>2. CASE ForwarderEnds
    BY <2>2 DEF ForwarderEnds, producer, control
  <2>3. CASE ResizeRead
    BY <2>3 DEF ResizeRead, producer, control, MaxOf
  <2>4. CASE ShutdownStart
    BY <2>4 DEF ShutdownStart, producer, control
  <2>5. CASE ShutdownAcked
    BY <2>5 DEF ShutdownAcked, producer, control
  <2>6. CASE RuntimeDropped
    BY <2>6 DEF RuntimeDropped, producer, control
  <2>7. CASE UNCHANGED vars
    BY <2>7 DEF vars, producer, control
  <2> QED  BY <2>1, <2>2, <2>3, <2>4, <2>5, <2>6, <2>7 DEF Bystander, Idle
<1>5. TypeOK'
  BY <1>1, <1>4 DEF IInv, WriterInv, TypeOK, task, Ledger
<1>6. BeforeShutdown'
  <2>1. manager' \in {"live", "sending"} => manager \in {"live", "sending"}
    BY DEF Bystander, Stamp, ForwarderEnds, ResizeRead, ShutdownStart, ShutdownAcked,
           RuntimeDropped, Idle, vars, control
  <2> QED  BY <1>1, <2>1 DEF IInv, WriterInv, BeforeShutdown, task, Ledger
<1>7. LossIsFailure'
  BY <1>1, LossKeeps DEF Ledger
<1> QED  BY <1>2, <1>3, <1>5, <1>6, <1>7 DEF IInv, WriterInv

\* The frames of the queue end where the pending gap begins.
LEMMA GapParts ==
  ASSUME IInv
  PROVE  /\ teed \in Nat /\ Queued \in Nat
         /\ pending_gap # << >> =>
              /\ DOMAIN pending_gap = {1} /\ pending_gap[1] \in Spans
              /\ pending_gap[1].from \in Nat /\ pending_gap[1].to \in Nat
              /\ 1 <= pending_gap[1].from /\ pending_gap[1].from <= pending_gap[1].to
              /\ pending_gap[1].to <= teed /\ Queued = pending_gap[1].from - 1
         /\ pending_gap = << >> => Queued = teed
<1>1. teed \in Nat /\ pending_gap \in Seq(Spans) /\ Len(pending_gap) <= 1
  BY DEF IInv, WriterInv, TypeOK
<1>2. CASE pending_gap # << >>
  <2>1. DOMAIN pending_gap = {1} /\ pending_gap[1] \in Spans
    BY <1>1, <1>2, Optional
  <2>2. pending_gap[1].from \in Nat /\ pending_gap[1].to \in Nat
    BY <2>1 DEF Spans
  <2>3. /\ 1 <= pending_gap[1].from /\ pending_gap[1].from <= pending_gap[1].to
        /\ pending_gap[1].to <= teed
    BY <1>2 DEF IInv, WriterInv, CarriedInv
  <2> QED  BY <1>1, <1>2, <2>1, <2>2, <2>3 DEF Queued
<1> QED  BY <1>1, <1>2 DEF Queued

LEMMA QueuedNoShutdown ==
  ASSUME IInv, NEW c \in Commands, c.cmd # "shutdown", queue' = Append(queue, c),
         writer' = writer, manager' = manager
  PROVE  BeforeShutdown'
<1>1. queue \in Seq(Commands)
  BY DEF IInv, WriterInv, TypeOK
<1>2. /\ Len(queue) \in Nat /\ DOMAIN queue = 1 .. Len(queue) /\ DOMAIN queue' = 1 .. Len(queue) + 1
      /\ \A i \in 1 .. Len(queue) : queue'[i] = queue[i]
      /\ queue'[Len(queue) + 1] = c
  BY <1>1, AppendedQueue, LenProperties
<1>3. \A i \in DOMAIN queue' : i \in DOMAIN queue \/ i = Len(queue) + 1
  BY <1>2
<1> QED  BY <1>2, <1>3 DEF IInv, WriterInv, BeforeShutdown

LEMMA TeeStep ==
  ASSUME IInv, NEW len \in Lens, Tee(len)
  PROVE  IInv'
<1>1. /\ teed \in Nat /\ last_seq = teed + 1 /\ teed' = last_seq /\ last_seq' = last_seq
      /\ len \in Nat
  BY WriterAssumption DEF Tee, IInv, WriterInv, TypeOK
<1>2. UNCHANGED << forwarder, control, task, database, faults >>
  BY DEF Tee
<1>3. ChunksContinuous' /\ WithinHardCap' /\ LossIsFailure'
  <2>1. LossIsFailure'
    BY <1>2, LossKeeps DEF database
  <2> QED  BY <1>2, <2>1 DEF IInv, WriterInv, ChunksContinuous, WithinHardCap, database, task
<1>4. Inserted' = Inserted /\ Flushed' = Flushed /\ Batched' = Batched
  BY <1>2 DEF Inserted, Flushed, Batched, database, task
<1>5. UNCHANGED << account, writes, open, writer, marker, markers, highest_seq_observed,
                   resize, resizes, manager, close_seq, forwarder, faults >>
  BY <1>2 DEF database, task, control
<1>6. QueueHolds(queue, Batched, Queued) \/ ~Receivable
  BY DEF IInv, NothingUnaccounted
<1>7. CASE len > HardCap \/ (Receivable /\ ~HasRoom)
  <2>1. pending_gap' = Extended(pending_gap, last_seq) /\ queue' = queue
    BY <1>7 DEF Tee, Dropped
  <2>2. PICK s : /\ s \in Spans /\ pending_gap' = << s >>
                 /\ s.to = teed' /\ s.from = Queued + 1 /\ s.from <= s.to
    <3>1. CASE pending_gap = << >>
      <4>1. Span(last_seq, last_seq) \in Spans /\ pending_gap' = << Span(last_seq, last_seq) >>
        BY <1>1, <2>1, <3>1 DEF Span, Spans, Extended
      <4> QED  BY <1>1, <3>1, <4>1, GapParts DEF Span
    <3>2. CASE pending_gap # << >>
      <4>1. /\ Span(pending_gap[1].from, last_seq) \in Spans
            /\ pending_gap' = << Span(pending_gap[1].from, last_seq) >>
        BY <1>1, <2>1, <3>2, GapParts DEF Span, Spans, Extended
      <4> QED  BY <1>1, <3>2, <4>1, GapParts DEF Span
    <3> QED  BY <3>1, <3>2
  <2>3. /\ pending_gap' \in Seq(Spans) /\ Len(pending_gap') = 1 /\ pending_gap'[1] = s
        /\ pending_gap' # << >>
    BY <2>2
  <2>4. Queued' = Queued
    BY <2>2, <2>3, GapParts DEF Queued, Spans
  <2>5. NothingUnaccounted'
    BY <1>4, <1>5, <2>1, <2>2, <2>3, <2>4 DEF IInv, NothingUnaccounted, Receivable
  <2>6. CarriedInv'
    <3>1. /\ \A i \in DOMAIN queue' : Carried(queue'[i])
          /\ open' # << >> => 1 <= open'[1].from /\ open'[1].from <= open'[1].to
      BY <1>5, <2>1 DEF IInv, WriterInv, CarriedInv
    <3>2. 1 <= pending_gap'[1].from /\ pending_gap'[1].from <= pending_gap'[1].to
            /\ pending_gap'[1].to <= teed'
      BY <1>1, <2>2, <2>3, GapParts
    <3> QED  BY <3>1, <3>2 DEF CarriedInv
  <2>7. ClosingInv'
    BY <1>5, <2>1 DEF IInv, WriterInv, ClosingInv, Sealed, NothingInHand, Receivable
  <2>8. TypeOK'
    <3>1. Len(pending_gap') <= 1 /\ teed' \in Nat /\ last_seq' \in {teed', teed' + 1}
      BY <1>1, <2>3
    <3> QED  BY <1>5, <2>1, <2>3, <3>1 DEF IInv, WriterInv, TypeOK
  <2>9. BeforeShutdown'
    BY <1>5, <2>1 DEF IInv, WriterInv, BeforeShutdown
  <2> QED  BY <1>3, <2>5, <2>6, <2>7, <2>8, <2>9 DEF IInv, WriterInv
<1>8. CASE ~(len > HardCap \/ (Receivable /\ ~HasRoom))
  <2>1. /\ pending_gap' = << >>
        /\ queue' = IF Receivable THEN Append(queue, Output(last_seq, len, pending_gap)) ELSE queue
    BY <1>8 DEF Tee
  <2>2. queue \in Seq(Commands) /\ Len(queue) <= QueueCapacity
    BY DEF IInv, WriterInv, TypeOK
  <2>3. CASE Receivable
    <3>1. PICK c : c = Output(last_seq, len, pending_gap)
      OBVIOUS
    <3>2. /\ c \in Commands /\ c.cmd = "output" /\ c.seq = last_seq /\ c.len = len
          /\ c.gap = pending_gap
      BY <1>1, <3>1 DEF Output, Commands, IInv, WriterInv, TypeOK
    <3>3. queue' = Append(queue, c)
      BY <2>1, <2>3, <3>1
    <3>4. /\ queue' \in Seq(Commands) /\ Len(queue) \in Nat /\ Len(queue') = Len(queue) + 1
          /\ \A i \in 1 .. Len(queue) : queue'[i] = queue[i]
          /\ queue'[Len(queue) + 1] = c
      BY <2>2, <3>2, <3>3, AppendedQueue
    <3>5. First(c) = Queued + 1 /\ Queued + 1 <= c.seq
      BY <1>1, <3>2, GapParts DEF First
    <3>6. QueueHolds(queue', Batched, c.seq)
      BY <1>6, <2>2, <2>3, <3>2, <3>3, <3>5, Parts, GapParts, HoldsAppendOutput
    <3>7. Queued' = c.seq
      BY <1>1, <2>1, <3>2 DEF Queued
    <3>8. NothingUnaccounted'
      BY <1>4, <1>5, <2>1, <2>3, <3>6, <3>7 DEF IInv, NothingUnaccounted, Receivable
    <3>9. Carried(c)
      <4>1. len <= HardCap
        BY <1>1, <1>8, WriterAssumption
      <4>2. pending_gap # << >> => pending_gap[1].to = teed
        BY <2>3 DEF IInv, NothingUnaccounted
      <4>3. Len(pending_gap) <= 1
        BY DEF IInv, WriterInv, TypeOK
      <4> QED  BY <1>1, <3>2, <4>1, <4>2, <4>3, GapParts DEF Carried
    <3>10. CarriedInv'
      <4>1. ASSUME NEW i \in DOMAIN queue' PROVE Carried(queue'[i])
        <5>1. DOMAIN queue = 1 .. Len(queue) /\ DOMAIN queue' = 1 .. Len(queue) + 1
          BY <2>2, <3>4, LenProperties
        <5>2. CASE i = Len(queue) + 1
          BY <3>4, <3>9, <5>2
        <5>3. CASE i \in 1 .. Len(queue)
          BY <3>4, <5>1, <5>3 DEF IInv, WriterInv, CarriedInv
        <5> QED  BY <3>4, <5>1, <5>2, <5>3
      <4> QED  BY <1>5, <2>1, <4>1 DEF IInv, WriterInv, CarriedInv
    <3>11. ClosingInv'
      BY <1>5, <2>3 DEF IInv, WriterInv, ClosingInv, Sealed, NothingInHand, Receivable
    <3>12. TypeOK'
      <4>1. Len(queue') <= QueueCapacity
        BY <1>8, <2>2, <2>3, <3>4, WriterAssumption DEF HasRoom
      <4> QED  BY <1>1, <1>5, <2>1, <3>4, <4>1 DEF IInv, WriterInv, TypeOK
    <3>13. BeforeShutdown'
      BY <1>5, <2>2, <3>2, <3>3, QueuedNoShutdown
    <3> QED  BY <1>3, <3>8, <3>10, <3>11, <3>12, <3>13 DEF IInv, WriterInv
  <2>4. CASE ~Receivable
    <3>1. queue' = queue
      BY <2>1, <2>4
    <3>2. NothingUnaccounted'
      BY <1>5, <2>4 DEF NothingUnaccounted, Receivable
    <3>3. CarriedInv'
      BY <1>5, <2>1, <3>1 DEF IInv, WriterInv, CarriedInv
    <3>4. ClosingInv'
      BY <1>5, <3>1 DEF IInv, WriterInv, ClosingInv, Sealed, NothingInHand, Receivable
    <3>5. TypeOK'
      BY <1>1, <1>5, <2>1, <3>1 DEF IInv, WriterInv, TypeOK
    <3>6. BeforeShutdown'
      BY <1>5, <3>1 DEF IInv, WriterInv, BeforeShutdown
    <3> QED  BY <1>3, <3>2, <3>3, <3>4, <3>5, <3>6 DEF IInv, WriterInv
  <2> QED  BY <2>3, <2>4
<1> QED  BY <1>7, <1>8

\* A marker or the shutdown command joins the queue.
LEMMA QueueMarker ==
  ASSUME IInv, Receivable, HasRoom, NEW c \in Commands, c.cmd # "output", Carried(c),
         queue' = Append(queue, c),
         UNCHANGED << account, writes, open, pending_gap, teed, task, markers >>
  PROVE  /\ NothingUnaccounted' /\ ChunksContinuous' /\ WithinHardCap' /\ CarriedInv'
         /\ ClosingInv' /\ queue' \in Seq(Commands) /\ Len(queue') <= QueueCapacity
<1>1. queue \in Seq(Commands) /\ Len(queue) <= QueueCapacity
  BY DEF IInv, WriterInv, TypeOK
<1>2. /\ queue' \in Seq(Commands) /\ Len(queue) \in Nat /\ Len(queue') = Len(queue) + 1
      /\ \A i \in 1 .. Len(queue) : queue'[i] = queue[i]
      /\ queue'[Len(queue) + 1] = c
  BY <1>1, AppendedQueue
<1>3. Len(queue') <= QueueCapacity
  BY <1>1, <1>2, WriterAssumption DEF HasRoom
<1>4. UNCHANGED << account, writes, open, pending_gap, teed, writer, marker, markers >>
  BY DEF task
<1>5. Inserted' = Inserted /\ Flushed' = Flushed /\ Batched' = Batched /\ Queued' = Queued
  BY <1>4 DEF Inserted, Flushed, Batched, Queued
<1>6. QueueHolds(queue', Batched, Queued)
  <2>1. QueueHolds(queue, Batched, Queued)
    BY DEF IInv, NothingUnaccounted
  <2> QED  BY <1>1, <2>1, Parts, GapParts, HoldsAppendOther
<1>7. NothingUnaccounted'
  BY <1>4, <1>5, <1>6 DEF IInv, NothingUnaccounted, Receivable
<1>8. ChunksContinuous' /\ WithinHardCap'
  BY <1>4 DEF IInv, WriterInv, ChunksContinuous, WithinHardCap
<1>9. CarriedInv'
  <2>1. ASSUME NEW i \in DOMAIN queue' PROVE Carried(queue'[i])
    <3>1. DOMAIN queue = 1 .. Len(queue) /\ DOMAIN queue' = 1 .. Len(queue) + 1
      BY <1>1, <1>2, LenProperties
    <3>2. CASE i = Len(queue) + 1
      BY <1>2, <3>2
    <3>3. CASE i \in 1 .. Len(queue)
      BY <1>2, <3>1, <3>3 DEF IInv, WriterInv, CarriedInv
    <3> QED  BY <1>2, <3>1, <3>2, <3>3
  <2> QED  BY <1>4, <2>1 DEF IInv, WriterInv, CarriedInv
<1>10. ClosingInv'
  BY <1>4 DEF IInv, WriterInv, ClosingInv, Sealed, NothingInHand, Receivable
<1> QED  BY <1>2, <1>3, <1>7, <1>8, <1>9, <1>10

LEMMA ResizeSendStep ==
  ASSUME IInv, ResizeSend
  PROVE  IInv'
<1>1. UNCHANGED << producer, resizes, manager, close_seq, task, database, faults >>
  BY DEF ResizeSend
<1>2. UNCHANGED << forwarder, last_seq, teed, pending_gap, resizes, manager, close_seq, writer, open,
                   highest_seq_observed, writes, marker, account, markers, faults >>
  BY <1>1 DEF producer, task, database
<1>3. resize' = 0 /\ resize \in Nat /\ resize # 0
  BY DEF ResizeSend, IInv, WriterInv, TypeOK
<1>6. LossIsFailure'
  BY <1>2, LossKeeps
<1>4. CASE Receivable /\ HasRoom
  <2>1. PICK c : c = Command("resized", resize)
    OBVIOUS
  <2>2. c \in Commands /\ c.cmd = "resized" /\ Carried(c)
    BY <1>3, <2>1 DEF Command, Commands, Carried
  <2>3. queue' = Append(queue, c)
    BY <1>4, <2>1 DEF ResizeSend
  <2>4. /\ NothingUnaccounted' /\ ChunksContinuous' /\ WithinHardCap' /\ CarriedInv'
        /\ ClosingInv' /\ queue' \in Seq(Commands) /\ Len(queue') <= QueueCapacity
    BY <1>1, <1>2, <1>4, <2>2, <2>3, QueueMarker
  <2>5. TypeOK'
    BY <1>2, <1>3, <2>4 DEF IInv, WriterInv, TypeOK
  <2>6. BeforeShutdown'
    BY <1>2, <2>2, <2>3, QueuedNoShutdown
  <2> QED  BY <1>6, <2>4, <2>5, <2>6 DEF IInv, WriterInv
<1>5. CASE ~(Receivable /\ HasRoom)
  <2>1. queue' = queue
    BY <1>5 DEF ResizeSend
  <2>2. NothingUnaccounted' /\ ChunksContinuous' /\ WithinHardCap' /\ CarriedInv'
    BY <1>2, <2>1, SameLedger DEF Ledger
  <2>3. ClosingInv'
    BY <1>2, <2>1 DEF IInv, WriterInv, ClosingInv, Sealed, NothingInHand, Receivable
  <2>4. TypeOK'
    BY <1>2, <1>3, <2>1 DEF IInv, WriterInv, TypeOK
  <2>5. BeforeShutdown'
    BY <1>2, <2>1 DEF IInv, WriterInv, BeforeShutdown
  <2> QED  BY <1>6, <2>2, <2>3, <2>4, <2>5 DEF IInv, WriterInv
<1> QED  BY <1>4, <1>5

LEMMA ShutdownSendStep ==
  ASSUME IInv, ShutdownSend
  PROVE  IInv'
<1>1. UNCHANGED << producer, resize, resizes, close_seq, task, database, faults >>
  BY DEF ShutdownSend
<1>2. UNCHANGED << forwarder, last_seq, teed, pending_gap, resize, resizes, close_seq, writer, open,
                   highest_seq_observed, writes, marker, account, markers, faults >>
  BY <1>1 DEF producer, task, database
<1>3. manager' = "waiting" /\ HasRoom /\ Receivable
  BY DEF ShutdownSend, IInv, WriterInv, BeforeShutdown, Receivable
<1>4. PICK c : c = Command("shutdown", close_seq)
  OBVIOUS
<1>5. c \in Commands /\ c.cmd = "shutdown" /\ Carried(c)
  BY <1>4 DEF Command, Commands, Carried, IInv, WriterInv, TypeOK
<1>6. queue' = Append(queue, c)
  BY <1>4 DEF ShutdownSend
<1>7. /\ NothingUnaccounted' /\ ChunksContinuous' /\ WithinHardCap' /\ CarriedInv'
      /\ ClosingInv' /\ queue' \in Seq(Commands) /\ Len(queue') <= QueueCapacity
  BY <1>1, <1>2, <1>3, <1>5, <1>6, QueueMarker
<1>8. TypeOK'
  BY <1>2, <1>3, <1>7 DEF IInv, WriterInv, TypeOK
<1>9. BeforeShutdown'
  BY <1>3 DEF BeforeShutdown
<1>10. LossIsFailure'
  BY <1>2, LossKeeps
<1> QED  BY <1>7, <1>8, <1>9, <1>10 DEF IInv, WriterInv

\* The task is gone, whether it returned or was aborted.
LEMMA GoneStep ==
  ASSUME IInv, ShutdownTimeout \/ End
  PROVE  IInv'
<1>1. /\ queue' = << >> /\ writes' = << >> /\ marker' = << >> /\ open' = << >>
      /\ writer' \in {"ended", "aborted"}
  BY DEF ShutdownTimeout, End, NothingInHand, IInv, WriterInv, ClosingInv
<1>2. UNCHANGED << forwarder, last_seq, teed, pending_gap, resize, resizes, close_seq,
                   highest_seq_observed, account, markers, faults >>
  BY DEF ShutdownTimeout, End, producer, control, database
<1>3. manager' \in {"live", "sending", "waiting", "over", "dropped"}
  BY DEF ShutdownTimeout, End, control, IInv, WriterInv, TypeOK
<1>4. TypeOK'
  BY <1>1, <1>2, <1>3, WriterAssumption DEF IInv, WriterInv, TypeOK
<1>5. ChunksContinuous' /\ WithinHardCap' /\ CarriedInv'
  BY <1>1, <1>2 DEF IInv, WriterInv, ChunksContinuous, WithinHardCap, CarriedInv
<1>6. ClosingInv' /\ NothingUnaccounted'
  BY <1>1 DEF ClosingInv, NothingUnaccounted, NothingInHand, Receivable
<1>7. BeforeShutdown'
  BY DEF ShutdownTimeout, End, control, IInv, WriterInv, BeforeShutdown
<1>8. LossIsFailure'
  BY <1>2, LossKeeps
<1> QED  BY <1>4, <1>5, <1>6, <1>7, <1>8 DEF IInv, WriterInv

\* What the writer makes of a command: rows and a batch that go on from where
\* the open batch stood and reach a given frame.
Leaves(ws, batch, last) ==
  /\ Sound(ws) /\ GoodBatch(batch)
  /\ ConsecutiveFrom(Inserted + 1, ws)
  /\ ConsecutiveFrom(EndOf(ws, Inserted) + 1, batch)
  /\ EndOf(batch, EndOf(ws, Inserted)) = last

LEMMA OpenedGood ==
  ASSUME NEW c \in Commands, c.cmd = "output", Carried(c)
  PROVE  /\ GoodBatch(Opened(c)) /\ Opened(c) # << >>
         /\ \A a \in Nat : c.seq = a + 1 => ConsecutiveFrom(a + 1, Opened(c))
         /\ \A a \in Nat : EndOf(Opened(c), a) = c.seq
<1>1. PICK b : b = [from |-> c.seq, to |-> c.seq, bytes |-> c.len]
  OBVIOUS
<1>2. b \in Batches /\ b.from = c.seq /\ b.to = c.seq /\ b.bytes = c.len
  BY <1>1 DEF Batches, Commands
<1>3. Opened(c) = << b >>
  BY <1>1 DEF Opened
<1>4. GoodBatch(<< b >>) /\ << b >> # << >>
  <2>1. << b >> \in Seq(Batches) /\ Len(<< b >>) <= 1 /\ << b >>[1] = b /\ << b >> # << >>
    BY <1>2
  <2>2. 1 <= b.from /\ b.from <= b.to /\ b.bytes <= HardCap
    BY <1>2 DEF Carried, Commands
  <2> QED  BY <2>1, <2>2 DEF GoodBatch
<1> QED  BY <1>2, <1>3, <1>4, RunOne

LEMMA AppendedGood ==
  ASSUME NEW c \in Commands, c.cmd = "output", Carried(c), NEW batch, GoodBatch(batch),
         batch # << >>, ~Overshoots(batch, c), NEW a \in Nat, ConsecutiveFrom(a + 1, batch),
         c.seq = EndOf(batch, a) + 1
  PROVE  /\ GoodBatch(Appended(batch, c)) /\ Appended(batch, c) # << >>
         /\ ConsecutiveFrom(a + 1, Appended(batch, c))
         /\ EndOf(Appended(batch, c), a) = c.seq
<1>1. Len(batch) = 1 /\ batch[1] \in Batches
  BY Optional DEF GoodBatch
<1>2. PICK b : b = [from |-> batch[1].from, to |-> c.seq, bytes |-> batch[1].bytes + c.len]
  OBVIOUS
<1>3. /\ batch[1].from \in Nat /\ batch[1].to \in Nat /\ batch[1].bytes \in Nat
      /\ c.seq \in Nat /\ c.len \in Nat
  BY <1>1 DEF Batches, Commands
<1>4. b \in Batches /\ b.from = batch[1].from /\ b.to = c.seq /\ b.bytes = batch[1].bytes + c.len
  BY <1>2, <1>3 DEF Batches
<1>5. Appended(batch, c) = << b >>
  BY <1>2 DEF Appended
<1>6. batch[1].from = a + 1 /\ c.seq = batch[1].to + 1
  BY <1>1 DEF ConsecutiveFrom, EndOf
<1>7. GoodBatch(<< b >>) /\ << b >> # << >>
  <2>1. << b >> \in Seq(Batches) /\ Len(<< b >>) <= 1 /\ << b >>[1] = b /\ << b >> # << >>
    BY <1>4
  <2>2. b.bytes <= HardCap
    BY <1>3, <1>4, WriterAssumption DEF Overshoots
  <2>3. 1 <= b.from /\ b.from <= b.to
    BY <1>3, <1>4, <1>6 DEF GoodBatch
  <2> QED  BY <2>1, <2>2, <2>3 DEF GoodBatch
<1> QED  BY <1>4, <1>5, <1>6, <1>7, RunOne

LEMMA TakeOutputLeaves ==
  ASSUME IInv, writes = << >>, NEW c \in Commands, c.cmd = "output", Carried(c),
         ConsecutiveFrom(Flushed + 1, open), First(c) = Batched + 1, TakeOutput(c)
  PROVE  Leaves(writes', open', c.seq)
<1>1. Flushed = Inserted /\ Inserted \in Nat /\ GoodBatch(open)
  BY Parts DEF Flushed, EndOf
<1>2. Batched = EndOf(open, Inserted) /\ Batched \in Nat
  BY <1>1, Parts DEF Batched
<1>3. /\ Sound(Flush(open)) /\ ConsecutiveFrom(Inserted + 1, Flush(open))
      /\ EndOf(Flush(open), Inserted) = Batched
  BY <1>1, <1>2, Flushing
<1>4. c.seq \in Nat
  BY DEF Commands
<1> DEFINE before == BeforeFrame(c)
           spill == Overshoots(before.batch, c)
           batch == IF before.batch = << >> \/ spill THEN Opened(c) ELSE Appended(before.batch, c)
           full == batch[1].bytes >= Target
           pre == before.rows \o (IF spill THEN Flush(before.batch) ELSE << >>)
<1>5. /\ writes' = pre \o (IF full THEN Flush(batch) ELSE << >>)
      /\ open' = IF full THEN << >> ELSE batch
  BY DEF TakeOutput
<1>6. Leaves(pre, batch, c.seq)
  <2>1. CASE c.gap # << >>
    <3>1. PICK g : g = Row("replay_gap", c.gap[1].from, c.gap[1].to, 0)
      OBVIOUS
    <3>2. /\ c.gap[1].from \in Nat /\ c.gap[1].to \in Nat
          /\ 1 <= c.gap[1].from /\ c.gap[1].from <= c.gap[1].to /\ c.gap[1].to + 1 = c.seq
          /\ c.gap[1].from = Batched + 1
      <4>1. c.gap \in Seq(Spans) /\ Len(c.gap) <= 1
        BY DEF Commands, Carried
      <4>2. c.gap[1] \in Spans
        BY <2>1, <4>1, Optional
      <4> QED  BY <2>1, <4>2 DEF Spans, Carried, First
    <3>3. /\ g \in Rows /\ g.kind = "replay_gap" /\ g.from = c.gap[1].from /\ g.to = c.gap[1].to
          /\ g.bytes = 0
      BY <3>1, <3>2 DEF Row, Rows
    <3>4. Sound(<< g >>)
      <4>1. RowSchema(g) /\ g.bytes <= HardCap
        BY <3>2, <3>3, WriterAssumption DEF RowSchema
      <4> QED  BY <3>3, <4>1, SoundOne
    <3>5. ConsecutiveFrom(Batched + 1, << g >>) /\ EndOf(<< g >>, Batched) = c.gap[1].to
      BY <1>2, <3>2, <3>3, RunOne
    <3>6. before.rows = Flush(open) \o << g >> /\ before.batch = << >>
      BY <2>1, <3>1 DEF BeforeFrame
    <3>7. Sound(Flush(open) \o << g >>)
      BY <1>3, <3>4, SoundConcat
    <3>8. ~spill /\ batch = Opened(c)
      BY <3>6 DEF Overshoots
    <3>9. pre = Flush(open) \o << g >>
      <4>1. pre = (Flush(open) \o << g >>) \o << >>
        BY <3>6, <3>8
      <4> QED  BY <3>7, <4>1, ConcatEmptySeq DEF Sound
    <3>10. /\ ConsecutiveFrom(Inserted + 1, Flush(open) \o << g >>)
           /\ EndOf(Flush(open) \o << g >>, Inserted) = c.gap[1].to
      BY <1>1, <1>3, <3>4, <3>5, RunConcat DEF Sound
    <3>11. /\ GoodBatch(Opened(c)) /\ ConsecutiveFrom(c.gap[1].to + 1, Opened(c))
           /\ EndOf(Opened(c), c.gap[1].to) = c.seq
      BY <3>2, OpenedGood
    <3> QED  BY <3>7, <3>8, <3>9, <3>10, <3>11 DEF Leaves
  <2>2. CASE c.gap = << >>
    <3>1. before.rows = << >> /\ before.batch = open /\ c.seq = Batched + 1
      BY <2>2 DEF BeforeFrame, First
    <3>2. CASE open = << >>
      <4>1. ~spill /\ batch = Opened(c)
        BY <3>1, <3>2 DEF Overshoots
      <4>2. pre = << >>
        BY <3>1, <4>1, ConcatEmptySeq
      <4>3. Batched = Inserted
        BY <1>2, <3>2 DEF EndOf
      <4>4. /\ GoodBatch(Opened(c)) /\ ConsecutiveFrom(Inserted + 1, Opened(c))
            /\ EndOf(Opened(c), Inserted) = c.seq
        BY <1>1, <3>1, <4>3, OpenedGood
      <4> QED  BY <1>1, <4>1, <4>2, <4>4, SoundNone, RunNone DEF Leaves
    <3>3. CASE spill
      <4>1. batch = Opened(c)
        BY <3>3
      <4>2. pre = Flush(open)
        BY <1>3, <3>1, <3>3, ConcatEmptySeq DEF Sound
      <4>3. /\ GoodBatch(Opened(c)) /\ ConsecutiveFrom(Batched + 1, Opened(c))
            /\ EndOf(Opened(c), Batched) = c.seq
        BY <1>2, <3>1, OpenedGood
      <4> QED  BY <1>3, <4>1, <4>2, <4>3 DEF Leaves
    <3>4. CASE open # << >> /\ ~spill
      <4>1. batch = Appended(open, c)
        BY <3>1, <3>4
      <4>2. pre = << >>
        BY <3>1, <3>4, ConcatEmptySeq
      <4>3. ~Overshoots(open, c)
        BY <3>1, <3>4
      <4>4. /\ GoodBatch(Appended(open, c)) /\ ConsecutiveFrom(Inserted + 1, Appended(open, c))
            /\ EndOf(Appended(open, c), Inserted) = c.seq
        BY <1>1, <1>2, <3>1, <3>4, <4>3, AppendedGood
      <4> QED  BY <1>1, <4>1, <4>2, <4>4, SoundNone, RunNone DEF Leaves
    <3> QED  BY <3>2, <3>3, <3>4
  <2> QED  BY <2>1, <2>2
<1> HIDE DEF batch, pre, full
<1>7. EndOf(pre, Inserted) \in Nat /\ pre \in Seq(Rows)
  BY <1>1, <1>6, EndOfRows DEF Leaves, Sound
<1>8. CASE full
  <2>1. writes' = pre \o Flush(batch) /\ open' = << >>
    BY <1>5, <1>8
  <2>2. /\ Sound(Flush(batch)) /\ ConsecutiveFrom(EndOf(pre, Inserted) + 1, Flush(batch))
        /\ EndOf(Flush(batch), EndOf(pre, Inserted)) = c.seq
    BY <1>6, <1>7, Flushing DEF Leaves
  <2>3. Sound(writes')
    BY <1>6, <2>1, <2>2, SoundConcat DEF Leaves
  <2>4. ConsecutiveFrom(Inserted + 1, writes') /\ EndOf(writes', Inserted) = c.seq
    BY <1>1, <1>6, <1>7, <2>1, <2>2, RunConcat DEF Leaves, Sound
  <2>5. GoodBatch(<< >>)
    BY DEF GoodBatch
  <2> QED  BY <1>4, <2>1, <2>3, <2>4, <2>5, RunNone DEF Leaves
<1>9. CASE ~full
  <2>1. writes' = pre /\ open' = batch
    BY <1>5, <1>7, <1>9, ConcatEmptySeq
  <2> QED  BY <1>6, <2>1
<1> QED  BY <1>8, <1>9

\* The task turns what it holds and a part of the queue into rows to insert.
LEMMA HandOver ==
  ASSUME IInv, UNCHANGED << producer, account >>, NEW last \in Nat,
         Leaves(writes', open', last), Receivable,
         QueueHolds(queue', last, Queued), \A i \in DOMAIN queue' : Carried(queue'[i])
  PROVE  /\ NothingUnaccounted' /\ ChunksContinuous' /\ WithinHardCap' /\ CarriedInv'
         /\ writes' \in Seq(Rows) /\ \A i \in DOMAIN writes' : RowSchema(writes'[i])
         /\ open' \in Seq(Batches) /\ Len(open') <= 1
<1>1. UNCHANGED << teed, pending_gap, account >>
  BY DEF producer
<1>2. Inserted' = Inserted /\ Queued' = Queued
  BY <1>1 DEF Inserted, Queued
<1>3. Flushed' = EndOf(writes', Inserted)
  BY <1>2 DEF Flushed
<1>4. Batched' = last
  BY <1>3 DEF Batched, Leaves
<1>5. NothingUnaccounted'
  BY <1>1, <1>2, <1>3, <1>4 DEF IInv, NothingUnaccounted, Leaves
<1>6. ChunksContinuous'
  BY <1>1 DEF IInv, WriterInv, ChunksContinuous
<1>7. open' \in Seq(Batches) /\ Len(open') <= 1
  BY DEF Leaves, GoodBatch
<1>8. \A i \in DOMAIN open' : open'[i].bytes <= HardCap
  <2>1. CASE open' # << >>
    BY <1>7, <2>1, Optional DEF Leaves, GoodBatch
  <2>2. CASE open' = << >>
    BY <2>2
  <2> QED  BY <2>1, <2>2
<1>9. WithinHardCap'
  <2>1. \A i \in DOMAIN writes' : writes'[i].bytes <= HardCap
    BY DEF Leaves, Sound
  <2> QED  BY <1>1, <1>8, <2>1 DEF IInv, WriterInv, WithinHardCap
<1>10. CarriedInv'
  BY <1>1 DEF IInv, WriterInv, CarriedInv, Leaves, GoodBatch
<1> QED  BY <1>5, <1>6, <1>7, <1>9, <1>10 DEF Leaves, Sound

\* Flushing the open batch ahead of a marker.
LEMMA FlushLeaves ==
  ASSUME IInv, Receivable, writes = << >>, writes' = Flush(open), open' = << >>
  PROVE  Leaves(writes', open', Batched)
<1>1. Flushed = Inserted /\ Inserted \in Nat /\ GoodBatch(open) /\ Batched \in Nat
  BY Parts DEF Flushed, EndOf
<1>2. Batched = EndOf(open, Inserted) /\ ConsecutiveFrom(Inserted + 1, open)
  BY <1>1 DEF Batched, IInv, NothingUnaccounted
<1>3. /\ Sound(writes') /\ ConsecutiveFrom(Inserted + 1, writes')
      /\ EndOf(writes', Inserted) = Batched
  BY <1>1, <1>2, Flushing
<1>4. GoodBatch(<< >>)
  BY DEF GoodBatch
<1> QED  BY <1>1, <1>3, <1>4, RunNone DEF Leaves

LEMMA ReceiveStep ==
  ASSUME IInv, Receive
  PROVE  IInv'
<1>1. /\ writer \in {"recv", "drain"} /\ writes = << >> /\ marker = << >> /\ queue # << >>
      /\ queue' = Tail(queue)
      /\ UNCHANGED << producer, control, database, faults >>
  BY DEF Receive, NothingInHand
<1>2. UNCHANGED << forwarder, last_seq, teed, pending_gap, resize, resizes, manager, close_seq,
                   account, markers, faults >>
  BY <1>1 DEF producer, control, database
<1>3. Receivable
  BY <1>1 DEF Receivable
<1>4. queue \in Seq(Commands) /\ Len(queue) <= QueueCapacity /\ highest_seq_observed \in Nat
  BY DEF IInv, WriterInv, TypeOK
<1>5. /\ queue' \in Seq(Commands) /\ Len(queue') = Len(queue) - 1 /\ Len(queue) \in Nat \ {0}
      /\ Head(queue) = queue[1] /\ Head(queue) \in Commands
  BY <1>1, <1>4, TailQueue
<1>6. DOMAIN queue = 1 .. Len(queue) /\ DOMAIN queue' = 1 .. Len(queue) - 1
  BY <1>4, <1>5, LenProperties
<1>7. \A i \in DOMAIN queue' : i + 1 \in DOMAIN queue /\ queue'[i] = queue[i + 1]
  <2>1. \A i \in 1 .. Len(Tail(queue)) : Tail(queue)[i] = queue[i + 1]
    BY <1>1, <1>4, HeadTailProperties
  <2> QED  BY <1>1, <1>5, <1>6, <2>1
<1>8. \A i \in DOMAIN queue' : Carried(queue'[i])
  BY <1>7 DEF IInv, WriterInv, CarriedInv
<1>9. PICK c : c = Head(queue)
  OBVIOUS
<1>10. c \in Commands /\ Carried(c) /\ c.seq \in Nat
  <2>1. 1 \in DOMAIN queue
    BY <1>5, <1>6
  <2> QED  BY <1>5, <1>9, <2>1 DEF IInv, WriterInv, CarriedInv, Commands
<1>11. Inserted \in Nat /\ Flushed \in Nat /\ Batched \in Nat /\ Queued \in Nat /\ GoodBatch(open)
  BY Parts, GapParts
<1>12. /\ ConsecutiveFrom(Flushed + 1, open) /\ QueueHolds(queue, Batched, Queued)
  BY <1>3 DEF IInv, NothingUnaccounted
<1>13. /\ \E last \in Nat : Leaves(writes', open', last) /\ QueueHolds(queue', last, Queued)
       /\ writer' \in {"recv", "drain"}
       /\ writer' = "recv" \/ c.cmd = "shutdown" \/ writer = "drain"
       /\ \/ marker' = << >>
          \/ c.cmd \in {"started", "resized"} /\ marker' = << Marker(c.cmd, c.seq) >>
  <2>1. CASE c.cmd = "output" /\ TakeOutput(c)
    <3>1. First(c) <= c.seq
      <4>1. CASE c.gap # << >>
        <5>1. c.gap[1] \in Spans
          BY <1>10, <2>1, <4>1, Optional DEF Carried, Commands
        <5> QED  BY <1>10, <2>1, <4>1, <5>1 DEF Carried, First, Spans
      <4> QED  BY <1>10, <4>1 DEF First
    <3>2. First(c) = Batched + 1 /\ QueueHolds(queue', c.seq, Queued)
      BY <1>1, <1>4, <1>9, <1>11, <1>12, <2>1, <3>1, HoldsTailOutput
    <3>3. Leaves(writes', open', c.seq)
      BY <1>1, <1>10, <1>12, <2>1, <3>2, TakeOutputLeaves
    <3>4. writer' = writer /\ marker' = marker
      BY <2>1 DEF TakeOutput
    <3> QED  BY <1>1, <1>10, <3>2, <3>3, <3>4
  <2>2. CASE c.cmd \in {"started", "resized"} /\ TakeMarker(c)
    <3>1. Leaves(writes', open', Batched)
      BY <1>1, <1>3, <2>2, FlushLeaves DEF TakeMarker
    <3>2. QueueHolds(queue', Batched, Queued)
      BY <1>1, <1>4, <1>9, <1>11, <1>12, <2>2, HoldsTailOther
    <3> QED  BY <1>1, <1>11, <2>2, <3>1, <3>2 DEF TakeMarker
  <2>3. CASE c.cmd = "shutdown" /\ TakeShutdown
    <3>1. writes' = << >> /\ open' = open /\ writer' = "drain" /\ marker' = << >>
      BY <1>1, <2>3 DEF TakeShutdown
    <3>2. Leaves(<< >>, open, Batched)
      <4>1. Flushed = Inserted /\ Batched = EndOf(open, Inserted)
        BY <1>1 DEF Flushed, Batched, EndOf
      <4> QED  BY <1>11, <1>12, <4>1, SoundNone, RunNone DEF Leaves
    <3>3. QueueHolds(queue', Batched, Queued)
      BY <1>1, <1>4, <1>9, <1>11, <1>12, <2>3, HoldsTailOther
    <3> QED  BY <1>11, <2>3, <3>1, <3>2, <3>3
  <2> QED  BY <1>9, <2>1, <2>2, <2>3 DEF Receive
<1>14. /\ NothingUnaccounted' /\ ChunksContinuous' /\ WithinHardCap' /\ CarriedInv'
       /\ writes' \in Seq(Rows) /\ \A i \in DOMAIN writes' : RowSchema(writes'[i])
       /\ open' \in Seq(Batches) /\ Len(open') <= 1
  <2>1. PICK last \in Nat : Leaves(writes', open', last) /\ QueueHolds(queue', last, Queued)
    BY <1>13
  <2> QED  BY <1>1, <1>2, <1>3, <1>8, <2>1, HandOver
<1>15. /\ marker' \in Seq(Markers) /\ Len(marker') <= 1
       /\ \A i \in DOMAIN marker' : MarkerSchema(marker'[i])
       /\ marker' # << >> => marker'[1].kind # "closed"
  <2>1. CASE marker' = << >>
    BY <2>1
  <2>2. CASE c.cmd \in {"started", "resized"} /\ marker' = << Marker(c.cmd, c.seq) >>
    <3>1. PICK m : m = Marker(c.cmd, c.seq)
      OBVIOUS
    <3>2. m \in Markers /\ MarkerSchema(m) /\ m.kind # "closed"
      BY <1>10, <2>2, <3>1 DEF Marker, Markers, MarkerSchema, Carried
    <3> QED  BY <2>2, <3>1, <3>2
  <2> QED  BY <1>13, <2>1, <2>2
<1>16. highest_seq_observed' \in Nat
  <2>1. highest_seq_observed' \in {MaxOf(highest_seq_observed, c.seq), highest_seq_observed}
    BY <1>9 DEF Receive
  <2> QED  BY <1>4, <1>10, <2>1 DEF MaxOf
<1>17. TypeOK'
  <2>1. Len(queue') <= QueueCapacity
    BY <1>4, <1>5, WriterAssumption
  <2> QED  BY <1>2, <1>5, <1>13, <1>14, <1>15, <1>16, <2>1 DEF IInv, WriterInv, TypeOK
<1>18. ClosingInv'
  <2>1. ~Sealed'
    BY <1>1, <1>2 DEF IInv, WriterInv, ClosingInv, Sealed
  <2> QED  BY <1>13, <1>15, <2>1 DEF ClosingInv, Receivable
<1>19. BeforeShutdown'
  <2>1. ASSUME manager' \in {"live", "sending"}
        PROVE  writer' = "recv" /\ \A i \in DOMAIN queue' : queue'[i].cmd # "shutdown"
    <3>1. writer = "recv" /\ \A i \in DOMAIN queue : queue[i].cmd # "shutdown"
      BY <1>2, <2>1 DEF IInv, WriterInv, BeforeShutdown
    <3>2. 1 \in DOMAIN queue
      BY <1>5, <1>6
    <3> QED  BY <1>5, <1>7, <1>9, <1>13, <3>1, <3>2
  <2> QED  BY <2>1 DEF BeforeShutdown
<1>20. LossIsFailure'
  BY <1>2, LossKeeps
<1> QED  BY <1>14, <1>17, <1>18, <1>19, <1>20 DEF IInv, WriterInv

LEMMA FinishStep ==
  ASSUME IInv, Finish
  PROVE  IInv'
<1>1. /\ writer \in {"recv", "drain"} /\ writes = << >> /\ marker = << >>
      /\ writes' = Flush(open) /\ open' = << >> /\ writer' = "closing"
      /\ marker' = << Marker("closed", ClosedAt) >>
      /\ UNCHANGED << producer, control, queue, highest_seq_observed, database, faults >>
  BY DEF Finish, NothingInHand
<1>2. UNCHANGED << forwarder, last_seq, teed, pending_gap, resize, resizes, manager, close_seq,
                   account, markers, faults, queue, highest_seq_observed >>
  BY <1>1 DEF producer, control, database
<1>3. Receivable
  BY <1>1 DEF Receivable
<1>4. Batched \in Nat /\ QueueHolds(queue, Batched, Queued)
  BY <1>3, Parts DEF IInv, NothingUnaccounted
<1>5. Leaves(writes', open', Batched)
  BY <1>1, <1>3, FlushLeaves
<1>6. \A i \in DOMAIN queue' : Carried(queue'[i])
  BY <1>2 DEF IInv, WriterInv, CarriedInv
<1>7. /\ NothingUnaccounted' /\ ChunksContinuous' /\ WithinHardCap' /\ CarriedInv'
      /\ writes' \in Seq(Rows) /\ \A i \in DOMAIN writes' : RowSchema(writes'[i])
      /\ open' \in Seq(Batches) /\ Len(open') <= 1
  BY <1>1, <1>2, <1>3, <1>4, <1>5, <1>6, HandOver
<1>8. ClosedAt \in Nat /\ ClosedAt >= 1
  BY DEF ClosedAt, MaxOf, IInv, WriterInv, TypeOK
<1>9. PICK m : m = Marker("closed", ClosedAt)
  OBVIOUS
<1>10. m \in Markers /\ MarkerSchema(m)
  BY <1>8, <1>9 DEF Marker, Markers, MarkerSchema
<1>11. /\ marker' \in Seq(Markers) /\ Len(marker') <= 1
       /\ \A i \in DOMAIN marker' : MarkerSchema(marker'[i])
  BY <1>1, <1>9, <1>10
<1>12. TypeOK'
  BY <1>1, <1>2, <1>7, <1>11 DEF IInv, WriterInv, TypeOK
<1>13. ClosingInv'
  <2>1. ~Sealed'
    BY <1>1, <1>2 DEF IInv, WriterInv, ClosingInv, Sealed
  <2> QED  BY <1>1, <2>1 DEF ClosingInv, Receivable
<1>14. BeforeShutdown'
  <2>1. manager \notin {"live", "sending"}
    BY DEF Finish, SendersGone, IInv, WriterInv, BeforeShutdown
  <2> QED  BY <1>2, <2>1 DEF BeforeShutdown
<1>15. LossIsFailure'
  BY <1>2, LossKeeps
<1> QED  BY <1>7, <1>12, <1>13, <1>14, <1>15 DEF IInv, WriterInv

\* The head of the rows to insert, while there are any.
LEMMA HeadRow ==
  ASSUME IInv, writes # << >>
  PROVE  /\ Receivable /\ ~Sealed
         /\ Head(writes) \in Rows /\ RowSchema(Head(writes)) /\ Head(writes).bytes <= HardCap
         /\ Head(writes).to \in Nat /\ Head(writes).from = Inserted + 1
         /\ Sound(Tail(writes)) /\ ConsecutiveFrom(Head(writes).to + 1, Tail(writes))
         /\ EndOf(Tail(writes), Head(writes).to) = Flushed
<1>1. Receivable /\ ~Sealed
  BY DEF IInv, WriterInv, ClosingInv, NothingInHand
<1>2. Sound(writes) /\ Inserted \in Nat
  BY Parts
<1>3. /\ Sound(Tail(writes)) /\ Head(writes) \in Rows /\ RowSchema(Head(writes))
      /\ Head(writes).bytes <= HardCap
  BY <1>2, SoundTail
<1>4. ConsecutiveFrom(Inserted + 1, writes)
  BY <1>1 DEF IInv, NothingUnaccounted
<1>5. /\ Head(writes).from = Inserted + 1
      /\ ConsecutiveFrom(Head(writes).to + 1, Tail(writes))
      /\ EndOf(Tail(writes), Head(writes).to) = Flushed
  BY <1>2, <1>4, RunTail DEF Sound, Flushed
<1> QED  BY <1>1, <1>3, <1>5 DEF Rows

\* The head of the rows to insert comes to its end: a row for its frames, or a loss.
LEMMA Disposing ==
  ASSUME IInv, writes # << >>, NEW r \in Fates, RowSchema(r), r.bytes <= HardCap,
         r.from = Head(writes).from, r.to = Head(writes).to,
         account' = Append(account, r), writes' = Tail(writes),
         UNCHANGED << producer, control, queue, writer, open, highest_seq_observed, marker, markers >>,
         \/ r.kind # "lost" /\ faults' = faults
         \/ faults < MaxFaults /\ faults' = faults + 1
  PROVE  IInv'
<1>2. UNCHANGED << forwarder, last_seq, teed, pending_gap, resize, resizes, manager, close_seq,
                   queue, writer, open, highest_seq_observed, marker, markers >>
  BY DEF producer, control
<1>4. /\ Receivable /\ ~Sealed /\ r.to \in Nat /\ r.from = Inserted + 1
      /\ Sound(writes') /\ ConsecutiveFrom(r.to + 1, writes') /\ EndOf(writes', r.to) = Flushed
  BY HeadRow
<1>5. Kept(account) /\ account \in Seq(Fates) /\ Inserted \in Nat
  BY Parts DEF Kept
<1>6. Kept(account')
  BY <1>5, KeptAppend
<1>7. ConsecutiveFrom(1, account') /\ Inserted' = r.to
  <2>1. ConsecutiveFrom(0 + 1, account) /\ r.from = EndOf(account, 0) + 1
    BY <1>4 DEF IInv, WriterInv, ChunksContinuous, Inserted
  <2>2. ConsecutiveFrom(0 + 1, Append(account, r)) /\ EndOf(Append(account, r), 0) = r.to
    BY <1>5, <2>1, RunAppend
  <2> QED  BY <2>2 DEF Inserted
<1>8. Flushed' = Flushed
  BY <1>4, <1>7 DEF Flushed
<1>9. Batched' = Batched /\ Queued' = Queued
  BY <1>2, <1>8 DEF Batched, Queued
<1>10. NothingUnaccounted'
  BY <1>2, <1>4, <1>7, <1>8, <1>9 DEF IInv, NothingUnaccounted, Receivable
<1>11. ChunksContinuous' /\ LossIsFailure'
  <2>1. LossIsFailure'
    BY LossGrows
  <2> QED  BY <1>7, <2>1 DEF ChunksContinuous
<1>12. WithinHardCap'
  BY <1>2, <1>4, <1>6 DEF IInv, WriterInv, WithinHardCap, Sound, Kept
<1>13. CarriedInv' /\ BeforeShutdown'
  BY <1>2 DEF IInv, WriterInv, CarriedInv, BeforeShutdown
<1>14. ClosingInv'
  BY <1>2, <1>4 DEF IInv, WriterInv, ClosingInv, Sealed, Receivable
<1>15. TypeOK'
  <2>1. faults' \in 0 .. MaxFaults
    BY WriterAssumption DEF IInv, WriterInv, TypeOK
  <2> QED  BY <1>2, <1>4, <1>6, <2>1 DEF IInv, WriterInv, TypeOK, Sound, Kept
<1> QED  BY <1>10, <1>11, <1>12, <1>13, <1>14, <1>15 DEF IInv, WriterInv

LEMMA InsertStep ==
  ASSUME IInv, Insert
  PROVE  IInv'
<1>1. /\ writes # << >> /\ account' = Append(account, Head(writes)) /\ writes' = Tail(writes)
      /\ UNCHANGED << producer, control, queue, writer, open, highest_seq_observed, marker, markers,
                      faults >>
  BY DEF Insert
<1>2. PICK r : r = Head(writes)
  OBVIOUS
<1>3. r \in Rows /\ RowSchema(r) /\ r.bytes <= HardCap
  BY <1>1, <1>2, HeadRow
<1>4. r \in Fates /\ r.kind # "lost"
  BY <1>3 DEF Rows, Fates
<1> QED  BY <1>1, <1>2, <1>3, <1>4, Disposing

\* A chunk that could not be inserted leaves a gap marker for the same frames.
LEMMA ChunkFails ==
  ASSUME IInv, InsertFails, Head(writes).kind = "chunk"
  PROVE  IInv'
<1>1. /\ writes # << >> /\ faults < MaxFaults /\ faults' = faults + 1
      /\ UNCHANGED << producer, control, queue, writer, open, highest_seq_observed, marker,
                      account, markers >>
  BY DEF InsertFails
<1>2. UNCHANGED << forwarder, last_seq, teed, pending_gap, resize, resizes, manager, close_seq,
                   queue, writer, open, highest_seq_observed, marker, account, markers >>
  BY <1>1 DEF producer, control
<1>3. PICK r : r = Head(writes)
  OBVIOUS
<1>4. /\ Receivable /\ ~Sealed /\ r \in Rows /\ RowSchema(r) /\ r.bytes <= HardCap
      /\ r.to \in Nat /\ r.from = Inserted + 1 /\ Sound(Tail(writes))
      /\ ConsecutiveFrom(r.to + 1, Tail(writes)) /\ EndOf(Tail(writes), r.to) = Flushed
  BY <1>1, <1>3, HeadRow
<1>5. r.kind = "chunk"
  BY <1>3
<1>6. PICK g : g = Row("replay_gap", r.from, r.to, 0)
  OBVIOUS
<1>7. g \in Rows /\ g.kind = "replay_gap" /\ g.from = r.from /\ g.to = r.to /\ g.bytes = 0
  BY <1>4, <1>6 DEF Row, Rows
<1>8. writes' = << g >> \o Tail(writes)
  BY <1>3, <1>5, <1>6 DEF InsertFails
<1>9. Sound(<< g >>)
  <2>1. RowSchema(g) /\ g.bytes <= HardCap
    BY <1>4, <1>7, WriterAssumption DEF RowSchema
  <2> QED  BY <1>7, <2>1, SoundOne
<1>10. Sound(writes')
  BY <1>4, <1>8, <1>9, SoundConcat
<1>11. ConsecutiveFrom(Inserted + 1, writes') /\ EndOf(writes', Inserted) = Flushed
  <2>1. Inserted \in Nat
    BY Parts
  <2>2. ConsecutiveFrom(Inserted + 1, << g >>) /\ EndOf(<< g >>, Inserted) = r.to
    BY <1>4, <1>7, <2>1, RunOne
  <2>3. << g >> \in Seq(Rows) /\ Tail(writes) \in Seq(Rows)
    BY <1>4, <1>9 DEF Sound
  <2>4. ConsecutiveFrom(EndOf(<< g >>, Inserted) + 1, Tail(writes))
    BY <1>4, <2>2
  <2>5. /\ ConsecutiveFrom(Inserted + 1, << g >> \o Tail(writes))
        /\ EndOf(<< g >> \o Tail(writes), Inserted) = EndOf(Tail(writes), r.to)
    <3>1. PICK gs : gs = << g >>
      OBVIOUS
    <3>2. PICK rest : rest = Tail(writes)
      OBVIOUS
    <3>3. /\ gs \in Seq(Rows) /\ rest \in Seq(Rows) /\ ConsecutiveFrom(Inserted + 1, gs)
          /\ ConsecutiveFrom(EndOf(gs, Inserted) + 1, rest) /\ EndOf(gs, Inserted) = r.to
      BY <2>2, <2>3, <2>4, <3>1, <3>2
    <3>4. /\ ConsecutiveFrom(Inserted + 1, gs \o rest)
          /\ EndOf(gs \o rest, Inserted) = EndOf(rest, EndOf(gs, Inserted))
      BY <2>1, <3>3, RunConcat
    <3> QED  BY <3>1, <3>2, <3>3, <3>4
  <2> QED  BY <1>4, <1>8, <2>5
<1>12. Inserted' = Inserted /\ Flushed' = Flushed /\ Batched' = Batched /\ Queued' = Queued
  <2>1. Inserted' = Inserted
    BY <1>2 DEF Inserted
  <2>2. Flushed' = Flushed
    BY <1>11, <2>1 DEF Flushed
  <2> QED  BY <1>2, <2>1, <2>2 DEF Batched, Queued
<1>13. NothingUnaccounted'
  BY <1>2, <1>4, <1>11, <1>12 DEF IInv, NothingUnaccounted, Receivable
<1>14. ChunksContinuous' /\ WithinHardCap'
  BY <1>2, <1>10 DEF IInv, WriterInv, ChunksContinuous, WithinHardCap, Sound
<1>15. CarriedInv' /\ BeforeShutdown'
  BY <1>2 DEF IInv, WriterInv, CarriedInv, BeforeShutdown
<1>16. ClosingInv'
  BY <1>2, <1>4 DEF IInv, WriterInv, ClosingInv, Sealed, Receivable
<1>17. TypeOK'
  <2>1. faults' \in 0 .. MaxFaults
    BY <1>1, WriterAssumption DEF IInv, WriterInv, TypeOK
  <2> QED  BY <1>2, <1>10, <2>1 DEF IInv, WriterInv, TypeOK, Sound
<1>18. LossIsFailure'
  BY <1>1, LossKeeps
<1> QED  BY <1>13, <1>14, <1>15, <1>16, <1>17, <1>18 DEF IInv, WriterInv

\* A gap marker that could not be inserted is a silent loss.
LEMMA GapFails ==
  ASSUME IInv, InsertFails, Head(writes).kind # "chunk"
  PROVE  /\ writes # << >> /\ faults < MaxFaults /\ faults' = faults + 1
         /\ UNCHANGED << producer, control, queue, writer, open, highest_seq_observed, marker,
                         markers >>
         /\ writes' = Tail(writes)
         /\ \E g \in Fates : /\ RowSchema(g) /\ g.bytes <= HardCap /\ g.kind = "lost"
                             /\ g.from = Head(writes).from /\ g.to = Head(writes).to
                             /\ account' = Append(account, g)
<1>1. /\ writes # << >> /\ faults < MaxFaults /\ faults' = faults + 1
      /\ UNCHANGED << producer, control, queue, writer, open, highest_seq_observed, marker,
                      markers >>
  BY DEF InsertFails
<1>2. PICK r : r = Head(writes)
  OBVIOUS
<1>3. r \in Rows /\ RowSchema(r)
  BY <1>1, <1>2, HeadRow
<1>4. PICK g : g = Row("lost", r.from, r.to, 0)
  OBVIOUS
<1>5. g \in Fates /\ g.kind = "lost" /\ g.from = r.from /\ g.to = r.to /\ g.bytes = 0
  BY <1>3, <1>4 DEF Row, Rows, Fates
<1>6. RowSchema(g) /\ g.bytes <= HardCap
  BY <1>3, <1>5, WriterAssumption DEF RowSchema
<1>7. writes' = Tail(writes) /\ account' = Append(account, g)
  BY <1>2, <1>4 DEF InsertFails
<1> QED  BY <1>1, <1>2, <1>5, <1>6, <1>7

LEMMA InsertFailsStep ==
  ASSUME IInv, InsertFails
  PROVE  IInv'
<1>1. CASE Head(writes).kind = "chunk"
  BY <1>1, ChunkFails
<1>2. CASE Head(writes).kind # "chunk"
  <2>1. PICK g \in Fates : /\ RowSchema(g) /\ g.bytes <= HardCap /\ g.kind = "lost"
                           /\ g.from = Head(writes).from /\ g.to = Head(writes).to
                           /\ account' = Append(account, g)
    BY <1>2, GapFails
  <2>2. /\ writes # << >> /\ faults < MaxFaults /\ faults' = faults + 1
        /\ UNCHANGED << producer, control, queue, writer, open, highest_seq_observed, marker,
                        markers >>
        /\ writes' = Tail(writes)
    BY <1>2, GapFails
  <2> QED  BY <2>1, <2>2, Disposing
<1> QED  BY <1>1, <1>2

LEMMA MarkerStep ==
  ASSUME IInv, InsertMarker \/ MarkerFails
  PROVE  IInv'
<1>1. /\ writes = << >> /\ marker # << >> /\ marker' = << >>
      /\ markers' = markers \/ markers' = markers \o marker
      /\ UNCHANGED << producer, control, queue, writer, open, highest_seq_observed, writes, account >>
  BY DEF InsertMarker, MarkerFails, database
<1>2. UNCHANGED << forwarder, last_seq, teed, pending_gap, resize, resizes, manager, close_seq,
                   queue, writer, open, highest_seq_observed, writes, account >>
  BY <1>1 DEF producer, control
<1>3. NothingUnaccounted' /\ ChunksContinuous' /\ WithinHardCap' /\ CarriedInv'
  BY <1>2, SameLedger DEF Ledger
<1>4. faults' \in 0 .. MaxFaults
  BY WriterAssumption DEF InsertMarker, MarkerFails, IInv, WriterInv, TypeOK
<1>5. marker \in Seq(Markers) /\ markers \in Seq(Markers) /\ Len(marker) = 1 /\ DOMAIN marker = {1}
  BY <1>1, Optional DEF IInv, WriterInv, TypeOK
<1>6. /\ markers' \in Seq(Markers)
      /\ \A i \in DOMAIN markers' :
           \/ i \in DOMAIN markers /\ markers'[i] = markers[i]
           \/ markers'[i] = marker[1]
  <2>1. CASE markers' = markers
    BY <1>5, <2>1
  <2>2. CASE markers' = markers \o marker
    <3>1. /\ markers' \in Seq(Markers) /\ Len(markers') = Len(markers) + 1
          /\ \A i \in 1 .. Len(markers) + 1 :
               markers'[i] = IF i <= Len(markers) THEN markers[i] ELSE marker[i - Len(markers)]
      <4>1. PICK all : all = markers \o marker
        OBVIOUS
      <4>2. marker \in Seq(Markers) /\ markers \in Seq(Markers)
        BY <1>5
      <4>3. all \in Seq(Markers) /\ Len(all) = Len(markers) + Len(marker)
        BY <4>1, <4>2, ConcatProperties
      <4>4. \A i \in 1 .. Len(markers) + Len(marker) :
              all[i] = IF i <= Len(markers) THEN markers[i] ELSE marker[i - Len(markers)]
        BY <4>1, <4>2, ConcatProperties
      <4> QED  BY <1>5, <2>2, <4>1, <4>3, <4>4
    <3>2. /\ Len(markers) \in Nat /\ DOMAIN markers = 1 .. Len(markers)
          /\ DOMAIN markers' = 1 .. Len(markers) + 1
      BY <1>5, <3>1, LenProperties
    <3> QED  BY <3>1, <3>2
  <2> QED  BY <1>1, <2>1, <2>2
<1>7. TypeOK'
  <2>1. \A i \in DOMAIN markers' : MarkerSchema(markers'[i])
    BY <1>5, <1>6 DEF IInv, WriterInv, TypeOK
  <2> QED  BY <1>1, <1>2, <1>4, <1>6, <2>1 DEF IInv, WriterInv, TypeOK
<1>8. ClosingInv'
  <2>1. Sealed' => Sealed \/ marker[1].kind = "closed"
    BY <1>6 DEF Sealed
  <2>2. Receivable
    BY <1>1 DEF IInv, WriterInv, ClosingInv, NothingInHand
  <2> QED  BY <1>1, <1>2, <2>1, <2>2 DEF IInv, WriterInv, ClosingInv, NothingInHand, Receivable
<1>9. BeforeShutdown'
  BY <1>2 DEF IInv, WriterInv, BeforeShutdown
<1>10. LossIsFailure'
  <2>1. faults' \in {faults, faults + 1}
    BY DEF InsertMarker, MarkerFails
  <2> QED  BY <1>2, <2>1, LossKeeps
<1> QED  BY <1>3, <1>7, <1>8, <1>9, <1>10 DEF IInv, WriterInv

-----------------------------------------------------------------------------
(***************************************************************************)
(* The theorems.                                                           *)
(***************************************************************************)
LEMMA NextStep ==
  ASSUME IInv, [Next]_vars
  PROVE  IInv'
<1>1. CASE Bystander \/ UNCHANGED vars
  BY <1>1, BystanderStep
<1>2. CASE \E len \in Lens : Tee(len)
  BY <1>2, TeeStep
<1>3. CASE ResizeSend \/ ShutdownSend
  BY <1>3, ResizeSendStep, ShutdownSendStep
<1>4. CASE ShutdownTimeout \/ End
  BY <1>4, GoneStep
<1>5. CASE Receive \/ Finish
  BY <1>5, ReceiveStep, FinishStep
<1>6. CASE Insert \/ InsertFails \/ InsertMarker \/ MarkerFails
  BY <1>6, InsertStep, InsertFailsStep, MarkerStep
<1> QED  BY <1>1, <1>2, <1>3, <1>4, <1>5, <1>6 DEF Next, TaskStep, Bystander

\* Through overflow, failing inserts, aborts and shutdown, the rows in the
\* database are one run within the size limits, closed by the last insert and
\* broken only by frames without bytes and at no more places than inserts have
\* failed, and every frame teed is accounted for once and in order as long as
\* the task runs (record_output, writer_task, flush_chunk).
THEOREM RecordingInvariant == Spec => []IInv
<1>1. Init => IInv
  BY InitStep
<1>2. IInv /\ [Next]_vars => IInv'
  BY NextStep
<1> QED  BY <1>1, <1>2, PTL DEF Spec

\* The rows of a recording are well formed at every moment (flush_chunk,
\* writer_task).
THEOREM RecordingWellFormed == Spec => []WriterInv
<1>1. IInv => WriterInv
  BY DEF IInv
<1> QED  BY <1>1, RecordingInvariant, PTL

\* While the task runs every frame teed is in one place: in a row, on its way to
\* one, or in a run whose insert failed (record_output, writer_task).
THEOREM EveryFrameAccounted == Spec => []NothingUnaccounted
<1>1. IInv => NothingUnaccounted
  BY DEF IInv
<1> QED  BY <1>1, RecordingInvariant, PTL

-----------------------------------------------------------------------------
(***************************************************************************)
(* The writer implements the abstract log.                                 *)
(***************************************************************************)
\* A non-empty set of naturals has a least element.
LEMMA LeastNat ==
  ASSUME NEW T, T \subseteq Nat, T # {}
  PROVE  \E k \in T : \A j \in T : k <= j
<1>1. \E R : IsWellFoundedOn(R, Nat) /\ \A j, k \in Nat : j < k => <<j, k>> \in R
  <2>1. \A j, k \in Nat : j < k => <<j, k>> \in OpToRel(<, Nat)
    BY Zenon DEF OpToRel
  <2> QED  BY <2>1, NatLessThanWellFounded, Zenon
<1>2. PICK R : IsWellFoundedOn(R, Nat) /\ \A j, k \in Nat : j < k => <<j, k>> \in R
  BY <1>1
<1>3. PICK k \in T : \A j \in T : ~(<<j, k>> \in R)
  <2>1. ASSUME NEW Q, IsWellFoundedOn(Q, Nat)
        PROVE  \E x \in T : \A y \in T : ~(<<y, x>> \in Q)
    BY <2>1, WFMin, Zenon
  <2> QED  BY <1>2, <2>1, Zenon
<1>4. ASSUME NEW j \in T PROVE k <= j
  <2>1. ~(j < k)
    BY <1>2, <1>3
  <2> QED  BY <2>1
<1> QED  BY <1>4

\* Consecutive rows only go up: none reaches beyond the last.
LEMMA RunGrows ==
  ASSUME NEW s, Sound(s), NEW a \in Nat, ConsecutiveFrom(a + 1, s), NEW i \in DOMAIN s
  PROVE  s[i].to <= EndOf(s, a)
<1>1. s \in Seq(Rows) /\ Len(s) \in Nat /\ DOMAIN s = 1 .. Len(s)
  BY LenProperties DEF Sound
<1>2. s # << >> /\ Len(s) >= 1 /\ EndOf(s, a) = s[Len(s)].to
  BY <1>1, EmptySeq DEF EndOf
<1>3. \A j \in 1 .. Len(s) : s[j].from \in Nat /\ s[j].to \in Nat /\ s[j].from <= s[j].to
  <2>1. ASSUME NEW j \in 1 .. Len(s) PROVE s[j] \in Rows /\ RowSchema(s[j])
    BY <1>1, ElementOfSeq DEF Sound
  <2> QED  BY <2>1 DEF Rows, RowSchema
<1> DEFINE T == {k \in 0 .. Len(s) - 1 : ~(s[Len(s) - k].to <= EndOf(s, a))}
<1>4. T = {}
  <2> SUFFICES ASSUME T # {} PROVE FALSE
    OBVIOUS
  <2>1. T \subseteq Nat
    BY <1>1
  <2>2. PICK k \in T : \A j \in T : k <= j
    BY <2>1, LeastNat
  <2>3. k \in 0 .. Len(s) - 1 /\ ~(s[Len(s) - k].to <= EndOf(s, a))
    OBVIOUS
  <2>4. k # 0
    BY <1>1, <1>2, <1>3, <2>3
  <2>5. k - 1 \in 0 .. Len(s) - 1 /\ k - 1 \notin T
    <3>1. k \in Nat /\ k - 1 \in 0 .. Len(s) - 1 /\ ~(k <= k - 1)
      BY <1>1, <2>3, <2>4
    <3> HIDE DEF T
    <3>2. k - 1 \notin T
      BY <2>2, <3>1
    <3> QED  BY <3>1, <3>2
  <2>6. s[Len(s) - (k - 1)].to <= EndOf(s, a)
    BY <2>5
  <2>7. PICK j \in 1 .. Len(s) - 1 : j = Len(s) - k
    <3>1. Len(s) - k \in 1 .. Len(s) - 1
      BY <1>1, <2>3, <2>4
    <3> QED  BY <3>1
  <2>8. s[j + 1].from = s[j].to + 1 /\ Len(s) - (k - 1) = j + 1 /\ j + 1 \in 1 .. Len(s)
    <3>1. Len(s) - (k - 1) = j + 1 /\ j + 1 \in 1 .. Len(s)
      BY <1>1, <2>3, <2>7
    <3>2. s[j + 1].from = s[j].to + 1
      BY DEF ConsecutiveFrom
    <3> QED  BY <3>1, <3>2
  <2>9. s[j].to <= EndOf(s, a)
    <3>1. /\ s[j + 1].from \in Nat /\ s[j + 1].to \in Nat /\ s[j + 1].from <= s[j + 1].to
          /\ s[j].to \in Nat /\ EndOf(s, a) \in Nat
      <4>1. j \in 1 .. Len(s) /\ Len(s) \in 1 .. Len(s)
        BY <1>1, <1>2
      <4> QED  BY <1>2, <1>3, <2>8, <4>1
    <3>2. s[j + 1].to <= EndOf(s, a)
      BY <2>6, <2>8
    <3>3. PICK x \in Nat, y \in Nat, z \in Nat, e \in Nat :
            x = s[j].to /\ y = s[j + 1].from /\ z = s[j + 1].to /\ e = EndOf(s, a)
      BY <3>1
    <3>4. y = x + 1 /\ y <= z /\ z <= e
      BY <2>8, <3>1, <3>2, <3>3
    <3>5. x <= e
      BY <3>4
    <3> QED  BY <3>3, <3>5
  <2> QED  BY <2>3, <2>7, <2>9
<1>5. Len(s) - i \in 0 .. Len(s) - 1 /\ Len(s) - (Len(s) - i) = i
  BY <1>1
<1>6. Len(s) - i \notin T
  BY <1>4
<1> QED  BY <1>5, <1>6

\* What is about to be inserted has been teed.
LEMMA InsertedWasTeed ==
  ASSUME IInv, writes # << >>
  PROVE  Head(writes).to <= teed
<1>1. Receivable /\ Sound(writes) /\ Inserted \in Nat /\ Head(writes).to \in Nat
  BY HeadRow, Parts
<1>2. 1 \in DOMAIN writes /\ Head(writes) = writes[1]
  <2>1. writes \in Seq(Rows)
    BY <1>1 DEF Sound
  <2> QED  BY <2>1, EmptySeq, LenProperties
<1>3. Head(writes).to <= Flushed
  BY <1>1, <1>2, RunGrows DEF IInv, NothingUnaccounted, Flushed
<1>4. Flushed <= Batched
  <2>1. CASE open # << >>
    <3>1. Len(open) = 1 /\ open[1] \in Batches
      BY <2>1, Optional DEF IInv, WriterInv, TypeOK
    <3>2. open[1].from = Flushed + 1 /\ open[1].from <= open[1].to
      BY <1>1, <2>1 DEF IInv, WriterInv, CarriedInv, NothingUnaccounted, ConsecutiveFrom
    <3> QED  BY <2>1, <3>1, <3>2, Parts DEF Batched, EndOf, Batches
  <2> QED  BY <2>1, Parts DEF Batched, EndOf
<1>5. Batched <= Queued
  BY <1>1 DEF IInv, NothingUnaccounted, QueueHolds
<1>6. Queued <= teed
  BY GapParts
<1> QED  BY <1>1, <1>3, <1>4, <1>5, <1>6, Parts, GapParts

RunOf(r) == [kind |-> r.kind, from |-> r.from, to |-> r.to]

LEMMA RunsProperties ==
  ASSUME IInv
  PROVE  /\ Runs \in Seq({RunOf(r) : r \in Fates}) /\ Len(Runs) = Len(account)
         /\ \A i \in 1 .. Len(account) : Runs[i] = RunOf(account[i])
         /\ Log!Covered = Inserted
<1>1. account \in Seq(Fates) /\ Len(account) \in Nat /\ DOMAIN account = 1 .. Len(account)
  BY LenProperties DEF IInv, WriterInv, TypeOK
<1>2. Runs = [i \in 1 .. Len(account) |-> RunOf(account[i])]
  BY <1>1 DEF Runs, RunOf
<1>3. \A i \in 1 .. Len(account) : account[i] \in Fates
  BY <1>1, ElementOfSeq
<1>4. Runs \in Seq({RunOf(r) : r \in Fates}) /\ Len(Runs) = Len(account)
  BY <1>1, <1>2, <1>3
<1>5. \A i \in 1 .. Len(account) : Runs[i] = RunOf(account[i])
  BY <1>2
<1>6. Runs = << >> <=> account = << >>
  BY <1>1, <1>4, EmptySeq
<1>7. account # << >> => Runs[Len(Runs)].to = account[Len(account)].to
  <2> SUFFICES ASSUME account # << >> PROVE Runs[Len(Runs)].to = account[Len(account)].to
    OBVIOUS
  <2>1. Len(account) \in 1 .. Len(account)
    BY <1>1, EmptySeq
  <2>2. Runs[Len(Runs)] = RunOf(account[Len(account)])
    BY <1>4, <1>5, <2>1
  <2> QED  BY <2>2 DEF RunOf
<1> QED  BY <1>4, <1>5, <1>6, <1>7 DEF Log!Covered, Inserted, EndOf

LogState == IF Sealed THEN "sealed" ELSE IF Receivable THEN "recording" ELSE "cut"

LEMMA LogInit == Init => Log!Init
<1> SUFFICES ASSUME Init PROVE Log!Init
  OBVIOUS
<1>1. Runs = << >>
  BY DEF Init, Runs
<1>2. ~Sealed /\ Receivable /\ teed = 0 /\ faults = 0
  BY DEF Init, Sealed, Receivable
<1> QED  BY <1>1, <1>2 DEF Log!Init

\* The runs grow with the account.
LEMMA RunsAppend ==
  ASSUME IInv, NEW r \in Fates, account' = Append(account, r), r.from = Inserted + 1
  PROVE  Runs' = Append(Runs, [kind |-> r.kind, from |-> Log!Covered + 1, to |-> r.to])
<1> DEFINE S == {RunOf(x) : x \in Fates}
<1>1. account \in Seq(Fates) /\ Len(account) \in Nat
  BY LenProperties DEF IInv, WriterInv, TypeOK
<1>2. /\ account' \in Seq(Fates) /\ Len(account') = Len(account) + 1
      /\ \A i \in 1 .. Len(account) : account'[i] = account[i]
      /\ account'[Len(account) + 1] = r
  BY <1>1, AppendProperties
<1>3. DOMAIN account' = 1 .. Len(account) + 1
  BY <1>2, LenProperties
<1>4. Runs' = [i \in 1 .. Len(account) + 1 |-> RunOf(account'[i])]
  BY <1>3 DEF Runs, RunOf
<1>5. /\ Runs \in Seq(S) /\ Len(Runs) = Len(account)
      /\ \A i \in 1 .. Len(account) : Runs[i] = RunOf(account[i])
  BY RunsProperties
<1>6. RunOf(r) \in S
  OBVIOUS
<1> HIDE DEF S
<1>7. /\ Append(Runs, RunOf(r)) \in Seq(S) /\ Len(Append(Runs, RunOf(r))) = Len(account) + 1
      /\ \A i \in 1 .. Len(account) : Append(Runs, RunOf(r))[i] = Runs[i]
      /\ Append(Runs, RunOf(r))[Len(account) + 1] = RunOf(r)
  BY <1>5, <1>6, AppendProperties
<1>8. Append(Runs, RunOf(r)) =
        [i \in 1 .. Len(account) + 1 |-> Append(Runs, RunOf(r))[i]]
  <2>1. PICK app : app = Append(Runs, RunOf(r))
    OBVIOUS
  <2>2. app \in Seq(S) /\ Len(app) = Len(account) + 1
    BY <1>7, <2>1
  <2>3. app \in [1 .. Len(app) -> S]
    BY <2>2, LenProperties
  <2> QED  BY <2>1, <2>2, <2>3
<1>9. \A i \in 1 .. Len(account) + 1 : Append(Runs, RunOf(r))[i] = RunOf(account'[i])
  <2>1. ASSUME NEW i \in 1 .. Len(account) + 1
        PROVE  i \in 1 .. Len(account) \/ i = Len(account) + 1
    BY <1>1
  <2> QED  BY <1>2, <1>5, <1>7, <2>1
<1>10. Runs' = Append(Runs, RunOf(r))
  <2> DEFINE f(i) == Append(Runs, RunOf(r))[i]
             g(i) == RunOf(account'[i])
  <2>1. Append(Runs, RunOf(r)) = [i \in 1 .. Len(account) + 1 |-> f(i)]
    BY <1>8
  <2>2. Runs' = [i \in 1 .. Len(account) + 1 |-> g(i)]
    BY <1>4
  <2>3. \A i \in 1 .. Len(account) + 1 : f(i) = g(i)
    BY <1>9
  <2> HIDE DEF f, g
  <2> QED  BY <2>1, <2>2, <2>3
<1>11. Log!Covered = Inserted
  BY RunsProperties
<1> QED  BY <1>10, <1>11 DEF RunOf

\* A step that leaves the rows, the frames and the task's being there alone.
LEMMA LogStutter ==
  ASSUME UNCHANGED << teed, account, faults >>, Sealed' <=> Sealed, Receivable' <=> Receivable
  PROVE  [Log!Next]_<< teed, Runs, faults, LogState >>
<1>1. Runs' = Runs
  BY DEF Runs
<1>2. LogState' = LogState
  BY DEF LogState
<1> QED  BY <1>1, <1>2

LEMMA LogStep ==
  ASSUME IInv, [Next]_vars
  PROVE  [Log!Next]_<< teed, Runs, faults, LogState >>
<1>1. CASE Bystander \/ UNCHANGED vars \/ ResizeSend \/ ShutdownSend \/ Receive \/ Finish
  <2>1. UNCHANGED << teed, account, markers, faults >>
    BY <1>1 DEF Bystander, Stamp, ForwarderEnds, ResizeRead, ShutdownStart, ShutdownAcked,
       RuntimeDropped, Idle, vars, ResizeSend, ShutdownSend, Receive, Finish, producer, database
  <2>2. Receivable' = Receivable
    <3>1. CASE Bystander \/ UNCHANGED vars \/ ResizeSend \/ ShutdownSend
      <4>1. writer' = writer
        BY <3>1 DEF Bystander, Stamp, ForwarderEnds, ResizeRead, ShutdownStart, ShutdownAcked,
           RuntimeDropped, Idle, vars, ResizeSend, ShutdownSend, task
      <4> QED  BY <4>1 DEF Receivable
    <3>2. CASE Receive
      BY <3>2 DEF Receive, TakeOutput, TakeMarker, TakeShutdown, Receivable
    <3>3. CASE Finish
      BY <3>3 DEF Finish, Receivable
    <3> QED  BY <1>1, <3>1, <3>2, <3>3
  <2>3. Sealed' = Sealed
    BY <2>1 DEF Sealed
  <2> QED  BY <2>1, <2>2, <2>3, LogStutter
<1>2. ASSUME NEW len \in Lens, Tee(len) PROVE Log!Produce
  <2>1. teed' = teed + 1 /\ UNCHANGED << account, markers, writer, faults >>
    BY <1>2 DEF Tee, task, database, IInv, WriterInv, TypeOK
  <2>2. Runs' = Runs /\ Sealed' = Sealed /\ Receivable' = Receivable
    BY <2>1 DEF Runs, Sealed, Receivable
  <2> QED  BY <2>1, <2>2 DEF Log!Produce
<1>3. CASE Insert
  <2>1. PICK r : r = Head(writes)
    OBVIOUS
  <2>2. /\ Receivable /\ ~Sealed /\ r \in Rows /\ RowSchema(r) /\ r.from = Inserted + 1
        /\ r.to \in Nat /\ r.to <= teed /\ account' = Append(account, r)
        /\ UNCHANGED << teed, markers, writer, faults >>
    BY <1>3, <2>1, HeadRow, InsertedWasTeed DEF Insert, producer
  <2>3. r.to \in Log!Covered + 1 .. teed /\ r.kind \in {"chunk", "replay_gap", "empty"} /\ r \in Fates
    BY <2>2, RunsProperties, Parts, GapParts DEF RowSchema, Rows, Fates
  <2>4. Runs' = Append(Runs, [kind |-> r.kind, from |-> Log!Covered + 1, to |-> r.to])
    BY <2>2, <2>3, RunsAppend
  <2>5. Sealed' = Sealed /\ Receivable' = Receivable
    BY <2>2 DEF Sealed, Receivable
  <2>6. Log!Disposed({"chunk", "replay_gap", "empty"})
    BY <2>3, <2>4 DEF Log!Disposed
  <2>7. Log!Commit
    BY <2>2, <2>5, <2>6 DEF Log!Commit
  <2> QED  BY <2>7 DEF Log!Next
<1>4. CASE InsertFails \/ MarkerFails
  <2>1. UNCHANGED << teed, markers, writer >> /\ faults' = faults + 1
    BY <1>4 DEF InsertFails, MarkerFails, producer, database
  <2>2. Sealed' = Sealed /\ Receivable' = Receivable
    BY <2>1 DEF Sealed, Receivable
  <2>3. Receivable /\ ~Sealed
    BY <1>4 DEF InsertFails, MarkerFails, IInv, WriterInv, ClosingInv, NothingInHand
  <2>4. Runs' = Runs \/ Log!Disposed({"lost"})
    <3>1. CASE account' = account
      BY <3>1 DEF Runs
    <3>2. CASE InsertFails /\ Head(writes).kind # "chunk"
      <4>1. PICK g \in Fates : /\ RowSchema(g) /\ g.kind = "lost" /\ g.from = Head(writes).from
                               /\ g.to = Head(writes).to /\ account' = Append(account, g)
        BY <3>2, GapFails
      <4>2. g.from = Inserted + 1 /\ g.to \in Nat /\ g.to <= teed
        BY <3>2, <4>1, HeadRow, InsertedWasTeed DEF InsertFails
      <4>3. g.to \in Log!Covered + 1 .. teed
        BY <4>1, <4>2, RunsProperties, Parts, GapParts DEF RowSchema
      <4>4. Runs' = Append(Runs, [kind |-> g.kind, from |-> Log!Covered + 1, to |-> g.to])
        BY <4>1, <4>2, RunsAppend
      <4> QED  BY <4>1, <4>3, <4>4 DEF Log!Disposed
    <3> QED  BY <1>4, <3>1, <3>2 DEF InsertFails, MarkerFails, database
  <2>5. Log!Outage
    BY <2>1, <2>2, <2>3, <2>4 DEF Log!Outage
  <2> QED  BY <2>5 DEF Log!Next
<1>5. CASE InsertMarker
  <2>1. /\ marker # << >> /\ markers' = markers \o marker
        /\ UNCHANGED << teed, account, writer, faults >>
    BY <1>5 DEF InsertMarker, producer
  <2>2. Receivable /\ ~Sealed
    BY <2>1 DEF IInv, WriterInv, ClosingInv, NothingInHand
  <2>3. Runs' = Runs /\ Receivable'
    BY <2>1, <2>2 DEF Runs, Receivable
  <2>4. CASE Sealed'
    BY <2>1, <2>2, <2>3, <2>4 DEF Log!Next, Log!Seal
  <2>5. CASE ~Sealed'
    BY <2>1, <2>2, <2>3, <2>5, LogStutter
  <2> QED  BY <2>4, <2>5
<1>6. CASE ShutdownTimeout \/ End
  <2>1. Receivable /\ ~Receivable' /\ UNCHANGED << teed, account, markers, faults >>
    BY <1>6 DEF ShutdownTimeout, End, Receivable, producer, database
  <2>2. Runs' = Runs /\ Sealed' = Sealed
    BY <2>1 DEF Runs, Sealed
  <2>3. CASE Sealed
    <3>1. LogState' = LogState
      BY <2>2, <2>3 DEF LogState
    <3> QED  BY <2>1, <2>2, <3>1
  <2>4. CASE ~Sealed
    BY <2>1, <2>2, <2>4 DEF Log!Next, Log!Cut
  <2> QED  BY <2>3, <2>4
<1> QED
  <2>1. ASSUME NEW len \in Lens, Tee(len) PROVE [Log!Next]_<< teed, Runs, faults, LogState >>
    BY <1>2, <2>1 DEF Log!Next
  <2> QED  BY <1>1, <1>3, <1>4, <1>5, <1>6, <2>1 DEF Next, TaskStep, Bystander

\* The rows of the writer are an append-only account of the frames teed that
\* nothing follows once it is closed or the task is gone, and that leaves frames
\* with bytes unmentioned only in a step in which an insert fails: with its queue,
\* batches, failing inserts and aborts the writer implements the abstract log
\* (RecordingWriter in recording.rs).
THEOREM WriterImplementsLog == Spec => ImplementsLog
<1>1. Init => Log!Init
  BY LogInit
<1>2. IInv /\ [Next]_vars => [Log!Next]_<< teed, Runs, faults, LogState >>
  BY LogStep
<1>3. Spec => []IInv
  BY RecordingInvariant
<1> QED  BY <1>1, <1>2, <1>3, PTL DEF Spec, ImplementsLog, Log!Spec, LogState
=============================================================================
