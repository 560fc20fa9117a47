-------------------------- MODULE Retention_proofs --------------------------
(***************************************************************************)
(* Proofs about recording retention, for every number of instances,        *)
(* sessions, rows and faults.                                              *)
(***************************************************************************)
EXTENDS Retention, FiniteSetTheorems, SequenceTheorems, TLAPS

\* The inductive invariant; that there is one periodic sweep follows from it.
IInv == TypeOK /\ PurgeAuditExact /\ \A i \in Instances : SweepHolds(i)

LEMMA NoneIsNone ==
  /\ None \notin Instances /\ None \notin Times /\ \A t \in Times : t \in Nat
  /\ None # "startup" /\ None # "periodic"
BY RetentionAssumption DEF Times

LEMMA NoSweepType ==
  /\ NoSweep \in Sweeps /\ Len(NoSweep.todo) <= BatchSize
  /\ NoSweep.pc = "idle" /\ NoSweep.cadence = None /\ NoSweep.now = 0 /\ NoSweep.todo = << >>
BY RetentionAssumption DEF NoSweep, Sweeps, Times

\* What list_eligible_for_retention returns is a list of sessions, at most a
\* batch of them.
LEMMA ListingsType ==
  ASSUME NEW t, NEW l \in Listings(t)
  PROVE  l \in Seq(Sessions) /\ Len(l) \in Nat /\ Len(l) <= BatchSize
<1> DEFINE eligible == {s \in Sessions : Expired(s, t) /\ rows[s] > 0}
<1>1. PICK q \in SetToSeqs(eligible) :
        l = SubSeq(q, 1, IF Len(q) < BatchSize THEN Len(q) ELSE BatchSize)
  BY DEF Listings
<1>2. eligible \subseteq Sessions
  OBVIOUS
<1> HIDE DEF eligible
<1>3. Cardinality(eligible) \in Nat
  BY <1>2, RetentionAssumption, FS_Subset, FS_CardinalityType
<1>4. q \in [1 .. Cardinality(eligible) -> eligible]
  BY <1>1 DEF SetToSeqs
<1>5. q \in Seq(Sessions) /\ Len(q) \in Nat
  <2>1. q \in [1 .. Cardinality(eligible) -> Sessions]
    BY <1>2, <1>4
  <2>2. q \in Seq(Sessions)
    BY <1>3, <2>1, SeqDef
  <2> QED  BY <2>2, LenProperties
<1>6. PICK n : n = IF Len(q) < BatchSize THEN Len(q) ELSE BatchSize
  OBVIOUS
<1>7. n \in Nat /\ n <= Len(q) /\ n <= BatchSize
  BY <1>5, <1>6, RetentionAssumption
<1>8. \A j \in 1 .. n : q[j] \in Sessions
  BY <1>5, <1>7, ElementOfSeq
<1>9. SubSeq(q, 1, n) \in Seq(Sessions) /\ Len(SubSeq(q, 1, n)) = IF 1 <= n THEN n ELSE 0
  BY <1>7, <1>8, SubSeqProperties
<1> QED  BY <1>1, <1>6, <1>7, <1>9

\* A step that does not touch what a sweep rests on.
LEMMA SweepKept ==
  ASSUME IInv, NEW j \in Instances, sweep'[j] = sweep[j], now' \in Times, now <= now',
         advisory = j => advisory' = j,
         \A s \in Sessions : row_lock[s] = j =>
            row_lock'[s] = j /\ rows'[s] = rows[s] /\ closed_at'[s] = closed_at[s]
  PROVE  SweepHolds(j)'
<1>1. sweep[j] \in Sweeps /\ SweepHolds(j) /\ now \in Nat /\ now' \in Nat
  BY NoneIsNone DEF IInv, TypeOK
<1>2. sweep[j].now \in Nat /\ sweep[j].todo \in Seq(Sessions)
  BY <1>1, NoneIsNone DEF Sweeps
<1>3. sweep'[j].now <= now'
  BY <1>1, <1>2 DEF SweepHolds
<1>4. Current(j)' = Current(j)
  BY DEF Current
<1>5. CASE sweep[j].pc \in {"count", "commit"}
  <2>1. Current(j) \in Sessions
    BY <1>1, <1>2, <1>5, HeadTailProperties DEF SweepHolds, Current
  <2>2. row_lock[Current(j)] = j /\ Expired(Current(j), sweep[j].now)
    BY <1>1, <1>5 DEF SweepHolds
  <2>3. row_lock'[Current(j)] = j /\ rows'[Current(j)] = rows[Current(j)]
          /\ closed_at'[Current(j)] = closed_at[Current(j)]
    BY <2>1, <2>2
  <2> QED  BY <1>1, <1>3, <1>4, <1>5, <2>2, <2>3 DEF SweepHolds, Expired
<1>6. CASE sweep[j].pc \notin {"count", "commit"}
  BY <1>1, <1>3, <1>6 DEF SweepHolds
<1> QED  BY <1>5, <1>6

\* The end of a sweep.
LEMMA FinishedType ==
  ASSUME IInv, NEW i \in Instances, sweep[i].pc \notin {"boot", "idle"}
  PROVE  /\ Finished(i) \in Sweeps /\ Len(Finished(i).todo) <= BatchSize
         /\ Finished(i).now <= sweep[i].now
         /\ Finished(i).pc \in {"idle", "unlock"}
         /\ Finished(i).cadence = "periodic" => Finished(i).pc = "unlock" /\ sweep[i].cadence = "periodic"
         /\ Finished(i).pc = "unlock" => Finished(i).cadence = "periodic"
<1>1. sweep[i] \in Sweeps
  BY DEF IInv, TypeOK
<1>2. CASE sweep[i].cadence = "periodic"
  <2>1. Finished(i) = [sweep[i] EXCEPT !.pc = "unlock", !.todo = << >>, !.count = 0]
    BY <1>2 DEF Finished
  <2>2. /\ Finished(i).pc = "unlock" /\ Finished(i).cadence = "periodic"
        /\ Finished(i).now = sweep[i].now /\ Finished(i).todo = << >>
    BY <1>1, <1>2, <2>1 DEF Sweeps
  <2>3. Finished(i) \in Sweeps
    <3>1. PICK w \in Sweeps : w = sweep[i]
      BY <1>1
    <3>2. << >> \in Seq(Sessions) /\ 0 \in Nat
      BY EmptySeq
    <3>3. [w EXCEPT !.pc = "unlock", !.todo = << >>, !.count = 0] \in Sweeps
      BY <3>2 DEF Sweeps
    <3> QED  BY <2>1, <3>1, <3>3
  <2>4. sweep[i].now \in Nat /\ Len(<< >>) <= BatchSize
    BY <1>1, NoneIsNone, RetentionAssumption DEF Sweeps
  <2> QED  BY <1>2, <2>2, <2>3, <2>4
<1>3. CASE sweep[i].cadence # "periodic"
  <2>1. Finished(i) = NoSweep
    BY <1>3 DEF Finished
  <2>2. sweep[i].now \in Nat
    BY <1>1, NoneIsNone DEF Sweeps
  <2> QED  BY <2>1, <2>2, NoSweepType, NoneIsNone
<1> QED  BY <1>2, <1>3

\* A sweep that replaces one instance's state by a new one.
LEMMA SweepType ==
  ASSUME IInv, NEW i \in Instances, NEW w \in Sweeps, Len(w.todo) <= BatchSize,
         sweep' = [sweep EXCEPT ![i] = w]
  PROVE  /\ sweep' \in [Instances -> Sweeps] /\ sweep'[i] = w
         /\ \A j \in Instances : Len(sweep'[j].todo) <= BatchSize
         /\ \A j \in Instances \ {i} : sweep'[j] = sweep[j]
BY DEF IInv, TypeOK

\* An instance with nothing locked.
LEMMA FinishedHolds ==
  ASSUME IInv, NEW i \in Instances, sweep[i].pc \notin {"boot", "idle"}, sweep'[i] = Finished(i),
         now' = now, advisory = i => advisory' = i
  PROVE  SweepHolds(i)'
<1>1. sweep[i] \in Sweeps /\ SweepHolds(i) /\ now \in Nat /\ Finished(i) \in Sweeps
  BY FinishedType, NoneIsNone DEF IInv, TypeOK
<1>2. Finished(i).now <= now
  BY <1>1, FinishedType, NoneIsNone DEF SweepHolds, Sweeps
<1>3. Finished(i).cadence = "periodic" => advisory' = i
  BY <1>1, FinishedType DEF SweepHolds
<1> QED  BY <1>2, <1>3, FinishedType DEF SweepHolds

\* The sweep goes on to its next candidate or ends.
LEMMA NextCandidateHolds ==
  ASSUME IInv, NEW i \in Instances, sweep[i].pc \in {"lock", "count", "commit"}, NextCandidate(i),
         now' = now, advisory' = advisory
  PROVE  /\ sweep' \in [Instances -> Sweeps] /\ SweepHolds(i)'
         /\ \A j \in Instances : Len(sweep'[j].todo) <= BatchSize
         /\ \A j \in Instances \ {i} : sweep'[j] = sweep[j]
<1>1. PICK w \in Sweeps : w = sweep[i]
  BY DEF IInv, TypeOK
<1>2. w.todo \in Seq(Sessions) /\ Len(w.todo) \in Nat /\ Len(w.todo) <= BatchSize /\ w.todo # << >>
  BY <1>1, LenProperties DEF IInv, TypeOK, SweepHolds, Sweeps
<1>3. CASE Len(w.todo) <= 1
  <2>1. sweep' = [sweep EXCEPT ![i] = Finished(i)]
    BY <1>1, <1>3 DEF NextCandidate, IInv, TypeOK
  <2>2. Finished(i) \in Sweeps /\ Len(Finished(i).todo) <= BatchSize
    BY FinishedType
  <2>3. SweepHolds(i)'
    BY <2>1, <2>2, SweepType, FinishedHolds
  <2> QED  BY <2>1, <2>2, <2>3, SweepType
<1>4. CASE ~(Len(w.todo) <= 1)
  <2>1. PICK v : v = [w EXCEPT !.pc = "lock", !.todo = Tail(w.todo), !.count = 0]
    OBVIOUS
  <2>2. sweep' = [sweep EXCEPT ![i] = v]
    BY <1>1, <1>4, <2>1 DEF NextCandidate
  <2>3. Tail(w.todo) \in Seq(Sessions) /\ Len(Tail(w.todo)) = Len(w.todo) - 1
    BY <1>2, HeadTailProperties
  <2>4. v \in Sweeps
    BY <2>1, <2>3 DEF Sweeps
  <2>5. /\ v.pc = "lock" /\ v.todo = Tail(w.todo) /\ v.now = w.now /\ v.cadence = w.cadence
    BY <2>1 DEF Sweeps
  <2>6. Len(v.todo) <= BatchSize /\ v.todo # << >>
    <3>1. Len(v.todo) = Len(w.todo) - 1
      BY <2>3, <2>5
    <3>2. Len(v.todo) <= BatchSize /\ Len(v.todo) # 0
      <4>1. PICK n \in Nat, b \in Nat : n = Len(w.todo) /\ b = BatchSize
        BY <1>2, RetentionAssumption
      <4>2. n <= b /\ ~(n <= 1) /\ Len(v.todo) = n - 1
        BY <1>2, <1>4, <3>1, <4>1
      <4>3. n - 1 <= b /\ n - 1 # 0
        BY <4>2
      <4> QED  BY <4>1, <4>2, <4>3
    <3>3. Len(<< >>) = 0
      OBVIOUS
    <3> QED  BY <3>2, <3>3
  <2>7. sweep'[i] = v
    BY <2>2, <2>4, <2>6, SweepType
  <2>8. SweepHolds(i)'
    BY <1>1, <2>5, <2>6, <2>7 DEF IInv, SweepHolds
  <2> QED  BY <2>2, <2>4, <2>6, <2>8, SweepType
<1> QED  BY <1>3, <1>4

-----------------------------------------------------------------------------
LEMMA InitHolds == Init => IInv
<1> SUFFICES ASSUME Init PROVE IInv
  OBVIOUS
<1>1. PICK w : w = [NoSweep EXCEPT !.pc = "boot"]
  OBVIOUS
<1>2. w \in Sweeps /\ w.pc = "boot" /\ w.cadence = None /\ w.now = 0 /\ w.todo = << >>
  BY <1>1, NoSweepType DEF Sweeps
<1>3. sweep = [i \in Instances |-> w]
  BY <1>1 DEF Init
<1>4. TypeOK
  <2>1. sweep \in [Instances -> Sweeps] /\ \A i \in Instances : Len(sweep[i].todo) <= BatchSize
    BY <1>2, <1>3, RetentionAssumption
  <2> QED  BY <2>1, RetentionAssumption DEF Init, TypeOK, Times
<1>5. PurgeAuditExact
  BY DEF Init, PurgeAuditExact
<1>6. ASSUME NEW i \in Instances PROVE SweepHolds(i)
  BY <1>2, <1>3, NoneIsNone DEF Init, SweepHolds
<1> QED  BY <1>4, <1>5, <1>6 DEF IInv

\* The clock, the sessions and the recording writers.
LEMMA OutsideStep ==
  ASSUME IInv, NEW s \in Sessions,
         Tick \/ AppendRow(s) \/ SetStatus(s, None) \/ SetStatus(s, now) \/ UNCHANGED vars
  PROVE  IInv'
<1>1. UNCHANGED << row_lock, advisory, sweep, purged, faults >>
  BY DEF Tick, AppendRow, SetStatus, vars, db
<1>2. /\ now' \in Times /\ now <= now'
      /\ closed_at' \in [Sessions -> Times \cup {None}]
      /\ rows' \in [Sessions -> Nat] /\ written' \in [Sessions -> Nat]
      /\ \A t \in Sessions : purged[t] + rows'[t] = written'[t]
      /\ \A t \in Sessions : row_lock[t] # None =>
           rows'[t] = rows[t] /\ closed_at'[t] = closed_at[t]
  <2>1. /\ now \in Times /\ now \in Nat /\ closed_at \in [Sessions -> Times \cup {None}]
        /\ rows \in [Sessions -> Nat] /\ written \in [Sessions -> Nat]
        /\ purged \in [Sessions -> Nat]
        /\ \A t \in Sessions : purged[t] + rows[t] = written[t]
    BY NoneIsNone DEF IInv, TypeOK, PurgeAuditExact
  <2>2. CASE Tick
    BY <2>1, <2>2, RetentionAssumption DEF Tick, db, Times
  <2>3. CASE AppendRow(s)
    BY <2>1, <2>3 DEF AppendRow
  <2>4. CASE SetStatus(s, None) \/ SetStatus(s, now)
    BY <2>1, <2>4 DEF SetStatus
  <2>5. CASE UNCHANGED vars
    BY <2>1, <2>5 DEF vars
  <2> QED  BY <2>2, <2>3, <2>4, <2>5
<1>3. TypeOK'
  BY <1>1, <1>2 DEF IInv, TypeOK
<1>4. PurgeAuditExact'
  BY <1>1, <1>2 DEF PurgeAuditExact
<1>5. ASSUME NEW j \in Instances PROVE SweepHolds(j)'
  BY <1>1, <1>2, SweepKept, NoneIsNone
<1> QED  BY <1>3, <1>4, <1>5 DEF IInv

\* Steps of a sweep that only read the tables.
LEMMA ReadStep ==
  ASSUME IInv, NEW i \in Instances, NEW w \in Sweeps, Len(w.todo) <= BatchSize,
         sweep' = [sweep EXCEPT ![i] = w], UNCHANGED << now, db >>,
         advisory' \in Instances \cup {None},
         \A j \in Instances \ {i} : advisory = j => advisory' = j,
         faults' \in 0 .. MaxFaults,
         sweep'[i] = w => SweepHolds(i)'
  PROVE  IInv'
<1>1. UNCHANGED << now, closed_at, rows, written, row_lock, purged >>
  BY DEF db
<1>2. /\ sweep' \in [Instances -> Sweeps] /\ sweep'[i] = w
      /\ \A j \in Instances : Len(sweep'[j].todo) <= BatchSize
      /\ \A j \in Instances \ {i} : sweep'[j] = sweep[j]
  BY SweepType
<1>3. TypeOK'
  BY <1>1, <1>2 DEF IInv, TypeOK
<1>4. PurgeAuditExact'
  BY <1>1 DEF IInv, PurgeAuditExact
<1>5. ASSUME NEW j \in Instances PROVE SweepHolds(j)'
  <2>1. now' \in Times /\ now <= now'
    BY <1>1, NoneIsNone DEF IInv, TypeOK
  <2>2. CASE j # i
    BY <1>1, <1>2, <2>1, <2>2, SweepKept
  <2> QED  BY <1>2, <2>2
<1> QED  BY <1>3, <1>4, <1>5 DEF IInv

LEMMA StartupStep ==
  ASSUME IInv, NEW i \in Instances, StartupSweep(i)
  PROVE  IInv'
<1>1. PICK w : w = [NoSweep EXCEPT !.pc = "list", !.cadence = "startup", !.now = now]
  OBVIOUS
<1>2. /\ w \in Sweeps /\ w.pc = "list" /\ w.cadence = "startup" /\ w.now = now /\ w.todo = << >>
  BY <1>1, NoSweepType DEF Sweeps, IInv, TypeOK
<1>3. Len(w.todo) <= BatchSize /\ now \in Nat
  BY <1>2, RetentionAssumption, NoneIsNone DEF IInv, TypeOK
<1>4. sweep' = [sweep EXCEPT ![i] = w] /\ UNCHANGED << now, db, advisory, faults >>
  BY <1>1 DEF StartupSweep
<1>5. sweep'[i] = w => SweepHolds(i)'
  BY <1>2, <1>3, <1>4 DEF SweepHolds
<1> QED  BY <1>2, <1>3, <1>4, <1>5, ReadStep DEF IInv, TypeOK

LEMMA PeriodicStep ==
  ASSUME IInv, NEW i \in Instances, PeriodicTick(i)
  PROVE  IInv'
<1>1. PICK w : w = [NoSweep EXCEPT !.pc = "list", !.cadence = "periodic", !.now = now,
                                   !.stacked = advisory = i]
  OBVIOUS
<1>2. /\ w \in Sweeps /\ w.pc = "list" /\ w.cadence = "periodic" /\ w.now = now /\ w.todo = << >>
  BY <1>1, NoSweepType DEF Sweeps, IInv, TypeOK
<1>3. Len(w.todo) <= BatchSize /\ now \in Nat
  BY <1>2, RetentionAssumption, NoneIsNone DEF IInv, TypeOK
<1>4. /\ sweep' = [sweep EXCEPT ![i] = w] /\ UNCHANGED << now, db, faults >>
      /\ advisory \in {None, i} /\ advisory' = i
  BY <1>1 DEF PeriodicTick
<1>5. sweep'[i] = w => SweepHolds(i)'
  BY <1>2, <1>3, <1>4 DEF SweepHolds
<1>6. \A j \in Instances \ {i} : advisory = j => advisory' = j
  BY <1>4, NoneIsNone
<1> QED  BY <1>2, <1>3, <1>4, <1>5, <1>6, ReadStep DEF IInv, TypeOK

LEMMA ListStep ==
  ASSUME IInv, NEW i \in Instances, List(i)
  PROVE  IInv'
<1>1. sweep[i].pc = "list" /\ UNCHANGED << now, db, advisory, faults >>
  BY DEF List
<1>2. PICK l \in Listings(sweep[i].now) :
        sweep' = [sweep EXCEPT ![i] = IF l = << >> THEN Finished(i)
                                      ELSE [sweep[i] EXCEPT !.pc = "lock", !.todo = l]]
  BY DEF List
<1>3. CASE l = << >>
  <2>1. sweep' = [sweep EXCEPT ![i] = Finished(i)]
    BY <1>2, <1>3
  <2>2. Finished(i) \in Sweeps /\ Len(Finished(i).todo) <= BatchSize
    BY <1>1, FinishedType
  <2>3. sweep'[i] = Finished(i) => SweepHolds(i)'
    BY <1>1, FinishedHolds
  <2> QED  BY <1>1, <2>1, <2>2, <2>3, ReadStep DEF IInv, TypeOK
<1>4. CASE l # << >>
  <2>1. PICK w \in Sweeps : w = sweep[i]
    BY DEF IInv, TypeOK
  <2>2. PICK v : v = [w EXCEPT !.pc = "lock", !.todo = l]
    OBVIOUS
  <2>3. sweep' = [sweep EXCEPT ![i] = v]
    BY <1>2, <1>4, <2>1, <2>2
  <2>4. l \in Seq(Sessions) /\ Len(l) <= BatchSize
    BY ListingsType
  <2>5. v \in Sweeps /\ v.pc = "lock" /\ v.todo = l /\ v.now = w.now /\ v.cadence = w.cadence
    BY <2>2, <2>4 DEF Sweeps
  <2>6. sweep'[i] = v => SweepHolds(i)'
    BY <1>1, <1>4, <2>1, <2>5 DEF IInv, SweepHolds
  <2> QED  BY <1>1, <2>3, <2>4, <2>5, <2>6, ReadStep DEF IInv, TypeOK
<1> QED  BY <1>3, <1>4

LEMMA UnlockStep ==
  ASSUME IInv, NEW i \in Instances, Unlock(i) \/ UnlockFails(i)
  PROVE  IInv'
<1>1. /\ sweep[i].pc = "unlock" /\ sweep' = [sweep EXCEPT ![i] = NoSweep] /\ UNCHANGED << now, db >>
      /\ advisory' \in {i, None, advisory}
  BY DEF Unlock, UnlockFails
<1>2. advisory = i
  BY <1>1 DEF IInv, SweepHolds
<1>3. \A j \in Instances \ {i} : advisory = j => advisory' = j
  BY <1>2
<1>4. faults' \in 0 .. MaxFaults
  BY RetentionAssumption DEF Unlock, UnlockFails, IInv, TypeOK
<1>5. sweep'[i] = NoSweep => SweepHolds(i)'
  BY <1>1, NoSweepType, NoneIsNone DEF IInv, TypeOK, SweepHolds
<1> QED  BY <1>1, <1>2, <1>3, <1>4, <1>5, NoSweepType, ReadStep

LEMMA ConnectionStep ==
  ASSUME IInv, ConnectionCloses
  PROVE  IInv'
<1>1. UNCHANGED << now, closed_at, rows, written, row_lock, purged, sweep, faults >> /\ advisory' = None
  BY DEF ConnectionCloses, db
<1>2. TypeOK' /\ PurgeAuditExact'
  BY <1>1 DEF IInv, TypeOK, PurgeAuditExact
<1>3. ASSUME NEW j \in Instances PROVE SweepHolds(j)'
  <2>1. SweepHolds(j) /\ now \in Nat
    BY NoneIsNone DEF IInv, TypeOK
  <2>2. ~(sweep[j].cadence = "periodic" /\ sweep[j].pc # "idle")
    BY <2>1, NoneIsNone DEF ConnectionCloses, SweepHolds
  <2>3. Current(j)' = Current(j) /\ \A s, t : Expired(s, t)' = Expired(s, t)
    BY <1>1 DEF Current, Expired
  <2> QED  BY <1>1, <2>1, <2>2, <2>3 DEF SweepHolds
<1> QED  BY <1>2, <1>3 DEF IInv

\* The session at the head of a sweep's list.
LEMMA CurrentType ==
  ASSUME IInv, NEW i \in Instances, sweep[i].pc \in {"lock", "count", "commit"}
  PROVE  Current(i) \in Sessions
<1>1. sweep[i].todo \in Seq(Sessions) /\ sweep[i].todo # << >>
  BY DEF IInv, TypeOK, Sweeps, SweepHolds
<1> QED  BY <1>1, HeadTailProperties DEF Current

\* A purge that changes the locks and the rows of its own session only.
LEMMA PurgeStep ==
  ASSUME IInv, NEW i \in Instances,
         UNCHANGED << now, closed_at, written, advisory >>,
         sweep' \in [Instances -> Sweeps], SweepHolds(i)',
         \A j \in Instances : Len(sweep'[j].todo) <= BatchSize,
         \A j \in Instances \ {i} : sweep'[j] = sweep[j],
         row_lock' \in [Sessions -> Instances \cup {None}],
         rows' \in [Sessions -> Nat], purged' \in [Sessions -> Nat], PurgeAuditExact',
         faults' \in 0 .. MaxFaults,
         \A s \in Sessions : row_lock[s] \notin {i, None} => row_lock'[s] = row_lock[s] /\ rows'[s] = rows[s]
  PROVE  IInv'
<1>1. TypeOK'
  BY DEF IInv, TypeOK
<1>2. ASSUME NEW j \in Instances PROVE SweepHolds(j)'
  <2>1. now' \in Times /\ now <= now'
    BY NoneIsNone DEF IInv, TypeOK
  <2>2. CASE j # i
    <3>1. \A s \in Sessions : row_lock[s] = j =>
            row_lock'[s] = j /\ rows'[s] = rows[s] /\ closed_at'[s] = closed_at[s]
      BY <2>2, NoneIsNone
    <3> QED  BY <2>1, <2>2, <3>1, SweepKept
  <2> QED  BY <2>2
<1> QED  BY <1>1, <1>2 DEF IInv

LEMMA PurgeLockStep ==
  ASSUME IInv, NEW i \in Instances, PurgeLock(i)
  PROVE  IInv'
<1>1. /\ sweep[i].pc = "lock" /\ row_lock[Current(i)] = None
      /\ UNCHANGED << now, closed_at, rows, written, purged, advisory, faults >>
  BY DEF PurgeLock
<1>2. Current(i) \in Sessions
  BY <1>1, CurrentType
<1>3. /\ rows' \in [Sessions -> Nat] /\ purged' \in [Sessions -> Nat] /\ PurgeAuditExact'
      /\ faults' \in 0 .. MaxFaults /\ row_lock \in [Sessions -> Instances \cup {None}]
  BY <1>1 DEF IInv, TypeOK, PurgeAuditExact
<1>4. CASE Expired(Current(i), sweep[i].now)
  <2>1. PICK w \in Sweeps : w = sweep[i]
    BY DEF IInv, TypeOK
  <2>2. PICK v : v = [w EXCEPT !.pc = "count"]
    OBVIOUS
  <2>3. v \in Sweeps /\ v.pc = "count" /\ v.todo = w.todo /\ v.now = w.now /\ v.cadence = w.cadence
    BY <2>2 DEF Sweeps
  <2>4. /\ sweep' = [sweep EXCEPT ![i] = v] /\ row_lock' = [row_lock EXCEPT ![Current(i)] = i]
    BY <1>4, <2>1, <2>2 DEF PurgeLock
  <2>5. Len(v.todo) <= BatchSize
    BY <2>1, <2>3 DEF IInv, TypeOK
  <2>6. /\ sweep' \in [Instances -> Sweeps] /\ sweep'[i] = v
        /\ \A j \in Instances : Len(sweep'[j].todo) <= BatchSize
        /\ \A j \in Instances \ {i} : sweep'[j] = sweep[j]
    BY <2>3, <2>4, <2>5, SweepType
  <2>7. Current(i)' = Current(i) /\ Expired(Current(i), w.now)'
    BY <1>1, <1>4, <2>1, <2>3, <2>6 DEF Current, Expired
  <2>8. SweepHolds(i)'
    <3>1. row_lock'[Current(i)] = i
      BY <1>2, <1>3, <2>4
    <3> QED  BY <1>1, <2>1, <2>3, <2>6, <2>7, <3>1 DEF IInv, SweepHolds
  <2>9. /\ row_lock' \in [Sessions -> Instances \cup {None}]
        /\ \A s \in Sessions : row_lock[s] \notin {i, None} =>
             row_lock'[s] = row_lock[s] /\ rows'[s] = rows[s]
    BY <1>1, <1>2, <1>3, <2>4
  <2> QED  BY <1>1, <1>3, <2>6, <2>8, <2>9, PurgeStep
<1>5. CASE ~Expired(Current(i), sweep[i].now)
  <2>1. NextCandidate(i) /\ row_lock' = row_lock
    BY <1>5 DEF PurgeLock
  <2>2. /\ sweep' \in [Instances -> Sweeps] /\ SweepHolds(i)'
        /\ \A j \in Instances : Len(sweep'[j].todo) <= BatchSize
        /\ \A j \in Instances \ {i} : sweep'[j] = sweep[j]
    BY <1>1, <2>1, NextCandidateHolds
  <2> QED  BY <1>1, <1>3, <2>1, <2>2, PurgeStep
<1> QED  BY <1>4, <1>5

LEMMA PurgeCountStep ==
  ASSUME IInv, NEW i \in Instances, PurgeCount(i)
  PROVE  IInv'
<1>1. /\ sweep[i].pc = "count"
      /\ UNCHANGED << now, closed_at, rows, written, purged, advisory, faults >>
  BY DEF PurgeCount
<1>2. Current(i) \in Sessions /\ row_lock[Current(i)] = i
  BY <1>1, CurrentType DEF IInv, SweepHolds
<1>3. /\ rows' \in [Sessions -> Nat] /\ purged' \in [Sessions -> Nat] /\ PurgeAuditExact'
      /\ faults' \in 0 .. MaxFaults /\ row_lock \in [Sessions -> Instances \cup {None}]
  BY <1>1 DEF IInv, TypeOK, PurgeAuditExact
<1>4. CASE rows[Current(i)] = 0
  <2>1. NextCandidate(i) /\ row_lock' = [row_lock EXCEPT ![Current(i)] = None]
    BY <1>4 DEF PurgeCount
  <2>2. /\ sweep' \in [Instances -> Sweeps] /\ SweepHolds(i)'
        /\ \A j \in Instances : Len(sweep'[j].todo) <= BatchSize
        /\ \A j \in Instances \ {i} : sweep'[j] = sweep[j]
    BY <1>1, <2>1, NextCandidateHolds
  <2>3. /\ row_lock' \in [Sessions -> Instances \cup {None}]
        /\ \A s \in Sessions : row_lock[s] \notin {i, None} =>
             row_lock'[s] = row_lock[s] /\ rows'[s] = rows[s]
    BY <1>1, <1>2, <1>3, <2>1
  <2> QED  BY <1>1, <1>3, <2>2, <2>3, PurgeStep
<1>5. CASE rows[Current(i)] # 0
  <2>1. PICK w \in Sweeps : w = sweep[i]
    BY DEF IInv, TypeOK
  <2>2. PICK v : v = [w EXCEPT !.pc = "commit", !.count = rows[Current(i)]]
    OBVIOUS
  <2>3. rows[Current(i)] \in Nat
    BY <1>2 DEF IInv, TypeOK
  <2>4. /\ v \in Sweeps /\ v.pc = "commit" /\ v.todo = w.todo /\ v.now = w.now
        /\ v.cadence = w.cadence /\ v.count = rows[Current(i)]
    BY <2>2, <2>3 DEF Sweeps
  <2>5. sweep' = [sweep EXCEPT ![i] = v] /\ row_lock' = row_lock
    <3>1. /\ sweep' = [sweep EXCEPT ![i].pc = "commit", ![i].count = rows[Current(i)]]
          /\ row_lock' = row_lock
      BY <1>5 DEF PurgeCount
    <3>2. [sweep EXCEPT ![i].pc = "commit", ![i].count = rows[Current(i)]] = [sweep EXCEPT ![i] = v]
      BY <2>1, <2>2 DEF IInv, TypeOK
    <3> QED  BY <3>1, <3>2
  <2>6. Len(v.todo) <= BatchSize
    BY <2>1, <2>4 DEF IInv, TypeOK
  <2>7. /\ sweep' \in [Instances -> Sweeps] /\ sweep'[i] = v
        /\ \A j \in Instances : Len(sweep'[j].todo) <= BatchSize
        /\ \A j \in Instances \ {i} : sweep'[j] = sweep[j]
    BY <2>4, <2>5, <2>6, SweepType
  <2>8. Current(i)' = Current(i) /\ Expired(Current(i), w.now)'
    BY <1>1, <2>1, <2>4, <2>7 DEF Current, Expired, IInv, SweepHolds
  <2>9. SweepHolds(i)'
    BY <1>1, <1>2, <2>1, <2>4, <2>5, <2>7, <2>8 DEF IInv, SweepHolds
  <2> QED  BY <1>1, <1>3, <2>5, <2>7, <2>9, PurgeStep
<1> QED  BY <1>4, <1>5

LEMMA PurgeCommitStep ==
  ASSUME IInv, NEW i \in Instances, PurgeCommit(i)
  PROVE  IInv'
<1>1. PICK s : s = Current(i)
  OBVIOUS
<1>2. /\ sweep[i].pc = "commit" /\ NextCandidate(i)
      /\ rows' = [rows EXCEPT ![s] = 0]
      /\ purged' = [purged EXCEPT ![s] = purged[s] + sweep[i].count]
      /\ row_lock' = [row_lock EXCEPT ![s] = None]
      /\ UNCHANGED << now, closed_at, written, advisory, faults >>
  BY <1>1 DEF PurgeCommit
<1>3. s \in Sessions /\ row_lock[s] = i /\ sweep[i].count = rows[s]
  BY <1>1, <1>2, CurrentType DEF IInv, SweepHolds
<1>4. /\ rows \in [Sessions -> Nat] /\ purged \in [Sessions -> Nat]
      /\ written \in [Sessions -> Nat]
      /\ \A t \in Sessions : purged[t] + rows[t] = written[t]
      /\ faults' \in 0 .. MaxFaults /\ row_lock \in [Sessions -> Instances \cup {None}]
  BY <1>2 DEF IInv, TypeOK, PurgeAuditExact
<1>5. rows' \in [Sessions -> Nat] /\ purged' \in [Sessions -> Nat]
  BY <1>2, <1>3, <1>4
<1>6. PurgeAuditExact'
  <2>1. ASSUME NEW t \in Sessions PROVE purged'[t] + rows'[t] = written'[t]
    <3>1. CASE t = s
      <4>1. purged'[t] = purged[t] + rows[t] /\ rows'[t] = 0
        BY <1>2, <1>3, <1>4, <3>1
      <4>2. purged[t] \in Nat /\ rows[t] \in Nat
        BY <1>4
      <4> QED  BY <1>2, <1>4, <4>1, <4>2
    <3>2. CASE t # s
      BY <1>2, <1>4, <3>2
    <3> QED  BY <3>1, <3>2
  <2> QED  BY <2>1 DEF PurgeAuditExact
<1>7. /\ sweep' \in [Instances -> Sweeps] /\ SweepHolds(i)'
      /\ \A j \in Instances : Len(sweep'[j].todo) <= BatchSize
      /\ \A j \in Instances \ {i} : sweep'[j] = sweep[j]
  BY <1>2, NextCandidateHolds
<1>8. /\ row_lock' \in [Sessions -> Instances \cup {None}]
      /\ \A t \in Sessions : row_lock[t] \notin {i, None} =>
           row_lock'[t] = row_lock[t] /\ rows'[t] = rows[t]
  BY <1>2, <1>3, <1>4
<1> QED  BY <1>2, <1>4, <1>5, <1>6, <1>7, <1>8, PurgeStep

\* A rolled back transaction gives back its own row locks.
LEMMA UnlockedType ==
  ASSUME IInv, NEW i \in Instances, row_lock' = Unlocked(i)
  PROVE  /\ row_lock' \in [Sessions -> Instances \cup {None}]
         /\ \A s \in Sessions : row_lock[s] # i => row_lock'[s] = row_lock[s]
BY DEF IInv, TypeOK, Unlocked

LEMMA SweepFailsStep ==
  ASSUME IInv, NEW i \in Instances, SweepFails(i)
  PROVE  IInv'
<1>1. /\ sweep[i].pc \in {"list", "lock", "count", "commit"} /\ row_lock' = Unlocked(i)
      /\ sweep' = [sweep EXCEPT ![i] = Finished(i)]
      /\ UNCHANGED << now, closed_at, rows, written, purged, advisory >>
  BY DEF SweepFails
<1>2. /\ rows' \in [Sessions -> Nat] /\ purged' \in [Sessions -> Nat] /\ PurgeAuditExact'
  BY <1>1 DEF IInv, TypeOK, PurgeAuditExact
<1>3. faults' \in 0 .. MaxFaults
  BY RetentionAssumption DEF SweepFails, IInv, TypeOK
<1>4. Finished(i) \in Sweeps /\ Len(Finished(i).todo) <= BatchSize
  BY <1>1, FinishedType
<1>5. /\ sweep' \in [Instances -> Sweeps] /\ sweep'[i] = Finished(i)
      /\ \A j \in Instances : Len(sweep'[j].todo) <= BatchSize
      /\ \A j \in Instances \ {i} : sweep'[j] = sweep[j]
  BY <1>1, <1>4, SweepType
<1>6. SweepHolds(i)'
  BY <1>1, <1>5, FinishedHolds
<1> QED  BY <1>1, <1>2, <1>3, <1>5, <1>6, UnlockedType, PurgeStep

LEMMA CrashStep ==
  ASSUME IInv, NEW i \in Instances, Crash(i)
  PROVE  IInv'
<1>1. PICK w : w = [NoSweep EXCEPT !.pc = "boot"]
  OBVIOUS
<1>2. w \in Sweeps /\ w.pc = "boot" /\ w.cadence = None /\ w.now = 0 /\ w.todo = << >>
  BY <1>1, NoSweepType DEF Sweeps
<1>3. /\ row_lock' = Unlocked(i) /\ sweep' = [sweep EXCEPT ![i] = w]
      /\ advisory' = IF advisory = i THEN None ELSE advisory
      /\ UNCHANGED << now, closed_at, rows, written, purged >>
  BY <1>1 DEF Crash
<1>4. Len(w.todo) <= BatchSize
  BY <1>2, RetentionAssumption
<1>5. /\ sweep' \in [Instances -> Sweeps] /\ sweep'[i] = w
      /\ \A j \in Instances : Len(sweep'[j].todo) <= BatchSize
      /\ \A j \in Instances \ {i} : sweep'[j] = sweep[j]
  BY <1>2, <1>3, <1>4, SweepType
<1>6. faults' \in 0 .. MaxFaults /\ advisory' \in Instances \cup {None}
  BY <1>3, RetentionAssumption DEF Crash, IInv, TypeOK
<1>7. TypeOK' /\ PurgeAuditExact'
  BY <1>3, <1>5, <1>6, UnlockedType DEF IInv, TypeOK, PurgeAuditExact
<1>8. ASSUME NEW j \in Instances PROVE SweepHolds(j)'
  <2>1. now' \in Times /\ now <= now' /\ now' \in Nat
    BY <1>3, NoneIsNone DEF IInv, TypeOK
  <2>2. CASE j # i
    <3>1. \A s \in Sessions : row_lock[s] = j =>
            row_lock'[s] = j /\ rows'[s] = rows[s] /\ closed_at'[s] = closed_at[s]
      BY <1>3, <2>2, UnlockedType
    <3>2. advisory = j => advisory' = j
      BY <1>3, <2>2
    <3> QED  BY <1>5, <2>1, <2>2, <3>1, <3>2, SweepKept
  <2>3. CASE j = i
    BY <1>2, <1>5, <2>1, <2>3, NoneIsNone DEF SweepHolds
  <2> QED  BY <2>2, <2>3
<1> QED  BY <1>7, <1>8 DEF IInv

-----------------------------------------------------------------------------
(***************************************************************************)
(* The theorems.                                                           *)
(***************************************************************************)
LEMMA NextHolds == IInv /\ [Next]_vars => IInv'
<1> SUFFICES ASSUME IInv, [Next]_vars PROVE IInv'
  OBVIOUS
<1>1. ASSUME NEW i \in Instances, Step(i) \/ SweepFails(i) \/ UnlockFails(i) \/ Crash(i)
      PROVE  IInv'
  BY <1>1, StartupStep, PeriodicStep, ListStep, PurgeLockStep, PurgeCountStep, PurgeCommitStep,
     UnlockStep, SweepFailsStep, CrashStep DEF Step
<1>2. CASE ConnectionCloses
  BY <1>2, ConnectionStep
<1>3. CASE Sessions # {}
  <2>1. PICK s \in Sessions : TRUE
    BY <1>3
  <2>2. CASE Tick \/ UNCHANGED vars
    BY <2>2, OutsideStep
  <2>3. ASSUME NEW t \in Sessions, AppendRow(t) \/ SetStatus(t, None) \/ SetStatus(t, now) PROVE IInv'
    BY <2>3, OutsideStep
  <2> QED  BY <1>1, <1>2, <2>2, <2>3 DEF Next
<1>4. CASE Sessions = {} /\ (Tick \/ UNCHANGED vars)
  <2>1. UNCHANGED << closed_at, rows, written, row_lock, purged, advisory, sweep, faults >>
    BY <1>4 DEF Tick, db, vars
  <2>2. now' \in Times /\ now <= now' /\ now \in Nat /\ now' \in Nat
    BY <1>4, NoneIsNone, RetentionAssumption DEF Tick, vars, IInv, TypeOK, Times
  <2>3. TypeOK' /\ PurgeAuditExact'
    BY <2>1, <2>2 DEF IInv, TypeOK, PurgeAuditExact
  <2>4. ASSUME NEW j \in Instances PROVE SweepHolds(j)'
    BY <2>1, <2>2, SweepKept
  <2> QED  BY <2>3, <2>4 DEF IInv
<1> QED  BY <1>1, <1>2, <1>3, <1>4 DEF Next

\* What a purge has checked and counted under its locks stays true until its
\* commit, through late writers, revived sessions, failing statements and
\* crashes (purge_for_retention, run_one_periodic_tick).
THEOREM RetentionInvariant == Spec => []IInv
<1>1. Init => IInv
  BY InitHolds
<1>2. IInv /\ [Next]_vars => IInv'
  BY NextHolds
<1> QED  BY <1>1, <1>2, PTL DEF Spec

\* An audit event counts exactly the rows its purge deleted
\* (purge_for_retention).
THEOREM PurgesAreAudited == Spec => []PurgeAuditExact
<1>1. IInv => PurgeAuditExact
  BY DEF IInv
<1> QED  BY <1>1, RetentionInvariant, PTL

\* The advisory lock lets no two instances run a periodic sweep at a time
\* (try_advisory_lock), and a purge acts on what it holds locked.
THEOREM SweepsKeptApart == Spec => []RetentionInv
<1>1. IInv => OnePeriodicSweep
  <2> SUFFICES ASSUME IInv PROVE OnePeriodicSweep
    OBVIOUS
  <2> DEFINE running == {i \in Instances : sweep[i].cadence = "periodic" /\ sweep[i].pc # "idle"}
  <2>1. running \subseteq {advisory}
    BY DEF IInv, SweepHolds
  <2> HIDE DEF running
  <2>2. IsFiniteSet({advisory}) /\ Cardinality({advisory}) = 1
    BY FS_Singleton
  <2>3. Cardinality(running) <= 1
    BY <2>1, <2>2, FS_Subset
  <2> QED  BY <2>3 DEF OnePeriodicSweep, running
<1>2. IInv => RetentionInv
  BY <1>1 DEF IInv, RetentionInv
<1> QED  BY <1>2, RetentionInvariant, PTL

\* A recording loses rows only to a purge of a session that is closed and past
\* retention at that very moment (purge_for_retention).
THEOREM OnlyExpiredRecordingsPurged == Spec => OnlyExpiredPurged
<1>1. IInv /\ [Next]_vars => [\A s \in Sessions : rows'[s] < rows[s] => Expired(s, now)]_vars
  <2> SUFFICES ASSUME IInv, Next, NEW s \in Sessions, rows'[s] < rows[s]
               PROVE  Expired(s, now)
    OBVIOUS
  <2>1. rows \in [Sessions -> Nat] /\ rows[s] \in Nat /\ ~(rows[s] < rows[s]) /\ ~(rows[s] + 1 < rows[s])
    BY DEF IInv, TypeOK
  <2>2. ASSUME NEW i \in Instances, PurgeCommit(i) PROVE Expired(s, now)
    <3>1. sweep[i].pc = "commit" /\ rows' = [rows EXCEPT ![Current(i)] = 0]
      BY <2>2 DEF PurgeCommit
    <3>2. s = Current(i)
      BY <2>1, <3>1
    <3>3. Expired(s, sweep[i].now) /\ sweep[i].now <= now
      BY <3>1, <3>2 DEF IInv, SweepHolds
    <3>4. /\ sweep[i].now \in Nat /\ now \in Nat /\ RetentionDays \in Nat
          /\ closed_at[s] # None => closed_at[s] \in Nat
      BY NoneIsNone, RetentionAssumption DEF IInv, TypeOK, Sweeps
    <3> QED  BY <3>3, <3>4 DEF Expired
  <2>3. ASSUME NEW i \in Instances,
               (Step(i) /\ ~PurgeCommit(i)) \/ SweepFails(i) \/ UnlockFails(i) \/ Crash(i)
        PROVE  rows' = rows
    BY <2>3 DEF Step, StartupSweep, PeriodicTick, List, PurgeLock, PurgeCount, Unlock, SweepFails,
       UnlockFails, Crash, db
  <2>4. CASE ConnectionCloses \/ Tick \/ \E t \in Sessions : SetStatus(t, None) \/ SetStatus(t, now)
    BY <2>1, <2>4 DEF ConnectionCloses, Tick, SetStatus, db
  <2>5. ASSUME NEW t \in Sessions, AppendRow(t) PROVE FALSE
    BY <2>1, <2>5 DEF AppendRow
  <2> QED  BY <2>1, <2>2, <2>3, <2>4, <2>5 DEF Next
<1> QED  BY <1>1, RetentionInvariant, PTL DEF Spec, OnlyExpiredPurged
=============================================================================
