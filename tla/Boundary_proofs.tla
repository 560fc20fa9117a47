-------------------------- MODULE Boundary_proofs ---------------------------
(***************************************************************************)
(* Proofs about what stands between the outside and the sessions: host key *)
(* trust, the boot and its configuration, the rows that requests make, the *)
(* recording viewer and the terminal sockets with their binary frames.     *)
(* Each holds for every value of its module's constants.                   *)
(***************************************************************************)
EXTENDS HostKeys, Startup, Records, RecordingReplay, Socket,
        FiniteSetTheorems, SequenceTheorems, WellFoundedInduction, TLAPS

-----------------------------------------------------------------------------
(*****************************************************************************)
(* Recursion.  A set of numbers has a least one, and so a function may be  *)
(* defined by what it does to the value before.                            *)
(*****************************************************************************)

LEMMA LeastNat ==
  ASSUME NEW T, T \subseteq Nat, T # {}
  PROVE  \E k \in T : \A j \in T : k <= j
<1>1. \E R : IsWellFoundedOn(R, Nat) /\ \A j, k \in Nat : j < k => <<j, k>> \in R
  <2>1. \A j, k \in Nat : j < k => <<j, k>> \in OpToRel(<, Nat)
    BY Zenon DEF OpToRel
  <2> QED  BY <2>1, NatLessThanWellFounded, Zenon
<1>2. PICK R : IsWellFoundedOn(R, Nat) /\ \A j, k \in Nat : j < k => <<j, k>> \in R
  BY <1>1
<1>3. PICK k \in T : \A j \in T : ~(<<j, k>> \in R)
  <2>1. ASSUME NEW Q, IsWellFoundedOn(Q, Nat)
        PROVE  \E x \in T : \A y \in T : ~(<<y, x>> \in Q)
    BY <2>1, WFMin, Zenon
  <2> QED  BY <1>2, <2>1, Zenon
<1>4. ASSUME NEW j \in T PROVE k <= j
  <2>1. ~(j < k)
    BY <1>2, <1>3
  <2> QED  BY <2>1
<1> QED  BY <1>4

\* A function may be defined by what it does to the value before.
Iterates(x0, m, step, g) == g[0] = x0 /\ \A n \in 1 .. m : g[n] = step[n][g[n - 1]]

LEMMA IterationExists ==
  ASSUME NEW X, NEW x0 \in X, NEW m \in Nat, NEW step \in [1 .. m -> [X -> X]]
  PROVE  \E g \in [0 .. m -> X] : Iterates(x0, m, step, g)
<1> DEFINE T == {n \in 0 .. m : ~\E g \in [0 .. n -> X] : Iterates(x0, n, step, g)}
<1>0. m \in 0 .. m
  OBVIOUS
<1> SUFFICES ASSUME T # {} PROVE FALSE
  BY <1>0
<1>1. PICK k \in T : \A j \in T : k <= j
  <2>1. T \subseteq Nat
    OBVIOUS
  <2> QED  BY <2>1, LeastNat
<1>2. k # 0
  <2>1. PICK g : g = [n \in 0 .. 0 |-> x0]
    OBVIOUS
  <2>2. g \in [0 .. 0 -> X] /\ Iterates(x0, 0, step, g)
    BY <2>1 DEF Iterates
  <2> QED  BY <2>2
<1>3. k \in 1 .. m /\ k - 1 \in 0 .. m /\ k - 1 \notin T
  BY <1>1, <1>2
<1>4. PICK g \in [0 .. k - 1 -> X] : Iterates(x0, k - 1, step, g)
  BY <1>3
<1>5. PICK h : h = [n \in 0 .. k |-> IF n = k THEN step[k][g[k - 1]] ELSE g[n]]
  OBVIOUS
<1>6. g[k - 1] \in X /\ step[k][g[k - 1]] \in X
  BY <1>3
<1>7. h \in [0 .. k -> X]
  <2>1. \A n \in 0 .. k : n = k \/ n \in 0 .. k - 1
    BY <1>3
  <2> QED  BY <1>5, <1>6, <2>1
<1>8. Iterates(x0, k, step, h)
  <2>1. h[0] = x0
    BY <1>3, <1>4, <1>5 DEF Iterates
  <2>2. ASSUME NEW n \in 1 .. k PROVE h[n] = step[n][h[n - 1]]
    <3>1. h[n - 1] = g[n - 1]
      BY <1>3, <1>5
    <3>2. CASE n = k
      BY <1>5, <3>1, <3>2
    <3>3. CASE n # k
      <4>1. n \in 1 .. k - 1 /\ h[n] = g[n]
        BY <1>3, <1>5, <3>3
      <4> QED  BY <1>4, <3>1, <4>1 DEF Iterates
    <3> QED  BY <3>2, <3>3
  <2> QED  BY <2>1, <2>2 DEF Iterates
<1> QED  BY <1>7, <1>8

-----------------------------------------------------------------------------
(*****************************************************************************)
(* Host key trust.                                                         *)
(*****************************************************************************)

\* What no step may do to a pin: take its row away or undo its revocation.
PinsKept ==
  \A k \in Keys : /\ pins[k] # "none" => pins'[k] # "none"
                  /\ pins[k] = "revoked" => pins'[k] = "revoked"

\* A transaction of request s that holds a row keeps it and finds it active.
LockKept(s) ==
  req[s].pc = "commit" =>
    locked'[req[s].old] = locked[req[s].old] /\ pins'[req[s].old] = pins[req[s].old]

-----------------------------------------------------------------------------
(***************************************************************************)
(* The types of what the steps store in a request.                         *)
(***************************************************************************)
LEMMA IdleTyped == Idle \in Request
BY DEF Idle, Request, NoRows, Steps

LEMMA MovedTyped ==
  ASSUME NEW q \in Request, NEW step \in Steps
  PROVE  [q EXCEPT !.pc = step] \in Request
BY DEF Request

LEMMA CaptureTyped ==
  ASSUME NEW q \in Request, NEW step \in Steps, NEW k \in Keys
  PROVE  [q EXCEPT !.pc = step, !.captured = k, !.known = NoRows] \in Request
BY DEF Request, NoRows

-----------------------------------------------------------------------------
(***************************************************************************)
(* The permits.                                                            *)
(***************************************************************************)

\* A step of one request that takes no permit and gives none back.
LEMMA PermitsUnmoved ==
  ASSUME PermitsAccounted, permits' = permits, Holders' = Holders
  PROVE  PermitsAccounted'
BY DEF PermitsAccounted

\* The semaphore counts down when a check enters and up when it leaves.
LEMMA PermitTaken ==
  ASSUME TypeOK, PermitsAccounted, NEW r \in Reqs, r \notin Holders,
         permits # 0, permits' = permits - 1, Holders' = Holders \cup {r}
  PROVE  PermitsAccounted' /\ permits' \in 0 .. MaxPermits
<1>1. IsFiniteSet(Holders)
  BY KeysAssumption, FS_Subset DEF Holders
<1>2. Cardinality(Holders') = Cardinality(Holders) + 1
  BY <1>1, FS_AddElement
<1>3. Cardinality(Holders) \in Nat
  BY <1>1, FS_CardinalityType
<1> QED  BY <1>2, <1>3, KeysAssumption DEF PermitsAccounted, TypeOK

LEMMA PermitReturned ==
  ASSUME TypeOK, PermitsAccounted, NEW r \in Holders,
         permits' = permits + 1, Holders' = Holders \ {r}
  PROVE  PermitsAccounted' /\ permits' \in 0 .. MaxPermits
<1>1. IsFiniteSet(Holders)
  BY KeysAssumption, FS_Subset DEF Holders
<1>2. Cardinality(Holders') = Cardinality(Holders) - 1
  BY <1>1, FS_RemoveElement
<1>3. Cardinality(Holders) \in Nat /\ Cardinality(Holders') \in Nat
  <2>1. IsFiniteSet(Holders')
    BY <1>1, FS_Subset
  <2> QED  BY <1>1, <2>1, FS_CardinalityType
<1> QED  BY <1>2, <1>3, KeysAssumption DEF PermitsAccounted, TypeOK

\* A request that ends gives back the permit it holds, if it holds one.
LEMMA PermitsOnDone ==
  ASSUME TypeOK, PermitsAccounted, NEW r \in Reqs, Done(r), Released(r)
  PROVE  PermitsAccounted' /\ permits' \in 0 .. MaxPermits
<1>1. Holders' = Holders \ {r}
  BY DEF Holders, Done, Idle, TypeOK
<1>2. CASE r \in Holders
  <2>1. permits' = permits + 1
    BY <1>2 DEF Released, Holders
  <2> QED  BY <1>1, <1>2, <2>1, PermitReturned
<1>3. CASE r \notin Holders
  <2>1. permits' = permits
    BY <1>3 DEF Released, Holders
  <2> QED  BY <1>1, <1>3, <2>1 DEF PermitsAccounted, TypeOK
<1> QED  BY <1>2, <1>3

-----------------------------------------------------------------------------
(***************************************************************************)
(* One request takes a step; the others keep what they know.               *)
(***************************************************************************)
LEMMA OtherRequest ==
  ASSUME TypeOK, NEW s \in Reqs, ReqInv(s), req'[s] = req[s], PinsKept, LockKept(s)
  PROVE  ReqInv(s)'
BY DEF ReqInv, PinsKept, LockKept, Revoked, TypeOK, Request

LEMMA OneRequest ==
  ASSUME PinsInv, NEW r \in Reqs, PinsKept,
         TypeOK', ReplacementsPair', PermitsAccounted', ReqInv(r)',
         \A s \in Reqs \ {r} : req'[s] = req[s] /\ LockKept(s)
  PROVE  PinsInv'
<1>1. ASSUME NEW s \in Reqs PROVE ReqInv(s)'
  <2>1. CASE s = r
    BY <2>1
  <2>2. CASE s # r
    BY <2>2, OtherRequest DEF PinsInv
  <2> QED  BY <2>1, <2>2
<1> QED  BY <1>1 DEF PinsInv

\* A step that leaves the rows, the links and the locks alone.
LEMMA RowsUntouched ==
  ASSUME PinsInv, NEW r \in Reqs, UNCHANGED << pins, replaced_by, locked >>,
         TypeOK', PermitsAccounted', ReqInv(r)',
         \A s \in Reqs \ {r} : req'[s] = req[s]
  PROVE  PinsInv'
<1>1. ReplacementsPair'
  BY DEF PinsInv, ReplacementsPair
<1>2. PinsKept /\ \A s \in Reqs : LockKept(s)
  BY DEF PinsKept, LockKept
<1> QED  BY <1>1, <1>2, OneRequest

\* The request's own step, without a permit moving.
LEMMA IdleInv ==
  ASSUME TypeOK', NEW r \in Reqs, req'[r] = Idle
  PROVE  ReqInv(r)'
BY KeysAssumption DEF ReqInv, Idle, NoRows, Revoked, Kinds

-----------------------------------------------------------------------------
(***************************************************************************)
(* PinsInv holds initially and every action preserves it.                  *)
(***************************************************************************)
LEMMA InitPins == Init => PinsInv
<1> SUFFICES ASSUME Init PROVE PinsInv
  OBVIOUS
<1>1. TypeOK
  <2>1. req \in [Reqs -> Request]
    BY IdleTyped DEF Init
  <2>2. permits \in 0 .. MaxPermits
    BY KeysAssumption DEF Init
  <2>3. /\ pins \in [Keys -> {"none", "trusted", "revoked"}]
        /\ replaced_by \in [Keys -> Keys \cup {None}]
        /\ locked \in [Keys -> Reqs \cup {None}]
        /\ server \in Keys
        /\ disabled \in BOOLEAN
    BY DEF Init, NoRows
  <2> QED  BY <2>1, <2>2, <2>3 DEF TypeOK
<1>2. ReplacementsPair
  BY KeysAssumption DEF Init, ReplacementsPair, NoRows
<1>3. Holders = {}
  BY DEF Init, Holders, Idle
<1>4. PermitsAccounted
  BY <1>3, FS_EmptySet, KeysAssumption DEF Init, PermitsAccounted
<1>5. \A r \in Reqs : ReqInv(r)
  BY KeysAssumption DEF Init, ReqInv, Idle, NoRows, Revoked, Kinds
<1> QED  BY <1>1, <1>2, <1>4, <1>5 DEF PinsInv

LEMMA StartInv ==
  ASSUME PinsInv, NEW r \in Reqs, NEW kind \in Kinds,
         NEW old \in Keys \cup {None}, NEW new \in Keys \cup {None},
         kind = "replace" => old \in Keys,
         Start(r, kind, old, new)
  PROVE  PinsInv'
<1>1. TypeOK /\ PermitsAccounted
  BY DEF PinsInv
<1>2. /\ req'[r].kind = kind /\ req'[r].pc = "read" /\ req'[r].old = old
      /\ req'[r].known = NoRows /\ req'[r].captured = None /\ req'[r].new = new
      /\ req'[r].gone \subseteq Revoked(pins)
      /\ req'[r] \in Request
  BY <1>1 DEF Start, Idle, TypeOK, Request, Kinds, Steps, NoRows, Revoked
<1>3. TypeOK'
  BY <1>1, <1>2 DEF Start, TypeOK
<1>4. Holders' = Holders
  BY <1>1 DEF Start, Holders, Idle, TypeOK
<1>5. PermitsAccounted'
  BY <1>1, <1>4, PermitsUnmoved DEF Start
<1>6. ReqInv(r)'
  BY <1>2 DEF ReqInv, NoRows, Start, Revoked
<1> QED  BY <1>1, <1>3, <1>5, <1>6, RowsUntouched DEF Start, TypeOK

LEMMA ReadPinsInv ==
  ASSUME PinsInv, NEW r \in Reqs, ReadPins(r)
  PROVE  PinsInv'
<1>1. TypeOK /\ PermitsAccounted /\ ReqInv(r)
  BY DEF PinsInv
<1>2. CASE Done(r)
  <2>1. TypeOK' /\ req'[r] = Idle
    BY <1>1, <1>2 DEF ReadPins, TypeOK, Done, Request, Idle, NoRows, Steps, Kinds
  <2>2. Holders' = Holders
    BY <1>1, <1>2 DEF ReadPins, Done, Holders, Idle, TypeOK
  <2> QED
    BY <1>1, <1>2, <2>1, <2>2, PermitsUnmoved, IdleInv, RowsUntouched
    DEF ReadPins, Done, TypeOK
<1>3. CASE ~Done(r)
  <2>1. req' = [req EXCEPT ![r].known = pins,
                           ![r].pc = CASE req[r].kind = "check" -> "acquire"
                                       [] req[r].kind = "launch" -> "connect"
                                       [] OTHER -> "probe"]
    BY <1>3 DEF ReadPins
  <2>2. PICK next \in {"acquire", "connect", "probe"} :
          /\ req' = [req EXCEPT ![r].known = pins, ![r].pc = next]
          /\ next = "connect" => req[r].kind # "check"
    BY <2>1
  <2>3. TypeOK'
    BY <1>1, <2>2 DEF ReadPins, TypeOK, Request, Steps
  <2>4. Holders' = Holders
    BY <1>1, <2>2 DEF ReadPins, Holders, TypeOK, Request
  <2>5. ReqInv(r)'
    BY <1>1, <2>2 DEF ReadPins, ReqInv, TypeOK, Request, Revoked
  <2> QED
    BY <1>1, <2>2, <2>3, <2>4, <2>5, PermitsUnmoved, RowsUntouched
    DEF ReadPins, TypeOK
<1> QED  BY <1>2, <1>3

\* A probe ends the request or leaves it with the captured key.
LEMMA ProbeInv ==
  ASSUME PinsInv, NEW r \in Reqs, req[r].pc = "probe",
         UNCHANGED << pins, replaced_by, locked, server, disabled, permits >>,
         \/ Done(r)
         \/ \E next \in {"trust", "lock"} :
              /\ next = "lock" => req[r].kind = "replace"
              /\ req' = [req EXCEPT ![r].pc = next, ![r].captured = server, ![r].known = NoRows]
  PROVE  PinsInv'
<1>1. TypeOK /\ PermitsAccounted /\ ReqInv(r)
  BY DEF PinsInv
<1>2. CASE Done(r)
  <2>1. TypeOK' /\ req'[r] = Idle
    BY <1>1, <1>2 DEF TypeOK, Done, Request, Idle, NoRows, Steps, Kinds
  <2>2. Holders' = Holders
    BY <1>1, <1>2 DEF Done, Holders, Idle, TypeOK
  <2> QED
    BY <1>1, <1>2, <2>1, <2>2, PermitsUnmoved, IdleInv, RowsUntouched DEF Done, TypeOK
<1>3. ASSUME NEW next \in {"trust", "lock"}, next = "lock" => req[r].kind = "replace",
             req' = [req EXCEPT ![r].pc = next, ![r].captured = server, ![r].known = NoRows]
      PROVE  PinsInv'
  <2>1. TypeOK'
    <3>1. server \in Keys /\ req[r] \in Request /\ next \in Steps
      BY <1>1, <1>3 DEF TypeOK, Steps
    <3>2. [req[r] EXCEPT !.pc = next, !.captured = server, !.known = NoRows] \in Request
      BY <3>1, CaptureTyped
    <3> QED  BY <1>1, <1>3, <3>2 DEF TypeOK
  <2>2. Holders' = Holders
    BY <1>1, <1>3 DEF Holders, TypeOK, Request
  <2>3. ReqInv(r)'
    BY <1>1, <1>3 DEF ReqInv, TypeOK, Request, Revoked, NoRows
  <2> QED
    BY <1>1, <1>3, <2>1, <2>2, <2>3, PermitsUnmoved, RowsUntouched DEF TypeOK
<1> QED  BY <1>2, <1>3

LEMMA RecordTrustedInv ==
  ASSUME PinsInv, NEW r \in Reqs, RecordTrusted(r)
  PROVE  PinsInv' /\ PinsKept
<1>1. TypeOK /\ PermitsAccounted /\ ReqInv(r) /\ ReplacementsPair
  BY DEF PinsInv
<1>2. PICK k \in Keys : k = req[r].captured
  BY <1>1 DEF RecordTrusted, At, ReqInv
<1>3. pins' = [pins EXCEPT ![k] = IF pins[k] = "none" THEN "trusted" ELSE pins[k]]
  BY <1>2 DEF RecordTrusted
<1>4. PinsKept
  BY <1>1, <1>3 DEF PinsKept, TypeOK
<1>5. TypeOK' /\ req'[r] = Idle
  <2>1. pins' \in [Keys -> {"none", "trusted", "revoked"}]
    BY <1>1, <1>3 DEF TypeOK
  <2>2. req' \in [Reqs -> Request] /\ req'[r] = Idle
    BY <1>1, IdleTyped DEF RecordTrusted, TypeOK, Done
  <2> QED  BY <1>1, <2>1, <2>2 DEF RecordTrusted, TypeOK
<1>6. Holders' = Holders
  BY <1>1 DEF RecordTrusted, At, Done, Holders, Idle, TypeOK
<1>7. PermitsAccounted'
  BY <1>1, <1>6, PermitsUnmoved DEF RecordTrusted
<1>8. ReplacementsPair'
  BY <1>1, <1>3 DEF RecordTrusted, ReplacementsPair, TypeOK
<1>9. ASSUME NEW s \in Reqs \ {r} PROVE req'[s] = req[s] /\ LockKept(s)
  <2>1. req'[s] = req[s]
    BY <1>1 DEF RecordTrusted, Done, TypeOK
  <2>2. ReqInv(s)
    BY DEF PinsInv
  <2>3. LockKept(s)
    BY <1>1, <1>3, <2>2 DEF LockKept, ReqInv, RecordTrusted, TypeOK
  <2> QED  BY <2>1, <2>3
<1> QED  BY <1>4, <1>5, <1>7, <1>8, <1>9, IdleInv, OneRequest

LEMMA ReplaceLockInv ==
  ASSUME PinsInv, NEW r \in Reqs, ReplaceLock(r)
  PROVE  PinsInv'
<1>1. TypeOK /\ PermitsAccounted /\ ReqInv(r) /\ ReplacementsPair
  BY DEF PinsInv
<1>2. PICK k \in Keys : k = req[r].old
  BY <1>1 DEF ReplaceLock, At, ReqInv
<1>3. locked[k] = None /\ UNCHANGED << pins, replaced_by, permits, server, disabled >>
  BY <1>2 DEF ReplaceLock
<1>4. ReplacementsPair' /\ PinsKept
  BY <1>1, <1>3 DEF ReplacementsPair, PinsKept
<1>5. CASE pins[k] = "trusted"
  <2>1. locked' = [locked EXCEPT ![k] = r] /\ req' = [req EXCEPT ![r].pc = "commit"]
    BY <1>2, <1>5 DEF ReplaceLock, Go
  <2>2. TypeOK'
    <3>1. [req[r] EXCEPT !.pc = "commit"] \in Request
      BY <1>1, MovedTyped DEF TypeOK, Steps
    <3> QED  BY <1>1, <1>3, <2>1, <3>1 DEF TypeOK
  <2>3. Holders' = Holders
    BY <1>1, <2>1 DEF ReplaceLock, At, Holders, TypeOK, Request
  <2>4. ReqInv(r)'
    BY <1>1, <1>2, <1>3, <1>5, <2>1 DEF ReplaceLock, At, ReqInv, TypeOK, Request, Revoked
  <2>5. ASSUME NEW s \in Reqs \ {r} PROVE req'[s] = req[s] /\ LockKept(s)
    <3>1. req'[s] = req[s]
      BY <1>1, <2>1 DEF TypeOK
    <3>2. ReqInv(s)
      BY DEF PinsInv
    <3>3. req[s].pc = "commit" => req[s].old # k
      BY <1>3, <3>2, KeysAssumption DEF ReqInv
    <3> QED  BY <1>1, <1>3, <2>1, <3>1, <3>2, <3>3 DEF LockKept, ReqInv, TypeOK
  <2> QED  BY <1>1, <1>3, <1>4, <2>2, <2>3, <2>4, <2>5, PermitsUnmoved, OneRequest
<1>6. CASE pins[k] # "trusted"
  <2>1. UNCHANGED locked /\ Done(r)
    BY <1>2, <1>6 DEF ReplaceLock
  <2>2. TypeOK' /\ req'[r] = Idle
    BY <1>1, <1>3, <2>1 DEF TypeOK, Done, Request, Idle, NoRows, Steps, Kinds
  <2>3. Holders' = Holders
    BY <1>1, <2>1 DEF ReplaceLock, At, Done, Holders, Idle, TypeOK
  <2> QED
    BY <1>1, <1>3, <2>1, <2>2, <2>3, PermitsUnmoved, IdleInv, RowsUntouched DEF Done, TypeOK
<1> QED  BY <1>5, <1>6

LEMMA ReplaceCommitInv ==
  ASSUME PinsInv, NEW r \in Reqs, ReplaceCommit(r)
  PROVE  /\ PinsInv'
         /\ \A k \in Keys : pins[k] = "revoked" =>
              pins'[k] = "revoked" /\ replaced_by'[k] = replaced_by[k]
<1>1. TypeOK /\ PermitsAccounted /\ ReqInv(r) /\ ReplacementsPair
  BY DEF PinsInv
<1>2. PICK old \in Keys, new \in Keys : old = req[r].old /\ new = req[r].captured
  BY <1>1 DEF ReplaceCommit, At, ReqInv
<1>3. /\ pins[old] = "trusted" /\ locked[old] = r
      /\ locked' = [locked EXCEPT ![old] = None]
      /\ UNCHANGED << permits, server, disabled >>
  BY <1>1, <1>2 DEF ReplaceCommit, At, ReqInv
<1>4. \/ UNCHANGED << pins, replaced_by >>
      \/ /\ pins[new] = "none"
         /\ pins' = [pins EXCEPT ![new] = "trusted", ![old] = "revoked"]
         /\ replaced_by' = [replaced_by EXCEPT ![old] = new]
  BY <1>2 DEF ReplaceCommit
<1>5. TypeOK' /\ req'[r] = Idle
  BY <1>1, <1>2, <1>3, <1>4, IdleTyped
  DEF ReplaceCommit, TypeOK, Done
<1>6. PinsKept
  BY <1>1, <1>3, <1>4 DEF PinsKept, TypeOK
<1>7. ReplacementsPair'
  <2>1. CASE UNCHANGED << pins, replaced_by >>
    BY <1>1, <2>1 DEF ReplacementsPair
  <2>2. CASE /\ pins[new] = "none"
             /\ pins' = [pins EXCEPT ![new] = "trusted", ![old] = "revoked"]
             /\ replaced_by' = [replaced_by EXCEPT ![old] = new]
    <3>1. \A k \in Keys : pins'[k] = "revoked" <=> replaced_by'[k] # None
      BY <1>1, <1>3, <2>2, KeysAssumption DEF ReplacementsPair, TypeOK
    <3>2. \A k \in Keys : replaced_by'[k] # None => pins'[replaced_by'[k]] # "none"
      BY <1>1, <1>3, <2>2 DEF ReplacementsPair, TypeOK
    <3>3. \A k \in Keys : replaced_by[k] # new
      BY <1>1, <2>2, KeysAssumption DEF ReplacementsPair
    <3>4. \A j, k \in Keys :
            replaced_by'[j] = replaced_by'[k] /\ replaced_by'[j] # None => j = k
      BY <1>1, <2>2, <3>3 DEF ReplacementsPair, TypeOK
    <3> QED  BY <3>1, <3>2, <3>4 DEF ReplacementsPair
  <2> QED  BY <1>4, <2>1, <2>2
<1>8. Holders' = Holders
  BY <1>1 DEF ReplaceCommit, At, Done, Holders, Idle, TypeOK
<1>9. PermitsAccounted'
  BY <1>1, <1>3, <1>8, PermitsUnmoved
<1>10. ASSUME NEW s \in Reqs \ {r} PROVE req'[s] = req[s] /\ LockKept(s)
  <2>1. req'[s] = req[s]
    BY <1>1 DEF ReplaceCommit, Done, TypeOK
  <2>2. ReqInv(s)
    BY DEF PinsInv
  <2>3. req[s].pc = "commit" => req[s].old # old /\ pins[req[s].old] = "trusted" /\ req[s].old \in Keys
    BY <1>3, <2>2 DEF ReqInv
  <2> QED  BY <1>1, <1>3, <1>4, <2>1, <2>3 DEF LockKept, TypeOK
<1>11. PinsInv'
  BY <1>5, <1>6, <1>7, <1>9, <1>10, IdleInv, OneRequest
<1>12. ASSUME NEW k \in Keys, pins[k] = "revoked"
       PROVE  pins'[k] = "revoked" /\ replaced_by'[k] = replaced_by[k]
  BY <1>1, <1>3, <1>4, <1>12 DEF TypeOK
<1> QED  BY <1>11, <1>12

LEMMA AcquireInv ==
  ASSUME PinsInv, NEW r \in Reqs, Acquire(r)
  PROVE  PinsInv'
<1>1. TypeOK /\ PermitsAccounted /\ ReqInv(r)
  BY DEF PinsInv
<1>2. CASE permits = 0
  <2>1. Done(r) /\ permits' = permits
    BY <1>2 DEF Acquire
  <2>2. TypeOK' /\ req'[r] = Idle
    BY <1>1, <2>1 DEF Acquire, TypeOK, Done, Request, Idle, NoRows, Steps, Kinds
  <2>3. Holders' = Holders
    BY <1>1, <2>1 DEF Acquire, At, Done, Holders, Idle, TypeOK
  <2> QED
    BY <1>1, <2>1, <2>2, <2>3, PermitsUnmoved, IdleInv, RowsUntouched DEF Acquire, Done, TypeOK
<1>3. CASE permits # 0
  <2>1. req' = [req EXCEPT ![r].pc = "connect"] /\ permits' = permits - 1
    BY <1>3 DEF Acquire, Go
  <2>2. r \notin Holders /\ Holders' = Holders \cup {r}
    BY <1>1, <2>1 DEF Acquire, At, Holders, TypeOK, Request
  <2>3. PermitsAccounted' /\ permits' \in 0 .. MaxPermits
    BY <1>1, <1>3, <2>1, <2>2, PermitTaken
  <2>4. TypeOK'
    <3>1. [req[r] EXCEPT !.pc = "connect"] \in Request
      BY <1>1, MovedTyped DEF TypeOK, Steps
    <3> QED  BY <1>1, <2>1, <2>3, <3>1 DEF Acquire, TypeOK
  <2>5. ReqInv(r)'
    BY <1>1, <2>1 DEF Acquire, At, ReqInv, TypeOK, Request, Revoked
  <2> QED  BY <1>1, <2>1, <2>3, <2>4, <2>5, RowsUntouched DEF Acquire, TypeOK
<1> QED  BY <1>2, <1>3

\* A request that ends with its permit, its rows as they were.
LEMMA EndsInv ==
  ASSUME PinsInv, NEW r \in Reqs, Done(r), Released(r),
         UNCHANGED << pins, replaced_by, locked, server, disabled >>
  PROVE  PinsInv'
<1>1. TypeOK /\ PermitsAccounted
  BY DEF PinsInv
<1>2. PermitsAccounted' /\ permits' \in 0 .. MaxPermits
  BY <1>1, PermitsOnDone
<1>3. TypeOK' /\ req'[r] = Idle
  BY <1>1, <1>2 DEF TypeOK, Done, Request, Idle, NoRows, Steps, Kinds
<1> QED  BY <1>1, <1>2, <1>3, IdleInv, RowsUntouched DEF Done, TypeOK

LEMMA HandshakeInv ==
  ASSUME PinsInv, NEW r \in Reqs, req[r].pc = "connect", Handshake(r)
  PROVE  PinsInv'
<1>1. TypeOK /\ PermitsAccounted /\ ReqInv(r)
  BY DEF PinsInv
<1>2. CASE CheckServerKey(r)
  <2>1. /\ req' = [req EXCEPT ![r].pc = "auth", ![r].captured = server, ![r].known = NoRows]
        /\ permits' = permits
    BY <1>2 DEF Handshake
  <2>2. TypeOK'
    <3>1. [req[r] EXCEPT !.pc = "auth", !.captured = server, !.known = NoRows] \in Request
      BY <1>1, CaptureTyped DEF TypeOK, Steps
    <3> QED  BY <1>1, <2>1, <3>1 DEF Handshake, TypeOK
  <2>3. Holders' = Holders
    BY <1>1, <2>1 DEF Holders, TypeOK, Request
  <2>4. pins[server] # "none" /\ server \notin req[r].gone /\ server \in Keys
    BY <1>1, <1>2 DEF CheckServerKey, AcceptPins, Active, ReqInv
  <2>5. ReqInv(r)'
    BY <1>1, <2>1, <2>4 DEF Handshake, ReqInv, TypeOK, Request, Revoked, NoRows
  <2> QED
    BY <1>1, <2>1, <2>2, <2>3, <2>5, PermitsUnmoved, RowsUntouched DEF Handshake, TypeOK
<1>3. CASE ~CheckServerKey(r)
  BY <1>3, EndsInv DEF Handshake
<1> QED  BY <1>2, <1>3

LEMMA DropInv ==
  ASSUME PinsInv, NEW r \in Reqs, Drop(r)
  PROVE  PinsInv'
<1>1. TypeOK /\ PermitsAccounted /\ ReplacementsPair
  BY DEF PinsInv
<1>2. PermitsAccounted' /\ permits' \in 0 .. MaxPermits
  BY <1>1, PermitsOnDone DEF Drop
<1>3. TypeOK' /\ req'[r] = Idle
  BY <1>1, <1>2 DEF Drop, TypeOK, Done, Request, Idle, NoRows, Steps, Kinds
<1>4. ReplacementsPair' /\ PinsKept
  BY <1>1 DEF Drop, ReplacementsPair, PinsKept
<1>5. ASSUME NEW s \in Reqs \ {r} PROVE req'[s] = req[s] /\ LockKept(s)
  <2>1. req'[s] = req[s]
    BY <1>1 DEF Drop, Done, TypeOK
  <2>2. ReqInv(s)
    BY DEF PinsInv
  <2>3. req[s].pc = "commit" => locked[req[s].old] = s /\ req[s].old \in Keys
    BY <2>2 DEF ReqInv
  <2> QED  BY <1>1, <2>1, <2>3 DEF LockKept, Drop, TypeOK
<1> QED  BY <1>2, <1>3, <1>4, <1>5, IdleInv, OneRequest

\* The environment: nothing that PinsInv looks at changes but its own types.
LEMMA EnvironmentInv ==
  ASSUME PinsInv, UNCHANGED << pins, replaced_by, locked, permits, req >>,
         server' \in Keys, disabled' \in BOOLEAN
  PROVE  PinsInv'
<1>1. TypeOK'
  BY DEF PinsInv, TypeOK
<1>2. ReplacementsPair' /\ PermitsAccounted' /\ \A r \in Reqs : ReqInv(r)'
  BY DEF PinsInv, ReplacementsPair, PermitsAccounted, Holders, ReqInv, Revoked
<1> QED  BY <1>1, <1>2 DEF PinsInv

-----------------------------------------------------------------------------
(***************************************************************************)
(* The theorems.                                                           *)
(***************************************************************************)
\* What a step of the routes and of the SSH services does: the invariant holds
\* on and revoked pins stay as they are.
RevokedKept ==
  \A k \in Keys : pins[k] = "revoked" =>
    pins'[k] = "revoked" /\ replaced_by'[k] = replaced_by[k]

LEMMA StepInv ==
  ASSUME PinsInv, NEW r \in Reqs, Step(r)
  PROVE  PinsInv' /\ RevokedKept
<1>1. CASE ReadPins(r)
  <2>1. PinsInv'
    BY <1>1, ReadPinsInv
  <2>2. pins' = pins /\ replaced_by' = replaced_by
    BY <1>1 DEF ReadPins
  <2> QED  BY <2>1, <2>2 DEF RevokedKept
<1>2. CASE ProbePreflight(r)
  <2>1. /\ req[r].pc = "probe" /\ Done(r)
        /\ UNCHANGED << pins, replaced_by, locked, server, disabled, permits >>
    BY <1>2, Zenon DEF ProbePreflight, At
  <2>2. PinsInv'
    BY <2>1, ProbeInv
  <2> QED  BY <2>1, <2>2 DEF RevokedKept
<1>3. CASE ProbeTrust(r)
  <2>1. /\ req[r].pc = "probe"
        /\ \/ Done(r)
           \/ req' = [req EXCEPT ![r].pc = "trust", ![r].captured = server, ![r].known = NoRows]
        /\ UNCHANGED << pins, replaced_by, locked, server, disabled, permits >>
    BY <1>3, Zenon DEF ProbeTrust, At, Captured
  <2>2. PinsInv'
    BY <2>1, ProbeInv
  <2> QED  BY <2>1, <2>2 DEF RevokedKept
<1>4. CASE ProbeReplace(r)
  BY <1>4, ProbeInv DEF ProbeReplace, At, Captured, RevokedKept
<1>5. CASE RecordTrusted(r)
  <2>1. PinsInv' /\ PinsKept
    BY <1>5, RecordTrustedInv
  <2> QED  BY <1>5, <2>1 DEF RecordTrusted, RevokedKept, PinsKept
<1>6. CASE ReplaceLock(r)
  BY <1>6, ReplaceLockInv DEF ReplaceLock, RevokedKept
<1>7. CASE ReplaceCommit(r)
  BY <1>7, ReplaceCommitInv DEF RevokedKept
<1>8. CASE Acquire(r)
  BY <1>8, AcquireInv DEF Acquire, RevokedKept
<1>9. CASE ConnectCheck(r) \/ ConnectPty(r)
  BY <1>9, HandshakeInv DEF ConnectCheck, ConnectPty, At, Handshake, RevokedKept
<1>10. CASE Authenticate(r)
  BY <1>10, EndsInv DEF Authenticate, RevokedKept
<1> QED  BY <1>1, <1>2, <1>3, <1>4, <1>5, <1>6, <1>7, <1>8, <1>9, <1>10 DEF Step

LEMMA NextPins == PinsInv /\ [Next]_vars => PinsInv' /\ RevokedKept
<1> SUFFICES ASSUME PinsInv, [Next]_vars PROVE PinsInv' /\ RevokedKept
  OBVIOUS
<1>1. ASSUME NEW r \in Reqs,
             HostKeyPreflight(r) \/ TrustHostKey(r) \/ ReplaceHostKey(r) \/ AuthCheck(r) \/ Launch(r)
      PROVE  PinsInv' /\ RevokedKept
  <2>1. PICK kind \in Kinds, old \in Keys \cup {None}, new \in Keys \cup {None} :
          (kind = "replace" => old \in Keys) /\ Start(r, kind, old, new)
    BY <1>1 DEF HostKeyPreflight, TrustHostKey, ReplaceHostKey, AuthCheck, Launch, Kinds
  <2> QED  BY <2>1, StartInv DEF Start, RevokedKept
<1>2. ASSUME NEW r \in Reqs, Step(r) PROVE PinsInv' /\ RevokedKept
  BY <1>2, StepInv
<1>3. ASSUME NEW r \in Reqs, Drop(r) PROVE PinsInv' /\ RevokedKept
  BY <1>3, DropInv DEF Drop, RevokedKept
<1>4. ASSUME NEW k \in Keys, Rekey(k) PROVE PinsInv' /\ RevokedKept
  BY <1>4, EnvironmentInv DEF Rekey, RevokedKept, PinsInv, TypeOK
<1>5. ASSUME NEW b \in BOOLEAN, SetDisabled(b) PROVE PinsInv' /\ RevokedKept
  BY <1>5, EnvironmentInv DEF SetDisabled, RevokedKept, PinsInv, TypeOK
<1>6. CASE UNCHANGED vars
  <2>1. server' \in Keys /\ disabled' \in BOOLEAN
    BY <1>6 DEF vars, PinsInv, TypeOK
  <2> QED  BY <1>6, <2>1, EnvironmentInv DEF vars, RevokedKept
<1> QED  BY <1>1, <1>2, <1>3, <1>4, <1>5, <1>6 DEF Next

\* PinsInv is an invariant of host key trust: the pins pair with their
\* replacements, the permits add up and no request acts on a pin it may not
\* (known_host_entry.rs, auth_check.rs, server_profiles.rs).
THEOREM PinsInvariant == Spec => []PinsInv
<1>1. PinsInv /\ [Next]_vars => PinsInv'
  BY NextPins
<1> QED  BY <1>1, InitPins, PTL DEF Spec

\* No request, however old what it read, authenticates to a server whose key was
\* never pinned or was revoked before the request began (check_server_key).
THEOREM CredentialsGuarded == Spec => []OfferedOnlyToPinned
<1>1. PinsInv => OfferedOnlyToPinned
  BY DEF PinsInv, ReqInv, OfferedOnlyToPinned
<1> QED  BY <1>1, PinsInvariant, PTL

\* No step undoes a revocation or its replacement link: not a trust that read
\* the rows earlier, not a second replacement (record_trusted's upsert,
\* replace_active_pin).
THEOREM RevocationIsFinal == Spec => RevokedForever
<1>1. PinsInv /\ [Next]_vars => [RevokedKept]_vars
  BY NextPins
<1> QED  BY <1>1, PinsInvariant, PTL DEF Spec, RevokedForever, RevokedKept

-----------------------------------------------------------------------------
(***************************************************************************)
(* The boot.  What main knows at each stage: the checks behind it have     *)
(* passed on the configuration it still uses.                              *)
(***************************************************************************)

Worked   == {"bind", "serving", "joining"}
Managed  == {"manager", "worker"} \cup Worked
Keyed    == {"runtime"} \cup Managed
Staffed  == {"vault"} \cup Keyed
Accepted == {"connect", "reconcile", "sweep", "first_user"} \cup Staffed
Ended    == {"exited", "failed", "panicked"}

Checked ==
  /\ boot \in {"secrets", "recording", "sessions"} \cup Accepted => ValidateAuth(cfg)
  /\ boot \in {"recording", "sessions"} \cup Accepted => ValidateProductionSecrets(cfg)
  /\ boot \in {"sessions"} \cup Accepted => ValidateTerminalRecording(cfg)
  /\ boot \in Accepted => ValidateTerminalSessions(cfg)

HasUser == cfg.mode = "production" /\ ~IsSet(cfg.bootstrap_token) => users

BootIInv ==
  /\ BootTypeOK /\ cfg.allowed_origins \in Seq(STRING) /\ Checked
  /\ wrote # {} => Validated(cfg) /\ boot \in Accepted \cup Ended
  /\ boot \in Staffed => HasUser
  /\ boot \in Keyed => VaultMasterKey(cfg) # "refused"
  /\ boot \in Managed => /\ cfg.rec_enabled => cfg.enc_mode = "disabled"
                         /\ recorder => cfg.rec_enabled /\ cfg.enc_mode = "disabled"
  /\ worker # "none" => WorkerConfigured /\ Validated(cfg) /\ boot \in Worked \cup Ended
  /\ boot # "panicked"

\* What SplitOrigins recurses over.
SplitStep(s) ==
  [n \in 1 .. Len(s) |-> [x \in Seq(STRING) |-> IF NotBlank(s[n]) THEN Append(x, s[n]) ELSE x]]

LEMMA SplitTyped ==
  ASSUME NEW s \in Seq(STRING)
  PROVE  SplitOrigins(s) \in Seq(STRING)
<1>1. PICK m \in Nat : m = Len(s) /\ \A n \in 1 .. m : s[n] \in STRING
  BY LenProperties, ElementOfSeq
<1>2. SplitStep(s) \in [1 .. m -> [Seq(STRING) -> Seq(STRING)]]
  <2>1. \A n \in 1 .. m : \A x \in Seq(STRING) : Append(x, s[n]) \in Seq(STRING)
    BY <1>1, AppendProperties
  <2> QED  BY <1>1, <2>1 DEF SplitStep
<1>3. << >> \in Seq(STRING)
  BY EmptySeq
<1>4. PICK g \in [0 .. m -> Seq(STRING)] : Iterates(<< >>, m, SplitStep(s), g)
  BY <1>2, <1>3, IterationExists
<1>5. /\ g[0] = << >>
      /\ \A n \in 1 .. m : g[n] = IF NotBlank(s[n]) THEN Append(g[n - 1], s[n]) ELSE g[n - 1]
  <2>1. ASSUME NEW n \in 1 .. m
        PROVE  g[n] = IF NotBlank(s[n]) THEN Append(g[n - 1], s[n]) ELSE g[n - 1]
    <3>1. g[n] = SplitStep(s)[n][g[n - 1]] /\ g[n - 1] \in Seq(STRING)
      BY <1>4 DEF Iterates
    <3> QED  BY <1>1, <3>1 DEF SplitStep
  <2> QED  BY <1>4, <2>1 DEF Iterates
<1> DEFINE kept == CHOOSE f : f = [n \in 0 .. Len(s) |->
                      IF n = 0 THEN << >>
                      ELSE IF NotBlank(s[n]) THEN Append(f[n - 1], s[n]) ELSE f[n - 1]]
<1>6. g = [n \in 0 .. Len(s) |->
             IF n = 0 THEN << >>
             ELSE IF NotBlank(s[n]) THEN Append(g[n - 1], s[n]) ELSE g[n - 1]]
  <2>1. \A n \in 0 .. m : n = 0 \/ n \in 1 .. m
    OBVIOUS
  <2>2. \A n \in 0 .. m : g[n] = IF n = 0 THEN << >>
             ELSE IF NotBlank(s[n]) THEN Append(g[n - 1], s[n]) ELSE g[n - 1]
    BY <1>5, <2>1
  <2> QED  BY <1>1, <2>2
<1>7. kept = [n \in 0 .. Len(s) |->
                IF n = 0 THEN << >>
                ELSE IF NotBlank(s[n]) THEN Append(kept[n - 1], s[n]) ELSE kept[n - 1]]
  BY <1>6
<1>8. SplitOrigins(s) = kept[Len(s)]
  BY DEF SplitOrigins
<1> HIDE DEF kept
<1>9. ASSUME NEW i \in 0 .. m PROVE kept[i] = g[i]
  <2> DEFINE T == {n \in 0 .. m : kept[n] # g[n]}
  <2> SUFFICES ASSUME T # {} PROVE FALSE
    OBVIOUS
  <2>1. PICK k \in T : \A j \in T : k <= j
    <3>1. T \subseteq Nat
      OBVIOUS
    <3> QED  BY <3>1, LeastNat
  <2>2. kept[0] = << >>
    BY <1>1, <1>7
  <2>3. k # 0
    BY <1>5, <2>2
  <2>4. k \in 1 .. m /\ k - 1 \in 0 .. m /\ k - 1 \notin T
    BY <2>1, <2>3
  <2>5. kept[k] = IF NotBlank(s[k]) THEN Append(kept[k - 1], s[k]) ELSE kept[k - 1]
    <3>1. k \in 0 .. Len(s) /\ k # 0
      BY <1>1, <2>3
    <3> QED  BY <1>7, <3>1
  <2> QED  BY <1>5, <2>4, <2>5
<1>10. m \in 0 .. m
  OBVIOUS
<1> QED  BY <1>1, <1>8, <1>9, <1>10

Typed(c) ==
  /\ DOMAIN c = Settings
  /\ c.mode \in AuthModes /\ c.enc_mode \in EncryptionModes
  /\ c.compression_mode \in CompressionModes /\ c.allowed_origins \in Seq(STRING)

LEMMA Named ==
  "mode" \in Settings /\ "enc_mode" \in Settings /\ "compression_mode" \in Settings
    /\ "allowed_origins" \in Settings
  BY DEF Settings, AuthSettings, RecordingSettings

LEMMA DefaultsTyped == Typed(Defaults)
<1>1. DOMAIN Defaults = Settings
  BY DEF Defaults, Settings, ServerSettings, AuthSettings, VaultSettings, RecordingSettings,
         CleanupSettings, SessionSettings
<1>2. /\ Defaults.mode = "dev" /\ Defaults.enc_mode = "disabled" /\ Defaults.compression_mode = "none"
      /\ Defaults.allowed_origins = << >>
  BY DEF Defaults
<1>3. << >> \in Seq(STRING)
  BY EmptySeq
<1> QED  BY <1>1, <1>2, <1>3 DEF Typed, AuthModes, EncryptionModes, CompressionModes

LEMMA MergeTyped ==
  ASSUME NEW c, Typed(c), NEW file, IsLayer(file)
  PROVE  Typed(MergeInto(c, file))
<1>1. PICK d : d = MergeInto(c, file)
  OBVIOUS
<1>2. DOMAIN d = Settings /\ \A s \in Settings : d[s] = IF s \in DOMAIN file THEN file[s] ELSE c[s]
  BY <1>1 DEF MergeInto
<1> QED  BY <1>1, <1>2, Named DEF Typed, IsLayer

LEMMA EnvTyped ==
  ASSUME NEW c, Typed(c), NEW env, IsLayer([s \in DOMAIN env \ {"DATABASE_URL"} |-> env[s]])
  PROVE  Typed(ApplyEnv(c, env))
<1>1. PICK l : l = [s \in DOMAIN env \ {"DATABASE_URL"} |-> env[s]]
  OBVIOUS
<1>2. \A s \in DOMAIN env : s # "DATABASE_URL" => s \in DOMAIN l /\ l[s] = env[s]
  BY <1>1
<1>3. IsLayer(l)
  BY <1>1
<1>4. PICK d : d = ApplyEnv(c, env)
  OBVIOUS
<1>5. /\ DOMAIN d = Settings
      /\ \A s \in {"mode", "enc_mode", "compression_mode"} :
           d[s] = IF s \in DOMAIN env THEN env[s] ELSE c[s]
      /\ d["allowed_origins"] = IF "allowed_origins" \in DOMAIN env
                                  THEN SplitOrigins(env["allowed_origins"]) ELSE c["allowed_origins"]
  BY <1>4, Named DEF ApplyEnv
<1>6. d["allowed_origins"] \in Seq(STRING)
  <2>1. CASE "allowed_origins" \in DOMAIN env
    <3>1. env["allowed_origins"] \in Seq(STRING)
      BY <1>2, <1>3, <2>1 DEF IsLayer
    <3> QED  BY <1>5, <2>1, <3>1, SplitTyped
  <2>2. CASE "allowed_origins" \notin DOMAIN env
    BY <1>5, <2>2 DEF Typed
  <2> QED  BY <2>1, <2>2
<1>7. ASSUME NEW s \in {"mode", "enc_mode", "compression_mode"}, s \in DOMAIN env
      PROVE  d[s] = l[s] /\ s \in DOMAIN l
  BY <1>2, <1>5, <1>7
<1>8. /\ d["mode"] \in AuthModes /\ d["enc_mode"] \in EncryptionModes
      /\ d["compression_mode"] \in CompressionModes
  BY <1>3, <1>5, <1>7 DEF IsLayer, Typed
<1> QED  BY <1>4, <1>5, <1>6, <1>8 DEF Typed

LEMMA LoadTyped ==
  ASSUME NEW source, IsSource(source)
  PROVE  Typed(Load(source))
<1>1. PICK below : below = IF ResolveFile(source) THEN MergeInto(Defaults, source.file) ELSE Defaults
  OBVIOUS
<1>2. Typed(below)
  BY <1>1, DefaultsTyped, MergeTyped DEF IsSource
<1>3. Load(source) = ApplyEnv(below, source.env)
  BY <1>1 DEF Load
<1> QED  BY <1>2, <1>3, EnvTyped DEF IsSource

LEMMA BootStarts == BootInit => BootIInv
<1> SUFFICES ASSUME BootInit PROVE BootIInv
  OBVIOUS
<1>1. /\ boot = "load" /\ cfg = Defaults /\ wrote = {} /\ worker = "none"
      /\ recorder = FALSE /\ signalled = FALSE /\ inflight = "none"
      /\ IsSource(src) /\ users \in BOOLEAN
  BY DEF BootInit, StartWith
<1>2. Typed(cfg)
  BY <1>1, DefaultsTyped
<1>3. BootTypeOK /\ cfg.allowed_origins \in Seq(STRING)
  BY <1>1, <1>2 DEF BootTypeOK, BootStages, Typed
<1>4. Checked
  BY <1>1 DEF Checked, Accepted, Staffed, Keyed, Managed, Worked
<1>5. boot \notin Staffed /\ boot \notin Keyed /\ boot \notin Managed /\ boot # "panicked"
  BY <1>1 DEF Staffed, Keyed, Managed, Worked
<1> QED  BY <1>1, <1>3, <1>4, <1>5 DEF BootIInv

\* Every way the process ends but a panic, with what it leaves alone.
LEMMA EndKeeps ==
  ASSUME BootIInv, NEW how \in {"exited", "failed"}, Ends(how),
         UNCHANGED << src, cfg, wrote, users, signalled, inflight >>, recorder' \in BOOLEAN
  PROVE  BootIInv'
<1>1. boot' = how /\ worker' = (IF worker = "none" THEN "none" ELSE "stopped")
  BY DEF Ends
<1>2. BootTypeOK' /\ (cfg.allowed_origins \in Seq(STRING))'
  BY <1>1 DEF BootIInv, BootTypeOK, BootStages
<1>3. Checked'
  BY <1>1 DEF Checked, Accepted, Staffed, Keyed, Managed, Worked
<1>4. boot' \notin Staffed /\ boot' \notin Keyed /\ boot' \notin Managed /\ boot' # "panicked"
  BY <1>1 DEF Staffed, Keyed, Managed, Worked
<1>5. (wrote # {} => Validated(cfg) /\ boot \in Accepted \cup Ended)'
  BY <1>1 DEF BootIInv, Ended
<1>6. (worker # "none" => WorkerConfigured /\ Validated(cfg) /\ boot \in Worked \cup Ended)'
  BY <1>1 DEF BootIInv, Ended, WorkerConfigured
<1> QED  BY <1>2, <1>3, <1>4, <1>5, <1>6 DEF BootIInv

\* A step of main that only passes its gate.
LEMMA GateKeeps ==
  ASSUME BootIInv, NEW from, NEW ok \in BOOLEAN, NEW to, Gate(from, ok, to),
         UNCHANGED << src, cfg, wrote, users, recorder, signalled, inflight >>,
         << from, to >> \in {<< "auth", "secrets" >>, << "secrets", "recording" >>,
              << "recording", "sessions" >>, << "sessions", "connect" >>,
              << "connect", "reconcile" >>, << "first_user", "vault" >>,
              << "vault", "runtime" >>, << "bind", "serving" >>},
         ok => /\ from = "auth" => ValidateAuth(cfg)
               /\ from = "secrets" => ValidateProductionSecrets(cfg)
               /\ from = "recording" => ValidateTerminalRecording(cfg)
               /\ from = "sessions" => ValidateTerminalSessions(cfg)
               /\ from = "first_user" => HasUser
               /\ from = "vault" => VaultMasterKey(cfg) # "refused"
  PROVE  BootIInv'
<1>1. CASE ~ok
  <2>1. Ends("failed") /\ recorder' \in BOOLEAN
    BY <1>1 DEF Gate, BootIInv, BootTypeOK
  <2> QED  BY <2>1, EndKeeps
<1>2. CASE ok
  <2>1. boot = from /\ boot' = to /\ worker' = worker
    BY <1>2 DEF Gate
  <2>2. BootTypeOK' /\ (cfg.allowed_origins \in Seq(STRING))'
    BY <2>1 DEF BootIInv, BootTypeOK, BootStages
  <2>3. Checked'
    BY <1>2, <2>1 DEF BootIInv, Checked, Accepted, Staffed, Keyed, Managed, Worked
  <2>4. boot' \in Staffed => HasUser'
    BY <1>2, <2>1 DEF BootIInv, Staffed, Keyed, Managed, Worked, HasUser
  <2>5. boot' \in Keyed => VaultMasterKey(cfg') # "refused"
    BY <1>2, <2>1 DEF BootIInv, Keyed, Managed, Worked
  <2>6. boot' \in Managed => boot \in Managed
    BY <2>1 DEF Managed, Worked
  <2>7. (wrote # {} => Validated(cfg) /\ boot \in Accepted \cup Ended)'
    BY <2>1 DEF BootIInv, Ended, Accepted, Staffed, Keyed, Managed, Worked
  <2>8. (worker # "none" => WorkerConfigured /\ Validated(cfg) /\ boot \in Worked \cup Ended)'
    BY <2>1 DEF BootIInv, Ended, Worked, WorkerConfigured
  <2>9. boot' # "panicked"
    BY <2>1
  <2> QED  BY <2>2, <2>3, <2>4, <2>5, <2>6, <2>7, <2>8, <2>9 DEF BootIInv
<1> QED  BY <1>1, <1>2

LEMMA LoadKeeps ==
  ASSUME BootIInv, LoadConfig
  PROVE  BootIInv'
<1>1. CASE LoadFails(src)
  <2>1. /\ Ends("failed") /\ UNCHANGED << src, cfg, wrote, users, signalled, inflight >>
        /\ recorder' \in BOOLEAN
    BY <1>1 DEF LoadConfig, BootIInv, BootTypeOK
  <2> QED  BY <2>1, EndKeeps
<1>2. CASE ~LoadFails(src)
  <2>1. /\ boot = "load" /\ boot' = "auth" /\ cfg' = Load(src) /\ worker' = worker
        /\ UNCHANGED << src, wrote, users, recorder, signalled, inflight >>
    BY <1>2 DEF LoadConfig
  <2>2. Typed(cfg')
    BY <2>1, LoadTyped DEF BootIInv, BootTypeOK
  <2>3. BootTypeOK' /\ (cfg.allowed_origins \in Seq(STRING))'
    BY <2>1, <2>2 DEF BootIInv, BootTypeOK, BootStages, Typed
  <2>4. Checked'
    BY <2>1 DEF Checked, Accepted, Staffed, Keyed, Managed, Worked
  <2>5. boot' \notin Staffed /\ boot' \notin Keyed /\ boot' \notin Managed /\ boot' # "panicked"
    BY <2>1 DEF Staffed, Keyed, Managed, Worked
  <2>6. boot \notin Accepted \cup Ended /\ boot \notin Worked \cup Ended
    BY <2>1 DEF Accepted, Staffed, Keyed, Managed, Worked, Ended
  <2>7. wrote' = {} /\ worker' = "none"
    BY <2>1, <2>6 DEF BootIInv
  <2> QED  BY <2>3, <2>4, <2>5, <2>7 DEF BootIInv
<1> QED  BY <1>1, <1>2

LEMMA ChecksKeep ==
  ASSUME BootIInv,
         CheckAuth \/ CheckSecrets \/ CheckRecording \/ CheckSessions \/ Connect
           \/ FirstUserCheck \/ ResolveVaultKey \/ Bind
  PROVE  BootIInv'
<1>1. CASE CheckAuth
  <2>1. PICK ok \in BOOLEAN : ok <=> ValidateAuth(cfg)
    OBVIOUS
  <2>2. Gate("auth", ok, "secrets")
    BY <1>1, <2>1 DEF CheckAuth, Gate
  <2> QED  BY <1>1, <2>1, <2>2, GateKeeps DEF CheckAuth
<1>2. CASE CheckSecrets
  <2>1. PICK ok \in BOOLEAN : ok <=> ValidateProductionSecrets(cfg)
    OBVIOUS
  <2>2. Gate("secrets", ok, "recording")
    BY <1>2, <2>1 DEF CheckSecrets, Gate
  <2> QED  BY <1>2, <2>1, <2>2, GateKeeps DEF CheckSecrets
<1>3. CASE CheckRecording
  <2>1. PICK ok \in BOOLEAN : ok <=> ValidateTerminalRecording(cfg)
    OBVIOUS
  <2>2. Gate("recording", ok, "sessions")
    BY <1>3, <2>1 DEF CheckRecording, Gate
  <2> QED  BY <1>3, <2>1, <2>2, GateKeeps DEF CheckRecording
<1>4. CASE CheckSessions
  <2>1. PICK ok \in BOOLEAN : ok <=> ValidateTerminalSessions(cfg)
    OBVIOUS
  <2>2. Gate("sessions", ok, "connect")
    BY <1>4, <2>1 DEF CheckSessions, Gate
  <2> QED  BY <1>4, <2>1, <2>2, GateKeeps DEF CheckSessions
<1>5. CASE Connect
  <2>1. PICK ok \in BOOLEAN : Gate("connect", ok, "reconcile")
    BY <1>5 DEF Connect
  <2> QED  BY <1>5, <2>1, GateKeeps DEF Connect
<1>6. CASE FirstUserCheck
  <2>1. PICK ok \in BOOLEAN : ok <=> HasUser
    OBVIOUS
  <2>2. Gate("first_user", ok, "vault")
    BY <1>6, <2>1 DEF FirstUserCheck, Gate, HasUser
  <2> QED  BY <1>6, <2>1, <2>2, GateKeeps DEF FirstUserCheck
<1>7. CASE ResolveVaultKey
  <2>1. PICK ok \in BOOLEAN : ok <=> VaultMasterKey(cfg) # "refused"
    OBVIOUS
  <2>2. Gate("vault", ok, "runtime")
    BY <1>7, <2>1 DEF ResolveVaultKey, Gate
  <2> QED  BY <1>7, <2>1, <2>2, GateKeeps DEF ResolveVaultKey
<1>8. CASE Bind
  <2>1. PICK ok \in BOOLEAN : Gate("bind", ok, "serving")
    BY <1>8 DEF Bind
  <2> QED  BY <1>8, <2>1, GateKeeps DEF Bind
<1> QED  BY <1>1, <1>2, <1>3, <1>4, <1>5, <1>6, <1>7, <1>8

\* Past the last validator, the configuration is validated.
LEMMA AcceptedValidated ==
  ASSUME BootIInv, boot \in Accepted
  PROVE  Validated(cfg)
  BY DEF BootIInv, Checked, Validated

\* The steps of main that write the database.
LEMMA WritesKeep ==
  ASSUME BootIInv, Reconcile \/ StartupSweep
  PROVE  BootIInv'
<1>1. CASE Reconcile /\ boot' = "failed"
  <2>1. PICK ok \in BOOLEAN : /\ Gate("reconcile", ok, "sweep")
                              /\ wrote' = wrote \cup (IF ok THEN {"reconciled"} ELSE {})
    BY <1>1 DEF Reconcile
  <2>2. ~ok
    BY <1>1, <2>1 DEF Gate
  <2>3. Ends("failed") /\ wrote' = wrote
    BY <2>1, <2>2 DEF Gate
  <2>4. recorder' \in BOOLEAN /\ UNCHANGED << src, cfg, users, signalled, inflight >>
    BY <1>1 DEF Reconcile, BootIInv, BootTypeOK
  <2> QED  BY <2>3, <2>4, EndKeeps
<1>2. CASE ~(Reconcile /\ boot' = "failed")
  <2>1. /\ << boot, boot' >> \in {<< "reconcile", "sweep" >>, << "sweep", "first_user" >>}
        /\ wrote' \subseteq wrote \cup {"reconciled", "purged"}
        /\ UNCHANGED << src, cfg, users, worker, recorder, signalled, inflight >>
    BY <1>2 DEF Reconcile, StartupSweep, Gate, Ends
  <2>2. Validated(cfg)
    BY <2>1, AcceptedValidated DEF Accepted
  <2>3. BootTypeOK' /\ (cfg.allowed_origins \in Seq(STRING))'
    BY <2>1 DEF BootIInv, BootTypeOK, BootStages
  <2>4. Checked'
    BY <2>1, <2>2 DEF Checked, Validated
  <2>5. boot' \notin Staffed /\ boot' \notin Keyed /\ boot' \notin Managed /\ boot' # "panicked"
    BY <2>1 DEF Staffed, Keyed, Managed, Worked
  <2>6. boot' \in Accepted
    BY <2>1 DEF Accepted
  <2>7. worker' = "none"
    BY <2>1 DEF BootIInv, Worked, Ended
  <2> QED  BY <2>1, <2>2, <2>3, <2>4, <2>5, <2>6, <2>7 DEF BootIInv
<1> QED  BY <1>1, <1>2

LEMMA RuntimeKeeps ==
  ASSUME BootIInv, BuildRecordingRuntime
  PROVE  BootIInv'
<1>1. PICK ok \in BOOLEAN : ok <=> (cfg.rec_enabled => cfg.enc_mode = "disabled")
  OBVIOUS
<1>2. /\ Gate("runtime", ok, "manager")
      /\ UNCHANGED << src, cfg, wrote, users, signalled, inflight >>
  BY <1>1 DEF BuildRecordingRuntime, Gate
<1>3. recorder' \in BOOLEAN /\ (recorder' => cfg.rec_enabled /\ cfg.enc_mode = "disabled")
  BY Zenon DEF BuildRecordingRuntime
<1>4. CASE ~ok
  <2>1. Ends("failed")
    BY <1>2, <1>4 DEF Gate
  <2> QED  BY <1>2, <1>3, <2>1, EndKeeps
<1>5. CASE ok
  <2>1. boot = "runtime" /\ boot' = "manager" /\ worker' = worker
    BY <1>2, <1>5 DEF Gate
  <2>2. BootTypeOK' /\ (cfg.allowed_origins \in Seq(STRING))'
    BY <1>2, <1>3, <2>1 DEF BootIInv, BootTypeOK, BootStages
  <2>3. boot \in Accepted /\ boot \in Staffed /\ boot \in Keyed /\ boot \notin Worked \cup Ended
    BY <2>1 DEF Accepted, Staffed, Keyed, Managed, Worked, Ended
  <2>4. Validated(cfg) /\ HasUser /\ VaultMasterKey(cfg) # "refused" /\ worker' = "none"
    BY <2>1, <2>3, AcceptedValidated DEF BootIInv
  <2>5. Checked' /\ HasUser'
    BY <1>2, <2>4 DEF Checked, Validated, HasUser
  <2>6. boot' \in Accepted /\ boot' # "panicked"
    BY <2>1 DEF Accepted, Staffed, Keyed, Managed
  <2> QED  BY <1>1, <1>2, <1>3, <1>5, <2>2, <2>4, <2>5, <2>6 DEF BootIInv
<1> QED  BY <1>4, <1>5

LEMMA ManagerKeeps ==
  ASSUME BootIInv, BuildManager \/ SpawnWorker
  PROVE  BootIInv'
<1>1. boot \in {"manager", "worker"}
  BY DEF BuildManager, SpawnWorker
<1>2. boot \in Accepted /\ boot \in Staffed /\ boot \in Keyed /\ boot \in Managed
        /\ boot \notin Worked \cup Ended
  BY <1>1 DEF Accepted, Staffed, Keyed, Managed, Worked, Ended
<1>3. Validated(cfg) /\ HasUser /\ VaultMasterKey(cfg) # "refused" /\ worker = "none"
  BY <1>2, AcceptedValidated DEF BootIInv
<1>4. 0 \notin {cfg.max_live_per_user, cfg.max_starting_per_user, cfg.max_live_per_deployment}
  BY <1>3 DEF Validated, ValidateTerminalSessions, SessionLimits
<1>5. /\ boot' \in {"worker", "bind"}
      /\ worker' # worker => WorkerConfigured /\ boot' = "bind" /\ worker' = "waiting"
      /\ UNCHANGED << src, cfg, wrote, users, recorder, signalled, inflight >>
  BY <1>3, <1>4 DEF BuildManager, SpawnWorker
<1>6. BootTypeOK' /\ (cfg.allowed_origins \in Seq(STRING))'
  BY <1>5 DEF BootIInv, BootTypeOK, BootStages
<1>7. Checked' /\ HasUser'
  BY <1>3, <1>5 DEF Checked, Validated, HasUser
<1>8. boot' \in Accepted /\ boot' # "panicked" /\ (boot' = "bind" => boot' \in Worked)
  BY <1>5 DEF Accepted, Staffed, Keyed, Managed, Worked
<1>9. WorkerConfigured' <=> WorkerConfigured
  BY <1>5 DEF WorkerConfigured
<1> QED  BY <1>2, <1>3, <1>5, <1>6, <1>7, <1>8, <1>9 DEF BootIInv

\* The steps of a process that serves, of its worker, and of its shutdown.
LEMMA ServingKeeps ==
  ASSUME BootIInv,
         RequestArrives \/ RequestOpens \/ RequestDone \/ Signal \/ ServeReturns \/ WorkerTick
           \/ WorkerTickDone \/ WorkerStops
  PROVE  BootIInv'
<1>1. /\ UNCHANGED << src, cfg, recorder >>
      /\ boot' = boot \/ (boot = "serving" /\ boot' = "joining")
      /\ users' \in BOOLEAN /\ (users => users')
  <2>1. CASE RequestDone
    <3>1. UNCHANGED << src, cfg, recorder >> /\ boot' = boot /\ users' \in {users, TRUE}
      BY <2>1 DEF RequestDone
    <3>2. users \in BOOLEAN
      BY DEF BootIInv, BootTypeOK
    <3>3. users' \in BOOLEAN /\ (users => users')
      <4>1. users' = users \/ users' = TRUE
        BY <3>1
      <4>2. CASE users' = users
        BY <3>2, <4>2
      <4>3. CASE users' = TRUE
        BY <4>3
      <4> QED  BY <4>1, <4>2, <4>3, Zenon
    <3> QED  BY <3>1, <3>3
  <2>2. CASE ~RequestDone
    BY <2>2 DEF RequestArrives, RequestOpens, Signal, ServeReturns, WorkerTick, WorkerTickDone,
                WorkerStops, BootIInv, BootTypeOK
  <2> QED  BY <2>1, <2>2
<1>2. signalled' \in BOOLEAN /\ inflight' \in {"none", "busy", "opening"}
  BY DEF RequestArrives, RequestOpens, RequestDone, Signal, ServeReturns, WorkerTick,
         WorkerTickDone, WorkerStops, BootIInv, BootTypeOK
<1>3. /\ worker' \in {"none", "waiting", "ticking", "stopped"}
      /\ worker = "none" => worker' = "none"
      /\ wrote' # wrote => worker = "ticking" /\ wrote' \subseteq wrote \cup {"purged"}
  BY DEF RequestArrives, RequestOpens, RequestDone, Signal, ServeReturns, WorkerTick,
         WorkerTickDone, WorkerStops, BootIInv, BootTypeOK
<1>4. BootTypeOK' /\ (cfg.allowed_origins \in Seq(STRING))'
  BY <1>1, <1>2, <1>3 DEF BootIInv, BootTypeOK, BootStages
<1>5. Checked' /\ (boot' \in Staffed => boot \in Staffed) /\ (boot' \in Keyed => boot \in Keyed)
        /\ (boot' \in Managed => boot \in Managed)
        /\ (boot \in Worked \cup Ended => boot' \in Worked \cup Ended)
        /\ (boot \in Accepted \cup Ended => boot' \in Accepted \cup Ended)
  BY <1>1 DEF BootIInv, Checked, Accepted, Staffed, Keyed, Managed, Worked, Ended
<1>6. HasUser => HasUser'
  BY <1>1 DEF HasUser
<1>7. Worked \cup Ended \subseteq Accepted \cup Ended
  BY DEF Accepted, Staffed, Keyed, Managed
<1>8. WorkerConfigured' <=> WorkerConfigured
  BY <1>1 DEF WorkerConfigured
<1> QED  BY <1>1, <1>3, <1>4, <1>5, <1>6, <1>7, <1>8 DEF BootIInv

LEMMA BootEndsKeep ==
  ASSUME BootIInv, JoinWorker \/ Killed
  PROVE  BootIInv'
<1>1. PICK how \in {"exited", "failed"} : Ends(how)
  BY DEF JoinWorker, Killed
<1>2. UNCHANGED << src, cfg, wrote, users, recorder, signalled, inflight >> /\ recorder' \in BOOLEAN
  BY DEF JoinWorker, Killed, BootIInv, BootTypeOK
<1> QED  BY <1>1, <1>2, EndKeeps

\* The inductive invariant of the boot: at each stage of main every check behind it
\* has passed on the configuration in use, the worker runs only under a validated one
\* that asks for it, and only a validated boot has written.
THEOREM BootInvariant == BootSpec => []BootIInv
<1>1. BootIInv /\ [BootNext]_bootVars => BootIInv'
  <2> SUFFICES ASSUME BootIInv, [BootNext]_bootVars PROVE BootIInv'
    OBVIOUS
  <2>1. CASE UNCHANGED bootVars
    BY <2>1 DEF bootVars, BootIInv, BootTypeOK, Checked, HasUser, WorkerConfigured
  <2>2. CASE BootNext
    BY <2>2, LoadKeeps, ChecksKeep, WritesKeep, RuntimeKeeps, ManagerKeeps, ServingKeeps,
       BootEndsKeep DEF BootNext
  <2> QED  BY <2>1, <2>2
<1> QED  BY <1>1, BootStarts, PTL DEF BootSpec

LEMMA ServesSafely ==
  ASSUME BootIInv
  PROVE  ProductionServesSafely
<1> SUFFICES ASSUME boot = "serving", cfg.mode = "production"
             PROVE  /\ Cardinality({k \in {"signing_key_b64", "signing_key_file"} : IsSet(cfg[k])}) = 1
                    /\ Len(cfg.allowed_origins) > 0 /\ cfg.cookie_secure
                    /\ \A s \in SecretShaped : cfg[s] \notin Placeholders
                    /\ ~recorder
                    /\ cfg.vault_enabled => VaultMasterKey(cfg) \in GoodKeys
                    /\ users \/ IsSet(cfg.bootstrap_token)
  BY DEF ProductionServesSafely
<1>1. boot \in Accepted /\ boot \in Staffed /\ boot \in Keyed /\ boot \in Managed
  BY DEF Accepted, Staffed, Keyed, Managed, Worked
<1>2. Validated(cfg) /\ HasUser /\ VaultMasterKey(cfg) # "refused"
  BY <1>1, AcceptedValidated DEF BootIInv
<1>3. /\ IsSet(cfg.signing_key_b64) # IsSet(cfg.signing_key_file)
      /\ cfg.allowed_origins # << >> /\ cfg.cookie_secure
  BY <1>2 DEF Validated, ValidateAuth, ExactlyOne
<1>4. Cardinality({k \in {"signing_key_b64", "signing_key_file"} : IsSet(cfg[k])}) = 1
  <2>1. PICK k \in {"signing_key_b64", "signing_key_file"} :
          {j \in {"signing_key_b64", "signing_key_file"} : IsSet(cfg[j])} = {k}
    BY <1>3 DEF IsSet
  <2> QED  BY <2>1, FS_Singleton
<1>5. Len(cfg.allowed_origins) > 0
  BY <1>3, EmptySeq, LenProperties DEF BootIInv
<1>6. \A s \in SecretShaped : cfg[s] \notin Placeholders
  BY <1>2 DEF Validated, ValidateProductionSecrets, ContainsPlaceholder
<1>7. ~recorder
  <2>1. recorder => RecordingKeysValid(cfg) /\ cfg.enc_mode = "disabled"
    BY <1>1, <1>2 DEF BootIInv, Validated, ValidateTerminalRecording
  <2> QED  BY <2>1 DEF RecordingKeysValid
<1>8. cfg.vault_enabled => VaultMasterKey(cfg) \in GoodKeys
  BY <1>2 DEF VaultMasterKey
<1>9. users \/ IsSet(cfg.bootstrap_token)
  BY <1>2 DEF HasUser
<1> QED  BY <1>3, <1>4, <1>5, <1>6, <1>7, <1>8, <1>9

LEMMA LimitsHold ==
  ASSUME BootIInv
  PROVE  LimitsUsable
<1> SUFFICES ASSUME boot = "serving"
             PROVE  /\ cfg.max_live_per_deployment >= cfg.max_live_per_user
                    /\ cfg.max_live_per_deployment >= cfg.max_starting_per_user
                    /\ recorder => /\ cfg.enc_mode = "disabled"
                                   /\ cfg.chunk_target_bytes <= cfg.chunk_hard_cap_bytes
                                   /\ cfg.chunk_hard_cap_bytes <= cfg.max_bytes_per_session
                    /\ worker # "none" => cfg.sweep_interval_seconds >= RecordingLimits.interval_min
  BY DEF LimitsUsable, BootIInv
<1>1. boot \in Accepted /\ boot \in Managed
  BY DEF Accepted, Staffed, Keyed, Managed, Worked
<1>2. Validated(cfg)
  BY <1>1, AcceptedValidated
<1>3. /\ cfg.max_live_per_deployment >= cfg.max_live_per_user
      /\ cfg.max_live_per_deployment >= cfg.max_starting_per_user
  BY <1>2 DEF Validated, ValidateTerminalSessions
<1>4. recorder => cfg.enc_mode = "disabled"
  BY <1>1 DEF BootIInv
<1>5. /\ cfg.chunk_target_bytes <= cfg.chunk_hard_cap_bytes
      /\ cfg.chunk_hard_cap_bytes <= cfg.max_bytes_per_session
  BY <1>2 DEF Validated, ValidateTerminalRecording, RecordingSizesValid
<1>6. worker # "none" => cfg.sweep_interval_seconds >= RecordingLimits.interval_min
  BY <1>2 DEF BootIInv, WorkerConfigured, Validated, ValidateTerminalRecording, ValidateCleanup
<1> QED  BY <1>3, <1>4, <1>5, <1>6

\* Whatever the operator's file and environment say, a boot that writes the database
\* has a validated configuration, one that serves in production keeps what production
\* promises (one signing key, an origin, secure cookies, no placeholder, no plaintext
\* recorder, a usable vault key, a user or a token), no cap is zero when the session
\* manager is built, and the worker's cadence is at least a minute (main.rs, config.rs).
THEOREM BootsSafely == BootSpec => []BootInv
<1>1. BootIInv => BootInv
  BY ServesSafely, LimitsHold DEF BootIInv, BootInv, NothingWrittenUnvalidated
<1> QED  BY <1>1, BootInvariant, PTL

-----------------------------------------------------------------------------
(***************************************************************************)
(* The records.  What every stored row is like, whichever requests made    *)
(* it, and what the last answer says.                                      *)
(***************************************************************************)

HostRow(r) ==
  /\ DOMAIN r = {"display_name", "hostname", "port", "default_username"}
  /\ ValidHostDisplayName(r.display_name) /\ ValidHostname(r.hostname)
  /\ ValidSshPort(r.port) /\ ValidSshUsername(r.default_username)

ProfileRow(r) ==
  /\ DOMAIN r = {"name", "username_override", "tags"}
  /\ ValidProfileName(r.name) /\ ValidTags(r.tags)
  /\ OptionalIs(r.username_override, ValidSshUsername)

IdentityRow(r) ==
  /\ {"name", "key_type", "encrypted_private_key"} \subseteq DOMAIN r
  /\ r.key_type = "ed25519"
  /\ r.encrypted_private_key.magic = "RTV1" /\ r.encrypted_private_key.version = 1

SessionRow(r) == ValidDim(r.cols) /\ ValidDim(r.rows) /\ r.status \in {"active", "closed"}

Stored ==
  /\ host # NoRow => HostRow(host)
  /\ profile # NoRow => ProfileRow(profile)
  /\ identity # NoRow => IdentityRow(identity)
  /\ session # NoRow => SessionRow(session)

Replies == {Success(s) : s \in {0, 200, 201}} \cup {Envelope(k) : k \in ApiErrorKinds}

RecordsIInv == Stored /\ answer \in Replies /\ BlameIsRight /\ FailuresOpaque

LEMMA ClientErrors ==
  ASSUME NEW k \in {"Validation", "Unauthorized", "NotFound", "Conflict"}
  PROVE  /\ Envelope(k) \in Replies
         /\ Envelope(k).status \in Nat /\ ~(Envelope(k).status >= 500)
<1>1. k \in ApiErrorKinds
  BY DEF ApiErrorKinds
<1>2. Envelope(k) \in Replies
  BY <1>1 DEF Replies
<1>3. Envelope(k).status = Status(k)
  BY DEF Envelope
<1>4. Status(k) \in {400, 401, 404, 409}
  BY DEF Status
<1> QED  BY <1>2, <1>3, <1>4

LEMMA ServerErrors ==
  ASSUME NEW k \in {"Internal", "BadGateway", "ServiceUnavailable"}
  PROVE  /\ Envelope(k) \in Replies
         /\ Envelope(k).status >= 500 /\ ~Envelope(k).detail
<1>1. k \in ApiErrorKinds
  BY DEF ApiErrorKinds
<1>2. Envelope(k) \in Replies
  BY <1>1 DEF Replies
<1>3. Envelope(k).status = Status(k) /\ Envelope(k).detail = DetailSent(k)
  BY DEF Envelope
<1>4. Status(k) \in {500, 502, 503}
  BY DEF Status
<1>5. ~DetailSent(k)
  BY DEF DetailSent
<1>6. Envelope(k).status >= 500
  BY <1>3, <1>4
<1> QED  BY <1>2, <1>3, <1>5, <1>6

LEMMA Successes ==
  ASSUME NEW s \in {0, 200, 201}
  PROVE  Success(s) \in Replies /\ ~(Success(s).status >= 500)
<1>1. Success(s) \in Replies
  BY DEF Replies
<1>2. Success(s).status = s
  BY DEF Success
<1> QED  BY <1>1, <1>2

\* An answer that is no failure blames nobody.
LEMMA Pleased ==
  ASSUME NEW s \in {0, 200, 201}, answer' = Success(s), cause' = "none"
  PROVE  (answer \in Replies /\ BlameIsRight /\ FailuresOpaque)'
  BY Successes DEF BlameIsRight, FailuresOpaque

\* A row that stays as it is is sound as it is.
LEMMA StoredStays ==
  ASSUME Stored, UNCHANGED << host, profile, identity, session >>
  PROVE  Stored'
  BY DEF Stored

\* A failing dependency is a 5xx that says nothing of itself.
LEMMA DependencyAnswer ==
  ASSUME NEW k \in {"Internal", "BadGateway", "ServiceUnavailable"},
         answer' = Envelope(k), cause' = "dependency"
  PROVE  (answer \in Replies /\ BlameIsRight /\ FailuresOpaque)'
  BY ServerErrors DEF BlameIsRight, FailuresOpaque

\* A body the validators refuse, or a row in the way, is answered and nothing else.
LEMMA FailedKeeps ==
  ASSUME RecordsIInv, NEW k \in {"Validation", "NotFound", "Conflict"}, NEW why \in {"body", "row"},
         Failed(k, why)
  PROVE  RecordsIInv'
<1>1. answer' = Envelope(k) /\ cause' = why
  BY DEF Failed
<1>2. (answer \in Replies /\ BlameIsRight /\ FailuresOpaque)'
  BY <1>1, ClientErrors DEF BlameIsRight, FailuresOpaque
<1>3. Stored'
  BY StoredStays DEF RecordsIInv, Failed
<1> QED  BY <1>2, <1>3 DEF RecordsIInv

LEMMA RefusedKeeps ==
  ASSUME RecordsIInv, Refused("Validation")
  PROVE  RecordsIInv'
  BY FailedKeeps DEF Refused

\* A row that is stored, whether its audit event is written or not.
LEMMA AuditedAnswer ==
  ASSUME NEW s \in {200, 201}, Audited(s)
  PROVE  (answer \in Replies /\ BlameIsRight /\ FailuresOpaque)'
<1>1. FromRepository("Database") = "Internal"
  BY DEF FromRepository
<1>2. \/ answer' = Success(s) /\ cause' = "none"
      \/ answer' = Envelope("Internal") /\ cause' = "dependency"
  BY <1>1 DEF Audited, Replied
<1> QED  BY <1>2, Pleased, DependencyAnswer

\* The vault is disabled or the key is sealed under another one: a 5xx for either.
LEMMA UnusableKeeps ==
  ASSUME RecordsIInv, UNCHANGED master_key,
         \/ master_key = Disabled /\ VaultDisabled
         \/ identity # NoRow /\ KeyUnusable
  PROVE  RecordsIInv'
<1>1. CASE master_key = Disabled /\ VaultDisabled
  <2>1. answer' = Envelope("ServiceUnavailable") /\ cause' = "vault"
    BY <1>1 DEF VaultDisabled, Failed
  <2>2. (answer \in Replies /\ BlameIsRight /\ FailuresOpaque)'
    BY <1>1, <2>1, ServerErrors DEF BlameIsRight, FailuresOpaque
  <2>3. Stored'
    BY <1>1, StoredStays DEF RecordsIInv, VaultDisabled, Failed
  <2> QED  BY <2>2, <2>3 DEF RecordsIInv
<1>2. CASE identity # NoRow /\ master_key # Disabled /\ KeyUnusable
  <2>1. PICK blob : blob = identity.encrypted_private_key
    OBVIOUS
  <2>2. blob.magic = "RTV1" /\ blob.version = 1
    BY <1>2, <2>1 DEF RecordsIInv, Stored, IdentityRow
  <2>3. Opened[1] # "ok" /\ Failed(FromVault(Opened[1]), "vault")
    BY <1>2 DEF KeyUnusable
  <2>4. blob.under # master_key /\ Opened[1] = "Decrypt"
    BY <2>1, <2>2, <2>3 DEF Opened, Decrypt
  <2>5. FromVault("Decrypt") = "Internal"
    BY DEF FromVault
  <2>6. /\ answer' = Envelope("Internal") /\ cause' = "vault"
        /\ UNCHANGED << host, profile, identity, session >>
    BY <2>3, <2>4, <2>5 DEF Failed
  <2>7. (answer \in Replies /\ BlameIsRight /\ FailuresOpaque)'
    BY <1>2, <2>1, <2>4, <2>6, ServerErrors DEF BlameIsRight, FailuresOpaque
  <2> QED  BY <2>6, <2>7, StoredStays DEF RecordsIInv
<1> QED  BY <1>1, <1>2 DEF KeyUnusable

LEMMA StoreHostKeeps ==
  ASSUME RecordsIInv, NEW r, HostRow(r), NEW s \in {200, 201}, StoreHost(r, s)
  PROVE  RecordsIInv'
<1>1. HostChecks(r)
  BY DEF HostRow, ValidSshPort, HostChecks
<1>2. /\ host' = r /\ answer' = Success(s) /\ cause' = "none"
      /\ UNCHANGED << profile, identity, session >>
  BY <1>1 DEF StoreHost, Replied
<1>3. Stored'
  BY <1>2 DEF RecordsIInv, Stored
<1> QED  BY <1>2, <1>3, Pleased DEF RecordsIInv

LEMMA GivenIs ==
  ASSUME NEW opt, NEW old
  PROVE  Given(opt, old) = old \/ (opt # << >> /\ Given(opt, old) = opt[1])
  BY DEF Given

LEMMA HostsKeep ==
  ASSUME RecordsIInv,
         \/ \E b \in HostBodies : CreateHost(b)
         \/ \E b \in HostPatches : UpdateHost(b)
  PROVE  RecordsIInv'
<1>1. ASSUME NEW b, CreateHost(b) PROVE RecordsIInv'
  <2>1. CASE ~HostBodyValid(b)
    BY <1>1, <2>1, RefusedKeeps DEF CreateHost
  <2>2. CASE HostBodyValid(b)
    <3>1. PICK r : r = [display_name |-> b.display_name, hostname |-> b.hostname,
                        port |-> Given(b.port, 22), default_username |-> b.default_username]
      OBVIOUS
    <3>2. HostRow(r)
      BY <2>2, <3>1 DEF HostRow, HostBodyValid
    <3>3. StoreHost(r, 201)
      BY <1>1, <2>2, <3>1 DEF CreateHost
    <3> QED  BY <3>2, <3>3, StoreHostKeeps
  <2> QED  BY <2>1, <2>2
<1>2. ASSUME NEW b, UpdateHost(b) PROVE RecordsIInv'
  <2>1. CASE ~HostPatchValid(b)
    BY <1>2, <2>1, RefusedKeeps DEF UpdateHost
  <2>2. CASE HostPatchValid(b)
    <3>1. PICK r : r = [f \in DOMAIN host |-> Given(b[f], host[f])]
      OBVIOUS
    <3>2. HostRow(host)
      BY <1>2 DEF UpdateHost, RecordsIInv, Stored
    <3>3. /\ DOMAIN r = {"display_name", "hostname", "port", "default_username"}
          /\ \A f \in DOMAIN r : r[f] = host[f] \/ (b[f] # << >> /\ r[f] = b[f][1])
      BY <3>1, <3>2, GivenIs DEF HostRow
    <3>4. HostRow(r)
      BY <2>2, <3>2, <3>3 DEF HostRow, HostPatchValid, OptionalIs
    <3>5. StoreHost(r, 200)
      BY <1>2, <2>2, <3>1 DEF UpdateHost
    <3> QED  BY <3>4, <3>5, StoreHostKeeps
  <2> QED  BY <2>1, <2>2
<1> QED  BY <1>1, <1>2

LEMMA ProfilesKeep ==
  ASSUME RecordsIInv,
         \/ \E b \in ProfileBodies : CreateProfile(b)
         \/ \E b \in ProfilePatches : UpdateProfile(b)
  PROVE  RecordsIInv'
<1>0. ASSUME NEW r, ProfileRow(r), profile' = r, NEW s \in {200, 201}, Audited(s),
             UNCHANGED << host, identity, session >>
      PROVE  RecordsIInv'
  <2>1. Stored'
    BY <1>0 DEF RecordsIInv, Stored
  <2> QED  BY <1>0, <2>1, AuditedAnswer DEF RecordsIInv
<1>1. ASSUME NEW b \in ProfileBodies, CreateProfile(b) PROVE RecordsIInv'
  <2>1. CASE ~ProfileBodyValid(b)
    BY <1>1, <2>1, RefusedKeeps DEF CreateProfile
  <2>2. CASE ProfileBodyValid(b)
    <3>1. ProfileRow(b)
      BY <2>2, ProfileBodiesAssumption DEF ProfileBodyValid, ProfileRow
    <3> QED  BY <1>0, <1>1, <2>2, <3>1 DEF CreateProfile
  <2> QED  BY <2>1, <2>2
<1>2. ASSUME NEW b, UpdateProfile(b) PROVE RecordsIInv'
  <2>1. CASE ~ProfilePatchValid(b)
    BY <1>2, <2>1, RefusedKeeps DEF UpdateProfile
  <2>2. CASE ProfilePatchValid(b)
    <3>1. PICK r : r = PatchedProfile(profile, b)
      OBVIOUS
    <3>2. ProfileRow(profile)
      BY <1>2 DEF UpdateProfile, RecordsIInv, Stored
    <3>3. /\ DOMAIN r = {"name", "username_override", "tags"}
          /\ \A f \in DOMAIN r : r[f] = Given(b[f], profile[f])
      BY <3>1, <3>2 DEF PatchedProfile, ProfileRow
    <3>4. \A f \in DOMAIN r : r[f] = profile[f] \/ (b[f] # << >> /\ r[f] = b[f][1])
      BY <3>3, GivenIs
    <3>5. ProfileRow(r)
      BY <2>2, <3>2, <3>3, <3>4 DEF ProfileRow, ProfilePatchValid, OptionalIs
    <3> QED  BY <1>0, <1>2, <2>2, <3>1, <3>5 DEF UpdateProfile
  <2> QED  BY <2>1, <2>2
<1> QED  BY <1>1, <1>2

LEMMA IdentitiesKeep ==
  ASSUME RecordsIInv,
         \/ \E n \in Names, t \in KeyTags, k \in PrivateKeys : CreateIdentity(n, t, k)
         \/ \E n \in Names, p \in Pems : ImportIdentity(n, p)
         \/ \E n \in Names : RenameIdentity(n)
  PROVE  RecordsIInv'
<1>0. ASSUME NEW r, IdentityRow(r), identity' = r, NEW s \in {200, 201}, Audited(s),
             UNCHANGED << host, profile, session >>
      PROVE  RecordsIInv'
  <2>1. Stored'
    BY <1>0 DEF RecordsIInv, Stored
  <2> QED  BY <1>0, <2>1, AuditedAnswer DEF RecordsIInv
<1>1. ASSUME NEW n, NEW k, StoreIdentity(Sealed(master_key, k, "ed25519", n)) PROVE RecordsIInv'
  <2>1. PICK r : r = Sealed(master_key, k, "ed25519", n)
    OBVIOUS
  <2>2. IdentityRow(r) /\ IdentityChecks(r)
    BY <2>1 DEF Sealed, Encrypt, IdentityRow, IdentityChecks, KeyTypes
  <2>3. CASE identity # NoRow
    BY <1>1, <2>1, <2>2, <2>3, FailedKeeps DEF StoreIdentity
  <2>4. CASE identity = NoRow
    BY <1>0, <1>1, <2>1, <2>2, <2>4 DEF StoreIdentity
  <2> QED  BY <2>3, <2>4
<1>2. ASSUME NEW n, NEW t, NEW k, CreateIdentity(n, t, k) PROVE RecordsIInv'
  BY <1>1, <1>2, RefusedKeeps, UnusableKeeps DEF CreateIdentity
<1>3. ASSUME NEW n, NEW p, ImportIdentity(n, p) PROVE RecordsIInv'
  <2>1. CASE ~ValidIdentityName(n) \/ ~PemShape(p)
    BY <1>3, <2>1, RefusedKeeps DEF ImportIdentity
  <2>0. CASE ValidIdentityName(n) /\ PemShape(p) /\ master_key = Disabled
    BY <1>3, <2>0, UnusableKeeps DEF ImportIdentity
  <2>2. CASE ValidIdentityName(n) /\ PemShape(p) /\ master_key # Disabled /\ ImportError(p) # "none"
    <3>1. Refused(FromVault(ImportError(p)))
      BY <1>3, <2>2 DEF ImportIdentity
    <3>2. FromVault(ImportError(p)) = "Validation"
      BY <2>2 DEF ImportError, FromVault
    <3> QED  BY <3>1, <3>2, RefusedKeeps
  <2>3. CASE ValidIdentityName(n) /\ PemShape(p) /\ master_key # Disabled /\ ImportError(p) = "none"
    <3>1. StoreIdentity(Sealed(master_key, p.private, p.algorithm, n))
      BY <1>3, <2>3 DEF ImportIdentity
    <3>2. p.algorithm = "ed25519"
      BY <2>3 DEF ImportError
    <3> QED  BY <1>1, <3>1, <3>2
  <2> QED  BY <2>0, <2>1, <2>2, <2>3
<1>4. ASSUME NEW n, RenameIdentity(n) PROVE RecordsIInv'
  <2>1. CASE ~ValidIdentityName(n)
    BY <1>4, <2>1, RefusedKeeps DEF RenameIdentity
  <2>2. CASE ValidIdentityName(n)
    <3>1. PICK r : r = [identity EXCEPT !.name = n]
      OBVIOUS
    <3>2. IdentityRow(identity)
      BY <1>4 DEF RenameIdentity, RecordsIInv, Stored
    <3>3. IdentityRow(r)
      BY <3>1, <3>2 DEF IdentityRow
    <3> QED  BY <1>0, <1>4, <2>2, <3>1, <3>3 DEF RenameIdentity, Audited
  <2> QED  BY <2>1, <2>2
<1> QED  BY <1>2, <1>3, <1>4

\* A start that fails closes its row and is answered for what failed.
LEMMA SessionsKeep ==
  ASSUME RecordsIInv, NEW c, NEW r, NEW err \in SshPtyErrors \cup {"none"}, CreateSessionRow(c, r, err)
  PROVE  RecordsIInv'
<1>1. CASE KeyUnusable
  BY <1>1, UnusableKeeps DEF CreateSessionRow
<1>2. CASE ~KeyUnusable /\ (~ValidDim(c) \/ ~ValidDim(r))
  <2>1. Refused(FromManager("InvalidDimensions"))
    BY <1>2 DEF CreateSessionRow
  <2>2. FromManager("InvalidDimensions") = "Validation"
    BY DEF FromManager
  <2> QED  BY <2>1, <2>2, RefusedKeeps
<1>3. CASE ~KeyUnusable /\ ValidDim(c) /\ ValidDim(r)
  <2>1. PICK row : row = [status |-> "starting", cols |-> c, rows |-> r]
    OBVIOUS
  <2>2. SessionChecks(row)
    BY <1>3, <2>1 DEF SessionChecks, ValidDim
  <2>3. /\ session' = [row EXCEPT !.status = IF err = "none" THEN "active" ELSE "closed"]
        /\ IF err = "none" THEN Replied(201)
             ELSE /\ answer' = Envelope(MapPtyStartError(err))
                  /\ cause' = IF err \in PeerRefusals THEN "peer" ELSE "dependency"
        /\ UNCHANGED << host, profile, identity >>
    BY <1>3, <2>1, <2>2 DEF CreateSessionRow
  <2>4. SessionRow(session')
    BY <1>3, <2>1, <2>3 DEF SessionRow
  <2>5. Stored'
    BY <2>3, <2>4 DEF RecordsIInv, Stored
  <2>6. CASE err = "none"
    BY <2>3, <2>5, <2>6, Pleased DEF RecordsIInv, Replied
  <2>7. CASE err \in PeerRefusals
    <3>1. MapPtyStartError(err) = "Conflict" /\ err # "none"
      BY <2>7 DEF PeerRefusals, MapPtyStartError
    <3>2. answer' = Envelope("Conflict") /\ cause' = "peer"
      BY <2>3, <2>7, <3>1
    <3>3. Envelope("Conflict").status = 409
      BY DEF Envelope, Status
    <3>4. (answer \in Replies /\ BlameIsRight /\ FailuresOpaque)'
      BY <3>2, <3>3, ClientErrors DEF BlameIsRight, FailuresOpaque
    <3> QED  BY <2>5, <3>4 DEF RecordsIInv
  <2>8. CASE err # "none" /\ err \notin PeerRefusals
    <3>1. MapPtyStartError(err) \in {"Internal", "BadGateway"}
      BY <2>8 DEF PeerRefusals, MapPtyStartError, SshPtyErrors
    <3>2. answer' = Envelope(MapPtyStartError(err)) /\ cause' = "dependency"
      BY <2>3, <2>8
    <3> QED  BY <2>5, <3>1, <3>2, DependencyAnswer DEF RecordsIInv
  <2> QED  BY <2>6, <2>7, <2>8
<1> QED  BY <1>1, <1>2, <1>3

\* Using the key: it opens, or the vault is to blame.
LEMMA UseKeeps ==
  ASSUME RecordsIInv, UseIdentity
  PROVE  RecordsIInv'
<1>1. CASE KeyUnusable
  BY <1>1, UnusableKeeps DEF UseIdentity
<1>2. CASE ~KeyUnusable
  <2>1. Replied(200) /\ UNCHANGED << host, profile, identity, session >>
    BY <1>2 DEF UseIdentity
  <2> QED  BY <2>1, StoredStays, Pleased DEF RecordsIInv, Replied
<1> QED  BY <1>1, <1>2

LEMMA OthersKeep ==
  ASSUME RecordsIInv,
         \/ RotateMasterKey
         \/ \E kind \in DependencyErrors : DependencyFails(kind)
         \/ \E kind \in RowErrors : RowRefuses(kind)
         \/ \E err \in AuthRefusals : CallerRefused(err)
  PROVE  RecordsIInv'
<1>1. CASE RotateMasterKey
  BY <1>1, StoredStays, Pleased DEF RotateMasterKey, RecordsIInv
<1>2. ASSUME NEW kind \in DependencyErrors, DependencyFails(kind)
      PROVE  RecordsIInv'
  <2>1. kind \in {"Internal", "BadGateway", "ServiceUnavailable"}
    BY DEF DependencyErrors, FromRepository, FromPreflight, FromAuthCheck, FromManager,
           FromAuthService, FromVault
  <2>2. /\ answer' = Envelope(kind) /\ cause' = "dependency"
        /\ UNCHANGED << host, profile, identity, session >>
    BY <1>2 DEF DependencyFails, Failed
  <2> QED  BY <2>1, <2>2, StoredStays, DependencyAnswer DEF RecordsIInv
<1>3. ASSUME NEW kind \in RowErrors, RowRefuses(kind)
      PROVE  RecordsIInv'
  <2>1. kind \in {"NotFound", "Conflict"}
    BY DEF RowErrors, FromRepository, FromManager
  <2> QED  BY <1>3, <2>1, FailedKeeps DEF RowRefuses
<1>4. ASSUME NEW err \in AuthRefusals, CallerRefused(err)
      PROVE  RecordsIInv'
  <2>1. FromAuthService(err) = "Unauthorized"
    BY DEF AuthRefusals, FromAuthService
  <2>2. /\ answer' = Envelope("Unauthorized") /\ cause' = "caller"
        /\ UNCHANGED << host, profile, identity, session >>
    BY <1>4, <2>1 DEF CallerRefused, Failed
  <2>3. ~Envelope("Unauthorized").detail
    BY DEF Envelope, DetailSent
  <2>4. (answer \in Replies /\ BlameIsRight /\ FailuresOpaque)'
    BY <2>2, <2>3, ClientErrors DEF BlameIsRight, FailuresOpaque
  <2> QED  BY <2>2, <2>4, StoredStays DEF RecordsIInv
<1> QED  BY <1>1, <1>2, <1>3, <1>4

\* The inductive invariant of the records: every stored row passes the validators of
\* its columns (an override that is absent has nothing to pass), every stored key is
\* an ed25519 key in the vault's format, and the last answer blames the right side.
THEOREM RecordsInvariant == RecordsSpec => []RecordsIInv
<1>1. RecordsInit => RecordsIInv
  <2> SUFFICES ASSUME RecordsInit PROVE RecordsIInv
    OBVIOUS
  <2>1. Stored /\ answer = Success(0) /\ cause = "none"
    BY DEF RecordsInit, Stored
  <2> QED  BY <2>1, Successes DEF RecordsIInv, BlameIsRight, FailuresOpaque
<1>2. RecordsIInv /\ [RecordsNext]_recordVars => RecordsIInv'
  <2> SUFFICES ASSUME RecordsIInv, [RecordsNext]_recordVars PROVE RecordsIInv'
    OBVIOUS
  <2>1. CASE UNCHANGED recordVars
    BY <2>1 DEF recordVars, RecordsIInv, Stored, BlameIsRight, FailuresOpaque
  <2>2. CASE RecordsNext
    BY <2>2, HostsKeep, ProfilesKeep, IdentitiesKeep, SessionsKeep, UseKeeps, OthersKeep
       DEF RecordsNext
  <2> QED  BY <2>1, <2>2
<1> QED  BY <1>1, <1>2, PTL DEF RecordsSpec

\* Whatever creates, patches, renames, key rotations and failures went before, a stored
\* row passes the validators that reading it skips and can be read again, a 5xx is a
\* failing dependency's or the vault's and nobody else's, and no failure tells of the
\* server's inside (the DTOs, validation.rs, rows.rs, error.rs, map_pty_start_error,
\* vault_or_503).
THEOREM RowsSound == RecordsSpec => []RowsInv
<1>1. RecordsIInv => RowsInv
  <2> SUFFICES ASSUME RecordsIInv PROVE RowsInv
    OBVIOUS
  <2>1. RecordsTypeOK
    BY DEF RecordsIInv, RecordsTypeOK, Replies, Stored, HostRow, ProfileRow
  <2>2. StoredRowsValid
    <3>1. host # NoRow => HostRow(host)
      BY DEF RecordsIInv, Stored
    <3>2. profile # NoRow => ProfileRow(profile)
      BY DEF RecordsIInv, Stored
    <3>3. host # NoRow /\ profile # NoRow =>
            ValidSshUsername(Given(profile.username_override, host.default_username))
      BY <3>1, <3>2, GivenIs DEF HostRow, ProfileRow, OptionalIs
    <3> QED  BY <3>1, <3>2, <3>3 DEF StoredRowsValid, HostRow, ProfileRow
  <2>3. RowsReadable
    <3>0. U16Max \in Nat /\ 4096 <= U16Max
      BY DEF U16Max
    <3>1. host # NoRow => ValidSshPort(host.port)
      BY DEF RecordsIInv, Stored, HostRow
    <3>2. host # NoRow => HostReads(host)
      BY <3>0, <3>1 DEF ValidSshPort, HostReads
    <3>3. identity # NoRow => IdentityReads(identity)
      BY DEF RecordsIInv, Stored, IdentityRow, IdentityReads, KeyTypes
    <3>4. session # NoRow => SessionRow(session)
      BY DEF RecordsIInv, Stored
    <3>5. session # NoRow => SessionReads(session)
      <4>1. \A d : ValidDim(d) => d \in 0 .. U16Max
        BY <3>0 DEF ValidDim
      <4> QED  BY <3>4, <4>1 DEF SessionRow, SessionReads
    <3> QED  BY <3>2, <3>3, <3>5 DEF RowsReadable
  <2> QED  BY <2>1, <2>2, <2>3 DEF RecordsIInv, RowsInv
<1> QED  BY <1>1, RecordsInvariant, PTL

-----------------------------------------------------------------------------
(*****************************************************************************)
(* The recording viewer.  What a reply on its way says, and what the       *)
(* viewer has put together from the replies it took.                       *)
(*****************************************************************************)

Chunk == [first : 1 .. MaxChunkSeq, last : 1 .. MaxChunkSeq, plain : BOOLEAN]
Totals == [has_recording : BOOLEAN, rows : SUBSET Chunk, first_seq : 1 .. MaxChunkSeq + 1]
ReplayCall ==
  [gen : 1 .. MaxLoads, kind : {"metadata", "chunks", "markers"}, from : 0 .. MaxChunkSeq + 1,
   state : {"asked", "counted", "answered"}, ok : BOOLEAN, body : Seq(Chunk) \cup Seq(Totals)]

InOrder(s) ==
  /\ \A i \in 1 .. Len(s) : s[i].first <= s[i].last
  /\ \A i, j \in 1 .. Len(s) : i < j => s[i].last < s[j].first

\* The writer goes forward only.
ChunksOK ==
  /\ chunks \subseteq Chunk /\ IsFiniteSet(chunks) /\ recorded \in 0 .. MaxChunkSeq
  /\ \A c \in chunks : c.first <= c.last /\ c.last <= recorded
  /\ \A c, d \in chunks : c # d => c.last < d.first \/ d.last < c.first

ViewOK ==
  /\ generation \in 0 .. MaxLoads /\ cursor \in 0 .. MaxChunkSeq + 1 /\ purged \in BOOLEAN
  /\ view \in {"loading_metadata", "loading_chunks", "empty", "error", "ready", "decode_warning"}
  /\ known \subseteq Chunk /\ taken \in Seq(Chunk) /\ InOrder(taken)
  /\ taken # << >> => viewer = Owner

\* What a call says of the tables, whichever load it is of.
Sound(c) ==
  /\ c \in ReplayCall /\ c.gen <= generation
  /\ c.state = "counted" => c.kind = "metadata" /\ viewer = Owner
  /\ c.state = "counted" \/ (c.state = "answered" /\ c.ok) =>
       /\ viewer = Owner
       /\ c.kind = "metadata" =>
            /\ c.body \in Seq(Totals) /\ Len(c.body) = 1
            /\ \A k \in c.body[1].rows : c.body[1].first_seq <= k.first
            /\ ~purged => c.body[1].rows \subseteq chunks
       /\ c.kind = "chunks" =>
            /\ c.body \in Seq(Chunk) /\ InOrder(c.body)
            /\ \A i \in 1 .. Len(c.body) : c.from <= c.body[i].first

\* What the load that waits for c has played.
Waiting(c) ==
  /\ c.kind = "metadata" => taken = << >> /\ loops = 0
  /\ c.kind = "chunks" =>
       /\ c.from = cursor /\ loops \in 1 .. HardLoopCap /\ view = "loading_chunks"
       /\ \A i \in 1 .. Len(taken) : taken[i].last < cursor
       /\ ~purged => known \subseteq chunks /\ \A k \in known : k.first < cursor => k \in ToSet(taken)
       /\ ~purged /\ c.state = "answered" /\ c.ok =>
            \A k \in known : cursor <= k.first =>
              \/ k \in ToSet(c.body)
              \/ Len(c.body) >= PageSize /\ \A i \in 1 .. Len(c.body) : c.body[i].last < k.first
  /\ c.kind = "markers" => (~purged /\ loops <= HardLoopCap => known \subseteq ToSet(taken))

\* The load owns up to what it skipped and to having been cut short, and to nothing
\* else; one that is over and was not cut short took every chunk it knew of.
LoadOK ==
  /\ loops \in 0 .. HardLoopCap + 1 /\ warning \in BOOLEAN
  /\ warning <=> loops > HardLoopCap \/ \E k \in ToSet(taken) : ~Decodes(k)
  /\ view \in {"ready", "decode_warning"} =>
       /\ view = "decode_warning" <=> warning
       /\ ~purged /\ loops <= HardLoopCap => known \subseteq ToSet(taken)

ReplayIInv ==
  /\ ChunksOK /\ ViewOK /\ LoadOK
  /\ \A c \in calls : Sound(c) /\ (c.gen = generation => Waiting(c))
  /\ \A c, d \in calls : c.gen = generation /\ d.gen = generation => c = d

-----------------------------------------------------------------------------
(* ORDER BY seq_start LIMIT n *)

Distinct(S) ==
  /\ S \subseteq Chunk /\ IsFiniteSet(S)
  /\ \A c, d \in S : c.first = d.first => c = d

LEMMA RankBound ==
  ASSUME NEW S, Distinct(S), NEW c \in S
  PROVE  /\ IsFiniteSet({d \in S : d.first < c.first}) /\ RowsBefore(c, S) \in Nat
         /\ RowsBefore(c, S) < Cardinality(S) /\ Cardinality(S) \in Nat
<1>0. c.first \in Nat
  BY DEF Distinct, Chunk
<1>1. {d \in S : d.first < c.first} \subseteq S \ {c}
  BY <1>0
<1>2. /\ IsFiniteSet(S \ {c}) /\ Cardinality(S \ {c}) = Cardinality(S) - 1
      /\ Cardinality(S) \in Nat /\ Cardinality(S \ {c}) \in Nat
  BY FS_RemoveElement, FS_CardinalityType DEF Distinct
<1>3. /\ IsFiniteSet({d \in S : d.first < c.first})
      /\ Cardinality({d \in S : d.first < c.first}) <= Cardinality(S \ {c})
      /\ Cardinality({d \in S : d.first < c.first}) \in Nat
  BY <1>1, <1>2, FS_Subset, FS_CardinalityType
<1> QED  BY <1>2, <1>3 DEF RowsBefore

LEMMA RankGrows ==
  ASSUME NEW S, Distinct(S), NEW c \in S, NEW d \in S, c.first < d.first
  PROVE  RowsBefore(c, S) < RowsBefore(d, S)
<1> DEFINE below(x) == {y \in S : y.first < x.first}
<1>0. \A x \in S : x.first \in Nat
  BY DEF Distinct, Chunk
<1>1. below(c) \cup {c} \subseteq below(d) /\ c \notin below(c)
  BY <1>0
<1>2. IsFiniteSet(below(c)) /\ IsFiniteSet(below(d))
  BY RankBound
<1>3. Cardinality(below(c) \cup {c}) = Cardinality(below(c)) + 1
  BY <1>1, <1>2, FS_AddElement
<1>4. Cardinality(below(c) \cup {c}) <= Cardinality(below(d))
  BY <1>1, <1>2, FS_Subset
<1>5. RowsBefore(c, S) = Cardinality(below(c)) /\ RowsBefore(d, S) = Cardinality(below(d))
  BY DEF RowsBefore
<1>6. RowsBefore(c, S) \in Nat /\ RowsBefore(d, S) \in Nat
  BY RankBound
<1> HIDE DEF below
<1> QED  BY <1>3, <1>4, <1>5, <1>6

LEMMA RankInjects ==
  ASSUME NEW S, Distinct(S), NEW c \in S, NEW d \in S, RowsBefore(c, S) = RowsBefore(d, S)
  PROVE  c = d
<1>1. c.first \in Nat /\ d.first \in Nat /\ (c.first = d.first => c = d)
  BY DEF Distinct, Chunk
<1>2. RowsBefore(c, S) \in Nat /\ RowsBefore(d, S) \in Nat
  BY RankBound
<1>3. ~(c.first < d.first) /\ ~(d.first < c.first)
  BY <1>2, RankGrows
<1> QED  BY <1>1, <1>3

\* Every place of the order is some row's.
LEMMA RankOnto ==
  ASSUME NEW S, Distinct(S), NEW i \in Nat, i < Cardinality(S)
  PROVE  \E c \in S : RowsBefore(c, S) = i
<1> SUFFICES ASSUME \A c \in S : RowsBefore(c, S) # i PROVE FALSE
  OBVIOUS
<1>1. PICK n \in Nat : n = Cardinality(S) /\ IsFiniteSet(S) /\ n > i
  BY FS_CardinalityType DEF Distinct
<1>2. PICK places : places = (0 .. n - 1) \ {i}
  OBVIOUS
<1>3. IsFiniteSet(places) /\ Cardinality(places) = n - 1
  <2>0. \A b \in Int : IsFiniteSet(0 .. b) /\ Cardinality(0 .. b) = IF 0 > b THEN 0 ELSE b - 0 + 1
    BY FS_Interval
  <2>1. IsFiniteSet(0 .. n - 1) /\ Cardinality(0 .. n - 1) = IF 0 > n - 1 THEN 0 ELSE (n - 1) - 0 + 1
    <3>1. PICK b \in Int : b = n - 1
      BY <1>1
    <3> QED  BY <2>0, <3>1
  <2>2. Cardinality(0 .. n - 1) = n /\ i \in 0 .. n - 1
    BY <1>1, <2>1
  <2> QED  BY <1>2, <2>1, <2>2, FS_RemoveElement
<1>4. PICK f : f = [c \in S |-> RowsBefore(c, S)]
  OBVIOUS
<1>5. f \in [S -> places]
  <2>1. ASSUME NEW c \in S PROVE RowsBefore(c, S) \in places
    <3>1. RowsBefore(c, S) \in Nat /\ RowsBefore(c, S) < n /\ RowsBefore(c, S) # i
      BY <1>1, RankBound
    <3> QED  BY <1>1, <1>2, <3>1
  <2> QED  BY <1>4, <2>1
<1>6. \E x, y \in S : x # y /\ f[x] = f[y]
  <2>1. Cardinality(S) > Cardinality(places)
    BY <1>1, <1>3
  <2> QED  BY <1>1, <1>3, <1>5, <2>1, FS_PigeonHole
<1> QED  BY <1>4, <1>6, RankInjects

\* The page list_chunks answers: rows from `from` on, in order, none skipped,
\* and all of them when it is short.
LEMMA PageIs ==
  ASSUME ChunksOK, NEW from \in Nat, NEW page, page = ListChunks(from, PageSize)
  PROVE  /\ page \in Seq(Chunk) /\ InOrder(page)
         /\ \A i \in 1 .. Len(page) : from <= page[i].first
         /\ \A k \in chunks : from <= k.first =>
              \/ k \in ToSet(page)
              \/ Len(page) >= PageSize /\ \A i \in 1 .. Len(page) : page[i].last < k.first
<1>1. PICK S : S = Rows(from)
  OBVIOUS
<1>2. /\ Distinct(S) /\ \A c \in S : c \in chunks /\ c.first >= from
      /\ \A c \in chunks : c.first >= from => c \in S
  <2>1. S \subseteq chunks /\ \A c \in S : c.first >= from
    BY <1>1 DEF Rows
  <2>2. IsFiniteSet(S)
    BY <2>1, FS_Subset DEF ChunksOK
  <2>3. \A c, d \in S : c.first = d.first => c = d
    <3>1. \A c \in S : c.first \in Nat /\ c.last \in Nat /\ c.first <= c.last
      BY <2>1 DEF ChunksOK, Chunk
    <3> QED  BY <2>1, <3>1 DEF ChunksOK
  <2> QED  BY <1>1, <2>1, <2>2, <2>3 DEF Distinct, ChunksOK, Rows
<1>3. PICK m \in Nat : m = Cardinality(S)
  BY <1>2, FS_CardinalityType DEF Distinct
<1>4. PageSize \in Nat /\ PageSize >= 1 /\ PageSize <= LimitCeiling /\ LimitCeiling \in Nat
  BY ReplayAssumption
<1>5. ClampLimit(PageSize) = PageSize
  <2>1. Max({PageSize, 1}) = PageSize
    BY <1>4 DEF Max
  <2>2. Min({PageSize, LimitCeiling}) = PageSize
    BY <1>4 DEF Min
  <2> QED  BY <2>1, <2>2 DEF ClampLimit
<1>6. PICK n \in Nat : n = Min({m, PageSize}) /\ n <= m /\ n <= PageSize /\ (n = m \/ n = PageSize)
  <2>1. CASE m <= PageSize
    <3>1. Min({m, PageSize}) = m
      BY <1>4, <2>1 DEF Min
    <3> QED  BY <1>4, <2>1, <3>1
  <2>2. CASE ~(m <= PageSize)
    <3>1. Min({m, PageSize}) = PageSize
      BY <1>4, <2>2 DEF Min
    <3> QED  BY <1>4, <2>2, <3>1
  <2> QED  BY <2>1, <2>2
<1>7. page = [i \in 1 .. n |-> CHOOSE c \in S : RowsBefore(c, S) = i - 1]
  BY <1>1, <1>3, <1>5, <1>6 DEF ListChunks
<1>8. \A i \in 1 .. n : page[i] \in S /\ RowsBefore(page[i], S) = i - 1
  <2>1. ASSUME NEW i \in 1 .. n PROVE page[i] \in S /\ RowsBefore(page[i], S) = i - 1
    <3>1. \E c \in S : RowsBefore(c, S) = i - 1
      <4>1. i - 1 \in Nat /\ i - 1 < Cardinality(S)
        BY <1>3, <1>6
      <4> QED  BY <1>2, <4>1, RankOnto
    <3>2. page[i] = CHOOSE c \in S : RowsBefore(c, S) = i - 1
      BY <1>7
    <3> QED  BY <3>1, <3>2
  <2> QED  BY <2>1
<1>9. page \in Seq(Chunk) /\ Len(page) = n /\ DOMAIN page = 1 .. n
  <2>1. page \in [1 .. n -> Chunk]
    BY <1>2, <1>7, <1>8 DEF Distinct
  <2> QED  BY <2>1
<1>10. ASSUME NEW c \in S, NEW d \in S, RowsBefore(c, S) < RowsBefore(d, S)
       PROVE  c.last < d.first
  <2>1. /\ c \in Chunk /\ d \in Chunk /\ c.first <= c.last /\ d.first <= d.last
        /\ c # d => c.last < d.first \/ d.last < c.first
    BY <1>2 DEF ChunksOK
  <2>2. c.first \in Nat /\ c.last \in Nat /\ d.first \in Nat /\ d.last \in Nat
    BY <2>1 DEF Chunk
  <2>3. RowsBefore(c, S) \in Nat /\ RowsBefore(d, S) \in Nat
    BY <1>2, RankBound
  <2>4. c # d
    BY <1>10, <2>3
  <2>5. ~(d.first < c.first)
    BY <1>2, <1>10, <2>3, RankGrows
  <2> QED  BY <2>1, <2>2, <2>4, <2>5
<1>11. InOrder(page)
  <2>1. \A i \in 1 .. n : page[i].first <= page[i].last
    BY <1>2, <1>8 DEF ChunksOK
  <2>2. ASSUME NEW i \in 1 .. n, NEW j \in 1 .. n, i < j PROVE page[i].last < page[j].first
    <3>1. RowsBefore(page[i], S) = i - 1 /\ RowsBefore(page[j], S) = j - 1
      BY <1>8
    <3>2. RowsBefore(page[i], S) < RowsBefore(page[j], S)
      BY <2>2, <3>1
    <3> QED  BY <1>8, <1>10, <3>2
  <2> QED  BY <1>9, <2>1, <2>2 DEF InOrder
<1>12. \A i \in 1 .. Len(page) : from <= page[i].first
  <2>1. \A c \in S : c.first \in Nat
    BY <1>2 DEF Distinct, Chunk
  <2> QED  BY <1>2, <1>8, <1>9, <2>1
<1>13. ASSUME NEW k \in chunks, from <= k.first, k \notin ToSet(page)
       PROVE  Len(page) >= PageSize /\ \A i \in 1 .. Len(page) : page[i].last < k.first
  <2>1. k \in S
    <3>1. k.first \in Nat
      BY DEF ChunksOK, Chunk
    <3> QED  BY <1>2, <1>13, <3>1
  <2>2. PICK r \in Nat : r = RowsBefore(k, S) /\ r < m
    BY <1>2, <1>3, <2>1, RankBound
  <2>3. r >= n
    <3> SUFFICES ASSUME r < n PROVE FALSE
      BY <2>2
    <3>1. r + 1 \in 1 .. n /\ RowsBefore(page[r + 1], S) = r /\ page[r + 1] \in S
      <4>1. r + 1 \in 1 .. n /\ (r + 1) - 1 = r
        BY <2>2
      <4> QED  BY <1>8, <4>1
    <3>2. page[r + 1] = k
      BY <1>2, <2>1, <2>2, <3>1, RankInjects
    <3> QED  BY <1>9, <1>13, <3>1, <3>2 DEF ToSet
  <2>4. n = PageSize
    BY <1>4, <1>6, <2>2, <2>3
  <2>5. ASSUME NEW i \in 1 .. n PROVE page[i].last < k.first
    <3>1. page[i] \in S /\ RowsBefore(page[i], S) = i - 1
      BY <1>8
    <3>2. RowsBefore(page[i], S) < RowsBefore(k, S)
      BY <2>2, <2>3, <3>1
    <3> QED  BY <1>10, <2>1, <3>1, <3>2
  <2> QED  BY <1>4, <1>9, <2>4, <2>5
<1> QED  BY <1>9, <1>11, <1>12, <1>13

-----------------------------------------------------------------------------
(* Steps of the tables and of the routes *)

\* Rows that come, and a purge that is known, take nothing from what a call says.
LEMMA CallKept ==
  ASSUME NEW c, UNCHANGED << viewer, generation, taken, cursor, view, loops, known >>,
         purged' \in BOOLEAN, purged => purged', ~purged' => chunks \subseteq chunks'
  PROVE  (Sound(c) => Sound(c)') /\ (Waiting(c) => Waiting(c)')
<1>1. Sound(c) => Sound(c)'
  BY DEF Sound, InOrder
<1>2. Waiting(c) => Waiting(c)'
  BY DEF Waiting, ToSet
<1> QED  BY <1>1, <1>2

LEMMA TablesStep ==
  ASSUME ReplayIInv, ChunksOK', UNCHANGED << viewer, generation, calls, loadVars >>,
         purged' \in BOOLEAN, purged => purged', ~purged' => chunks \subseteq chunks'
  PROVE  ReplayIInv'
<1>1. \A c \in calls : Sound(c)' /\ (c.gen = generation => Waiting(c)')
  BY CallKept DEF ReplayIInv, loadVars
<1>2. ViewOK' /\ LoadOK'
  BY DEF ReplayIInv, ViewOK, InOrder, LoadOK, ToSet, loadVars
<1> QED  BY <1>1, <1>2 DEF ReplayIInv

LEMMA AppendChunkStep ==
  ASSUME ReplayIInv, AppendChunk
  PROVE  ReplayIInv'
<1>1. PICK first, last \in recorded + 1 .. MaxChunkSeq, plain \in BOOLEAN :
        /\ first <= last /\ recorded' = last
        /\ chunks' = chunks \cup {[first |-> first, last |-> last, plain |-> plain]}
  BY DEF AppendChunk
<1>2. PICK new : new = [first |-> first, last |-> last, plain |-> plain]
  OBVIOUS
<1>3. /\ recorded \in Nat /\ chunks \subseteq Chunk /\ IsFiniteSet(chunks) /\ MaxChunkSeq \in Nat
      /\ \A c \in chunks : /\ c.first \in Nat /\ c.last \in Nat /\ c.first <= c.last
                           /\ c.last <= recorded
  BY ReplayAssumption DEF ReplayIInv, ChunksOK, Chunk
<1>4. new \in Chunk /\ new.first = first /\ new.last = last /\ first > recorded
  BY <1>1, <1>2, <1>3 DEF Chunk
<1>5. IsFiniteSet(chunks')
  BY <1>1, <1>3, FS_AddElement
<1>6. \A c \in chunks' : c.first <= c.last /\ c.last <= recorded'
  BY <1>1, <1>2, <1>3, <1>4
<1>7. \A c, d \in chunks' : c # d => c.last < d.first \/ d.last < c.first
  <2>1. \A c, d \in chunks : c # d => c.last < d.first \/ d.last < c.first
    BY DEF ReplayIInv, ChunksOK
  <2>2. \A c \in chunks : c.last < new.first
    BY <1>1, <1>3, <1>4
  <2> QED  BY <1>1, <1>2, <2>1, <2>2
<1>8. ChunksOK'
  BY <1>1, <1>2, <1>3, <1>4, <1>5, <1>6, <1>7 DEF ChunksOK
<1>9. purged' = purged /\ purged \in BOOLEAN /\ chunks \subseteq chunks'
  BY <1>1 DEF AppendChunk, ReplayIInv, ViewOK
<1> QED  BY <1>8, <1>9, TablesStep DEF AppendChunk

LEMMA PurgeStep ==
  ASSUME ReplayIInv, Purge
  PROVE  ReplayIInv'
<1>1. ChunksOK'
  BY FS_EmptySet DEF Purge, ReplayIInv, ChunksOK
<1> QED  BY <1>1, TablesStep DEF Purge

\* One call goes on.
LEMMA CallStep ==
  ASSUME ReplayIInv, NEW c \in calls, NEW d, d.gen = c.gen, Sound(d),
         d.gen = generation => Waiting(d), calls' = (calls \ {c}) \cup {d},
         UNCHANGED << chunks, recorded, purged, viewer, generation, loadVars >>
  PROVE  ReplayIInv'
<1>0. purged \in BOOLEAN
  BY DEF ReplayIInv, ViewOK
<1>1. ChunksOK' /\ ViewOK' /\ LoadOK'
  BY DEF ReplayIInv, ChunksOK, ViewOK, InOrder, LoadOK, ToSet, loadVars
<1>2. \A x \in calls \cup {d} : Sound(x) /\ (x.gen = generation => Waiting(x))
  BY DEF ReplayIInv
<1>3. ASSUME NEW x \in calls' PROVE Sound(x)' /\ (x.gen = generation => Waiting(x)')
  BY <1>0, <1>2, CallKept DEF loadVars
<1>4. \A x, y \in calls' : x.gen = generation' /\ y.gen = generation' => x = y
  BY DEF ReplayIInv
<1> QED  BY <1>1, <1>3, <1>4 DEF ReplayIInv

LEMMA TotalsTyped ==
  ASSUME ReplayIInv
  PROVE  /\ ChunkTotals \in Totals /\ ChunkTotals.rows = chunks
         /\ \A k \in chunks : ChunkTotals.first_seq <= k.first
<1>1. PICK F : F = {c.first : c \in chunks}
  OBVIOUS
<1>2. F \subseteq 1 .. MaxChunkSeq /\ (chunks # {} => F # {}) /\ MaxChunkSeq \in Nat /\ chunks \subseteq Chunk
  BY <1>1, ReplayAssumption DEF ReplayIInv, ChunksOK, Chunk
<1>3. chunks # {} => Min(F) \in F /\ \A y \in F : Min(F) <= y
  <2> SUFFICES ASSUME chunks # {} PROVE Min(F) \in F /\ \A y \in F : Min(F) <= y
    OBVIOUS
  <2>1. F \subseteq Nat /\ F # {}
    BY <1>2
  <2>2. \E x \in F : \A y \in F : x <= y
    BY <2>1, LeastNat
  <2> QED  BY <2>2 DEF Min
<1>4. PICK f : f = IF chunks = {} THEN 1 ELSE Min(F)
  OBVIOUS
<1>5. f \in 1 .. MaxChunkSeq + 1 /\ \A k \in chunks : f <= k.first
  <2>1. CASE chunks = {}
    BY <1>2, <1>4, <2>1
  <2>2. CASE chunks # {}
    <3>1. f \in F /\ \A y \in F : f <= y
      BY <1>3, <1>4, <2>2
    <3>2. f \in 1 .. MaxChunkSeq + 1
      BY <1>2, <3>1
    <3>3. \A k \in chunks : k.first \in F
      BY <1>1
    <3> QED  BY <3>1, <3>2, <3>3
  <2> QED  BY <2>1, <2>2
<1>6. ChunkTotals = [has_recording |-> chunks # {}, rows |-> chunks, first_seq |-> f]
  BY <1>1, <1>4 DEF ChunkTotals
<1> QED  BY <1>2, <1>5, <1>6 DEF Totals

LEMMA OneElement ==
  ASSUME NEW S, NEW x \in S
  PROVE  \E b \in Seq(S) : b = << x >> /\ Len(b) = 1 /\ b[1] = x
<1>1. << x >> \in Seq(S) /\ Len(<< x >>) = 1 /\ << x >>[1] = x
  OBVIOUS
<1> QED  BY <1>1

LEMMA CountStep ==
  ASSUME ReplayIInv, GetMetadataChunks
  PROVE  ReplayIInv'
<1>1. PICK c \in Asked("metadata") :
        /\ viewer = Owner
        /\ calls' = (calls \ {c}) \cup {[c EXCEPT !.state = "counted", !.body = << ChunkTotals >>]}
  BY DEF GetMetadataChunks
<1>2. c \in calls /\ c.kind = "metadata" /\ Sound(c) /\ c \in ReplayCall /\ (c.gen = generation => Waiting(c))
  BY DEF Asked, ReplayIInv, Sound
<1>3. PICK b \in Seq(Totals) : b = << ChunkTotals >> /\ Len(b) = 1 /\ b[1] = ChunkTotals
  BY TotalsTyped, OneElement
<1>4. PICK d : d = [c EXCEPT !.state = "counted", !.body = b]
  OBVIOUS
<1>5. /\ d \in ReplayCall /\ d.gen = c.gen /\ d.kind = "metadata" /\ d.state = "counted"
      /\ d.body = b
  BY <1>2, <1>4 DEF ReplayCall
<1>6. Sound(d)
  BY <1>1, <1>2, <1>3, <1>5, TotalsTyped DEF Sound
<1>7. d.gen = generation => Waiting(d)
  BY <1>2, <1>5 DEF Waiting
<1>8. calls' = (calls \ {c}) \cup {d}
  BY <1>1, <1>3, <1>4
<1> QED  BY <1>2, <1>5, <1>6, <1>7, <1>8, CallStep DEF GetMetadataChunks

\* What Serve answers.
LEMMA Served ==
  ASSUME ReplayIInv, NEW c \in calls, NEW body \in Seq(Chunk) \cup Seq(Totals), Serve(c, body)
  PROVE  \E d \in ReplayCall :
           /\ calls' = (calls \ {c}) \cup {d}
           /\ d.gen = c.gen /\ d.kind = c.kind /\ d.from = c.from /\ d.state = "answered"
           /\ d.ok <=> viewer = Owner
           /\ d.body = IF viewer = Owner THEN body ELSE << >>
<1>1. c \in ReplayCall
  BY DEF ReplayIInv, Sound
<1>2. c.from \in Nat
  BY <1>1, ReplayAssumption DEF ReplayCall
<1>3. FromSeqValid(c.from)
  BY <1>2 DEF FromSeqValid
<1>4. PICK b \in Seq(Chunk) \cup Seq(Totals) : b = IF viewer = Owner THEN body ELSE << >>
  <2>1. << >> \in Seq(Chunk)
    BY EmptySeq
  <2> QED  BY <2>1, Zenon
<1>5. PICK d : d = [gen |-> c.gen, kind |-> c.kind, from |-> c.from, state |-> "answered",
                    ok |-> viewer = Owner, body |-> b]
  OBVIOUS
<1>6. d \in ReplayCall
  BY <1>1, <1>5 DEF ReplayCall
<1>7. calls' = (calls \ {c}) \cup {d}
  BY <1>3, <1>4, <1>5 DEF Serve
<1> QED  BY <1>4, <1>5, <1>6, <1>7

LEMMA MetadataStep ==
  ASSUME ReplayIInv, GetMetadataMarkers
  PROVE  ReplayIInv'
<1>1. PICK c \in calls :
        c.state = "counted" /\ Serve(c, << [c.body[1] EXCEPT !.has_recording = @ \/ marks # 0] >>)
  BY DEF GetMetadataMarkers
<1>2. /\ Sound(c) /\ (c.gen = generation => Waiting(c)) /\ c.kind = "metadata" /\ viewer = Owner
      /\ c.body \in Seq(Totals) /\ Len(c.body) = 1
  BY <1>1 DEF ReplayIInv, Sound
<1>3. PICK t \in Totals : t = c.body[1]
  BY <1>2
<1>4. PICK u : u = [t EXCEPT !.has_recording = @ \/ marks # 0]
  OBVIOUS
<1>5. u \in Totals /\ u.rows = t.rows /\ u.first_seq = t.first_seq
  BY <1>4 DEF Totals
<1>6. PICK b \in Seq(Totals) : b = << u >> /\ Len(b) = 1 /\ b[1] = u
  BY <1>5, OneElement
<1>7. Serve(c, b)
  BY <1>1, <1>3, <1>4, <1>6
<1>8. PICK d \in ReplayCall :
        /\ calls' = (calls \ {c}) \cup {d}
        /\ d.gen = c.gen /\ d.kind = c.kind /\ d.from = c.from /\ d.state = "answered"
        /\ d.ok <=> viewer = Owner
        /\ d.body = IF viewer = Owner THEN b ELSE << >>
  BY <1>7, Served
<1>9. /\ \A k \in t.rows : t.first_seq <= k.first
      /\ ~purged => t.rows \subseteq chunks
      /\ c.gen <= generation
  BY <1>1, <1>2, <1>3 DEF Sound
<1>10. Sound(d)
  BY <1>2, <1>5, <1>6, <1>8, <1>9 DEF Sound
<1>11. d.gen = generation => Waiting(d)
  BY <1>2, <1>8 DEF Waiting
<1> QED  BY <1>8, <1>10, <1>11, CallStep DEF GetMetadataMarkers

LEMMA RefuseStep ==
  ASSUME ReplayIInv, MetadataRefused \/ GetMarkers
  PROVE  ReplayIInv'
<1>1. PICK none \in Seq(Chunk) : none = << >>
  BY EmptySeq
<1>2. PICK c \in calls :
        /\ Serve(c, none) /\ c.state = "asked"
        /\ c.kind = "markers" \/ (c.kind = "metadata" /\ viewer # Owner)
  <2>1. CASE MetadataRefused
    <3>1. PICK c \in Asked("metadata") : Serve(c, none) /\ viewer # Owner
      BY <1>1, <2>1 DEF MetadataRefused
    <3>2. c \in calls /\ c.state = "asked" /\ c.kind = "metadata"
      BY <3>1 DEF Asked
    <3> QED  BY <3>1, <3>2
  <2>2. CASE GetMarkers
    <3>1. PICK c \in Asked("markers") : Serve(c, none)
      BY <1>1, <2>2 DEF GetMarkers
    <3>2. c \in calls /\ c.state = "asked" /\ c.kind = "markers"
      BY <3>1 DEF Asked
    <3> QED  BY <3>1, <3>2
  <2> QED  BY <2>1, <2>2
<1>3. Sound(c) /\ (c.gen = generation => Waiting(c))
  BY DEF ReplayIInv
<1>4. PICK d \in ReplayCall :
        /\ calls' = (calls \ {c}) \cup {d}
        /\ d.gen = c.gen /\ d.kind = c.kind /\ d.from = c.from /\ d.state = "answered"
        /\ d.ok <=> viewer = Owner
  BY <1>2, Served
<1>5. Sound(d)
  BY <1>2, <1>3, <1>4 DEF Sound
<1>6. d.gen = generation => Waiting(d)
  BY <1>2, <1>3, <1>4 DEF Waiting
<1> QED  BY <1>4, <1>5, <1>6, CallStep DEF MetadataRefused, GetMarkers

LEMMA ChunksStep ==
  ASSUME ReplayIInv, GetChunks
  PROVE  ReplayIInv'
<1>1. PICK c \in calls :
        c.state = "asked" /\ c.kind = "chunks" /\ Serve(c, ListChunks(c.from, PageSize))
  BY DEF GetChunks, Asked
<1>2. Sound(c) /\ (c.gen = generation => Waiting(c)) /\ c \in ReplayCall
  BY DEF ReplayIInv, Sound
<1>3. c.from \in Nat /\ ChunksOK
  BY <1>2, ReplayAssumption DEF ReplayCall, ReplayIInv
<1>4. PICK page : page = ListChunks(c.from, PageSize)
  OBVIOUS
<1>5. /\ page \in Seq(Chunk) /\ InOrder(page)
      /\ \A i \in 1 .. Len(page) : c.from <= page[i].first
      /\ \A k \in chunks : c.from <= k.first =>
           \/ k \in ToSet(page)
           \/ Len(page) >= PageSize /\ \A i \in 1 .. Len(page) : page[i].last < k.first
  BY <1>3, <1>4, PageIs
<1>6. PICK d \in ReplayCall :
        /\ calls' = (calls \ {c}) \cup {d}
        /\ d.gen = c.gen /\ d.kind = c.kind /\ d.from = c.from /\ d.state = "answered"
        /\ d.ok <=> viewer = Owner
        /\ d.body = IF viewer = Owner THEN page ELSE << >>
  BY <1>1, <1>4, <1>5, Served
<1>7. Sound(d)
  BY <1>1, <1>2, <1>5, <1>6 DEF Sound
<1>8. d.gen = generation => Waiting(d)
  BY <1>1, <1>2, <1>5, <1>6 DEF Waiting
<1> QED  BY <1>6, <1>7, <1>8, CallStep DEF GetChunks

LEMMA FailStep ==
  ASSUME ReplayIInv, CallFails
  PROVE  ReplayIInv'
<1>1. PICK c \in calls :
        calls' = (calls \ {c}) \cup {[c EXCEPT !.state = "answered", !.ok = FALSE, !.body = << >>]}
  BY DEF CallFails
<1>2. Sound(c) /\ (c.gen = generation => Waiting(c)) /\ c \in ReplayCall
  BY DEF ReplayIInv, Sound
<1>3. PICK none \in Seq(Chunk) : none = << >>
  BY EmptySeq
<1>4. PICK d : d = [c EXCEPT !.state = "answered", !.ok = FALSE, !.body = none]
  OBVIOUS
<1>5. /\ d \in ReplayCall /\ d.gen = c.gen /\ d.kind = c.kind /\ d.from = c.from
      /\ d.state = "answered" /\ ~d.ok
  BY <1>2, <1>4 DEF ReplayCall
<1>6. Sound(d)
  BY <1>2, <1>5 DEF Sound
<1>7. d.gen = generation => Waiting(d)
  BY <1>2, <1>5 DEF Waiting
<1>8. calls' = (calls \ {c}) \cup {d}
  BY <1>1, <1>3, <1>4
<1> QED  BY <1>5, <1>6, <1>7, <1>8, CallStep DEF CallFails

-----------------------------------------------------------------------------
(* Steps of the load loop *)

LEMMA CallTyped ==
  ASSUME NEW gen \in 1 .. MaxLoads, NEW kind \in {"metadata", "chunks", "markers"},
         NEW from \in 0 .. MaxChunkSeq + 1, NEW d, d = Call(gen, kind, from)
  PROVE  /\ d \in ReplayCall /\ d.gen = gen /\ d.kind = kind /\ d.from = from
         /\ d.state = "asked" /\ ~d.ok
<1>1. PICK none \in Seq(Chunk) : none = << >>
  BY EmptySeq
<1>2. d = [gen |-> gen, kind |-> kind, from |-> from, state |-> "asked", ok |-> FALSE, body |-> none]
  BY <1>1 DEF Call
<1> QED  BY <1>2 DEF ReplayCall

\* The load takes its answer c and goes on with the calls of new.
LEMMA TakeStep ==
  ASSUME ReplayIInv, NEW c \in calls, c.gen = generation,
         UNCHANGED << chunks, recorded, purged, viewer, generation >>, ViewOK', LoadOK',
         NEW new, calls' = (calls \ {c}) \cup new, \A d, e \in new : d = e,
         \A d \in new : Sound(d) /\ Waiting(d)'
  PROVE  ReplayIInv'
<1>1. ChunksOK'
  BY DEF ReplayIInv, ChunksOK
<1>2. \A x \in calls \cup new : Sound(x)
  BY DEF ReplayIInv
<1>3. \A x \in calls \cup new : Sound(x)'
  BY <1>2 DEF Sound, InOrder
<1>4. \A x \in calls \ {c} : x.gen # generation
  BY DEF ReplayIInv
<1>5. \A x \in calls' : Sound(x)' /\ (x.gen = generation' => Waiting(x)')
  BY <1>3, <1>4
<1>6. \A x, y \in calls' : x.gen = generation' /\ y.gen = generation' => x = y
  BY <1>4
<1> QED  BY <1>1, <1>5, <1>6 DEF ReplayIInv

LEMMA EmptyPage ==
  ASSUME NEW s, s = << >>
  PROVE  ToSet(s) = {}
<1>1. PICK t \in Seq(Chunk) : t = s /\ Len(t) = 0
  <2>1. << >> \in Seq(Chunk) /\ Len(<< >>) = 0
    BY EmptySeq
  <2> QED  BY <2>1
<1>2. DOMAIN t = {}
  BY <1>1, LenProperties
<1>3. ToSet(t) = {}
  BY <1>2 DEF ToSet
<1> QED  BY <1>1, <1>3

LEMMA LoadStep ==
  ASSUME ReplayIInv, LoadView
  PROVE  ReplayIInv'
<1>1. PICK d : d = Call(generation + 1, "metadata", 0)
  OBVIOUS
<1>2. generation \in Nat /\ generation + 1 \in 1 .. MaxLoads /\ 0 \in 0 .. MaxChunkSeq + 1 /\ generation' = generation + 1
  BY ReplayAssumption DEF LoadView, ReplayIInv, ViewOK
<1>3. d \in ReplayCall /\ d.gen = generation + 1 /\ d.kind = "metadata" /\ d.state = "asked" /\ ~d.ok
  BY <1>1, <1>2, CallTyped
<1>4. PICK none \in Seq(Chunk) : none = << >> /\ Len(none) = 0
  <2>1. << >> \in Seq(Chunk) /\ Len(<< >>) = 0
    BY EmptySeq
  <2> QED  BY <2>1
<1>5. taken' = none
  BY <1>4 DEF LoadView
<1>6. ViewOK'
  <2>1. InOrder(taken)'
    <3>1. 1 .. Len(taken') = {}
      BY <1>4, <1>5
    <3> QED  BY <3>1 DEF InOrder
  <2> QED  BY <1>2, <1>4, <1>5, <2>1 DEF LoadView, ReplayIInv, ViewOK
<1>7. ChunksOK' /\ LoadOK'
  <2>1. ToSet(taken') = {}
    BY <1>4, <1>5, EmptyPage
  <2>2. LoadOK'
    <3>1. loops' = 0 /\ warning' = FALSE /\ view' = "loading_metadata"
      BY DEF LoadView
    <3>2. ~\E k \in ToSet(taken') : ~Decodes(k)
      BY <2>1
    <3>3. loops' \in 0 .. HardLoopCap + 1 /\ ~(loops' > HardLoopCap)
      BY <3>1, ReplayAssumption
    <3> QED  BY <3>1, <3>2, <3>3 DEF LoadOK
  <2>3. ChunksOK'
    BY DEF LoadView, ReplayIInv, ChunksOK
  <2> QED  BY <2>2, <2>3
<1>8. \A x \in calls : Sound(x) /\ x \in ReplayCall /\ x.gen \in Nat /\ x.gen <= generation
  BY ReplayAssumption DEF ReplayIInv, Sound, ReplayCall
<1>9. \A x \in calls : Sound(x)' /\ x.gen # generation'
  <2>1. ASSUME NEW x \in calls PROVE x.gen <= generation' /\ x.gen # generation'
    BY <1>2, <1>8
  <2> QED  BY <1>8, <2>1 DEF LoadView, Sound, InOrder
<1>10. Sound(d)' /\ Waiting(d)'
  BY <1>2, <1>3, <1>4, <1>5 DEF Sound, Waiting, LoadView
<1>11. calls' = calls \cup {d}
  BY <1>1 DEF LoadView
<1> QED  BY <1>6, <1>7, <1>9, <1>10, <1>11 DEF ReplayIInv

LEMMA StaleStep ==
  ASSUME ReplayIInv, Stale
  PROVE  ReplayIInv'
<1>1. PICK c \in calls : c.gen # generation /\ calls' = calls \ {c}
  BY DEF Stale
<1>2. ChunksOK' /\ ViewOK' /\ LoadOK'
  BY DEF Stale, ReplayIInv, ChunksOK, ViewOK, InOrder, LoadOK, ToSet, loadVars
<1>3. purged' = purged /\ purged \in BOOLEAN
  BY DEF Stale, ReplayIInv, ViewOK
<1>4. \A x \in calls : Sound(x) /\ (x.gen = generation => Waiting(x))
  BY DEF ReplayIInv
<1>5. ASSUME NEW x \in calls' PROVE Sound(x)' /\ (x.gen = generation => Waiting(x)')
  BY <1>1, <1>3, <1>4, CallKept DEF Stale, loadVars
<1>6. \A x, y \in calls' : x.gen = generation' /\ y.gen = generation' => x = y
  BY <1>1 DEF ReplayIInv, Stale
<1>7. generation' = generation
  BY DEF Stale
<1> QED  BY <1>2, <1>5, <1>6, <1>7 DEF ReplayIInv

LEMMA TakeMetadataStep ==
  ASSUME ReplayIInv, TakeMetadata
  PROVE  ReplayIInv'
<1>1. PICK c \in Answer("metadata") :
       IF ~c.ok THEN LoadEnds("error", c)
         ELSE IF ~c.body[1].has_recording THEN LoadEnds("empty", c)
         ELSE StartPaging(c, c.body[1].first_seq)
  BY Zenon DEF TakeMetadata
<1>2. c \in calls /\ c.state = "answered" /\ c.kind = "metadata" /\ c.gen = generation
  BY DEF Answer
<1>3. UNCHANGED << chunks, recorded, purged, viewer, generation, taken, warning >>
  BY DEF TakeMetadata
<1>4. CASE view' \in {"error", "empty"} /\ calls' = calls \ {c} /\ UNCHANGED << cursor, loops, known >>
  <2>1. ViewOK' /\ LoadOK'
    BY <1>3, <1>4 DEF ReplayIInv, ViewOK, InOrder, LoadOK, ToSet
  <2>0. PICK new : new = {}
    OBVIOUS
  <2>2. new = {} /\ calls' = (calls \ {c}) \cup new
    BY <1>4, <2>0
  <2>3. /\ \A d, e \in new : d = e
        /\ \A d \in new : Sound(d) /\ Waiting(d)'
    BY <2>2
  <2> QED  BY <1>2, <1>3, <2>1, <2>2, <2>3, TakeStep
<1>5. CASE /\ c.ok /\ view' = "loading_chunks" /\ known' = c.body[1].rows /\ cursor' = c.body[1].first_seq
           /\ loops' = 1
           /\ calls' = (calls \ {c}) \cup {Call(generation, "chunks", c.body[1].first_seq)}
  <2>1. Sound(c) /\ Waiting(c)
    BY <1>2 DEF ReplayIInv
  <2>2. PICK t \in Totals : /\ t = c.body[1] /\ \A k \in t.rows : t.first_seq <= k.first
                            /\ ~purged => t.rows \subseteq chunks
    BY <1>2, <1>5, <2>1 DEF Sound
  <2>3. taken = << >> /\ loops = 0
    BY <1>2, <2>1 DEF Waiting
  <2>4. t.rows \subseteq Chunk /\ t.first_seq \in 1 .. MaxChunkSeq + 1
    BY DEF Totals
  <2>5. ViewOK' /\ LoadOK'
    <3>1. ViewOK /\ InOrder(taken)'
      BY <1>3 DEF ReplayIInv, ViewOK, InOrder
    <3>2. known' \subseteq Chunk /\ cursor' \in 0 .. MaxChunkSeq + 1
      BY <1>5, <2>2, <2>4, ReplayAssumption
    <3>3. ViewOK'
      BY <1>3, <1>5, <3>1, <3>2 DEF ViewOK
    <3>4. ToSet(taken) = {} /\ ToSet(taken') = {}
      BY <1>3, <2>3, EmptyPage
    <3>5. ~warning
      BY <2>3, <3>4, ReplayAssumption DEF ReplayIInv, LoadOK
    <3>6. LoadOK'
      <4>1. ~\E k \in ToSet(taken') : ~Decodes(k)
        BY <3>4
      <4>2. loops' \in 0 .. HardLoopCap + 1 /\ ~(loops' > HardLoopCap)
        BY <1>5, ReplayAssumption
      <4>3. warning' \in BOOLEAN /\ ~warning'
        BY <1>3, <3>5 DEF ReplayIInv, LoadOK
      <4> QED  BY <1>5, <4>1, <4>2, <4>3 DEF LoadOK
    <3> QED  BY <3>3, <3>6
  <2>6. PICK d : d = Call(generation, "chunks", t.first_seq)
    OBVIOUS
  <2>7. generation \in 1 .. MaxLoads /\ generation <= generation
    BY <1>2, <2>1, ReplayAssumption DEF Sound, ReplayCall
  <2>8. /\ d \in ReplayCall /\ d.gen = generation /\ d.kind = "chunks" /\ d.from = t.first_seq
        /\ d.state = "asked" /\ ~d.ok
    <3>1. t.first_seq \in 0 .. MaxChunkSeq + 1
      BY <2>4, ReplayAssumption
    <3> QED  BY <2>6, <2>7, <3>1, CallTyped
  <2>9. Sound(d)
    BY <2>7, <2>8 DEF Sound
  <2>10. Waiting(d)'
    <3>1. Len(taken') = 0
      BY <1>3, <2>3
    <3>2. \A i \in 1 .. Len(taken') : taken'[i].last < cursor'
      BY <3>1
    <3>3. \A k \in t.rows : ~(k.first < t.first_seq)
      <4>1. \A k \in t.rows : k.first \in Nat
        BY <2>4 DEF Chunk
      <4>2. t.first_seq \in Nat
        BY <2>4
      <4> QED  BY <2>2, <4>1, <4>2
    <3>4. loops' \in 1 .. HardLoopCap
      BY <1>5, ReplayAssumption
    <3> QED  BY <1>3, <1>5, <2>2, <2>8, <3>2, <3>3, <3>4 DEF Waiting
  <2>11. calls' = (calls \ {c}) \cup {d}
    BY <1>5, <2>2, <2>6
  <2> QED  BY <1>2, <1>3, <2>5, <2>9, <2>10, <2>11, TakeStep
<1> QED  BY <1>1, <1>4, <1>5 DEF LoadEnds, StartPaging

LEMMA JoinedSet ==
  ASSUME NEW S, NEW s \in Seq(S), NEW t \in Seq(S)
  PROVE  ToSet(s \o t) = ToSet(s) \cup ToSet(t)
<1>1. PICK n \in Nat, m \in Nat, u \in Seq(S) : n = Len(s) /\ m = Len(t) /\ u = s \o t
  BY ConcatProperties, LenProperties
<1>2. /\ DOMAIN s = 1 .. n /\ DOMAIN t = 1 .. m /\ DOMAIN u = 1 .. n + m
      /\ \A i \in 1 .. n : u[i] = s[i]
      /\ \A i \in 1 .. m : u[n + i] = t[i]
  BY <1>1, ConcatProperties, LenProperties
<1>3. ASSUME NEW x \in ToSet(u) PROVE x \in ToSet(s) \cup ToSet(t)
  <2>1. PICK i \in 1 .. n + m : x = u[i]
    BY <1>2 DEF ToSet
  <2>2. CASE i <= n
    <3>1. i \in DOMAIN s /\ s[i] = x
      BY <1>2, <2>1, <2>2
    <3> QED  BY <3>1 DEF ToSet
  <2>3. CASE ~(i <= n)
    <3>1. i - n \in 1 .. m /\ n + (i - n) = i
      BY <2>3
    <3>2. u[i] = t[i - n]
      BY <1>2, <3>1
    <3> QED  BY <1>2, <2>1, <3>1, <3>2 DEF ToSet
  <2> QED  BY <2>2, <2>3
<1>4. ASSUME NEW x \in ToSet(s) PROVE x \in ToSet(u)
  <2>1. PICK i \in 1 .. n : x = s[i]
    BY <1>2 DEF ToSet
  <2>2. i \in DOMAIN u /\ u[i] = x
    BY <1>2, <2>1
  <2> QED  BY <2>2 DEF ToSet
<1>5. ASSUME NEW x \in ToSet(t) PROVE x \in ToSet(u)
  <2>1. PICK i \in 1 .. m : x = t[i]
    BY <1>2 DEF ToSet
  <2>2. n + i \in DOMAIN u /\ u[n + i] = x
    BY <1>2, <2>1
  <2> QED  BY <2>2 DEF ToSet
<1> QED  BY <1>1, <1>3, <1>4, <1>5

LEMMA JoinedOrder ==
  ASSUME NEW s \in Seq(Chunk), NEW t \in Seq(Chunk), InOrder(s), InOrder(t), NEW at \in Nat,
         \A i \in 1 .. Len(s) : s[i].last < at, \A i \in 1 .. Len(t) : at <= t[i].first
  PROVE  InOrder(s \o t)
<1>1. PICK n \in Nat, m \in Nat, u \in Seq(Chunk) : n = Len(s) /\ m = Len(t) /\ u = s \o t
  BY ConcatProperties, LenProperties
<1>2. /\ Len(u) = n + m
      /\ \A i \in 1 .. n : u[i] = s[i] /\ u[i] \in Chunk
      /\ \A i \in n + 1 .. n + m : u[i] = t[i - n] /\ u[i] \in Chunk
  BY <1>1, ConcatProperties, LenProperties, ElementOfSeq
<1>3. \A c \in Chunk : c.first \in Nat /\ c.last \in Nat
  BY DEF Chunk
<1>4. \A i \in 1 .. n + m : i \in 1 .. n \/ i \in n + 1 .. n + m
  OBVIOUS
<1>5. \A i \in n + 1 .. n + m : i - n \in 1 .. m
  OBVIOUS
<1>6. \A i \in 1 .. n + m : u[i].first <= u[i].last
  BY <1>1, <1>2, <1>4, <1>5 DEF InOrder
<1>7. ASSUME NEW i \in 1 .. n + m, NEW j \in 1 .. n + m, i < j PROVE u[i].last < u[j].first
  <2>1. CASE i \in 1 .. n /\ j \in 1 .. n
    BY <1>1, <1>2, <1>7, <2>1 DEF InOrder
  <2>2. CASE i \in n + 1 .. n + m
    <3>1. j \in n + 1 .. n + m /\ i - n < j - n
      BY <1>7, <2>2
    <3>2. i - n \in 1 .. m /\ j - n \in 1 .. m
      BY <1>5, <2>2, <3>1
    <3> QED  BY <1>1, <1>2, <2>2, <3>1, <3>2 DEF InOrder
  <2>3. CASE i \in 1 .. n /\ j \in n + 1 .. n + m
    <3>1. u[i].last < at /\ u[i].last \in Nat
      BY <1>1, <1>2, <1>3, <2>3
    <3>2. at <= u[j].first /\ u[j].first \in Nat
      BY <1>1, <1>2, <1>3, <1>5, <2>3
    <3> QED  BY <3>1, <3>2
  <2> QED  BY <1>4, <2>1, <2>2, <2>3
<1> QED  BY <1>1, <1>2, <1>6, <1>7 DEF InOrder

\* page.reduce(max(seq_end), cursor) + 1 is just past the page's last chunk.
LEMMA NextCursorIs ==
  ASSUME NEW page \in Seq(Chunk), InOrder(page), page # << >>, cursor \in Nat,
         \A i \in 1 .. Len(page) : cursor <= page[i].first
  PROVE  /\ NextCursor(page) = page[Len(page)].last + 1 /\ Len(page) \in 1 .. Len(page)
         /\ \A i \in 1 .. Len(page) : page[i].last < NextCursor(page)
<1>1. PICK n \in Nat : n = Len(page) /\ n \in 1 .. n /\ DOMAIN page = 1 .. n
  BY LenProperties
<1>2. \A i \in 1 .. n : page[i].first \in Nat /\ page[i].last \in Nat /\ page[i].first <= page[i].last
  <2>1. \A i \in 1 .. n : page[i] \in Chunk
    BY <1>1, ElementOfSeq
  <2> QED  BY <1>1, <2>1 DEF InOrder, Chunk
<1>3. PICK top \in Nat : top = page[n].last /\ cursor <= top
  BY <1>1, <1>2
<1>4. \A i \in 1 .. n : page[i].last <= top
  <2>1. ASSUME NEW i \in 1 .. n, i # n PROVE page[i].last <= top
    <3>1. page[i].last < page[n].first
      BY <1>1, <2>1 DEF InOrder
    <3> QED  BY <1>1, <1>2, <1>3, <3>1
  <2> QED  BY <1>3, <2>1
<1>5. PICK S : S = {cursor} \cup {c.last : c \in ToSet(page)}
  OBVIOUS
<1>6. top \in S /\ S \subseteq Nat /\ \A y \in S : top >= y
  <2>1. S = {cursor} \cup {page[i].last : i \in 1 .. n}
    BY <1>1, <1>5 DEF ToSet
  <2>2. \A y \in S : y = cursor \/ \E i \in 1 .. n : y = page[i].last
    BY <2>1
  <2> QED  BY <1>1, <1>2, <1>3, <1>4, <2>1, <2>2
<1>7. Max(S) = top
  <2>1. Max(S) \in S /\ \A y \in S : Max(S) >= y
    BY <1>6 DEF Max
  <2>2. Max(S) \in Nat /\ Max(S) >= top /\ top >= Max(S)
    BY <1>6, <2>1
  <2> QED  BY <2>2
<1>8. NextCursor(page) = top + 1
  BY <1>5, <1>7 DEF NextCursor
<1> QED  BY <1>1, <1>2, <1>3, <1>4, <1>8

LEMMA TakeChunksStep ==
  ASSUME ReplayIInv, TakeChunks
  PROVE  ReplayIInv'
<1>1. PICK c \in Answer("chunks") :
       IF ~c.ok THEN /\ view' = "error" /\ calls' = calls \ {c} /\ UNCHANGED << cursor, loops, known >>
                     /\ UNCHANGED << taken, warning >>
         ELSE /\ taken' = taken \o c.body
              /\ warning' = (warning \/ Warns(c.body))
              /\ cursor' = IF c.body = << >> THEN cursor ELSE NextCursor(c.body)
              /\ loops' = IF Len(c.body) < PageSize THEN loops ELSE loops + 1
              /\ calls' = (calls \ {c}) \cup
                   {IF Len(c.body) < PageSize \/ loops = HardLoopCap
                      THEN Call(generation, "markers", 0)
                      ELSE Call(generation, "chunks", cursor')}
              /\ UNCHANGED << view, known >>
  BY DEF TakeChunks, LoadEnds
<1>2. c \in calls /\ c.state = "answered" /\ c.kind = "chunks" /\ c.gen = generation /\ Sound(c) /\ Waiting(c)
  BY DEF Answer, ReplayIInv
<1>3. UNCHANGED << chunks, recorded, purged, viewer, generation, known >>
  BY <1>1 DEF TakeChunks
<1>4. CASE ~c.ok
  <2>1. ViewOK' /\ LoadOK'
    BY <1>1, <1>3, <1>4 DEF ReplayIInv, ViewOK, InOrder, LoadOK, LoadEnds, ToSet
  <2>0. PICK new : new = {}
    OBVIOUS
  <2>2. new = {} /\ calls' = (calls \ {c}) \cup new
    BY <1>1, <1>4, <2>0 DEF LoadEnds
  <2>3. /\ \A d, e \in new : d = e
        /\ \A d \in new : Sound(d) /\ Waiting(d)'
    BY <2>2
  <2> QED  BY <1>2, <1>3, <2>1, <2>2, <2>3, TakeStep
<1>5. CASE c.ok
  <2>1. PICK page \in Seq(Chunk) :
          /\ page = c.body /\ InOrder(page) /\ viewer = Owner
          /\ \A i \in 1 .. Len(page) : cursor <= page[i].first
    BY <1>2, <1>5 DEF Sound, Waiting
  <2>2. /\ taken' = taken \o page /\ view' = view
        /\ cursor' = IF page = << >> THEN cursor ELSE NextCursor(page)
        /\ warning' = (warning \/ Warns(page))
        /\ loops' = IF Len(page) < PageSize THEN loops ELSE loops + 1
        /\ calls' = (calls \ {c}) \cup
             {IF Len(page) < PageSize \/ loops = HardLoopCap
                THEN Call(generation, "markers", 0)
                ELSE Call(generation, "chunks", cursor')}
    BY <1>1, <1>5, <2>1
  <2>3. /\ cursor \in Nat /\ cursor \in 0 .. MaxChunkSeq + 1 /\ taken \in Seq(Chunk) /\ InOrder(taken)
        /\ \A i \in 1 .. Len(taken) : taken[i].last < cursor
        /\ MaxChunkSeq \in Nat /\ PageSize \in Nat /\ PageSize >= 1
        /\ HardLoopCap \in Nat /\ loops \in 1 .. HardLoopCap
    BY <1>2, ReplayAssumption DEF ReplayIInv, ViewOK, Waiting
  <2>4. taken' \in Seq(Chunk) /\ InOrder(taken') /\ ToSet(taken') = ToSet(taken) \cup ToSet(page)
    <3>1. taken \o page \in Seq(Chunk)
      BY <2>1, <2>3, ConcatProperties
    <3>2. InOrder(taken \o page)
      BY <2>1, <2>3, JoinedOrder
    <3>3. ToSet(taken \o page) = ToSet(taken) \cup ToSet(page)
      BY <2>1, <2>3, JoinedSet
    <3> QED  BY <2>2, <3>1, <3>2, <3>3
  <2>5. PICK n \in Nat : /\ n = Len(page) /\ DOMAIN page = 1 .. n /\ (n = 0 <=> page = << >>)
                         /\ \A i \in 1 .. n : page[i] \in Chunk
    BY <2>1, LenProperties, ElementOfSeq, EmptySeq
  <2>6. page # << >> =>
          /\ cursor' = page[n].last + 1 /\ n \in 1 .. n /\ \A i \in 1 .. n : page[i].last < cursor'
    BY <2>1, <2>2, <2>3, <2>5, NextCursorIs
  <2>7. cursor' \in 0 .. MaxChunkSeq + 1 /\ cursor <= cursor'
    <3>1. CASE page = << >>
      BY <2>2, <2>3, <3>1
    <3>2. CASE page # << >>
      <4>1. page[n].first \in Nat /\ page[n].last \in 1 .. MaxChunkSeq /\ page[n].first <= page[n].last
        BY <2>1, <2>5, <2>6, <3>2 DEF Chunk, InOrder
      <4>2. cursor <= page[n].first
        BY <2>1, <2>5, <2>6, <3>2
      <4> QED  BY <2>3, <2>6, <3>2, <4>1, <4>2
    <3> QED  BY <3>1, <3>2
  <2>8. ViewOK'
    <3>1. taken' # << >> => viewer' = Owner
      BY <1>3, <2>1
    <3> QED  BY <1>3, <2>2, <2>4, <2>7, <3>1 DEF ReplayIInv, ViewOK, InOrder
  <2>9. LoadOK'
    <3>1. loops' \in 0 .. HardLoopCap + 1 /\ warning' \in BOOLEAN
      BY <2>2, <2>3 DEF ReplayIInv, LoadOK, Warns
    <3>2. loops' > HardLoopCap <=> n >= PageSize /\ loops = HardLoopCap
      BY <2>2, <2>3, <2>5
    <3>3. warning <=> \E k \in ToSet(taken) : ~Decodes(k)
      BY <2>3 DEF ReplayIInv, LoadOK
    <3>4. warning' <=> loops' > HardLoopCap \/ \E k \in ToSet(taken') : ~Decodes(k)
      BY <2>2, <2>4, <2>5, <3>2, <3>3 DEF Warns
    <3>5. view' \notin {"ready", "decode_warning"}
      BY <1>2, <2>2 DEF Waiting
    <3> QED  BY <3>1, <3>4, <3>5 DEF LoadOK
  <2>10. \A k \in known : k.first \in Nat
    BY DEF ReplayIInv, ViewOK, Chunk
  <2>11. ASSUME NEW k \in known, ~purged
         PROVE  \/ k \in ToSet(taken')
                \/ /\ n >= PageSize /\ \A i \in 1 .. n : page[i].last < k.first
    BY <1>2, <1>5, <2>1, <2>3, <2>4, <2>5, <2>10, <2>11 DEF Waiting
  <2>12. generation \in 1 .. MaxLoads /\ generation <= generation
    BY <1>2, ReplayAssumption DEF Sound, ReplayCall
  <2>13. CASE n < PageSize \/ loops = HardLoopCap
    <3>1. PICK d : d = Call(generation, "markers", 0)
      OBVIOUS
    <3>2. d \in ReplayCall /\ d.gen = generation /\ d.kind = "markers" /\ d.state = "asked" /\ ~d.ok
      <4>1. 0 \in 0 .. MaxChunkSeq + 1
        BY <2>3
      <4> QED  BY <2>12, <3>1, <4>1, CallTyped
    <3>3. Sound(d)
      BY <2>12, <3>2 DEF Sound
    <3>4. Waiting(d)'
      <4>1. loops' <= HardLoopCap => n < PageSize
        BY <2>2, <2>3, <2>5, <2>13
      <4> QED  BY <1>3, <2>3, <2>11, <4>1, <3>2 DEF Waiting
    <3>5. calls' = (calls \ {c}) \cup {d}
      BY <2>2, <2>5, <2>13, <3>1
    <3> QED  BY <1>2, <1>3, <2>8, <2>9, <3>3, <3>4, <3>5, TakeStep
  <2>14. CASE ~(n < PageSize) /\ loops # HardLoopCap
    <3>0. page # << >>
      BY <2>3, <2>5, <2>14
    <3>1. PICK d : d = Call(generation, "chunks", cursor')
      OBVIOUS
    <3>2. /\ d \in ReplayCall /\ d.gen = generation /\ d.kind = "chunks" /\ d.state = "asked" /\ ~d.ok
          /\ d.from = cursor'
      BY <2>7, <2>12, <3>1, CallTyped
    <3>3. Sound(d)
      BY <2>12, <3>2 DEF Sound
    <3>4. \A i \in 1 .. Len(taken') : taken'[i].last < cursor'
      <4>1. ASSUME NEW i \in 1 .. Len(taken') PROVE taken'[i] \in ToSet(taken) \cup ToSet(page)
        <5>1. taken'[i] \in ToSet(taken')
          BY <2>4, LenProperties DEF ToSet
        <5> QED  BY <2>4, <5>1
      <4>2. ASSUME NEW x \in ToSet(taken) PROVE x.last < cursor'
        <5>1. PICK j \in 1 .. Len(taken) : x = taken[j]
          BY <2>3, LenProperties DEF ToSet
        <5>2. x \in Chunk /\ x.last < cursor
          BY <2>3, <5>1, ElementOfSeq
        <5>3. x.last \in Nat
          BY <5>2 DEF Chunk
        <5> QED  BY <2>3, <2>7, <5>2, <5>3
      <4>3. ASSUME NEW x \in ToSet(page) PROVE x.last < cursor'
        BY <2>5, <2>6, <3>0 DEF ToSet
      <4> QED  BY <4>1, <4>2, <4>3
    <3>5. ASSUME NEW k \in known, ~purged, k.first < cursor' PROVE k \in ToSet(taken')
      <4> SUFFICES ASSUME page[n].last < k.first PROVE FALSE
        BY <2>6, <2>11, <3>0, <3>5
      <4>1. page[n].last \in Nat
        BY <2>5, <2>6, <3>0 DEF Chunk
      <4> QED  BY <2>6, <2>10, <3>0, <3>5, <4>1
    <3>6. Waiting(d)'
      <4>1. ~purged => known \subseteq chunks
        BY <1>2 DEF Waiting
      <4>2. loops' \in 1 .. HardLoopCap /\ view' = "loading_chunks"
        BY <1>2, <2>2, <2>3, <2>5, <2>14 DEF Waiting
      <4> QED  BY <1>3, <3>2, <3>4, <3>5, <4>1, <4>2 DEF Waiting
    <3>7. calls' = (calls \ {c}) \cup {d}
      BY <2>2, <2>5, <2>14, <3>1
    <3> QED  BY <1>2, <1>3, <2>8, <2>9, <3>3, <3>6, <3>7, TakeStep
  <2> QED  BY <2>13, <2>14
<1> QED  BY <1>4, <1>5

LEMMA TakeMarkersStep ==
  ASSUME ReplayIInv, TakeMarkers
  PROVE  ReplayIInv'
<1>1. PICK c \in Answer("markers") : calls' = calls \ {c}
  BY DEF TakeMarkers
<1>2. c \in calls /\ c.kind = "markers" /\ c.gen = generation /\ Waiting(c)
  BY DEF Answer, ReplayIInv
<1>3. ViewOK' /\ LoadOK'
  <2>1. ViewOK'
    BY DEF TakeMarkers, ReplayIInv, ViewOK, InOrder
  <2>2. LoadOK'
    BY <1>2 DEF TakeMarkers, ReplayIInv, LoadOK, Waiting, ToSet
  <2> QED  BY <2>1, <2>2
<1>4. PICK new : new = {}
  OBVIOUS
<1>5. /\ calls' = (calls \ {c}) \cup new /\ \A d, e \in new : d = e
      /\ \A d \in new : Sound(d) /\ Waiting(d)'
  BY <1>1, <1>4
<1> QED  BY <1>2, <1>3, <1>4, <1>5, TakeStep DEF TakeMarkers

-----------------------------------------------------------------------------

LEMMA ReplayStarts == ReplayInit => ReplayIInv
<1> SUFFICES ASSUME ReplayInit PROVE ReplayIInv
  OBVIOUS
<1>1. ChunksOK
  BY FS_EmptySet, ReplayAssumption DEF ReplayInit, ChunksOK
<1>2. PICK none \in Seq(Chunk) : none = << >>
  BY EmptySeq
<1>3. InOrder(none) /\ taken = none
  <2>1. Len(none) = 0
    BY <1>2
  <2> QED  BY <1>2, <2>1 DEF InOrder, ReplayInit
<1>4. ViewOK
  <2>1. taken = << >>
    BY DEF ReplayInit
  <2>0. generation = 0 /\ cursor = 0 /\ purged \in BOOLEAN /\ known = {}
    BY Zenon DEF ReplayInit
  <2>2. generation \in 0 .. MaxLoads /\ cursor \in 0 .. MaxChunkSeq + 1
    BY <2>0, ReplayAssumption
  <2>3. taken \in Seq(Chunk) /\ InOrder(taken)
    BY <1>3
  <2>4. view = "loading_metadata"
    BY DEF ReplayInit
  <2> QED  BY <2>0, <2>1, <2>2, <2>3, <2>4 DEF ViewOK
<1>5. LoadOK
  <2>1. ToSet(taken) = {}
    BY <1>2, <1>3, EmptyPage
  <2>2. loops = 0 /\ warning = FALSE /\ view = "loading_metadata"
    BY DEF ReplayInit
  <2>3. ~\E k \in ToSet(taken) : ~Decodes(k)
    BY <2>1
  <2>4. loops \in 0 .. HardLoopCap + 1 /\ ~(loops > HardLoopCap)
    BY <2>2, ReplayAssumption
  <2> QED  BY <2>2, <2>3, <2>4 DEF LoadOK
<1> QED  BY <1>1, <1>4, <1>5 DEF ReplayInit, ReplayIInv

LEMMA ReplayKeeps == ReplayIInv /\ [ReplayNext]_replayVars => ReplayIInv'
<1> SUFFICES ASSUME ReplayIInv, [ReplayNext]_replayVars PROVE ReplayIInv'
  OBVIOUS
<1>1. ASSUME UNCHANGED << chunks, recorded, purged, viewer, generation, calls, loadVars >>
      PROVE  ReplayIInv'
  <2>1. ChunksOK' /\ purged' \in BOOLEAN
    BY <1>1 DEF ReplayIInv, ChunksOK, ViewOK
  <2> QED  BY <1>1, <2>1, TablesStep
<1>2. CASE AppendMarker \/ UNCHANGED replayVars
  BY <1>1, <1>2 DEF AppendMarker, replayVars
<1> QED  BY <1>2, AppendChunkStep, PurgeStep, CountStep, MetadataStep, RefuseStep, ChunksStep, FailStep,
            LoadStep, StaleStep, TakeMetadataStep, TakeChunksStep, TakeMarkersStep DEF ReplayNext

\* What a load has played, what its calls say and what the tables hold agree.
THEOREM ReplayInvariant == ReplaySpec => []ReplayIInv
  BY ReplayStarts, ReplayKeeps, PTL DEF ReplaySpec

\* For any page size up to the server's ceiling and any number of loads: output is
\* played in its order, no byte of it twice, and to its owner only (the load loop of
\* RecordingReplayView over list_chunks).
THEOREM ReplayOrdered == ReplaySpec => []ReplayInv
<1>1. ReplayIInv => ReplayInv
  <2> SUFFICES ASSUME ReplayIInv PROVE ReplayInv
    OBVIOUS
  <2>1. \A c \in chunks : c.first \in 1 .. MaxChunkSeq /\ c.last \in c.first .. MaxChunkSeq
    BY ReplayAssumption DEF ReplayIInv, ChunksOK, Chunk
  <2>2. Cardinality({c \in calls : c.gen = generation}) <= 1
    <3>1. PICK own : own = {c \in calls : c.gen = generation}
      OBVIOUS
    <3>2. \A c, d \in own : c = d
      BY <3>1 DEF ReplayIInv
    <3>3. CASE own = {}
      BY <3>1, <3>3, FS_EmptySet
    <3>4. CASE own # {}
      <4>1. PICK c : own = {c}
        BY <3>2, <3>4
      <4>2. Cardinality({c}) = 1
        BY FS_Singleton
      <4> QED  BY <3>1, <4>1, <4>2
    <3> QED  BY <3>3, <3>4
  <2>3. ReplayTypeOK
    BY <2>1, <2>2 DEF ReplayTypeOK, ReplayIInv, ViewOK, LoadOK
  <2>4. PlayedInOrder
    <3>1. ASSUME NEW i \in 1 .. Len(taken) - 1 PROVE taken[i].last < taken[i + 1].first
      <4>1. Len(taken) \in Nat
        BY LenProperties DEF ReplayIInv, ViewOK
      <4>2. i \in 1 .. Len(taken) /\ i + 1 \in 1 .. Len(taken) /\ i < i + 1
        BY <4>1
      <4> QED  BY <4>2 DEF ReplayIInv, ViewOK, InOrder
    <3> QED  BY <3>1 DEF PlayedInOrder, ReplayIInv, ViewOK
  <2> QED  BY <2>3, <2>4 DEF ReplayInv
<1> QED  BY <1>1, ReplayInvariant, PTL

\* Unless retention purged, a view that is ready has played every chunk its metadata
\* counted, and one that warns was cut short at the loop's cap or skipped a chunk that
\* does not decode and played all the others: paging by seq_end + 1 skips nothing, a
\* short page is the last, and nothing is missed in silence (RecordingReplayView's load,
\* list_chunks).
THEOREM ReplayPlaysAll == ReplaySpec => []ReplayComplete
<1>1. ReplayIInv => ReplayComplete
  <2> SUFFICES ASSUME ReplayIInv PROVE ReplayComplete
    OBVIOUS
  <2>1. loops \in Nat /\ HardLoopCap \in Nat
    BY ReplayAssumption DEF ReplayIInv, LoadOK
  <2>2. ASSUME view = "ready", ~purged PROVE known \subseteq Played
    BY <2>1, <2>2 DEF ReplayIInv, LoadOK, Played
  <2>3. ASSUME view = "decode_warning", ~(loops > HardLoopCap)
        PROVE  /\ Played # ToSet(taken)
               /\ ~purged => {k \in known : Decodes(k)} \subseteq Played
    BY <2>1, <2>3 DEF ReplayIInv, LoadOK, Played
  <2> QED  BY <2>2, <2>3 DEF ReplayComplete
<1> QED  BY <1>1, ReplayInvariant, PTL

-----------------------------------------------------------------------------
(***************************************************************************)
(* Arithmetic of a byte and what is left of it.                            *)
(***************************************************************************)

LEMMA DivMod ==
  ASSUME NEW x \in Nat, NEW B \in Nat, B > 0
  PROVE  \E q \in Nat, r \in 0 .. B - 1 : q = x \div B /\ r = x % B /\ x = q * B + r
<1>1. x = B * (x \div B) + (x % B)
  OBVIOUS
<1>2. x \div B \in Nat /\ x % B \in 0 .. B - 1
  OBVIOUS
<1>3. PICK q \in Nat, r \in 0 .. B - 1 : q = x \div B /\ r = x % B /\ x = B * q + r
  BY <1>1, <1>2
<1>4. B * q = q * B
  OBVIOUS
<1> QED  BY <1>3, <1>4

LEMMA Unmix ==
  ASSUME NEW B \in Nat, B > 0, NEW y \in Nat, NEW d \in 0 .. B - 1
  PROVE  (y * B + d) \div B = y /\ (y * B + d) % B = d
  OBVIOUS

LEMMA DivBelow ==
  ASSUME NEW B \in Nat, B > 0, NEW P \in Nat, NEW x \in Nat, x < B * P
  PROVE  x \div B < P
  OBVIOUS

LEMMA MixBelow ==
  ASSUME NEW B \in Nat, B > 0, NEW P \in Nat, NEW y \in Nat, y < P, NEW d \in 0 .. B - 1
  PROVE  y * B + d < B * P
  OBVIOUS

\* Induction up to a bound.
LEMMA UpTo ==
  ASSUME NEW m \in Nat, NEW S, 0 \in S, \A k \in 1 .. m : k - 1 \in S => k \in S
  PROVE  0 .. m \subseteq S
<1> DEFINE T == {n \in 0 .. m : n \notin S}
<1> SUFFICES ASSUME T # {} PROVE FALSE
  OBVIOUS
<1>1. PICK k \in T : \A j \in T : k <= j
  <2>1. T \subseteq Nat
    OBVIOUS
  <2> QED  BY <2>1, LeastNat
<1>2. k \in 1 .. m /\ k - 1 \in 0 .. m /\ k - 1 \notin T
  BY <1>1
<1> QED  BY <1>1, <1>2

-----------------------------------------------------------------------------
(***************************************************************************)
(* What the recursive definitions of Socket unfold to.                     *)
(***************************************************************************)

LEMMA BaseFacts == Base \in Nat /\ Base > 0 /\ Byte = 0 .. Base - 1
  BY SocketAssumption DEF Byte

\* The numbers a field of k bytes holds, for k up to the width.
Powers(w, p) == p[0] = 1 /\ \A k \in 1 .. w : p[k] = Base * p[k - 1]

LEMMA CapacityIs ==
  ASSUME NEW w \in Nat
  PROVE  \E p \in [0 .. w -> Nat] : Powers(w, p) /\ Capacity(w) = p[w]
<1> DEFINE step == [k \in 1 .. w |-> [x \in Nat |-> Base * x]]
           upto == CHOOSE f : f = [k \in 0 .. w |-> IF k = 0 THEN 1 ELSE Base * f[k - 1]]
<1>1. step \in [1 .. w -> [Nat -> Nat]]
  BY BaseFacts
<1>2. PICK g \in [0 .. w -> Nat] : Iterates(1, w, step, g)
  <2> HIDE DEF step
  <2> QED  BY <1>1, IterationExists
<1>3. g[0] = 1 /\ \A k \in 1 .. w : g[k] = Base * g[k - 1]
  <2>1. ASSUME NEW k \in 1 .. w PROVE g[k] = Base * g[k - 1]
    <3>1. g[k] = step[k][g[k - 1]] /\ g[k - 1] \in Nat
      <4>1. k - 1 \in 0 .. w
        OBVIOUS
      <4> HIDE DEF step
      <4> QED  BY <1>2, <4>1 DEF Iterates
    <3> QED  BY <3>1
  <2> QED  BY <1>2, <2>1 DEF Iterates
<1>4. g = [k \in 0 .. w |-> IF k = 0 THEN 1 ELSE Base * g[k - 1]]
  <2>1. \A k \in 0 .. w : k = 0 \/ k \in 1 .. w
    OBVIOUS
  <2> QED  BY <1>3, <2>1
<1>5. upto = [k \in 0 .. w |-> IF k = 0 THEN 1 ELSE Base * upto[k - 1]]
  BY <1>4
<1>6. Capacity(w) = upto[w]
  BY DEF Capacity
<1> HIDE DEF upto, step
<1>7. Powers(w, upto)
  BY <1>5 DEF Powers
<1>8. \A k \in 0 .. w : upto[k] \in Nat
  <2>1. PICK S : S = {k \in 0 .. w : upto[k] \in Nat}
    OBVIOUS
  <2>2. 0 \in S
    BY <1>7, <2>1 DEF Powers
  <2>3. \A k \in 1 .. w : k - 1 \in S => k \in S
    BY <1>7, <2>1, BaseFacts DEF Powers
  <2> QED  BY <2>1, <2>2, <2>3, UpTo
<1>9. upto \in [0 .. w -> Nat]
  BY <1>5, <1>8
<1> QED  BY <1>6, <1>7, <1>9

LEMMA CapacityNat ==
  ASSUME NEW w \in Nat
  PROVE  Capacity(w) \in Nat
<1>1. w \in 0 .. w
  OBVIOUS
<1> QED  BY <1>1, CapacityIs

\* What is left of n after k bytes were taken off its end.
Rests(n, w, r) == r[0] = n /\ \A k \in 1 .. w : r[k] = r[k - 1] \div Base

LEMMA BigEndianIs ==
  ASSUME NEW n \in Nat, NEW w \in Nat
  PROVE  \E r \in [0 .. w -> Nat] :
           Rests(n, w, r) /\ BigEndian(n, w) = [i \in 1 .. w |-> r[w - i] % Base]
<1> DEFINE step == [k \in 1 .. w |-> [x \in Nat |-> x \div Base]]
           rest == CHOOSE f : f = [k \in 0 .. w |-> IF k = 0 THEN n ELSE f[k - 1] \div Base]
<1>0. \A x \in Nat : x \div Base \in Nat
  BY BaseFacts
<1>1. step \in [1 .. w -> [Nat -> Nat]]
  BY <1>0
<1>2. PICK g \in [0 .. w -> Nat] : Iterates(n, w, step, g)
  <2> HIDE DEF step
  <2> QED  BY <1>1, IterationExists
<1>3. g[0] = n /\ \A k \in 1 .. w : g[k] = g[k - 1] \div Base
  <2>1. ASSUME NEW k \in 1 .. w PROVE g[k] = g[k - 1] \div Base
    <3>1. g[k] = step[k][g[k - 1]] /\ g[k - 1] \in Nat
      <4>1. k - 1 \in 0 .. w
        OBVIOUS
      <4> HIDE DEF step
      <4> QED  BY <1>2, <4>1 DEF Iterates
    <3> QED  BY <3>1
  <2> QED  BY <1>2, <2>1 DEF Iterates
<1>4. g = [k \in 0 .. w |-> IF k = 0 THEN n ELSE g[k - 1] \div Base]
  <2>1. \A k \in 0 .. w : k = 0 \/ k \in 1 .. w
    OBVIOUS
  <2> QED  BY <1>3, <2>1
<1>5. rest = [k \in 0 .. w |-> IF k = 0 THEN n ELSE rest[k - 1] \div Base]
  BY <1>4
<1>6. BigEndian(n, w) = [i \in 1 .. w |-> rest[w - i] % Base]
  BY DEF BigEndian
<1> HIDE DEF rest, step
<1>7. Rests(n, w, rest)
  BY <1>5 DEF Rests
<1>8. \A k \in 0 .. w : rest[k] \in Nat
  <2>1. PICK S : S = {k \in 0 .. w : rest[k] \in Nat}
    OBVIOUS
  <2>2. 0 \in S
    BY <1>7, <2>1 DEF Rests
  <2>3. \A k \in 1 .. w : k - 1 \in S => k \in S
    <3>1. ASSUME NEW k \in 1 .. w, k - 1 \in S PROVE k \in S
      <4>1. rest[k - 1] \in Nat /\ k \in 0 .. w
        BY <2>1, <3>1
      <4>2. rest[k] = rest[k - 1] \div Base
        BY <1>7 DEF Rests
      <4>3. rest[k] \in Nat
        BY <1>0, <4>1, <4>2, Zenon
      <4> QED  BY <2>1, <4>1, <4>3
    <3> QED  BY <3>1
  <2> QED  BY <2>1, <2>2, <2>3, UpTo
<1>9. rest \in [0 .. w -> Nat]
  BY <1>5, <1>8
<1> QED  BY <1>6, <1>7, <1>9

\* The value of the first i bytes.
Values(b, w, v) == v[0] = 0 /\ \A i \in 1 .. w : v[i] = v[i - 1] * Base + b[i]

LEMMA ValueIs ==
  ASSUME NEW b \in Seq(Byte), NEW w \in Nat, w = Len(b)
  PROVE  \E v \in [0 .. w -> Nat] : Values(b, w, v) /\ Value(b) = v[w]
<1> DEFINE step == [i \in 1 .. w |-> [x \in Nat |-> x * Base + b[i]]]
           upto == CHOOSE f : f = [i \in 0 .. Len(b) |-> IF i = 0 THEN 0 ELSE f[i - 1] * Base + b[i]]
<1>0. \A i \in 1 .. w : b[i] \in Nat
  <2>1. \A i \in 1 .. w : b[i] \in Byte
    BY ElementOfSeq
  <2> QED  BY <2>1, BaseFacts
<1>1. step \in [1 .. w -> [Nat -> Nat]]
  BY <1>0, BaseFacts
<1>2. PICK g \in [0 .. w -> Nat] : Iterates(0, w, step, g)
  <2> HIDE DEF step
  <2> QED  BY <1>1, IterationExists
<1>3. g[0] = 0 /\ \A i \in 1 .. w : g[i] = g[i - 1] * Base + b[i]
  <2>1. ASSUME NEW i \in 1 .. w PROVE g[i] = g[i - 1] * Base + b[i]
    <3>1. g[i] = step[i][g[i - 1]] /\ g[i - 1] \in Nat
      <4>1. i - 1 \in 0 .. w
        OBVIOUS
      <4> HIDE DEF step
      <4> QED  BY <1>2, <4>1 DEF Iterates
    <3> QED  BY <3>1
  <2> QED  BY <1>2, <2>1 DEF Iterates
<1>4. g = [i \in 0 .. Len(b) |-> IF i = 0 THEN 0 ELSE g[i - 1] * Base + b[i]]
  <2>1. \A k \in 0 .. w : k = 0 \/ k \in 1 .. w
    OBVIOUS
  <2>2. \A i \in 0 .. w : g[i] = IF i = 0 THEN 0 ELSE g[i - 1] * Base + b[i]
    BY <1>3, <2>1
  <2> QED  BY <2>2
<1>5. upto = [i \in 0 .. Len(b) |-> IF i = 0 THEN 0 ELSE upto[i - 1] * Base + b[i]]
  BY <1>4
<1>6. Value(b) = upto[Len(b)]
  BY DEF Value
<1> HIDE DEF upto, step
<1>7. Values(b, w, upto)
  BY <1>5 DEF Values
<1>8. \A k \in 0 .. w : upto[k] \in Nat
  <2>1. PICK S : S = {k \in 0 .. w : upto[k] \in Nat}
    OBVIOUS
  <2>2. 0 \in S
    BY <1>7, <2>1 DEF Values
  <2>3. \A k \in 1 .. w : k - 1 \in S => k \in S
    <3>1. ASSUME NEW k \in 1 .. w, k - 1 \in S PROVE k \in S
      <4>1. upto[k - 1] \in Nat /\ k \in 0 .. w /\ b[k] \in Nat
        BY <1>0, <2>1, <3>1
      <4>2. upto[k] = upto[k - 1] * Base + b[k]
        BY <1>7 DEF Values
      <4>3. \A x, y \in Nat : x * Base + y \in Nat
        BY BaseFacts
      <4>4. upto[k] \in Nat
        BY <4>1, <4>2, <4>3, Zenon
      <4> QED  BY <2>1, <4>1, <4>4
    <3> QED  BY <3>1
  <2> QED  BY <2>1, <2>2, <2>3, UpTo
<1>9. upto \in [0 .. w -> Nat]
  BY <1>5, <1>8
<1> QED  BY <1>6, <1>7, <1>9

\* A field that holds n gives n back.
LEMMA FieldRoundTrips ==
  ASSUME NEW w \in Nat, NEW n \in Nat, n < Capacity(w)
  PROVE  BigEndian(n, w) \in Seq(Byte) /\ Len(BigEndian(n, w)) = w /\ Value(BigEndian(n, w)) = n
<1>1. PICK p \in [0 .. w -> Nat] : Powers(w, p) /\ Capacity(w) = p[w]
  BY CapacityIs
<1>2. PICK r \in [0 .. w -> Nat] :
        Rests(n, w, r) /\ BigEndian(n, w) = [i \in 1 .. w |-> r[w - i] % Base]
  BY BigEndianIs
<1>3. PICK b : b = BigEndian(n, w)
  OBVIOUS
<1>4. \A i \in 1 .. w : w - i \in 0 .. w /\ r[w - i] \in Nat /\ r[w - i] % Base \in Byte
  BY BaseFacts
<1>5. b \in Seq(Byte) /\ Len(b) = w /\ \A i \in 1 .. w : b[i] = r[w - i] % Base
  BY <1>2, <1>3, <1>4
<1>6. PICK v \in [0 .. w -> Nat] : Values(b, w, v) /\ Value(b) = v[w]
  BY <1>5, ValueIs
<1>7. \A k \in 0 .. w : r[k] < p[w - k]
  <2>0. PICK S : S = {k \in 0 .. w : r[k] < p[w - k]}
    OBVIOUS
  <2>1. r[0] < p[w - 0]
    BY <1>1, <1>2 DEF Rests
  <2>2. ASSUME NEW k \in 1 .. w, r[k - 1] < p[w - (k - 1)] PROVE r[k] < p[w - k]
    <3>1. w - k \in 0 .. w /\ w - (k - 1) \in 1 .. w /\ (w - (k - 1)) - 1 = w - k /\ k - 1 \in 0 .. w
      OBVIOUS
    <3>2. p[w - (k - 1)] = Base * p[w - k]
      BY <1>1, <3>1 DEF Powers
    <3>3. r[k] = r[k - 1] \div Base
      BY <1>2 DEF Rests
    <3>4. r[k - 1] \in Nat /\ p[w - k] \in Nat
      BY <3>1
    <3>5. r[k - 1] < Base * p[w - k]
      BY <2>2, <3>2
    <3> QED  BY <3>3, <3>4, <3>5, BaseFacts, DivBelow
  <2>3. \A k \in 1 .. w : k - 1 \in 0 .. w
    OBVIOUS
  <2>4. 0 \in S /\ \A k \in 1 .. w : k - 1 \in S => k \in S
    BY <2>0, <2>1, <2>2, <2>3
  <2> QED  BY <2>0, <2>4, UpTo
<1>8. r[w] = 0
  <2>1. w \in 0 .. w /\ w - w = 0
    OBVIOUS
  <2>2. r[w] < p[0] /\ r[w] \in Nat
    BY <1>7, <2>1
  <2> QED  BY <1>1, <2>2 DEF Powers
<1>9. \A i \in 0 .. w : v[i] = r[w - i]
  <2>0. PICK S : S = {i \in 0 .. w : v[i] = r[w - i]}
    OBVIOUS
  <2>1. v[0] = r[w - 0]
    BY <1>6, <1>8 DEF Values
  <2>2. ASSUME NEW i \in 1 .. w, v[i - 1] = r[w - (i - 1)] PROVE v[i] = r[w - i]
    <3>1. w - i \in 0 .. w /\ w - (i - 1) \in 1 .. w /\ (w - (i - 1)) - 1 = w - i /\ r[w - i] \in Nat
      OBVIOUS
    <3>2. r[w - (i - 1)] = r[w - i] \div Base
      BY <1>2, <3>1 DEF Rests
    <3>3. v[i] = v[i - 1] * Base + (r[w - i] % Base)
      <4>1. v[i] = v[i - 1] * Base + b[i]
        BY <1>6 DEF Values
      <4> QED  BY <1>5, <4>1, Zenon
    <3>4. PICK q \in Nat, d \in 0 .. Base - 1 :
            q = r[w - i] \div Base /\ d = r[w - i] % Base /\ r[w - i] = q * Base + d
      BY <3>1, BaseFacts, DivMod
    <3>5. v[i - 1] = q
      BY <2>2, <3>2, <3>4
    <3> QED  BY <3>3, <3>4, <3>5, Zenon
  <2>3. \A k \in 1 .. w : k - 1 \in 0 .. w
    OBVIOUS
  <2>4. 0 \in S /\ \A k \in 1 .. w : k - 1 \in S => k \in S
    BY <2>0, <2>1, <2>2, <2>3
  <2> QED  BY <2>0, <2>4, UpTo
<1>10. v[w] = n
  <2>1. w \in 0 .. w /\ w - w = 0
    OBVIOUS
  <2> QED  BY <1>2, <1>9, <2>1 DEF Rests
<1> QED  BY <1>3, <1>5, <1>6, <1>10

\* And bytes are the field of their value.
LEMMA BytesRoundTrip ==
  ASSUME NEW b \in Seq(Byte), NEW w \in Nat, w = Len(b)
  PROVE  Value(b) \in Nat /\ Value(b) < Capacity(w) /\ BigEndian(Value(b), w) = b
<1>1. PICK p \in [0 .. w -> Nat] : Powers(w, p) /\ Capacity(w) = p[w]
  BY CapacityIs
<1>2. PICK v \in [0 .. w -> Nat] : Values(b, w, v) /\ Value(b) = v[w]
  BY ValueIs
<1>3. w \in 0 .. w /\ v[w] \in Nat
  OBVIOUS
<1>4. PICK r \in [0 .. w -> Nat] :
        Rests(v[w], w, r) /\ BigEndian(v[w], w) = [i \in 1 .. w |-> r[w - i] % Base]
  BY <1>3, BigEndianIs
<1>5. \A i \in 1 .. w : b[i] \in 0 .. Base - 1
  BY ElementOfSeq, BaseFacts
<1>6. \A k \in 1 .. w : k - 1 \in 0 .. w
  OBVIOUS
<1>7. \A i \in 0 .. w : v[i] < p[i]
  <2>0. PICK S : S = {i \in 0 .. w : v[i] < p[i]}
    OBVIOUS
  <2>1. v[0] < p[0]
    BY <1>1, <1>2 DEF Values, Powers
  <2>2. ASSUME NEW i \in 1 .. w, v[i - 1] < p[i - 1] PROVE v[i] < p[i]
    <3>1. v[i] = v[i - 1] * Base + b[i] /\ p[i] = Base * p[i - 1]
      BY <1>1, <1>2 DEF Values, Powers
    <3>2. v[i - 1] \in Nat /\ p[i - 1] \in Nat /\ b[i] \in 0 .. Base - 1
      BY <1>5, <1>6
    <3>3. v[i - 1] * Base + b[i] < Base * p[i - 1]
      BY <2>2, <3>2, BaseFacts, MixBelow
    <3> QED  BY <3>1, <3>3
  <2>4. 0 \in S /\ \A k \in 1 .. w : k - 1 \in S => k \in S
    BY <1>6, <2>0, <2>1, <2>2
  <2> QED  BY <2>0, <2>4, UpTo
<1>8. \A k \in 0 .. w : r[k] = v[w - k]
  <2>0. PICK S : S = {k \in 0 .. w : r[k] = v[w - k]}
    OBVIOUS
  <2>1. r[0] = v[w - 0]
    BY <1>4 DEF Rests
  <2>2. ASSUME NEW k \in 1 .. w, r[k - 1] = v[w - (k - 1)] PROVE r[k] = v[w - k]
    <3>0. w - k \in 0 .. w /\ w - (k - 1) \in 1 .. w /\ (w - (k - 1)) - 1 = w - k
      OBVIOUS
    <3>1. w - k \in 0 .. w /\ w - (k - 1) \in 1 .. w /\ (w - (k - 1)) - 1 = w - k /\ v[w - k] \in Nat
      BY <1>2, <3>0
    <3>2. v[w - (k - 1)] = v[w - k] * Base + b[w - (k - 1)]
      BY <1>2, <3>1 DEF Values
    <3>3. r[k] = r[k - 1] \div Base
      BY <1>4 DEF Rests
    <3>4. (v[w - k] * Base + b[w - (k - 1)]) \div Base = v[w - k]
      BY <1>5, <3>1, BaseFacts, Unmix
    <3> QED  BY <2>2, <3>2, <3>3, <3>4
  <2>4. 0 \in S /\ \A k \in 1 .. w : k - 1 \in S => k \in S
    BY <1>6, <2>0, <2>1, <2>2
  <2> QED  BY <2>0, <2>4, UpTo
<1>9. ASSUME NEW i \in 1 .. w PROVE r[w - i] % Base = b[i]
  <2>1. w - i \in 0 .. w /\ w - (w - i) = i /\ v[i - 1] \in Nat
    <3>1. i - 1 \in 0 .. w
      OBVIOUS
    <3>2. w - i \in 0 .. w /\ w - (w - i) = i
      OBVIOUS
    <3> QED  BY <3>1, <3>2
  <2>2. r[w - i] = v[i]
    BY <1>8, <2>1
  <2>3. v[i] = v[i - 1] * Base + b[i]
    BY <1>2 DEF Values
  <2>4. (v[i - 1] * Base + b[i]) % Base = b[i]
    BY <1>5, <2>1, BaseFacts, Unmix
  <2> QED  BY <2>2, <2>3, <2>4
<1>10. BigEndian(v[w], w) = b
  BY <1>4, <1>9
<1> QED  BY <1>1, <1>2, <1>3, <1>7, <1>10

-----------------------------------------------------------------------------
(***************************************************************************)
(* The codec: what is encoded decodes, and only that.                      *)
(***************************************************************************)

LEMMA Joined ==
  ASSUME NEW S, NEW s \in Seq(S), NEW t \in Seq(S), NEW n \in Nat, n = Len(s),
         NEW m \in Nat, m = Len(t), NEW u, u = s \o t
  PROVE  /\ u \in Seq(S) /\ Len(u) = n + m
         /\ \A i \in 1 .. n : u[i] = s[i]
         /\ \A i \in 1 .. m : u[n + i] = t[i]
<1>1. u \in Seq(S) /\ Len(u) = n + m
  BY ConcatProperties
<1>2. \A i \in 1 .. n + m : u[i] = IF i <= n THEN s[i] ELSE t[i - n]
  BY ConcatProperties
<1>3. ASSUME NEW i \in 1 .. n PROVE u[i] = s[i]
  BY <1>2
<1>4. ASSUME NEW i \in 1 .. m PROVE u[n + i] = t[i]
  <2>1. n + i \in 1 .. n + m /\ ~(n + i <= n) /\ (n + i) - n = i
    OBVIOUS
  <2> QED  BY <1>2, <2>1
<1> QED  BY <1>1, <1>3, <1>4

\* Where the four parts of a frame end up.
Laid(S, h, a, l, p, buf, nh, na, nl, np) ==
  /\ buf \in Seq(S) /\ Len(buf) = nh + na + nl + np
  /\ \A i \in 1 .. nh : buf[i] = h[i]
  /\ \A i \in 1 .. na : buf[nh + i] = a[i]
  /\ \A i \in 1 .. nl : buf[nh + na + i] = l[i]
  /\ \A i \in 1 .. np : buf[nh + na + nl + i] = p[i]

LEMMA PartsOf ==
  ASSUME NEW S, NEW h \in Seq(S), NEW a \in Seq(S), NEW l \in Seq(S), NEW p \in Seq(S),
         NEW buf, buf = h \o a \o l \o p
  PROVE  Laid(S, h, a, l, p, buf, Len(h), Len(a), Len(l), Len(p))
<1>0. PICK nh \in Nat, na \in Nat, nl \in Nat, np \in Nat :
        nh = Len(h) /\ na = Len(a) /\ nl = Len(l) /\ np = Len(p)
  BY LenProperties
<1>1. PICK x : x = h \o a
  OBVIOUS
<1>2. /\ x \in Seq(S) /\ Len(x) = nh + na
      /\ \A i \in 1 .. nh : x[i] = h[i]
      /\ \A i \in 1 .. na : x[nh + i] = a[i]
  BY <1>0, <1>1, Joined
<1>3. PICK nx \in Nat : nx = nh + na
  OBVIOUS
<1>4. PICK y : y = x \o l
  OBVIOUS
<1>5. /\ y \in Seq(S) /\ Len(y) = nx + nl
      /\ \A i \in 1 .. nx : y[i] = x[i]
      /\ \A i \in 1 .. nl : y[nx + i] = l[i]
  <2>1. x \in Seq(S) /\ nx = Len(x)
    BY <1>2, <1>3
  <2> QED  BY <1>0, <1>4, <2>1, Joined
<1>6. PICK ny \in Nat : ny = nx + nl
  OBVIOUS
<1>7. buf = y \o p
  BY <1>1, <1>4
<1>8. /\ buf \in Seq(S) /\ Len(buf) = ny + np
      /\ \A i \in 1 .. ny : buf[i] = y[i]
      /\ \A i \in 1 .. np : buf[ny + i] = p[i]
  <2>1. y \in Seq(S) /\ ny = Len(y)
    BY <1>5, <1>6
  <2> QED  BY <1>0, <1>7, <2>1, Joined
<1>9. ASSUME NEW i \in 1 .. nh PROVE buf[i] = h[i]
  <2>1. i \in 1 .. nx /\ i \in 1 .. ny
    BY <1>3, <1>6
  <2> QED  BY <1>2, <1>5, <1>8, <2>1
<1>10. ASSUME NEW i \in 1 .. na PROVE buf[nh + i] = a[i]
  <2>1. nh + i \in 1 .. nx /\ nh + i \in 1 .. ny
    BY <1>3, <1>6
  <2> QED  BY <1>2, <1>5, <1>8, <2>1
<1>11. ASSUME NEW i \in 1 .. nl PROVE buf[nh + na + i] = l[i]
  <2>1. nx + i \in 1 .. ny /\ nx + i = nh + na + i
    BY <1>3, <1>6
  <2> QED  BY <1>5, <1>8, <2>1
<1>12. ASSUME NEW i \in 1 .. np PROVE buf[nh + na + nl + i] = p[i]
  <2>1. ny + i = nh + na + nl + i
    BY <1>3, <1>6
  <2> QED  BY <1>8, <2>1
<1>13. Len(buf) = nh + na + nl + np
  BY <1>3, <1>6, <1>8
<1>14. Laid(S, h, a, l, p, buf, nh, na, nl, np)
  BY <1>8, <1>9, <1>10, <1>11, <1>12, <1>13 DEF Laid
<1> QED  BY <1>0, <1>14

\* Part of a sequence of bytes.
LEMMA PartOf ==
  ASSUME NEW S, NEW s \in Seq(S), NEW k \in Nat, NEW n \in Nat, k + n <= Len(s),
         NEW t, t = SubSeq(s, k + 1, k + n)
  PROVE  t \in Seq(S) /\ Len(t) = n /\ \A i \in 1 .. n : t[i] = s[k + i]
<1>0. Len(s) \in Nat
  BY LenProperties
<1>1. k + 1 \in Int /\ k + n \in Int /\ \A i \in k + 1 .. k + n : s[i] \in S
  BY <1>0, ElementOfSeq
<1>2. /\ t \in Seq(S) /\ Len(t) = (IF k + 1 <= k + n THEN (k + n) - (k + 1) + 1 ELSE 0)
      /\ \A i \in 1 .. (k + n) - (k + 1) + 1 : t[i] = s[(k + 1) + i - 1]
  <2>1. PICK a \in Int, b \in Int : a = k + 1 /\ b = k + n
    BY <1>1
  <2>2. t = SubSeq(s, a, b) /\ \A i \in a .. b : s[i] \in S
    BY <1>1, <2>1
  <2>3. /\ t \in Seq(S) /\ Len(t) = (IF a <= b THEN b - a + 1 ELSE 0)
        /\ \A i \in 1 .. b - a + 1 : t[i] = s[a + i - 1]
    BY <2>2, SubSeqProperties
  <2> QED  BY <2>1, <2>3
<1>3. \A i \in 1 .. n : t[i] = s[k + i]
  <2>1. ASSUME NEW i \in 1 .. n PROVE t[i] = s[k + i]
    <3>1. i \in 1 .. (k + n) - (k + 1) + 1 /\ (k + 1) + i - 1 = k + i
      OBVIOUS
    <3> QED  BY <1>2, <3>1
  <2> QED  BY <2>1
<1>4. Len(t) = n
  BY <1>2
<1> QED  BY <1>2, <1>3, <1>4

\* A stretch of a sequence that equals another one element by element.
LEMMA Stretch ==
  ASSUME NEW S, NEW s \in Seq(S), NEW t \in Seq(S), NEW n \in Nat, n = Len(t), NEW k \in Nat,
         k + n <= Len(s), \A i \in 1 .. n : s[k + i] = t[i]
  PROVE  SubSeq(s, k + 1, k + n) = t
<1>1. PICK u : u = SubSeq(s, k + 1, k + n)
  OBVIOUS
<1>2. u \in Seq(S) /\ Len(u) = n /\ \A i \in 1 .. n : u[i] = s[k + i]
  BY <1>1, PartOf
<1>3. \A i \in 1 .. n : u[i] = t[i]
  BY <1>2
<1> QED  BY <1>1, <1>2, <1>3, SeqEqual

FrameKinds == {"Output", "Input"}

LEMMA HeaderIs ==
  ASSUME NEW k \in FrameKinds
  PROVE  /\ << Magic, KindByte[k], 0, 0 >> \in Seq(Byte)
         /\ Len(<< Magic, KindByte[k], 0, 0 >>) = 4
         /\ KindByte[k] = (IF k = "Input" THEN 2 ELSE 1)
<1>1. KindByte[k] = (IF k = "Input" THEN 2 ELSE 1)
  BY DEF KindByte, FrameKinds
<1>2. Magic \in Byte /\ 0 \in Byte /\ 1 \in Byte /\ 2 \in Byte
  BY SocketAssumption DEF Byte
<1> QED  BY <1>1, <1>2

LEMMA WidthFacts ==
  /\ SeqWidth \in Nat /\ LenWidth \in Nat /\ MAX_PAYLOAD_LEN \in Nat
  /\ MAX_PAYLOAD_LEN < Capacity(LenWidth) /\ HeaderLen = 4 + SeqWidth + LenWidth
  BY SocketAssumption DEF HeaderLen

LEMMA Encoded ==
  ASSUME NEW k \in FrameKinds, NEW s \in Nat, s < Capacity(SeqWidth),
         NEW p \in Seq(Byte), Len(p) <= MAX_PAYLOAD_LEN,
         NEW buf, buf = Encode([kind |-> k, seq |-> s, payload |-> p])
  PROVE  /\ buf \in Seq(Byte) /\ Len(buf) = HeaderLen + Len(p)
         /\ buf[1] = Magic /\ buf[2] = KindByte[k] /\ buf[3] = 0 /\ buf[4] = 0
         /\ SubSeq(buf, 5, 4 + SeqWidth) = BigEndian(s, SeqWidth)
         /\ SubSeq(buf, 5 + SeqWidth, HeaderLen) = BigEndian(Len(p), LenWidth)
         /\ SubSeq(buf, HeaderLen + 1, Len(buf)) = p
<1>1. PICK np \in Nat : np = Len(p) /\ np < Capacity(LenWidth)
  <2>1. Capacity(LenWidth) \in Nat
    BY WidthFacts, CapacityNat
  <2>2. Len(p) \in Nat
    BY LenProperties
  <2> QED  BY <2>1, <2>2, WidthFacts
<1>2. PICK h : h = << Magic, KindByte[k], 0, 0 >>
  OBVIOUS
<1>3. PICK a : a = BigEndian(s, SeqWidth)
  OBVIOUS
<1>4. PICK l : l = BigEndian(np, LenWidth)
  OBVIOUS
<1>5. buf = h \o a \o l \o p
  BY <1>1, <1>2, <1>3, <1>4 DEF Encode
<1>6. h \in Seq(Byte) /\ Len(h) = 4 /\ h[1] = Magic /\ h[2] = KindByte[k] /\ h[3] = 0 /\ h[4] = 0
  BY <1>2, HeaderIs
<1>7. a \in Seq(Byte) /\ Len(a) = SeqWidth /\ l \in Seq(Byte) /\ Len(l) = LenWidth
  BY <1>1, <1>3, <1>4, WidthFacts, FieldRoundTrips
<1>8. /\ buf \in Seq(Byte) /\ Len(buf) = 4 + SeqWidth + LenWidth + np
      /\ \A i \in 1 .. 4 : buf[i] = h[i]
      /\ \A i \in 1 .. SeqWidth : buf[4 + i] = a[i]
      /\ \A i \in 1 .. LenWidth : buf[4 + SeqWidth + i] = l[i]
      /\ \A i \in 1 .. np : buf[4 + SeqWidth + LenWidth + i] = p[i]
  <2>1. Laid(Byte, h, a, l, p, buf, Len(h), Len(a), Len(l), Len(p))
    BY <1>5, <1>6, <1>7, PartsOf
  <2>2. Laid(Byte, h, a, l, p, buf, 4, SeqWidth, LenWidth, np)
    BY <1>1, <1>6, <1>7, <2>1
  <2> QED  BY <2>2 DEF Laid
<1>9. buf[1] = Magic /\ buf[2] = KindByte[k] /\ buf[3] = 0 /\ buf[4] = 0
  BY <1>6, <1>8
<1>10. SubSeq(buf, 4 + 1, 4 + SeqWidth) = a
  BY <1>7, <1>8, WidthFacts, Stretch
<1>11. SubSeq(buf, (4 + SeqWidth) + 1, (4 + SeqWidth) + LenWidth) = l
  BY <1>7, <1>8, WidthFacts, Stretch
<1>12. SubSeq(buf, (4 + SeqWidth + LenWidth) + 1, (4 + SeqWidth + LenWidth) + np) = p
  <2>1. PICK m \in Nat : m = 4 + SeqWidth + LenWidth
    BY WidthFacts
  <2>2. m + np <= Len(buf) /\ \A i \in 1 .. np : buf[m + i] = p[i]
    BY <1>8, <2>1
  <2>3. SubSeq(buf, m + 1, m + np) = p
    BY <1>1, <1>8, <2>2, Stretch
  <2> QED  BY <2>1, <2>3
<1>13. /\ 4 + 1 = 5 /\ (4 + SeqWidth) + 1 = 5 + SeqWidth
       /\ (4 + SeqWidth) + LenWidth = HeaderLen /\ (4 + SeqWidth + LenWidth) + 1 = HeaderLen + 1
       /\ (4 + SeqWidth + LenWidth) + np = Len(buf) /\ Len(buf) = HeaderLen + Len(p)
  BY <1>1, <1>8, WidthFacts
<1>14. SubSeq(buf, 5, 4 + SeqWidth) = a /\ SubSeq(buf, 5 + SeqWidth, HeaderLen) = l
         /\ SubSeq(buf, HeaderLen + 1, Len(buf)) = p
  BY <1>10, <1>11, <1>12, <1>13
<1> QED  BY <1>1, <1>3, <1>4, <1>8, <1>9, <1>13, <1>14

\* decode_binary_frame accepts what encode_binary_frame made, and gives it back.
THEOREM FrameRoundTrips ==
  ASSUME NEW k \in FrameKinds, NEW s \in Nat, s < Capacity(SeqWidth),
         NEW p \in Seq(Byte), Len(p) <= MAX_PAYLOAD_LEN,
         NEW buf, buf = Encode([kind |-> k, seq |-> s, payload |-> p])
  PROVE  /\ DecodeError(buf) = "none"
         /\ Decoded(buf).kind = k /\ Decoded(buf).seq = s /\ Decoded(buf).payload = p
<1>1. /\ buf \in Seq(Byte) /\ Len(buf) = HeaderLen + Len(p)
      /\ buf[1] = Magic /\ buf[2] = KindByte[k] /\ buf[3] = 0 /\ buf[4] = 0
      /\ SubSeq(buf, 5, 4 + SeqWidth) = BigEndian(s, SeqWidth)
      /\ SubSeq(buf, 5 + SeqWidth, HeaderLen) = BigEndian(Len(p), LenWidth)
      /\ SubSeq(buf, HeaderLen + 1, Len(buf)) = p
  BY Encoded
<1>2. PICK np \in Nat : np = Len(p) /\ np < Capacity(LenWidth) /\ np <= MAX_PAYLOAD_LEN
  <2>1. Capacity(LenWidth) \in Nat
    BY WidthFacts, CapacityNat
  <2>2. Len(p) \in Nat
    BY LenProperties
  <2> QED  BY <2>1, <2>2, WidthFacts
<1>3. PayloadLen(buf) = np
  <2>1. Value(BigEndian(np, LenWidth)) = np
    BY <1>2, WidthFacts, FieldRoundTrips
  <2> QED  BY <1>1, <1>2, <2>1 DEF PayloadLen
<1>4. buf[2] \in {1, 2} /\ (k = "Input" <=> buf[2] = 2)
  BY <1>1, HeaderIs
<1>5. ~(Len(buf) < HeaderLen) /\ Len(buf) = HeaderLen + np /\ ~(np > MAX_PAYLOAD_LEN)
  BY <1>1, <1>2, WidthFacts
<1>6. DecodeError(buf) = "none"
  BY <1>1, <1>3, <1>4, <1>5 DEF DecodeError
<1>7. Decoded(buf).kind = k
  BY <1>4 DEF Decoded, KindByte, FrameKinds
<1>8. Decoded(buf).seq = s
  <2>1. Value(BigEndian(s, SeqWidth)) = s
    BY WidthFacts, FieldRoundTrips
  <2> QED  BY <1>1, <2>1 DEF Decoded
<1>9. Decoded(buf).payload = p
  BY <1>1 DEF Decoded
<1> QED  BY <1>6, <1>7, <1>8, <1>9

\* What the checks of decode_binary_frame leave, as parts of the frame.
LEMMA PassedIs ==
  ASSUME NEW buf \in Seq(Byte), DecodeError(buf) = "none"
  PROVE  /\ buf[1] = Magic /\ buf[2] \in {1, 2} /\ buf[3] = 0 /\ buf[4] = 0
         /\ ~(PayloadLen(buf) > MAX_PAYLOAD_LEN) /\ Len(buf) = HeaderLen + PayloadLen(buf)
  BY LenProperties, WidthFacts DEF DecodeError

\* And what decodes was encoded: a buffer that passes decode_binary_frame's checks as an
\* input is the encoding of a number and of its payload.
THEOREM DecodedWasEncoded ==
  ASSUME NEW buf \in Seq(Byte), DecodeError(buf) = "none", Decoded(buf).kind # "Output"
  PROVE  \E s \in 0 .. Capacity(SeqWidth) - 1 :
           LET p == SubSeq(buf, HeaderLen + 1, Len(buf))
           IN  /\ p \in Seq(Byte) /\ Len(p) <= MAX_PAYLOAD_LEN
               /\ Encode([kind |-> "Input", seq |-> s, payload |-> p]) = buf
<1>1. /\ buf[1] = Magic /\ buf[2] \in {1, 2} /\ buf[3] = 0 /\ buf[4] = 0
      /\ ~(PayloadLen(buf) > MAX_PAYLOAD_LEN) /\ Len(buf) = HeaderLen + PayloadLen(buf)
  BY PassedIs
<1>2. buf[2] = 2
  BY <1>1 DEF Decoded, KindByte
<1>0. Len(buf) \in Nat
  BY LenProperties
<1>3. HeaderLen <= Len(buf)
  BY <1>0, LenProperties, WidthFacts DEF DecodeError
<1>4. PICK a : a = SubSeq(buf, 4 + 1, 4 + SeqWidth)
  OBVIOUS
<1>5. a \in Seq(Byte) /\ Len(a) = SeqWidth /\ \A i \in 1 .. SeqWidth : a[i] = buf[4 + i]
  BY <1>0, <1>3, <1>4, WidthFacts, PartOf
<1>6. PICK l : l = SubSeq(buf, (4 + SeqWidth) + 1, (4 + SeqWidth) + LenWidth)
  OBVIOUS
<1>7. l \in Seq(Byte) /\ Len(l) = LenWidth /\ \A i \in 1 .. LenWidth : l[i] = buf[(4 + SeqWidth) + i]
  <2>1. PICK k \in Nat, w \in Nat : k = 4 + SeqWidth /\ w = LenWidth /\ k + w <= Len(buf)
    BY <1>0, <1>3, WidthFacts
  <2>2. l = SubSeq(buf, k + 1, k + w)
    BY <1>6, <2>1
  <2>3. l \in Seq(Byte) /\ Len(l) = w /\ \A i \in 1 .. w : l[i] = buf[k + i]
    <3>1. k + w <= Len(buf)
      BY <2>1
    <3> QED  BY <2>2, <3>1, PartOf
  <2> QED  BY <2>1, <2>3
<1>8. PayloadLen(buf) = Value(l)
  <2>1. (4 + SeqWidth) + 1 = 5 + SeqWidth /\ (4 + SeqWidth) + LenWidth = HeaderLen
    BY WidthFacts
  <2> QED  BY <1>6, <2>1 DEF PayloadLen
<1>9. /\ Value(l) \in Nat /\ Value(l) < Capacity(LenWidth) /\ BigEndian(Value(l), LenWidth) = l
      /\ Value(a) \in Nat /\ Value(a) < Capacity(SeqWidth) /\ BigEndian(Value(a), SeqWidth) = a
  BY <1>5, <1>7, WidthFacts, BytesRoundTrip
<1>10. PICK np \in Nat : np = Value(l) /\ np = PayloadLen(buf) /\ Len(buf) = HeaderLen + np
  BY <1>1, <1>8, <1>9
<1>11. PICK p : p = SubSeq(buf, HeaderLen + 1, HeaderLen + np)
  OBVIOUS
<1>12. p \in Seq(Byte) /\ Len(p) = np /\ \A i \in 1 .. np : p[i] = buf[HeaderLen + i]
  <2>1. PICK k \in Nat : k = HeaderLen /\ k + np <= Len(buf)
    BY <1>0, <1>10, WidthFacts
  <2>2. p = SubSeq(buf, k + 1, k + np)
    BY <1>11, <2>1
  <2>3. p \in Seq(Byte) /\ Len(p) = np /\ \A i \in 1 .. np : p[i] = buf[k + i]
    BY <2>1, <2>2, PartOf
  <2> QED  BY <2>1, <2>3
<1>13. PICK s \in Nat : s = Value(a) /\ s < Capacity(SeqWidth)
  BY <1>9
<1>14. PICK e : e = Encode([kind |-> "Input", seq |-> s, payload |-> p])
  OBVIOUS
<1>15. PICK h : h = << Magic, KindByte["Input"], 0, 0 >>
  OBVIOUS
<1>16. h \in Seq(Byte) /\ Len(h) = 4 /\ h[1] = Magic /\ h[2] = 2 /\ h[3] = 0 /\ h[4] = 0
  <2>1. "Input" \in FrameKinds
    BY DEF FrameKinds
  <2> QED  BY <1>15, <2>1, HeaderIs
<1>17. e = h \o a \o l \o p
  BY <1>9, <1>10, <1>12, <1>13, <1>14, <1>15 DEF Encode
<1>18. Laid(Byte, h, a, l, p, e, 4, SeqWidth, LenWidth, np)
  <2>1. Laid(Byte, h, a, l, p, e, Len(h), Len(a), Len(l), Len(p))
    BY <1>5, <1>7, <1>12, <1>16, <1>17, PartsOf
  <2> QED  BY <1>5, <1>7, <1>12, <1>16, <2>1
<1>19. e \in Seq(Byte) /\ Len(e) = Len(buf)
  BY <1>10, <1>18, WidthFacts DEF Laid
<1>20. ASSUME NEW i \in 1 .. Len(buf) PROVE e[i] = buf[i]
  <2>0. i \in 1 .. 4 + SeqWidth + LenWidth + np
    BY <1>10, WidthFacts
  <2>1. CASE i \in 1 .. 4
    <3>1. e[i] = h[i]
      BY <1>18, <2>1 DEF Laid
    <3>2. i = 1 \/ i = 2 \/ i = 3 \/ i = 4
      BY <2>1
    <3> QED  BY <1>1, <1>2, <1>16, <3>1, <3>2
  <2>2. CASE i \in 4 + 1 .. 4 + SeqWidth
    <3>1. PICK j \in 1 .. SeqWidth : i = 4 + j
      <4>1. i - 4 \in 1 .. SeqWidth /\ i = 4 + (i - 4)
        BY <2>2, WidthFacts
      <4> QED  BY <4>1
    <3> QED  BY <1>5, <1>18, <3>1 DEF Laid
  <2>3. CASE i \in 4 + SeqWidth + 1 .. 4 + SeqWidth + LenWidth
    <3>1. PICK j \in 1 .. LenWidth : i = 4 + SeqWidth + j
      <4>1. i - (4 + SeqWidth) \in 1 .. LenWidth /\ i = 4 + SeqWidth + (i - (4 + SeqWidth))
        BY <2>3, WidthFacts
      <4> QED  BY <4>1
    <3> QED  BY <1>7, <1>18, <3>1 DEF Laid
  <2>4. CASE i \in 4 + SeqWidth + LenWidth + 1 .. 4 + SeqWidth + LenWidth + np
    <3>1. PICK j \in 1 .. np : i = 4 + SeqWidth + LenWidth + j
      <4>1. i - HeaderLen \in 1 .. np /\ i = 4 + SeqWidth + LenWidth + (i - HeaderLen)
        BY <2>4, WidthFacts
      <4> QED  BY <4>1
    <3> QED  BY <1>12, <1>18, <3>1, WidthFacts DEF Laid
  <2> QED  BY <2>0, <2>1, <2>2, <2>3, <2>4, WidthFacts
<1>21. e = buf
  BY <1>19, <1>20, SeqEqual
<1>22. p = SubSeq(buf, HeaderLen + 1, Len(buf)) /\ Len(p) <= MAX_PAYLOAD_LEN
  BY <1>1, <1>10, <1>11, <1>12, WidthFacts
<1>23. s \in 0 .. Capacity(SeqWidth) - 1
  BY <1>13, WidthFacts, CapacityNat
<1> QED  BY <1>12, <1>14, <1>21, <1>22, <1>23

\* The reference definition of an input agrees with the decoder.
LEMMA BinaryInput ==
  ASSUME NEW f, f.type = "Binary", f.buf \in Seq(Byte), DecodeError(f.buf) = "none",
         Decoded(f.buf).kind # "Output"
  PROVE  InputPayloads(f) = {Decoded(f.buf).payload} /\ Decoded(f.buf).payload \in Seq(Byte)
<1>1. PICK buf \in Seq(Byte) : buf = f.buf
  OBVIOUS
<1>2. PICK p : p = SubSeq(buf, HeaderLen + 1, Len(buf))
  OBVIOUS
<1>3. Decoded(buf).payload = p
  BY <1>2 DEF Decoded
<1>4. PICK s \in 0 .. Capacity(SeqWidth) - 1 :
        /\ p \in Seq(Byte) /\ Len(p) <= MAX_PAYLOAD_LEN
        /\ Encode([kind |-> "Input", seq |-> s, payload |-> p]) = buf
  BY <1>1, <1>2, DecodedWasEncoded
<1>5. Capacity(SeqWidth) \in Nat /\ "Input" \in FrameKinds /\ Len(buf) \in Nat
  BY WidthFacts, CapacityNat, LenProperties DEF FrameKinds
<1>6. HeaderLen + 1 \in 1 .. Len(buf) + 1
  <2>1. Len(buf) = HeaderLen + Len(p) /\ Len(p) \in Nat
    BY <1>4, <1>5, Encoded, LenProperties
  <2> QED  BY <2>1, WidthFacts
<1>7. InputPayloads(f) =
        {q \in {SubSeq(buf, i, Len(buf)) : i \in 1 .. Len(buf) + 1} :
           \E n \in 0 .. Capacity(SeqWidth) - 1 :
             /\ Len(q) <= MAX_PAYLOAD_LEN
             /\ Encode([kind |-> "Input", seq |-> n, payload |-> q]) = buf}
  BY <1>1 DEF InputPayloads
<1>8. p \in InputPayloads(f)
  BY <1>2, <1>4, <1>6, <1>7
<1>9. ASSUME NEW q \in InputPayloads(f) PROVE q = p
  <2>1. PICK i \in 1 .. Len(buf) + 1 : q = SubSeq(buf, i, Len(buf))
    BY <1>7, <1>9
  <2>2. PICK n \in 0 .. Capacity(SeqWidth) - 1 :
          /\ Len(q) <= MAX_PAYLOAD_LEN
          /\ Encode([kind |-> "Input", seq |-> n, payload |-> q]) = buf
    BY <1>7, <1>9
  <2>3. q \in Seq(Byte)
    <3>1. \A j \in i .. Len(buf) : buf[j] \in Byte
      BY <1>5, ElementOfSeq
    <3> QED  BY <1>5, <2>1, <3>1, SubSeqProperties
  <2>4. n \in Nat /\ n < Capacity(SeqWidth)
    BY <1>5
  <2>5. SubSeq(buf, HeaderLen + 1, Len(buf)) = q
    <3>1. "Input" \in FrameKinds
      BY DEF FrameKinds
    <3> QED  BY <2>2, <2>3, <2>4, <3>1, Encoded
  <2> QED  BY <1>2, <2>5
<1> QED  BY <1>1, <1>3, <1>4, <1>8, <1>9

-----------------------------------------------------------------------------
(***************************************************************************)
(* The two ways of counting a client's inputs.                             *)
(***************************************************************************)

\* A recursion over a sequence: what it keeps of each element, in order.
Keeps(n, keep, what, f) ==
  /\ f[0] = << >>
  /\ \A i \in 1 .. n : f[i] = IF keep[i] THEN Append(f[i - 1], what[i]) ELSE f[i - 1]

\* The recursion has a value, and it is the function the definition chooses.
LEMMA KeepsExists ==
  ASSUME NEW X, NEW n \in Nat, NEW keep \in [1 .. n -> BOOLEAN], NEW what \in [1 .. n -> X]
  PROVE  \E f \in [0 .. n -> Seq(X)] : Keeps(n, keep, what, f)
<1>1. PICK none \in Seq(X) : none = << >>
  BY EmptySeq
<1>2. PICK step : step = [i \in 1 .. n |-> [x \in Seq(X) |->
                            IF keep[i] THEN Append(x, what[i]) ELSE x]]
  OBVIOUS
<1>3. step \in [1 .. n -> [Seq(X) -> Seq(X)]]
  <2>1. \A i \in 1 .. n : \A x \in Seq(X) : Append(x, what[i]) \in Seq(X)
    BY AppendProperties
  <2> QED  BY <1>2, <2>1
<1>4. PICK f \in [0 .. n -> Seq(X)] : Iterates(none, n, step, f)
  BY <1>3, IterationExists
<1>5. ASSUME NEW i \in 1 .. n PROVE f[i] = IF keep[i] THEN Append(f[i - 1], what[i]) ELSE f[i - 1]
  <2>1. i - 1 \in 0 .. n
    OBVIOUS
  <2>2. f[i] = step[i][f[i - 1]] /\ f[i - 1] \in Seq(X)
    BY <1>4, <2>1 DEF Iterates
  <2> QED  BY <1>2, <2>2
<1> QED  BY <1>1, <1>4, <1>5 DEF Keeps, Iterates

LEMMA KeepsTyped ==
  ASSUME NEW X, NEW n \in Nat, NEW keep \in [1 .. n -> BOOLEAN], NEW what \in [1 .. n -> X],
         NEW f, Keeps(n, keep, what, f)
  PROVE  \A i \in 0 .. n : f[i] \in Seq(X)
<1>1. PICK S : S = {i \in 0 .. n : f[i] \in Seq(X)}
  OBVIOUS
<1>2. 0 \in S
  <2>1. f[0] \in Seq(X)
    <3>1. PICK none \in Seq(X) : none = << >>
      BY EmptySeq
    <3>2. f[0] = none
      BY <3>1, Zenon DEF Keeps
    <3> QED  BY <3>2
  <2> QED  BY <1>1, <2>1
<1>3. ASSUME NEW i \in 1 .. n, i - 1 \in S PROVE i \in S
  <2>1. f[i - 1] \in Seq(X)
    BY <1>1, <1>3
  <2>2. Append(f[i - 1], what[i]) \in Seq(X)
    BY <2>1, AppendProperties
  <2>3. f[i] = IF keep[i] THEN Append(f[i - 1], what[i]) ELSE f[i - 1]
    BY DEF Keeps
  <2>4. f[i] \in Seq(X) /\ i \in 0 .. n
    BY <2>1, <2>2, <2>3
  <2> QED  BY <1>1, <2>4
<1> QED  BY <1>1, <1>2, <1>3, UpTo

Agree(n, s, t) == \A i \in 1 .. n : s[i] = t[i]

\* Two recursions that agree on what they keep of the first n elements agree there.
LEMMA KeepsSame ==
  ASSUME NEW n \in Nat, NEW m \in Nat, n <= m,
         NEW keep, NEW what, NEW f, Keeps(n, keep, what, f),
         NEW keep2, NEW what2, NEW g, Keeps(m, keep2, what2, g),
         Agree(n, keep2, keep), Agree(n, what2, what)
  PROVE  g[n] = f[n]
<1>1. PICK S : S = {i \in 0 .. n : g[i] = f[i]}
  OBVIOUS
<1>2. 0 \in S
  BY <1>1 DEF Keeps
<1>3. ASSUME NEW i \in 1 .. n, i - 1 \in S PROVE i \in S
  <2>1. g[i - 1] = f[i - 1] /\ i \in 1 .. m /\ i \in 0 .. n
    BY <1>1, <1>3
  <2>2. f[i] = IF keep[i] THEN Append(f[i - 1], what[i]) ELSE f[i - 1]
    BY DEF Keeps
  <2>3. g[i] = IF keep2[i] THEN Append(g[i - 1], what2[i]) ELSE g[i - 1]
    BY <2>1 DEF Keeps
  <2>4. g[i] = f[i]
    BY <2>1, <2>2, <2>3 DEF Agree
  <2> QED  BY <1>1, <2>1, <2>4
<1>4. n \in 0 .. n
  OBVIOUS
<1> QED  BY <1>1, <1>2, <1>3, <1>4, UpTo

Message == [by : Clients, data : Seq(Byte)]

Mine(q, n, c) == [i \in 1 .. n |-> q[i].by = c]
Data(q, n) == [i \in 1 .. n |-> q[i].data]

\* f counts the inputs of c in the queue q of length n.
Counts(q, n, c, f) ==
  /\ f \in [0 .. n -> Seq(Seq(Byte))]
  /\ Keeps(n, Mine(q, n, c), Data(q, n), f) /\ OfClient(q, c) = f[n]

LEMMA OfClientIs ==
  ASSUME NEW q \in Seq(Message), NEW n \in Nat, n = Len(q), NEW c
  PROVE  \E f : Counts(q, n, c, f)
<1> DEFINE mine == CHOOSE f : f = [i \in 0 .. Len(q) |->
                     IF i = 0 THEN << >>
                     ELSE IF q[i].by = c THEN Append(f[i - 1], q[i].data) ELSE f[i - 1]]
<1>1. Mine(q, n, c) \in [1 .. n -> BOOLEAN]
  BY DEF Mine
<1>2. Data(q, n) \in [1 .. n -> Seq(Byte)]
  <2>1. \A i \in 1 .. n : q[i].data \in Seq(Byte)
    <3>1. \A i \in 1 .. n : q[i] \in Message
      BY ElementOfSeq
    <3> QED  BY <3>1 DEF Message
  <2> QED  BY <2>1 DEF Data
<1>3. PICK g \in [0 .. n -> Seq(Seq(Byte))] : Keeps(n, Mine(q, n, c), Data(q, n), g)
  BY <1>1, <1>2, KeepsExists
<1>4. \A i \in 1 .. n : g[i] = IF q[i].by = c THEN Append(g[i - 1], q[i].data) ELSE g[i - 1]
  BY <1>3 DEF Keeps, Mine, Data
<1>5. g = [i \in 0 .. Len(q) |->
             IF i = 0 THEN << >>
             ELSE IF q[i].by = c THEN Append(g[i - 1], q[i].data) ELSE g[i - 1]]
  <2>1. \A i \in 0 .. n : i = 0 \/ i \in 1 .. n
    OBVIOUS
  <2>2. \A i \in 0 .. n : g[i] = IF i = 0 THEN << >>
             ELSE IF q[i].by = c THEN Append(g[i - 1], q[i].data) ELSE g[i - 1]
    BY <1>3, <1>4, <2>1 DEF Keeps
  <2> QED  BY <2>2
<1>6. mine = [i \in 0 .. Len(q) |->
                IF i = 0 THEN << >>
                ELSE IF q[i].by = c THEN Append(mine[i - 1], q[i].data) ELSE mine[i - 1]]
  BY <1>5
<1>7. OfClient(q, c) = mine[Len(q)]
  BY DEF OfClient
<1> HIDE DEF mine
<1>8. Keeps(n, Mine(q, n, c), Data(q, n), mine)
  <2>1. mine[0] = << >>
    BY <1>6
  <2>2. ASSUME NEW i \in 1 .. n
        PROVE  mine[i] = IF q[i].by = c THEN Append(mine[i - 1], q[i].data) ELSE mine[i - 1]
    <3>1. i \in 0 .. Len(q) /\ i # 0
      OBVIOUS
    <3> QED  BY <1>6, <3>1
  <2> QED  BY <2>1, <2>2 DEF Keeps, Mine, Data
<1>9. \A i \in 0 .. n : mine[i] \in Seq(Seq(Byte))
  BY <1>1, <1>2, <1>8, KeepsTyped
<1>10. mine \in [0 .. n -> Seq(Seq(Byte))]
  BY <1>6, <1>9
<1> QED  BY <1>7, <1>8, <1>10 DEF Counts

\* The payload a frame that is an input has.
PayloadOf(f) == CHOOSE p \in InputPayloads(f) : TRUE

\* TakenInputs for any answers to any frames.
TakenOf(an, se) ==
  LET acc[i \in 0 .. Len(an)] ==
        IF i = 0 THEN << >>
        ELSE IF an[i] = "silent"
               THEN Append(acc[i - 1], CHOOSE p \in InputPayloads(se[i]) : TRUE)
               ELSE acc[i - 1]
  IN  acc[Len(an)]

LEMMA TakenIsOf == \A c : TakenInputs(c) = TakenOf(answers[c], sent[c])
  BY DEF TakenInputs, TakenOf

Silent(an, n) == [i \in 1 .. n |-> an[i] = "silent"]
Payloads(an, se, n) == [i \in 1 .. n |-> IF an[i] = "silent" THEN PayloadOf(se[i]) ELSE << >>]

\* A frame that was taken in silence is an input.
IsInput(f) == \E p \in Seq(Byte) : InputPayloads(f) = {p}

LEMMA PayloadTyped ==
  ASSUME NEW f, IsInput(f)
  PROVE  PayloadOf(f) \in Seq(Byte)
  BY DEF PayloadOf, IsInput

\* f counts the inputs taken by the first n answers.
Takes(an, se, n, f) ==
  /\ f \in [0 .. n -> Seq(Seq(Byte))]
  /\ Keeps(n, Silent(an, n), Payloads(an, se, n), f) /\ TakenOf(an, se) = f[n]

AllInputs(an, se, n) == \A i \in 1 .. n : an[i] = "silent" => IsInput(se[i])

LEMMA TakenOfIs ==
  ASSUME NEW an, NEW se, NEW n \in Nat, n = Len(an), AllInputs(an, se, n)
  PROVE  \E f : Takes(an, se, n, f)
<1> DEFINE acc == CHOOSE f : f = [i \in 0 .. Len(an) |->
                     IF i = 0 THEN << >>
                     ELSE IF an[i] = "silent"
                            THEN Append(f[i - 1], CHOOSE p \in InputPayloads(se[i]) : TRUE)
                            ELSE f[i - 1]]
<1>1. Silent(an, n) \in [1 .. n -> BOOLEAN]
  BY DEF Silent
<1>2. Payloads(an, se, n) \in [1 .. n -> Seq(Byte)]
  <2>1. PICK none \in Seq(Byte) : none = << >>
    BY EmptySeq
  <2>2. \A i \in 1 .. n : (IF an[i] = "silent" THEN PayloadOf(se[i]) ELSE << >>) \in Seq(Byte)
    BY <2>1, PayloadTyped DEF AllInputs
  <2> QED  BY <2>2 DEF Payloads
<1>3. PICK g \in [0 .. n -> Seq(Seq(Byte))] : Keeps(n, Silent(an, n), Payloads(an, se, n), g)
  BY <1>1, <1>2, KeepsExists
<1>4. \A i \in 1 .. n : g[i] = IF an[i] = "silent" THEN Append(g[i - 1], PayloadOf(se[i])) ELSE g[i - 1]
  BY <1>3 DEF Keeps, Silent, Payloads
<1>5. g = [i \in 0 .. Len(an) |->
             IF i = 0 THEN << >>
             ELSE IF an[i] = "silent"
                    THEN Append(g[i - 1], CHOOSE p \in InputPayloads(se[i]) : TRUE)
                    ELSE g[i - 1]]
  <2>1. \A i \in 0 .. n : i = 0 \/ i \in 1 .. n
    OBVIOUS
  <2>2. \A i \in 0 .. n : g[i] = IF i = 0 THEN << >>
             ELSE IF an[i] = "silent" THEN Append(g[i - 1], PayloadOf(se[i])) ELSE g[i - 1]
    BY <1>3, <1>4, <2>1 DEF Keeps
  <2> QED  BY <2>2 DEF PayloadOf
<1>6. acc = [i \in 0 .. Len(an) |->
                IF i = 0 THEN << >>
                ELSE IF an[i] = "silent"
                       THEN Append(acc[i - 1], CHOOSE p \in InputPayloads(se[i]) : TRUE)
                       ELSE acc[i - 1]]
  BY <1>5
<1>7. TakenOf(an, se) = acc[Len(an)]
  BY DEF TakenOf
<1> HIDE DEF acc
<1>8. Keeps(n, Silent(an, n), Payloads(an, se, n), acc)
  <2>1. acc[0] = << >>
    BY <1>6
  <2>2. ASSUME NEW i \in 1 .. n
        PROVE  acc[i] = IF an[i] = "silent" THEN Append(acc[i - 1], PayloadOf(se[i]))
                                              ELSE acc[i - 1]
    <3>1. i \in 0 .. Len(an) /\ i # 0
      OBVIOUS
    <3> QED  BY <1>6, <3>1 DEF PayloadOf
  <2> QED  BY <2>1, <2>2 DEF Keeps, Silent, Payloads
<1>9. \A i \in 0 .. n : acc[i] \in Seq(Seq(Byte))
  BY <1>1, <1>2, <1>8, KeepsTyped
<1>10. acc \in [0 .. n -> Seq(Seq(Byte))]
  BY <1>6, <1>9
<1> QED  BY <1>7, <1>8, <1>10 DEF Takes

\* What was taken depends only on what was answered.
LEMMA TakenSame ==
  ASSUME NEW an, NEW se, NEW n \in Nat, n = Len(an), AllInputs(an, se, n),
         NEW an2, NEW se2, n = Len(an2), Agree(n, an2, an), Agree(n, se2, se)
  PROVE  TakenOf(an2, se2) = TakenOf(an, se)
<1>1. AllInputs(an2, se2, n)
  BY DEF AllInputs, Agree
<1>2. PICK f : Takes(an, se, n, f)
  BY TakenOfIs
<1>3. PICK g : Takes(an2, se2, n, g)
  BY <1>1, TakenOfIs
<1>4. Agree(n, Silent(an2, n), Silent(an, n)) /\ Agree(n, Payloads(an2, se2, n), Payloads(an, se, n))
  BY DEF Agree, Silent, Payloads
<1>5. g[n] = f[n]
  BY <1>2, <1>3, <1>4, KeepsSame DEF Takes
<1> QED  BY <1>2, <1>3, <1>5 DEF Takes

\* One more answer.
LEMMA TakenNext ==
  ASSUME NEW an, NEW se, NEW n \in Nat, n = Len(an), AllInputs(an, se, n),
         NEW an2, NEW se2, NEW m \in Nat, m = Len(an2), m = n + 1,
         Agree(n, an2, an), Agree(n, se2, se), an2[m] = "silent" => IsInput(se2[m])
  PROVE  /\ TakenOf(an, se) \in Seq(Seq(Byte))
         /\ TakenOf(an2, se2) = IF an2[m] = "silent"
                                  THEN Append(TakenOf(an, se), PayloadOf(se2[m]))
                                  ELSE TakenOf(an, se)
<1>1. AllInputs(an2, se2, m)
  <2>1. \A i \in 1 .. m : i \in 1 .. n \/ i = m
    OBVIOUS
  <2> QED  BY <2>1 DEF AllInputs, Agree
<1>2. PICK f : Takes(an, se, n, f)
  BY TakenOfIs
<1>3. PICK g : Takes(an2, se2, m, g)
  BY <1>1, TakenOfIs
<1>4. Agree(n, Silent(an2, m), Silent(an, n)) /\ Agree(n, Payloads(an2, se2, m), Payloads(an, se, n))
  BY DEF Agree, Silent, Payloads
<1>5. n <= m /\ n \in 0 .. n /\ m \in 1 .. m /\ m - 1 = n
  OBVIOUS
<1>6. g[n] = f[n]
  BY <1>2, <1>3, <1>4, <1>5, KeepsSame DEF Takes
<1>7. g[m] = IF Silent(an2, m)[m] THEN Append(g[m - 1], Payloads(an2, se2, m)[m]) ELSE g[m - 1]
  BY <1>3, <1>5 DEF Takes, Keeps
<1>8. /\ Silent(an2, m)[m] = (an2[m] = "silent")
      /\ an2[m] = "silent" => Payloads(an2, se2, m)[m] = PayloadOf(se2[m])
  BY <1>5 DEF Silent, Payloads
<1>9. g[m] = IF an2[m] = "silent" THEN Append(f[n], PayloadOf(se2[m])) ELSE f[n]
  BY <1>5, <1>6, <1>7, <1>8
<1>10. f[n] \in Seq(Seq(Byte)) /\ TakenOf(an, se) = f[n] /\ TakenOf(an2, se2) = g[m]
  BY <1>2, <1>3, <1>5 DEF Takes
<1> QED  BY <1>9, <1>10

\* One more input in the queue.
LEMMA OfClientNext ==
  ASSUME NEW q \in Seq(Message), NEW x \in Message, NEW c
  PROVE  /\ OfClient(q, c) \in Seq(Seq(Byte))
         /\ OfClient(Append(q, x), c) = IF x.by = c THEN Append(OfClient(q, c), x.data)
                                                    ELSE OfClient(q, c)
<1>0. PICK n \in Nat : n = Len(q)
  BY LenProperties
<1>1. PICK q2 : q2 = Append(q, x)
  OBVIOUS
<1>2. PICK m \in Nat : m = n + 1
  OBVIOUS
<1>3. /\ q2 \in Seq(Message) /\ m = Len(q2) /\ q2[m] = x /\ \A i \in 1 .. n : q2[i] = q[i]
  BY <1>0, <1>1, <1>2, AppendProperties
<1>4. PICK f : Counts(q, n, c, f)
  BY <1>0, OfClientIs
<1>5. PICK g : Counts(q2, m, c, g)
  BY <1>3, OfClientIs
<1>6. Agree(n, Mine(q2, m, c), Mine(q, n, c)) /\ Agree(n, Data(q2, m), Data(q, n))
  BY <1>2, <1>3 DEF Agree, Mine, Data
<1>7. n <= m /\ n \in 0 .. n /\ m \in 1 .. m /\ m - 1 = n
  BY <1>2
<1>8. g[n] = f[n]
  <2>1. Keeps(n, Mine(q, n, c), Data(q, n), f) /\ Keeps(m, Mine(q2, m, c), Data(q2, m), g)
    BY <1>4, <1>5 DEF Counts
  <2> QED  BY <1>6, <1>7, <2>1, KeepsSame
<1>9. g[m] = IF Mine(q2, m, c)[m] THEN Append(g[m - 1], Data(q2, m)[m]) ELSE g[m - 1]
  BY <1>5, <1>7 DEF Counts, Keeps
<1>10. Mine(q2, m, c)[m] = (x.by = c) /\ Data(q2, m)[m] = x.data
  BY <1>3, <1>7 DEF Mine, Data
<1>11. g[m] = IF x.by = c THEN Append(f[n], x.data) ELSE f[n]
  BY <1>7, <1>8, <1>9, <1>10
<1>12. f[n] \in Seq(Seq(Byte)) /\ OfClient(q, c) = f[n] /\ OfClient(q2, c) = g[m]
  BY <1>4, <1>5, <1>7 DEF Counts
<1> QED  BY <1>1, <1>11, <1>12

-----------------------------------------------------------------------------
(***************************************************************************)
(* The sockets.  What every step keeps.                                    *)
(***************************************************************************)

Sizes == MIN_DIM .. MAX_DIM

ConnStates == Waits \cup {"open", "ended"}

\* In the middle of a resize.
Resizing == {"recorded", "resizing"}

\* The registry's entry has a handle whose driver runs.
Up == pty = "bound" /\ driver = "running"

SocketShape ==
  /\ sent \in [Clients -> Seq(ClientFrames)] /\ answers \in [Clients -> Seq(Answers)]
  /\ conn \in [Clients -> ConnStates]
  /\ live \in [Clients -> BOOLEAN] /\ handshaken \in [Clients -> BOOLEAN]
  /\ frames \in [Clients -> Seq(Seq(Byte))]
  /\ pty \in {"stub", "bound", "removed"} /\ driver \in {"none", "running", "gone"}
  /\ status \in {"active", "closed"}
  /\ snapshot \in Sizes /\ window \in Sizes /\ missed \in BOOLEAN
  /\ inputq \in Seq(Message) /\ stdin \in Seq(Message) /\ resizeq \in Seq(Sizes)
  /\ Len(inputq) <= QueueCap /\ Len(resizeq) <= QueueCap
  /\ output \in Seq(Seq(Byte)) /\ Len(output) <= MaxOutput
  /\ \A c \in Clients : Len(answers[c]) <= Len(sent[c])

\* A handler that waits has its frame in hand: one that resizes a valid resize, one
\* that writes an input.
InHand ==
  \A c \in Clients :
    /\ conn[c] \in Waits => Len(answers[c]) < Len(sent[c])
    /\ conn[c] \in Resizing => Frame(c).type = "Resize" /\ Frame(c).dim \in Sizes
    /\ conn[c] = "writing" => \E data \in Seq(Byte) :
                               InputOf(Frame(c)) = data /\ InputPayloads(Frame(c)) = {data}

\* Silence answers inputs only.
SilenceIsInput == \A c \in Clients : AllInputs(answers[c], sent[c], Len(answers[c]))

InputsArrive ==
  \A c \in Clients :
    /\ IsPrefix(OfClient(stdin \o inputq, c), TakenInputs(c))
    /\ driver = "running" => OfClient(stdin \o inputq, c) = TakenInputs(c)

\* Every frame a client got is an output's encoding.
FramesEncode ==
  \A c \in Clients : \A i \in 1 .. Len(frames[c]) : \E s \in 1 .. Len(output) :
    /\ Len(output[s]) <= MAX_PAYLOAD_LEN
    /\ frames[c][i] = Encode([kind |-> "Output", seq |-> s, payload |-> output[s]])

\* Nobody but c has touched the size.
OnlyResizer(c) == \A o \in Clients \ {c} : Resizes(o) = {} /\ conn[o] \notin Resizing

SizeInHand ==
  \A c \in Clients :
    Up /\ conn[c] \in Resizing /\ OnlyResizer(c) => snapshot = Frame(c).dim

SocketIInv ==
  /\ SocketShape /\ InHand /\ SilenceIsInput /\ InputsArrive /\ FramesEncode
  /\ SizeInHand /\ SnapshotFollows

\* Nothing that was sent or answered changes afterwards.
Extended ==
  \A c \in Clients :
    /\ Len(answers[c]) <= Len(answers'[c]) /\ Agree(Len(answers[c]), answers'[c], answers[c])
    /\ Len(sent[c]) <= Len(sent'[c]) /\ Agree(Len(sent[c]), sent'[c], sent[c])

LEMMA Lengths ==
  ASSUME SocketShape, NEW c \in Clients
  PROVE  /\ Len(answers[c]) \in Nat /\ Len(sent[c]) \in Nat /\ Len(answers[c]) <= Len(sent[c])
         /\ answers[c] \in Seq(Answers) /\ sent[c] \in Seq(ClientFrames)
         /\ DOMAIN answers[c] = 1 .. Len(answers[c])
<1>1. answers[c] \in Seq(Answers) /\ sent[c] \in Seq(ClientFrames)
  BY DEF SocketShape
<1> QED  BY <1>1, LenProperties DEF SocketShape

LEMMA LengthsNext ==
  ASSUME SocketShape', NEW c \in Clients
  PROVE  /\ Len(answers'[c]) \in Nat /\ Len(sent'[c]) \in Nat
         /\ DOMAIN answers'[c] = 1 .. Len(answers'[c])
<1>1. answers'[c] \in Seq(Answers) /\ sent'[c] \in Seq(ClientFrames)
  BY DEF SocketShape
<1> QED  BY <1>1, LenProperties

LEMMA AgreeSelf == \A n, s : Agree(n, s, s)
  BY DEF Agree

LEMMA UnchangedExtends ==
  ASSUME SocketShape, UNCHANGED << sent, answers >>
  PROVE  Extended
  BY Lengths, AgreeSelf DEF Extended

\* A frame is answered.
LEMMA AnsweredIs ==
  ASSUME SocketShape, NEW c \in Clients, NEW a \in Answers, Answered(c, a), sent' = sent,
         Len(answers[c]) < Len(sent[c])
  PROVE  /\ answers' \in [Clients -> Seq(Answers)]
         /\ Len(answers'[c]) = Len(answers[c]) + 1 /\ answers'[c][Len(answers[c]) + 1] = a
         /\ \A o \in Clients : o # c => answers'[o] = answers[o]
         /\ Extended
         /\ \A o \in Clients : Len(answers'[o]) <= Len(sent'[o])
<1>1. answers' = [answers EXCEPT ![c] = Append(answers[c], a)]
  BY DEF Answered
<1>2. PICK n \in Nat : n = Len(answers[c]) /\ n < Len(sent[c]) /\ Len(sent[c]) \in Nat
  BY Lengths
<1>3. PICK t : t = Append(answers[c], a)
  OBVIOUS
<1>4. t \in Seq(Answers) /\ Len(t) = n + 1 /\ t[n + 1] = a /\ \A i \in 1 .. n : t[i] = answers[c][i]
  BY <1>2, <1>3, Lengths, AppendProperties
<1>5. answers'[c] = t /\ \A o \in Clients : o # c => answers'[o] = answers[o]
  BY <1>1, <1>3 DEF SocketShape
<1>6. answers' \in [Clients -> Seq(Answers)]
  BY <1>1, <1>3, <1>4 DEF SocketShape
<1>7. ASSUME NEW o \in Clients
      PROVE  /\ Len(answers[o]) <= Len(answers'[o]) /\ Agree(Len(answers[o]), answers'[o], answers[o])
             /\ Len(answers'[o]) <= Len(sent[o]) /\ Len(sent[o]) <= Len(sent[o])
  <2>1. CASE o = c
    BY <1>2, <1>4, <1>5, <2>1 DEF Agree
  <2>2. CASE o # c
    BY <1>5, <2>2, Lengths, AgreeSelf
  <2> QED  BY <2>1, <2>2
<1>8. Extended /\ \A o \in Clients : Len(answers'[o]) <= Len(sent'[o])
  BY <1>7, AgreeSelf DEF Extended
<1> QED  BY <1>2, <1>4, <1>5, <1>6, <1>8

\* The inputs: a step that takes none in silence and moves none.
LEMMA QuietInputs ==
  ASSUME SocketIInv, SocketShape', Extended,
         stdin' \o inputq' = stdin \o inputq, driver' = "running" => driver = "running",
         \A c \in Clients :
           \/ Len(answers'[c]) = Len(answers[c])
           \/ /\ Len(answers'[c]) = Len(answers[c]) + 1
              /\ answers'[c][Len(answers[c]) + 1] # "silent"
  PROVE  SilenceIsInput' /\ InputsArrive'
<1>1. ASSUME NEW c \in Clients
      PROVE  /\ AllInputs(answers'[c], sent'[c], Len(answers'[c]))
             /\ TakenInputs(c)' = TakenInputs(c)
  <2>1. PICK an, se, an2, se2 :
          an = answers[c] /\ se = sent[c] /\ an2 = answers'[c] /\ se2 = sent'[c]
    OBVIOUS
  <2>2. PICK n \in Nat : n = Len(an) /\ n <= Len(se) /\ Len(se) \in Nat
    BY <2>1, Lengths DEF SocketIInv
  <2>3. AllInputs(an, se, n)
    BY <2>1, <2>2 DEF SocketIInv, SilenceIsInput
  <2>4. Agree(n, an2, an) /\ Agree(n, se2, se)
    BY <2>1, <2>2 DEF Extended, Agree
  <2>5. TakenInputs(c) = TakenOf(an, se) /\ TakenInputs(c)' = TakenOf(an2, se2)
    BY <2>1 DEF TakenInputs, TakenOf
  <2>6. CASE Len(an2) = n
    <3>1. AllInputs(an2, se2, n)
      BY <2>3, <2>4 DEF AllInputs, Agree
    <3>2. TakenOf(an2, se2) = TakenOf(an, se)
      BY <2>2, <2>3, <2>4, <2>6, TakenSame
    <3> QED  BY <2>1, <2>5, <2>6, <3>1, <3>2
  <2>7. CASE Len(an2) # n
    <3>1. PICK m \in Nat : m = n + 1 /\ m = Len(an2) /\ an2[m] # "silent"
      BY <2>1, <2>2, <2>7
    <3>2. TakenOf(an2, se2) = TakenOf(an, se)
      BY <2>2, <2>3, <2>4, <3>1, TakenNext
    <3>3. \A i \in 1 .. m : i \in 1 .. n \/ i = m
      BY <3>1
    <3>4. AllInputs(an2, se2, m)
      BY <2>3, <2>4, <3>1, <3>3 DEF AllInputs, Agree
    <3> QED  BY <2>1, <2>5, <3>1, <3>2, <3>4
  <2> QED  BY <2>6, <2>7
<1>2. SilenceIsInput'
  BY <1>1 DEF SilenceIsInput
<1>3. InputsArrive'
  BY <1>1 DEF SocketIInv, InputsArrive
<1> QED  BY <1>2, <1>3

\* The size: a step that leaves the sizes alone.
LEMMA ResizesGrow ==
  ASSUME SocketShape, SocketShape', Extended, NEW c \in Clients
  PROVE  /\ Resizes(c) \subseteq Resizes(c)'
         /\ \A i \in Resizes(c) : answers'[c][i] = answers[c][i]
<1>1. /\ DOMAIN answers[c] = 1 .. Len(answers[c]) /\ DOMAIN answers'[c] = 1 .. Len(answers'[c])
      /\ Len(answers[c]) \in Nat /\ Len(sent[c]) \in Nat /\ Len(answers'[c]) \in Nat
      /\ Len(answers[c]) <= Len(sent[c])
  BY Lengths, LengthsNext
<1>2. ASSUME NEW i \in 1 .. Len(answers[c])
      PROVE  i \in 1 .. Len(answers'[c]) /\ answers'[c][i] = answers[c][i] /\ sent'[c][i] = sent[c][i]
  BY <1>1 DEF Extended, Agree
<1> QED  BY <1>1, <1>2 DEF Resizes

LEMMA OnlyResizerBefore ==
  ASSUME SocketShape, SocketShape', Extended, NEW c \in Clients, OnlyResizer(c)',
         \A o \in Clients : conn[o] \in Resizing => conn'[o] \in Resizing
  PROVE  OnlyResizer(c)
  BY ResizesGrow DEF OnlyResizer

LEMMA FrameSame ==
  ASSUME SocketShape, SocketShape', InHand, Extended, NEW c \in Clients, conn[c] \in Waits,
         answers'[c] = answers[c]
  PROVE  Frame(c)' = Frame(c) /\ Len(answers'[c]) < Len(sent'[c])
<1>1. PICK n \in Nat : n = Len(answers[c]) /\ n < Len(sent[c]) /\ Len(sent[c]) \in Nat
  BY Lengths DEF InHand
<1>2. n + 1 \in 1 .. Len(sent[c])
  BY <1>1
<1>3. sent'[c][n + 1] = sent[c][n + 1] /\ Len(sent[c]) <= Len(sent'[c])
  BY <1>2 DEF Extended, Agree
<1>4. Frame(c)' = sent'[c][n + 1] /\ Frame(c) = sent[c][n + 1]
  BY <1>1 DEF Frame
<1>5. Len(answers'[c]) = n /\ (n < Len(sent'[c]))
  BY <1>1, <1>3, LengthsNext
<1> QED  BY <1>3, <1>4, <1>5

LEMMA ResizingWaits == Resizing \subseteq Waits
  BY DEF Resizing, Waits

\* The frames in hand: nobody starts to wait.
LEMMA HandsKeep ==
  ASSUME SocketIInv, SocketShape', Extended,
         \A c \in Clients : conn'[c] \in Waits => conn'[c] = conn[c] /\ answers'[c] = answers[c]
  PROVE  InHand'
<1>0. SocketShape /\ InHand
  BY DEF SocketIInv
<1>1. ASSUME NEW c \in Clients, conn'[c] \in Waits
      PROVE  conn'[c] = conn[c] /\ Frame(c)' = Frame(c) /\ Len(answers'[c]) < Len(sent'[c])
  BY <1>0, <1>1, FrameSame
<1>2. ASSUME NEW c \in Clients, conn'[c] \in Waits
      PROVE  /\ conn'[c] \in Resizing => Frame(c)'.type = "Resize" /\ Frame(c)'.dim \in Sizes
             /\ conn'[c] = "writing" => \E data \in Seq(Byte) :
                  InputOf(Frame(c)') = data /\ InputPayloads(Frame(c)') = {data}
  <2>1. conn[c] \in Resizing => Frame(c).type = "Resize" /\ Frame(c).dim \in Sizes
    BY <1>0 DEF InHand
  <2>2. conn[c] = "writing" => \E data \in Seq(Byte) :
          InputOf(Frame(c)) = data /\ InputPayloads(Frame(c)) = {data}
    BY <1>0 DEF InHand
  <2>3. conn'[c] = conn[c] /\ Frame(c)' = Frame(c)
    BY <1>1, <1>2
  <2> HIDE DEF Frame
  <2> QED  BY <2>1, <2>2, <2>3
<1>3. "writing" \in Waits
  BY DEF Waits
<1> QED  BY <1>1, <1>2, <1>3, ResizingWaits DEF InHand

LEMMA SizesMove ==
  ASSUME SocketIInv, SocketShape', Extended, snapshot' = snapshot,
         ~missed' => ~missed /\ Last(<< window' >> \o resizeq') = Last(<< window >> \o resizeq),
         Up' => Up,
         \A c \in Clients : /\ conn'[c] \in Resizing <=> conn[c] \in Resizing
                            /\ conn[c] \in Resizing => answers'[c] = answers[c]
  PROVE  SizeInHand' /\ SnapshotFollows'
<1>0. SocketShape /\ InHand /\ SizeInHand /\ SnapshotFollows
  BY DEF SocketIInv
<1>1. ASSUME NEW c \in Clients, conn'[c] \in Resizing
      PROVE  conn[c] \in Resizing /\ Frame(c)' = Frame(c)
  BY <1>0, <1>1, FrameSame, ResizingWaits
<1>3. \A c \in Clients : OnlyResizer(c)' => OnlyResizer(c)
  BY <1>0, OnlyResizerBefore
<1>4. SizeInHand'
  BY <1>0, <1>1, <1>3 DEF SizeInHand
<1>5. SnapshotFollows'
  <2> SUFFICES ASSUME NEW c \in Clients,
                      Up', conn'[c] \notin Resizing, OnlyResizer(c)', ~missed',
                      \A i \in Resizes(c)' : answers'[c][i] \in {"Ack", "InvalidInput"}
               PROVE  snapshot' = Last(<< window' >> \o resizeq')
    BY DEF SnapshotFollows, OnlyResizer, Resizing, Up
  <2>1. Up /\ conn[c] \notin Resizing /\ OnlyResizer(c) /\ ~missed
    BY <1>3
  <2>2. \A i \in Resizes(c) : answers[c][i] \in {"Ack", "InvalidInput"}
    BY <1>0, ResizesGrow
  <2>3. snapshot = Last(<< window >> \o resizeq)
    BY <1>0, <2>1, <2>2 DEF SnapshotFollows, OnlyResizer, Resizing, Up
  <2> QED  BY <2>3
<1> QED  BY <1>4, <1>5

LEMMA SizesKeep ==
  ASSUME SocketIInv, SocketShape', Extended, UNCHANGED << snapshot, window, resizeq, missed >>,
         Up' => Up,
         \A c \in Clients : /\ conn'[c] \in Resizing <=> conn[c] \in Resizing
                            /\ conn[c] \in Resizing => answers'[c] = answers[c]
  PROVE  SizeInHand' /\ SnapshotFollows'
  BY SizesMove

LEMMA FramesKeep ==
  ASSUME FramesEncode, UNCHANGED << frames, output >>
  PROVE  FramesEncode'
  BY DEF FramesEncode

\* An answer that takes no input and finishes no resize.
QuietStep ==
  \E c \in Clients : \E a \in Answers \ {"silent"} :
    /\ conn[c] \notin Resizing /\ Len(answers[c]) < Len(sent[c]) /\ Answered(c, a)
    /\ conn' \in [Clients -> ConnStates] /\ conn'[c] \in {"open", "ended"}
    /\ \A o \in Clients : o # c => conn'[o] = conn[o]
    /\ pty' = pty \/ pty' = "removed"
    /\ handshaken' \in [Clients -> BOOLEAN]
    /\ UNCHANGED << sent, live, frames, driver, status, snapshot, inputq, resizeq, stdin,
                    window, missed, output >>

LEMMA QuietKeeps ==
  ASSUME SocketIInv, QuietStep
  PROVE  SocketIInv'
<1>0. SocketShape /\ FramesEncode
  BY DEF SocketIInv
<1>1. PICK c \in Clients, a \in Answers \ {"silent"} :
        /\ conn[c] \notin Resizing /\ Len(answers[c]) < Len(sent[c]) /\ Answered(c, a)
        /\ conn' \in [Clients -> ConnStates] /\ conn'[c] \in {"open", "ended"}
        /\ \A o \in Clients : o # c => conn'[o] = conn[o]
        /\ pty' = pty \/ pty' = "removed"
        /\ handshaken' \in [Clients -> BOOLEAN]
        /\ UNCHANGED << sent, live, frames, driver, status, snapshot, inputq, resizeq, stdin,
                        window, missed, output >>
  BY DEF QuietStep
<1>2. /\ answers' \in [Clients -> Seq(Answers)]
      /\ Len(answers'[c]) = Len(answers[c]) + 1 /\ answers'[c][Len(answers[c]) + 1] = a
      /\ \A o \in Clients : o # c => answers'[o] = answers[o]
      /\ Extended
      /\ \A o \in Clients : Len(answers'[o]) <= Len(sent'[o])
  BY <1>0, <1>1, AnsweredIs
<1>3. /\ conn'[c] \notin Waits /\ conn'[c] \notin Resizing
      /\ \A o \in Clients : conn'[o] \in Waits => conn'[o] = conn[o] /\ answers'[o] = answers[o]
      /\ \A o \in Clients : /\ conn'[o] \in Resizing <=> conn[o] \in Resizing
                            /\ conn[o] \in Resizing => answers'[o] = answers[o]
  <2>1. conn'[c] \notin Waits /\ conn'[c] \notin Resizing
    BY <1>1 DEF Waits, Resizing
  <2> QED  BY <1>1, <1>2, <2>1
<1>4. SocketShape'
  <2>1. pty' \in {"stub", "bound", "removed"}
    BY <1>0, <1>1 DEF SocketShape
  <2> QED  BY <1>0, <1>1, <1>2, <2>1 DEF SocketShape
<1>5. SilenceIsInput' /\ InputsArrive'
  <2>1. stdin' \o inputq' = stdin \o inputq /\ (driver' = "running" => driver = "running")
    BY <1>1
  <2>2. \A o \in Clients :
          \/ Len(answers'[o]) = Len(answers[o])
          \/ /\ Len(answers'[o]) = Len(answers[o]) + 1
             /\ answers'[o][Len(answers[o]) + 1] # "silent"
    BY <1>1, <1>2
  <2> QED  BY <1>2, <1>4, <2>1, <2>2, QuietInputs
<1>6. InHand'
  BY <1>2, <1>3, <1>4, HandsKeep
<1>7. SizeInHand' /\ SnapshotFollows'
  <2>1. Up' => Up
    BY <1>1 DEF Up
  <2> QED  BY <1>1, <1>2, <1>3, <1>4, <2>1, SizesKeep
<1>8. FramesEncode'
  BY <1>0, <1>1, FramesKeep
<1> QED  BY <1>4, <1>5, <1>6, <1>7, <1>8 DEF SocketIInv

\* A step that answers nothing and moves only a handler, or the row's status.
LEMMA HandStepKeeps ==
  ASSUME SocketIInv, InHand', conn' \in [Clients -> ConnStates],
         \A c \in Clients : conn'[c] \in Resizing <=> conn[c] \in Resizing,
         status' \in {"active", "closed"},
         UNCHANGED << sent, answers, live, handshaken, frames, pty, driver, snapshot,
                      inputq, resizeq, stdin, window, missed, output >>
  PROVE  SocketIInv'
<1>0. SocketShape /\ FramesEncode
  BY DEF SocketIInv
<1>1. SocketShape'
  BY <1>0 DEF SocketShape
<1>2. Extended
  BY <1>0, UnchangedExtends
<1>3. SilenceIsInput' /\ InputsArrive'
  BY <1>1, <1>2, QuietInputs
<1>4. SizeInHand' /\ SnapshotFollows'
  <2>1. Up' => Up
    BY DEF Up
  <2> QED  BY <1>1, <1>2, <2>1, SizesKeep
<1>5. FramesEncode'
  BY <1>0, FramesKeep
<1> QED  BY <1>1, <1>3, <1>4, <1>5 DEF SocketIInv

LEMMA SendsKeep ==
  ASSUME SocketIInv, NEW c \in Clients, NEW f \in ClientFrames, ClientSends(c, f)
  PROVE  SocketIInv'
<1>0. SocketShape /\ FramesEncode
  BY DEF SocketIInv
<1>1. /\ sent' = [sent EXCEPT ![c] = Append(sent[c], f)]
      /\ UNCHANGED << answers, conn, live, handshaken, frames, pty, driver, status, snapshot,
                      inputq, resizeq, stdin, window, missed, output >>
  BY DEF ClientSends
<1>2. PICK t : t = Append(sent[c], f)
  OBVIOUS
<1>3. PICK n \in Nat : n = Len(sent[c])
  BY <1>0, Lengths
<1>4. t \in Seq(ClientFrames) /\ Len(t) = n + 1 /\ \A i \in 1 .. n : t[i] = sent[c][i]
  BY <1>0, <1>2, <1>3, Lengths, AppendProperties
<1>5. sent' \in [Clients -> Seq(ClientFrames)] /\ sent'[c] = t
        /\ \A o \in Clients : o # c => sent'[o] = sent[o]
  BY <1>0, <1>1, <1>2, <1>4 DEF SocketShape
<1>6. ASSUME NEW o \in Clients
      PROVE  Len(sent[o]) <= Len(sent'[o]) /\ Agree(Len(sent[o]), sent'[o], sent[o])
               /\ Len(answers[o]) <= Len(answers[o]) /\ Len(answers[o]) <= Len(sent'[o])
  <2>1. CASE o = c
    <3>1. PICK m \in Nat : m = Len(answers[c]) /\ m <= n
      BY <1>0, <1>3, Lengths
    <3>2. Agree(n, t, sent[c])
      BY <1>4 DEF Agree
    <3> QED  BY <1>3, <1>4, <1>5, <2>1, <3>1, <3>2
  <2>2. CASE o # c
    BY <1>0, <1>5, <2>2, Lengths, AgreeSelf
  <2> QED  BY <2>1, <2>2
<1>7. Extended
  BY <1>1, <1>6, AgreeSelf DEF Extended
<1>8. SocketShape'
  BY <1>0, <1>1, <1>5, <1>6 DEF SocketShape
<1>9. SilenceIsInput' /\ InputsArrive'
  BY <1>1, <1>7, <1>8, QuietInputs
<1>10. InHand' /\ SizeInHand' /\ SnapshotFollows'
  <2>1. Up' => Up
    BY <1>1 DEF Up
  <2> QED  BY <1>1, <1>7, <1>8, <2>1, HandsKeep, SizesKeep
<1>11. FramesEncode'
  BY <1>0, <1>1, FramesKeep
<1> QED  BY <1>8, <1>9, <1>10, <1>11 DEF SocketIInv

LEMMA EndsKeep ==
  ASSUME SocketIInv, NEW c \in Clients, SocketEnds(c)
  PROVE  SocketIInv'
<1>0. SocketShape
  BY DEF SocketIInv
<1>1. /\ conn[c] = "open" /\ conn' = [conn EXCEPT ![c] = "ended"]
      /\ UNCHANGED << sent, answers, live, handshaken, frames, pty, driver, status, snapshot,
                      inputq, resizeq, stdin, window, missed, output >>
  BY DEF SocketEnds
<1>2. /\ conn' \in [Clients -> ConnStates] /\ conn'[c] = "ended"
      /\ \A o \in Clients : o # c => conn'[o] = conn[o]
  BY <1>0, <1>1 DEF SocketShape, ConnStates
<1>3. /\ \A o \in Clients : conn'[o] \in Resizing <=> conn[o] \in Resizing
      /\ \A o \in Clients : conn'[o] \in Waits => conn'[o] = conn[o]
  BY <1>1, <1>2 DEF Resizing, Waits
<1>4. SocketShape' /\ Extended
  BY <1>0, <1>1, <1>2, UnchangedExtends DEF SocketShape
<1>5. InHand'
  BY <1>1, <1>3, <1>4, HandsKeep
<1>6. status' \in {"active", "closed"}
  BY <1>0, <1>1 DEF SocketShape
<1> QED  BY <1>1, <1>2, <1>3, <1>5, <1>6, HandStepKeeps

LEMMA ForwarderEndsKeeps ==
  ASSUME SocketIInv, ForwarderEnds
  PROVE  SocketIInv'
<1>0. SocketShape
  BY DEF SocketIInv
<1>1. /\ status' = "closed"
      /\ UNCHANGED << sent, answers, conn, live, handshaken, frames, pty, driver, snapshot,
                      inputq, resizeq, stdin, window, missed, output >>
  BY DEF ForwarderEnds
<1>2. SocketShape' /\ Extended /\ conn' \in [Clients -> ConnStates]
  BY <1>0, <1>1, UnchangedExtends DEF SocketShape
<1>3. InHand'
  BY <1>1, <1>2, HandsKeep
<1> QED  BY <1>1, <1>2, <1>3, HandStepKeeps

\* A frame is taken in hand: an input with the handle of the PTY, or a close.
LEMMA TakesInHand ==
  ASSUME SocketIInv, NEW c \in Clients, conn[c] = "open", Len(answers[c]) < Len(sent[c]),
         NEW w \in {"writing", "closing"}, conn' = [conn EXCEPT ![c] = w],
         w = "writing" => \E data \in Seq(Byte) :
                            InputOf(Frame(c)) = data /\ InputPayloads(Frame(c)) = {data},
         status' \in {"active", "closed"},
         UNCHANGED << sent, answers, live, handshaken, frames, pty, driver, snapshot,
                      inputq, resizeq, stdin, window, missed, output >>
  PROVE  SocketIInv'
<1>0. SocketShape /\ InHand
  BY DEF SocketIInv
<1>1. /\ conn' \in [Clients -> ConnStates] /\ conn'[c] = w
      /\ \A o \in Clients : o # c => conn'[o] = conn[o]
  BY <1>0 DEF SocketShape, ConnStates, Waits
<1>2. w \notin Resizing /\ conn[c] \notin Resizing
  BY DEF Resizing
<1>3. \A o \in Clients : conn'[o] \in Resizing <=> conn[o] \in Resizing
  BY <1>1, <1>2
<1>4. InHand'
  <2>1. ASSUME NEW o \in Clients
        PROVE  /\ conn'[o] \in Waits => Len(answers[o]) < Len(sent[o])
               /\ conn'[o] \in Resizing => Frame(o).type = "Resize" /\ Frame(o).dim \in Sizes
               /\ conn'[o] = "writing" => \E data \in Seq(Byte) :
                    InputOf(Frame(o)) = data /\ InputPayloads(Frame(o)) = {data}
    <3>1. CASE o = c
      BY <1>1, <1>2, <3>1
    <3>2. CASE o # c
      BY <1>0, <1>1, <3>2 DEF InHand
    <3> QED  BY <3>1, <3>2
  <2>2. \A o \in Clients : Frame(o)' = Frame(o)
    BY DEF Frame
  <2>3. \A o \in Clients : InputPayloads(Frame(o))' = InputPayloads(Frame(o))
    BY <2>2 DEF InputPayloads
  <2>4. \A o \in Clients : InputOf(Frame(o))' = InputOf(Frame(o))
    BY <2>2 DEF InputOf
  <2> QED  BY <2>1, <2>2, <2>3, <2>4 DEF InHand
<1> QED  BY <1>1, <1>3, <1>4, HandStepKeeps

\* The handlers that answer and do no more.
LEMMA QuietHandlers ==
  ASSUME SocketIInv, NEW c \in Clients, Garbage(c) \/ Ping(c) \/ Attach(c) \/ Detach(c)
  PROVE  SocketIInv'
<1>0. SocketShape
  BY DEF SocketIInv
<1>1. conn[c] = "open" /\ Len(answers[c]) < Len(sent[c]) /\ conn[c] \notin Resizing
  BY DEF Garbage, Ping, Attach, Detach, Handling, Resizing
<1>2. /\ "InvalidMessage" \in Answers \ {"silent"} /\ "Pong" \in Answers \ {"silent"}
      /\ "ReplayOrNothing" \in Answers \ {"silent"} /\ "SessionDetached" \in Answers \ {"silent"}
      /\ "Internal" \in Answers \ {"silent"}
  BY DEF Answers
<1>3. /\ handshaken \in [Clients -> BOOLEAN] /\ conn \in [Clients -> ConnStates]
      /\ [handshaken EXCEPT ![c] = TRUE] \in [Clients -> BOOLEAN]
      /\ [conn EXCEPT ![c] = "ended"] \in [Clients -> ConnStates]
  BY <1>0 DEF SocketShape, ConnStates
<1>4. CASE Garbage(c) \/ Ping(c)
  <2>1. QuietStep
    BY <1>1, <1>2, <1>3, <1>4 DEF QuietStep, Garbage, Ping
  <2> QED  BY <2>1, QuietKeeps
<1>5. CASE Attach(c)
  <2>1. QuietStep
    BY <1>1, <1>2, <1>3, <1>5 DEF QuietStep, Attach
  <2> QED  BY <2>1, QuietKeeps
<1>6. CASE Detach(c)
  <2>1. conn' \in [Clients -> ConnStates] /\ conn'[c] \in {"open", "ended"}
          /\ \A o \in Clients : o # c => conn'[o] = conn[o]
    BY <1>1, <1>3, <1>6 DEF Detach
  <2>2. QuietStep
    BY <1>1, <1>2, <1>3, <1>6, <2>1 DEF QuietStep, Detach
  <2> QED  BY <2>2, QuietKeeps
<1> QED  BY <1>4, <1>5, <1>6

\* close_session.
LEMMA CloseKeeps ==
  ASSUME SocketIInv, NEW c \in Clients, CloseMarks(c) \/ CloseRemoves(c)
  PROVE  SocketIInv'
<1>0. SocketShape /\ InHand
  BY DEF SocketIInv
<1>1. "SessionClosed" \in Answers \ {"silent"} /\ "Internal" \in Answers \ {"silent"}
  BY DEF Answers
<1>2. /\ handshaken \in [Clients -> BOOLEAN] /\ conn \in [Clients -> ConnStates]
      /\ [conn EXCEPT ![c] = "ended"] \in [Clients -> ConnStates]
      /\ [conn EXCEPT ![c] = "open"] \in [Clients -> ConnStates]
  BY <1>0 DEF SocketShape, ConnStates
<1>3. CASE CloseMarks(c)
  <2>1. conn[c] = "open" /\ Len(answers[c]) < Len(sent[c]) /\ conn[c] \notin Resizing
    BY <1>3 DEF CloseMarks, Handling, Resizing
  <2>2. CASE status' = "closed" /\ conn' = [conn EXCEPT ![c] = "closing"] /\ answers' = answers
    BY <1>3, <2>1, <2>2, TakesInHand DEF CloseMarks
  <2>3. CASE Answered(c, "Internal") /\ UNCHANGED << conn, status >>
    <3>1. QuietStep
      BY <1>1, <1>2, <1>3, <2>1, <2>3 DEF QuietStep, CloseMarks
    <3> QED  BY <3>1, QuietKeeps
  <2> QED  BY <1>3, <2>2, <2>3 DEF CloseMarks
<1>4. CASE CloseRemoves(c)
  <2>1. conn[c] = "closing" /\ conn[c] \notin Resizing /\ conn[c] \in Waits
    BY <1>4 DEF CloseRemoves, Resizing, Waits
  <2>2. Len(answers[c]) < Len(sent[c])
    BY <1>0, <2>1 DEF InHand
  <2>3. conn' \in [Clients -> ConnStates] /\ conn'[c] \in {"open", "ended"}
          /\ \A o \in Clients : o # c => conn'[o] = conn[o]
    BY <1>2, <1>4 DEF CloseRemoves
  <2>4. QuietStep
    BY <1>1, <1>2, <1>4, <2>1, <2>2, <2>3 DEF QuietStep, CloseRemoves
  <2> QED  BY <2>4, QuietKeeps
<1> QED  BY <1>3, <1>4

\* Queues.
LEMMA AppendToQueue ==
  ASSUME NEW S, NEW s \in Seq(S), NEW q \in Seq(S), NEW x \in S
  PROVE  s \o Append(q, x) = Append(s \o q, x) /\ s \o q \in Seq(S)
<1>1. << x >> \in Seq(S)
  OBVIOUS
<1>2. Append(q, x) = q \o << x >> /\ s \o q \in Seq(S)
  BY AppendIsConcat, ConcatProperties
<1>3. Append(s \o q, x) = (s \o q) \o << x >>
  BY <1>2, AppendIsConcat
<1>4. (s \o q) \o << x >> = s \o (q \o << x >>)
  BY <1>1, ConcatAssociative
<1> QED  BY <1>2, <1>3, <1>4

\* A prefix stays one when both grow alike, and when only the longer one does.
LEMMA PrefixOfSelf ==
  ASSUME NEW S, NEW s \in Seq(S)
  PROVE  IsPrefix(s, s)
  BY LenProperties DEF IsPrefix

LEMMA PrefixGrows ==
  ASSUME NEW S, NEW s \in Seq(S), NEW t \in Seq(S), NEW x \in S, IsPrefix(s, t)
  PROVE  IsPrefix(s, Append(t, x))
<1>1. PICK n \in Nat, m \in Nat : n = Len(s) /\ m = Len(t) /\ n <= m
  BY LenProperties DEF IsPrefix
<1>2. PICK u : u = Append(t, x)
  OBVIOUS
<1>3. u \in Seq(S) /\ Len(u) = m + 1 /\ \A i \in 1 .. m : u[i] = t[i]
  BY <1>1, <1>2, AppendProperties
<1>4. SubSeq(u, 1, n) = SubSeq(t, 1, n)
  BY <1>1, <1>3
<1> QED  BY <1>1, <1>2, <1>3, <1>4 DEF IsPrefix

\* An input is taken: it goes to the queue of a live shell, and silence answers it.
LEMMA InputKeeps ==
  ASSUME SocketIInv, NEW c \in Clients, conn[c] = "writing", Len(answers[c]) < Len(sent[c]),
         conn' = [conn EXCEPT ![c] = "open"], driver = "running", NEW data \in Seq(Byte), InputPayloads(Frame(c)) = {data},
         Len(inputq) < QueueCap, Answered(c, "silent"),
         inputq' = Append(inputq, [by |-> c, data |-> data]),
         UNCHANGED << sent, live, handshaken, frames, pty, driver, status, snapshot,
                      resizeq, stdin, window, missed, output >>
  PROVE  SocketIInv'
<1>0. SocketShape /\ FramesEncode /\ InputsArrive /\ SilenceIsInput
  BY DEF SocketIInv
<1>1. "silent" \in Answers
  BY DEF Answers
<1>2. /\ answers' \in [Clients -> Seq(Answers)]
      /\ Len(answers'[c]) = Len(answers[c]) + 1 /\ answers'[c][Len(answers[c]) + 1] = "silent"
      /\ \A o \in Clients : o # c => answers'[o] = answers[o]
      /\ Extended
      /\ \A o \in Clients : Len(answers'[o]) <= Len(sent'[o])
  BY <1>0, <1>1, AnsweredIs
<1>3. PICK x \in Message : x = [by |-> c, data |-> data] /\ x.by = c /\ x.data = data
  BY DEF Message
<1>4. inputq' \in Seq(Message) /\ Len(inputq') <= QueueCap
  <2>1. Len(inputq') = Len(inputq) + 1 /\ inputq' \in Seq(Message) /\ Len(inputq) \in Nat
    BY <1>0, <1>3, AppendProperties, LenProperties DEF SocketShape
  <2> QED  BY <2>1, SocketAssumption
<1>5. SocketShape'
  <2>1. conn' \in [Clients -> ConnStates]
    BY <1>0 DEF SocketShape, ConnStates
  <2> QED  BY <1>0, <1>2, <1>4, <2>1 DEF SocketShape
<1>6. InHand' /\ SizeInHand' /\ SnapshotFollows'
  <2>1. conn'[c] = "open" /\ \A o \in Clients : o # c => conn'[o] = conn[o]
    BY <1>0 DEF SocketShape
  <2>2. "open" \notin Waits /\ "open" \notin Resizing /\ "writing" \notin Resizing
    BY DEF Waits, Resizing
  <2>3. /\ \A o \in Clients : conn'[o] \in Waits => conn'[o] = conn[o] /\ answers'[o] = answers[o]
        /\ \A o \in Clients : /\ conn'[o] \in Resizing <=> conn[o] \in Resizing
                              /\ conn[o] \in Resizing => answers'[o] = answers[o]
    BY <1>2, <2>1, <2>2
  <2>4. Up' => Up
    BY DEF Up
  <2> QED  BY <1>2, <1>5, <2>3, <2>4, HandsKeep, SizesKeep
<1>7. FramesEncode'
  BY <1>0, FramesKeep
<1>8. PICK q : q = stdin \o inputq
  OBVIOUS
<1>9. q \in Seq(Message) /\ stdin' \o inputq' = Append(q, x)
  BY <1>0, <1>3, <1>8, AppendToQueue DEF SocketShape
<1>10. ASSUME NEW o \in Clients
       PROVE  /\ AllInputs(answers'[o], sent'[o], Len(answers'[o]))
              /\ OfClient(stdin' \o inputq', o) = TakenInputs(o)'
              /\ TakenInputs(o)' \in Seq(Seq(Byte))
  <2>1. PICK an, se, an2 : an = answers[o] /\ se = sent[o] /\ an2 = answers'[o]
    OBVIOUS
  <2>2. PICK n \in Nat : n = Len(an) /\ n <= Len(se) /\ Len(se) \in Nat
    BY <1>0, <2>1, Lengths
  <2>3. AllInputs(an, se, n)
    BY <1>0, <2>1, <2>2 DEF SilenceIsInput
  <2>4. Agree(n, an2, an) /\ Agree(n, se, se)
    BY <1>2, <2>1, <2>2, AgreeSelf DEF Extended
  <2>5. TakenInputs(o) = TakenOf(an, se) /\ TakenInputs(o)' = TakenOf(an2, se)
    BY <2>1 DEF TakenInputs, TakenOf
  <2>6. OfClient(q, o) = TakenInputs(o) /\ OfClient(q, o) \in Seq(Seq(Byte))
    BY <1>0, <1>8, <1>9, OfClientNext DEF InputsArrive
  <2>7. CASE o = c
    <3>1. PICK m \in Nat : m = n + 1 /\ m = Len(an2) /\ an2[m] = "silent"
      BY <1>2, <2>1, <2>2, <2>7
    <3>2. InputPayloads(se[m]) = {data} /\ IsInput(se[m]) /\ PayloadOf(se[m]) = data
      <4>1. se[m] = Frame(c)
        BY <2>1, <2>2, <2>7, <3>1 DEF Frame
      <4> QED  BY <4>1 DEF IsInput, PayloadOf
    <3>3. TakenOf(an2, se) = Append(TakenOf(an, se), data)
      <4>1. TakenOf(an2, se) = IF an2[m] = "silent"
                                 THEN Append(TakenOf(an, se), PayloadOf(se[m]))
                                 ELSE TakenOf(an, se)
        <5> HIDE DEF TakenOf, AllInputs, Agree, IsInput, PayloadOf
        <5> QED  BY <2>2, <2>3, <2>4, <3>1, <3>2, TakenNext
      <4> QED  BY <3>1, <3>2, <4>1
    <3>4. OfClient(Append(q, x), o) = Append(OfClient(q, o), data)
      BY <1>3, <1>9, <2>7, OfClientNext
    <3>5. \A i \in 1 .. m : i \in 1 .. n \/ i = m
      BY <3>1
    <3>6. AllInputs(an2, se, m)
      BY <2>3, <2>4, <3>2, <3>5 DEF AllInputs, Agree
    <3>7. Append(OfClient(q, o), data) \in Seq(Seq(Byte))
      BY <2>6, AppendProperties
    <3>8. AllInputs(answers'[o], sent'[o], Len(answers'[o]))
      BY <2>1, <3>1, <3>6
    <3>9. OfClient(stdin' \o inputq', o) = TakenInputs(o)' /\ TakenInputs(o)' \in Seq(Seq(Byte))
      BY <1>9, <2>5, <2>6, <3>3, <3>4, <3>7
    <3> QED  BY <3>8, <3>9
  <2>8. CASE o # c
    <3>1. an2 = an
      BY <1>2, <2>1, <2>8
    <3>2. OfClient(Append(q, x), o) = OfClient(q, o)
      BY <1>3, <1>9, <2>8, OfClientNext
    <3> QED  BY <1>9, <2>1, <2>2, <2>3, <2>5, <2>6, <3>1, <3>2
  <2> QED  BY <2>7, <2>8
<1>11. SilenceIsInput'
  BY <1>10 DEF SilenceIsInput
<1>12. InputsArrive'
  BY <1>10, PrefixOfSelf DEF InputsArrive
<1> QED  BY <1>5, <1>6, <1>7, <1>11, <1>12 DEF SocketIInv

LEMMA FramesCarryBytes ==
  ASSUME NEW g \in ClientFrames
  PROVE  /\ g.type = "Input" => g.data \in Seq(Byte)
         /\ g.type = "Binary" => g.buf \in Seq(Byte)
  BY SocketAssumption

LEMMA InputHandlers ==
  ASSUME SocketIInv, NEW c \in Clients, TextInput(c) \/ BinaryFrame(c)
  PROVE  SocketIInv'
<1>0. SocketShape
  BY DEF SocketIInv
<1>1. /\ conn[c] = "open" /\ Len(answers[c]) < Len(sent[c]) /\ conn[c] \notin Resizing
      /\ UNCHANGED << sent, live, handshaken, frames, pty, driver, status, snapshot,
                      inputq, resizeq, stdin, window, missed, output >>
  BY DEF TextInput, BinaryFrame, Handling, Resizing
<1>2. /\ status \in {"active", "closed"} /\ handshaken \in [Clients -> BOOLEAN]
      /\ live[c] \in BOOLEAN /\ pty \in {"stub", "bound", "removed"}
      /\ conn \in [Clients -> ConnStates]
  BY <1>0 DEF SocketShape
<1>3. ASSUME NEW a \in Answers \ {"silent"}, Answered(c, a), conn' = conn
      PROVE  SocketIInv'
  <2>1. QuietStep
    BY <1>1, <1>2, <1>3 DEF QuietStep
  <2> QED  BY <2>1, QuietKeeps
<1>4. InputRefusal(c) # "none" => InputRefusal(c) \in Answers \ {"silent"}
  BY <1>2 DEF InputRefusal, Answers
<1>5. ASSUME NEW data \in Seq(Byte), InputOf(Frame(c)) = data, InputPayloads(Frame(c)) = {data},
             TakeHandle(c)
      PROVE  SocketIInv'
  <2>1. CASE InputRefusal(c) # "none"
    BY <1>3, <1>4, <1>5, <2>1 DEF TakeHandle
  <2>2. CASE InputRefusal(c) = "none"
    <3>1. conn' = [conn EXCEPT ![c] = "writing"] /\ answers' = answers
      BY <1>5, <2>2 DEF TakeHandle
    <3>2. status' \in {"active", "closed"}
      BY <1>1, <1>2
    <3> QED  BY <1>1, <1>5, <3>1, <3>2, TakesInHand
  <2> QED  BY <2>1, <2>2
<1>7. PICK f \in ClientFrames : f = Frame(c)
  <2>1. PICK n \in Nat : n = Len(answers[c]) /\ n + 1 \in 1 .. Len(sent[c])
    BY <1>0, <1>1, Lengths
  <2>2. sent[c][n + 1] \in ClientFrames
    BY <1>0, <2>1, Lengths, ElementOfSeq
  <2> QED  BY <2>1, <2>2 DEF Frame
<1>8. CASE TextInput(c)
  <2>1. f.type = "Input" /\ TakeHandle(c)
    BY <1>7, <1>8 DEF TextInput, Handling, Frame
  <2>2. f.data \in Seq(Byte)
    BY <2>1, FramesCarryBytes, Zenon
  <2>3. InputPayloads(f) = {f.data} /\ InputOf(f) = f.data
    BY <2>1 DEF InputPayloads, InputOf
  <2> QED  BY <1>5, <1>7, <2>1, <2>2, <2>3
<1>9. CASE BinaryFrame(c)
  <2>1. f.type = "Binary"
    BY <1>7, <1>9 DEF BinaryFrame, Handling, Frame
  <2>2. f.buf \in Seq(Byte)
    BY <2>1, FramesCarryBytes, Zenon
  <2>3. CASE DecodeError(f.buf) # "none" \/ Decoded(f.buf).kind = "Output"
    <3>1. Answered(c, "InvalidMessage") /\ conn' = conn
      BY <1>7, <1>9, <2>3 DEF BinaryFrame
    <3>2. "InvalidMessage" \in Answers \ {"silent"}
      BY DEF Answers
    <3> QED  BY <1>3, <3>1, <3>2
  <2>4. CASE ~(DecodeError(f.buf) # "none" \/ Decoded(f.buf).kind = "Output")
    <3>1. TakeHandle(c)
      BY <1>7, <1>9, <2>4 DEF BinaryFrame
    <3>2. InputPayloads(f) = {Decoded(f.buf).payload} /\ Decoded(f.buf).payload \in Seq(Byte)
      BY <2>1, <2>2, <2>4, BinaryInput
    <3>3. InputOf(f) = Decoded(f.buf).payload
      BY <2>1 DEF InputOf
    <3> QED  BY <1>5, <1>7, <3>1, <3>2, <3>3
  <2> QED  BY <2>3, <2>4
<1> QED  BY <1>8, <1>9

\* write_input: the input goes to the queue of a running driver, or is refused.
LEMMA WriteInputKeeps ==
  ASSUME SocketIInv, NEW c \in Clients, WriteInput(c)
  PROVE  SocketIInv'
<1>0. SocketShape /\ InHand
  BY DEF SocketIInv
<1>1. /\ conn[c] = "writing" /\ conn' = [conn EXCEPT ![c] = "open"]
      /\ UNCHANGED << sent, live, handshaken, frames, pty, driver, status, snapshot,
                      resizeq, stdin, window, missed, output >>
  BY DEF WriteInput
<1>2. "writing" \in Waits /\ "writing" \notin Resizing
  BY DEF Waits, Resizing
<1>3. Len(answers[c]) < Len(sent[c])
  BY <1>0, <1>1, <1>2 DEF InHand
<1>4. CASE /\ driver = "running" /\ Len(inputq) < QueueCap /\ Answered(c, "silent")
           /\ inputq' = Append(inputq, [by |-> c, data |-> InputOf(Frame(c))])
  <2>1. PICK data \in Seq(Byte) : InputOf(Frame(c)) = data /\ InputPayloads(Frame(c)) = {data}
    BY <1>0, <1>1 DEF InHand
  <2> QED  BY <1>1, <1>3, <1>4, <2>1, InputKeeps
<1>5. CASE Answered(c, "PtyNotLive") /\ inputq' = inputq
  <2>1. "PtyNotLive" \in Answers \ {"silent"}
    BY DEF Answers
  <2>2. /\ conn' \in [Clients -> ConnStates] /\ conn'[c] \in {"open", "ended"}
        /\ \A o \in Clients : o # c => conn'[o] = conn[o]
        /\ handshaken' \in [Clients -> BOOLEAN]
    BY <1>0, <1>1 DEF SocketShape, ConnStates
  <2>3. QuietStep
    BY <1>1, <1>2, <1>3, <1>5, <2>1, <2>2 DEF QuietStep
  <2> QED  BY <2>3, QuietKeeps
<1> QED  BY <1>4, <1>5 DEF WriteInput

\* What the shell's size will be once it has taken the queue.
LEMMA LastIs ==
  ASSUME NEW S, NEW w \in S, NEW q \in Seq(S)
  PROVE  Last(<< w >> \o q) = IF Len(q) = 0 THEN w ELSE q[Len(q)]
<1>1. PICK n \in Nat : n = Len(q)
  BY LenProperties
<1>2. PICK one : one = << w >>
  OBVIOUS
<1>3. one \in Seq(S) /\ Len(one) = 1 /\ one[1] = w
  BY <1>2
<1>4. PICK t : t = one \o q
  OBVIOUS
<1>5. /\ Len(t) = 1 + n
      /\ \A i \in 1 .. 1 + n : t[i] = IF i <= 1 THEN one[i] ELSE q[i - 1]
  <2>1. /\ Len(one \o q) = Len(one) + Len(q)
        /\ \A i \in 1 .. Len(one) + Len(q) :
             (one \o q)[i] = IF i <= Len(one) THEN one[i] ELSE q[i - Len(one)]
    BY <1>3, ConcatProperties
  <2> QED  BY <1>1, <1>3, <1>4, <2>1
<1>6. Last(t) = t[Len(t)]
  BY DEF Last
<1>7. 1 + n \in 1 .. 1 + n /\ (1 + n) - 1 = n
  OBVIOUS
<1>8. t[1 + n] = IF n = 0 THEN w ELSE q[n]
  BY <1>3, <1>5, <1>7
<1> QED  BY <1>1, <1>2, <1>4, <1>5, <1>6, <1>8

\* resize_session: the snapshot moves and the resize is in hand, or one answer refuses.
LEMMA ResizeRecordKeeps ==
  ASSUME SocketIInv, NEW c \in Clients, ResizeRecord(c)
  PROVE  SocketIInv'
<1>0. SocketShape /\ FramesEncode /\ InHand
  BY DEF SocketIInv
<1>1. /\ conn[c] = "open" /\ Len(answers[c]) < Len(sent[c]) /\ Frame(c).type = "Resize"
      /\ conn[c] \notin Resizing
      /\ UNCHANGED << sent, live, handshaken, frames, pty, driver, status,
                      inputq, resizeq, stdin, window, missed, output >>
  BY DEF ResizeRecord, Handling, Frame, Resizing
<1>2. status \in {"active", "closed"} /\ handshaken \in [Clients -> BOOLEAN]
        /\ conn \in [Clients -> ConnStates]
  BY <1>0 DEF SocketShape
<1>3. "InvalidInput" \in Answers \ {"silent"} /\ "Internal" \in Answers \ {"silent"}
  BY DEF Answers
<1>4. ASSUME NEW a \in Answers \ {"silent"}, Answered(c, a), UNCHANGED << conn, snapshot >>
      PROVE  SocketIInv'
  <2>1. QuietStep
    BY <1>1, <1>2, <1>4 DEF QuietStep
  <2> QED  BY <2>1, QuietKeeps
<1>5. CASE Frame(c).dim \notin MIN_DIM .. MAX_DIM
  BY <1>3, <1>4, <1>5 DEF ResizeRecord
<1>6. CASE Frame(c).dim \in Sizes /\ status = "closed"
  BY <1>3, <1>4, <1>6 DEF ResizeRecord, Sizes
<1>7. CASE Frame(c).dim \in Sizes /\ status # "closed"
  <2>1. /\ snapshot' = IF pty = "removed" THEN snapshot ELSE Frame(c).dim
        /\ \/ conn' = [conn EXCEPT ![c] = "recorded"] /\ answers' = answers
           \/ Answered(c, "Internal") /\ conn' = conn
    BY <1>7 DEF ResizeRecord, Sizes
  <2>2. snapshot' \in Sizes
    BY <1>0, <1>7, <2>1 DEF SocketShape
  <2>3. CASE conn' = [conn EXCEPT ![c] = "recorded"] /\ answers' = answers
    <3>1. conn' \in [Clients -> ConnStates] /\ conn'[c] = "recorded"
            /\ conn'[c] \in Resizing /\ \A o \in Clients : o # c => conn'[o] = conn[o]
      BY <1>0, <2>3 DEF SocketShape, ConnStates, Waits, Resizing
    <3>2. SocketShape'
      BY <1>0, <1>1, <2>2, <2>3, <3>1 DEF SocketShape
    <3>3. Extended
      BY <1>0, <1>1, <2>3, UnchangedExtends
    <3>4. SilenceIsInput' /\ InputsArrive'
      BY <1>1, <2>3, <3>2, <3>3, QuietInputs
    <3>5. \A o \in Clients : Frame(o)' = Frame(o)
      BY <1>1, <2>3 DEF Frame
    <3>6. InHand'
      <4>1. ASSUME NEW o \in Clients
            PROVE  /\ conn'[o] \in Waits => Len(answers[o]) < Len(sent[o])
                   /\ conn'[o] \in Resizing => Frame(o).type = "Resize" /\ Frame(o).dim \in Sizes
                   /\ conn'[o] = "writing" => \E data \in Seq(Byte) :
                        InputOf(Frame(o)) = data /\ InputPayloads(Frame(o)) = {data}
        <5>1. CASE o = c
          BY <1>1, <1>7, <3>1, <5>1
        <5>2. CASE o # c
          BY <1>0, <3>1, <5>2 DEF InHand
        <5> QED  BY <5>1, <5>2
      <4>2. \A o \in Clients : /\ InputPayloads(Frame(o))' = InputPayloads(Frame(o))
                               /\ InputOf(Frame(o))' = InputOf(Frame(o))
        BY <3>5 DEF InputPayloads, InputOf
      <4> QED  BY <1>1, <2>3, <3>5, <4>1, <4>2 DEF InHand
    <3>7. \A o \in Clients : OnlyResizer(o)' => o = c
      BY <3>1 DEF OnlyResizer
    <3>8. SizeInHand'
      BY <1>1, <2>1, <3>5, <3>7 DEF SizeInHand, Up
    <3>9. SnapshotFollows'
      <4>1. \A o \in Clients : conn'[o] \notin Resizing => o # c /\ ~OnlyResizer(o)'
        BY <3>1, <3>7
      <4> QED  BY <4>1 DEF SnapshotFollows, OnlyResizer, Resizing
    <3>10. FramesEncode'
      BY <1>0, <1>1, FramesKeep
    <3> QED  BY <3>2, <3>4, <3>6, <3>8, <3>9, <3>10 DEF SocketIInv
  <2>4. CASE Answered(c, "Internal") /\ conn' = conn
    <3>1. /\ answers' \in [Clients -> Seq(Answers)]
          /\ Len(answers'[c]) = Len(answers[c]) + 1 /\ answers'[c][Len(answers[c]) + 1] = "Internal"
          /\ \A o \in Clients : o # c => answers'[o] = answers[o]
          /\ Extended
          /\ \A o \in Clients : Len(answers'[o]) <= Len(sent'[o])
      BY <1>0, <1>1, <1>3, <2>4, AnsweredIs
    <3>2. SocketShape'
      BY <1>0, <1>1, <2>2, <2>4, <3>1 DEF SocketShape
    <3>3. SilenceIsInput' /\ InputsArrive'
      <4>1. \A o \in Clients :
              \/ Len(answers'[o]) = Len(answers[o])
              \/ /\ Len(answers'[o]) = Len(answers[o]) + 1
                 /\ answers'[o][Len(answers[o]) + 1] # "silent"
        BY <3>1
      <4> QED  BY <1>1, <3>1, <3>2, <4>1, QuietInputs
    <3>4. \A o \in Clients : /\ conn'[o] \in Resizing => o # c
                             /\ conn'[o] \in Waits => conn'[o] = conn[o] /\ answers'[o] = answers[o]
      <4>1. conn'[c] \notin Waits
        BY <1>1, <2>4 DEF Waits
      <4> QED  BY <1>1, <2>4, <3>1, <4>1
    <3>5. InHand'
      BY <3>1, <3>2, <3>4, HandsKeep
    <3>6. PICK k \in Nat : k = Len(answers[c]) + 1 /\ k \in Resizes(c)' /\ answers'[c][k] = "Internal"
      <4>1. PICK k \in Nat : k = Len(answers[c]) + 1 /\ k \in DOMAIN answers'[c]
        BY <1>0, <3>1, <3>2, Lengths, LengthsNext
      <4>2. sent'[c][k] = Frame(c)
        BY <1>1, <4>1 DEF Frame
      <4>3. k \in Resizes(c)'
        BY <1>1, <4>1, <4>2 DEF Resizes
      <4> QED  BY <3>1, <4>1, <4>3
    <3>7. \A o \in Clients : OnlyResizer(o)' => o = c
      BY <3>6 DEF OnlyResizer
    <3>8. SizeInHand'
      BY <3>4, <3>7 DEF SizeInHand
    <3>9. SnapshotFollows'
      <4>1. ~ \A i \in Resizes(c)' : answers'[c][i] \in {"Ack", "InvalidInput"}
        BY <3>6
      <4>2. \A o \in Clients : o # c => ~OnlyResizer(o)'
        BY <3>7
      <4> QED  BY <4>1, <4>2 DEF SnapshotFollows, OnlyResizer, Resizing
    <3>10. FramesEncode'
      BY <1>0, <1>1, FramesKeep
    <3> QED  BY <3>2, <3>3, <3>5, <3>8, <3>9, <3>10 DEF SocketIInv
  <2> QED  BY <2>1, <2>3, <2>4
<1> QED  BY <1>5, <1>6, <1>7 DEF Sizes

\* apply_pty_resize: the resize in hand is answered, and the last size the shell will
\* take is the one that was recorded, unless the PTY is gone.
LEMMA ResizeAnswered ==
  ASSUME SocketIInv, NEW c \in Clients, conn[c] \in Resizing, conn' = [conn EXCEPT ![c] = "open"],
         NEW a \in Answers \ {"silent"}, Answered(c, a),
         resizeq' \in Seq(Sizes), Len(resizeq') <= QueueCap,
         Up => Len(resizeq') # 0 /\ resizeq'[Len(resizeq')] = Frame(c).dim,
         UNCHANGED << sent, live, handshaken, frames, pty, driver, status, snapshot,
                      inputq, stdin, window, missed, output >>
  PROVE  SocketIInv'
<1>0. SocketShape /\ FramesEncode /\ InHand /\ SizeInHand
  BY DEF SocketIInv
<1>2. Len(answers[c]) < Len(sent[c]) /\ Frame(c).type = "Resize" /\ Frame(c).dim \in Sizes
  BY <1>0, ResizingWaits DEF InHand
<1>4. /\ answers' \in [Clients -> Seq(Answers)]
      /\ Len(answers'[c]) = Len(answers[c]) + 1 /\ answers'[c][Len(answers[c]) + 1] = a
      /\ \A o \in Clients : o # c => answers'[o] = answers[o]
      /\ Extended
      /\ \A o \in Clients : Len(answers'[o]) <= Len(sent'[o])
  BY <1>0, <1>2, AnsweredIs
<1>5. /\ conn' \in [Clients -> ConnStates] /\ conn'[c] = "open"
      /\ \A o \in Clients : o # c => conn'[o] = conn[o]
  BY <1>0 DEF SocketShape, ConnStates
<1>6. conn'[c] \notin Waits /\ conn'[c] \notin Resizing
  BY <1>5 DEF Waits, Resizing
<1>7. SocketShape'
  BY <1>0, <1>4, <1>5 DEF SocketShape
<1>8. SilenceIsInput' /\ InputsArrive'
  <2>1. \A o \in Clients :
          \/ Len(answers'[o]) = Len(answers[o])
          \/ /\ Len(answers'[o]) = Len(answers[o]) + 1
             /\ answers'[o][Len(answers[o]) + 1] # "silent"
    BY <1>4
  <2> QED  BY <1>4, <1>7, <2>1, QuietInputs
<1>9. \A o \in Clients : /\ conn'[o] \in Resizing => o # c
                         /\ conn'[o] \in Waits => conn'[o] = conn[o] /\ answers'[o] = answers[o]
  BY <1>4, <1>5, <1>6
<1>10. InHand'
  BY <1>4, <1>7, <1>9, HandsKeep
<1>11. Resizes(c)' # {}
  <2>1. PICK k \in Nat : k = Len(answers[c]) + 1 /\ k \in DOMAIN answers'[c]
    BY <1>0, <1>4, <1>7, Lengths, LengthsNext
  <2>2. sent'[c][k] = Frame(c)
    BY <2>1 DEF Frame
  <2> QED  BY <1>2, <2>1, <2>2 DEF Resizes
<1>12. \A o \in Clients : OnlyResizer(o)' => o = c
  BY <1>11 DEF OnlyResizer
<1>13. SizeInHand'
  BY <1>9, <1>12 DEF SizeInHand
<1>14. SnapshotFollows'
  <2> SUFFICES ASSUME Up', OnlyResizer(c)'
               PROVE  snapshot' = Last(<< window' >> \o resizeq')
    BY <1>12 DEF SnapshotFollows, OnlyResizer, Up, Resizing
  <2>1. OnlyResizer(c)
    <3>1. \A o \in Clients \ {c} : Resizes(o)' = Resizes(o) /\ conn'[o] = conn[o]
      BY <1>4, <1>5 DEF Resizes
    <3> QED  BY <3>1 DEF OnlyResizer
  <2>2. Up
    BY DEF Up
  <2>3. snapshot = Frame(c).dim
    BY <1>0, <2>1, <2>2 DEF SizeInHand
  <2>4. window' \in Sizes
    BY <1>7 DEF SocketShape
  <2>5. Last(<< window' >> \o resizeq') = resizeq'[Len(resizeq')]
    BY <2>2, <2>4, LastIs
  <2> QED  BY <2>2, <2>3, <2>5
<1>15. FramesEncode'
  BY <1>0, FramesKeep
<1> QED  BY <1>7, <1>8, <1>10, <1>13, <1>14, <1>15 DEF SocketIInv

LEMMA ResizeHandleKeeps ==
  ASSUME SocketIInv, NEW c \in Clients, ResizeHandle(c)
  PROVE  SocketIInv'
<1>0. SocketShape /\ InHand
  BY DEF SocketIInv
<1>1. /\ conn[c] = "recorded" /\ conn[c] \in Resizing
      /\ UNCHANGED << sent, live, handshaken, frames, pty, driver, status, snapshot,
                      inputq, resizeq, stdin, window, missed, output >>
  BY DEF ResizeHandle, Resizing
<1>2. CASE pty = "bound"
  <2>1. conn' = [conn EXCEPT ![c] = "resizing"] /\ answers' = answers
    BY <1>2 DEF ResizeHandle
  <2>2. /\ conn' \in [Clients -> ConnStates] /\ conn'[c] = "resizing"
        /\ \A o \in Clients : o # c => conn'[o] = conn[o]
    BY <1>0, <2>1 DEF SocketShape, ConnStates, Waits
  <2>3. \A o \in Clients : conn'[o] \in Resizing <=> conn[o] \in Resizing
    BY <1>1, <2>2 DEF Resizing
  <2>4. \A o \in Clients : conn'[o] \in Waits => conn[o] \in Waits
    BY <1>1, <2>2 DEF Waits
  <2>5. \A o \in Clients : conn'[o] = "writing" => conn[o] = "writing"
    BY <2>2
  <2>6. \A o \in Clients : Frame(o)' = Frame(o)
    BY <1>1, <2>1 DEF Frame
  <2>7. \A o \in Clients : /\ InputPayloads(Frame(o))' = InputPayloads(Frame(o))
                           /\ InputOf(Frame(o))' = InputOf(Frame(o))
    BY <2>6 DEF InputPayloads, InputOf
  <2>8. InHand'
    BY <1>0, <1>1, <2>1, <2>3, <2>4, <2>5, <2>6, <2>7 DEF InHand
  <2>9. status' \in {"active", "closed"}
    BY <1>0, <1>1 DEF SocketShape
  <2> QED  BY <1>1, <2>1, <2>2, <2>3, <2>8, <2>9, HandStepKeeps
<1>3. CASE pty # "bound"
  <2>1. PICK a \in Answers \ {"silent"} : Answered(c, a) /\ conn' = [conn EXCEPT ![c] = "open"]
    BY <1>3 DEF ResizeHandle, Answers
  <2>2. resizeq' \in Seq(Sizes) /\ Len(resizeq') <= QueueCap
    BY <1>0, <1>1 DEF SocketShape
  <2>3. ~Up
    BY <1>3 DEF Up
  <2> QED  BY <1>1, <2>1, <2>2, <2>3, ResizeAnswered
<1> QED  BY <1>2, <1>3

LEMMA ResizeApplyKeeps ==
  ASSUME SocketIInv, NEW c \in Clients, ResizeApply(c)
  PROVE  SocketIInv'
<1>0. SocketShape /\ InHand
  BY DEF SocketIInv
<1>1. /\ conn[c] \in Resizing /\ conn' = [conn EXCEPT ![c] = "open"]
      /\ UNCHANGED << sent, live, handshaken, frames, pty, driver, status, snapshot,
                      inputq, stdin, window, missed, output >>
  BY DEF ResizeApply, Resizing
<1>2. "PtyNotLive" \in Answers \ {"silent"} /\ "Ack" \in Answers \ {"silent"}
  BY DEF Answers
<1>3. resizeq \in Seq(Sizes) /\ Len(resizeq) <= QueueCap /\ Len(resizeq) \in Nat
  BY <1>0, LenProperties DEF SocketShape
<1>4. CASE Len(resizeq) < QueueCap /\ Answered(c, "Ack") /\ resizeq' = Append(resizeq, Frame(c).dim)
  <2>1. Frame(c).dim \in Sizes
    BY <1>0, <1>1 DEF InHand
  <2>2. /\ resizeq' \in Seq(Sizes) /\ Len(resizeq') = Len(resizeq) + 1
        /\ resizeq'[Len(resizeq) + 1] = Frame(c).dim
    BY <1>3, <1>4, <2>1, AppendProperties
  <2>3. Len(resizeq') <= QueueCap /\ Len(resizeq') # 0 /\ resizeq'[Len(resizeq')] = Frame(c).dim
    BY <1>3, <1>4, <2>2, SocketAssumption
  <2> QED  BY <1>1, <1>2, <1>4, <2>2, <2>3, ResizeAnswered
<1>5. CASE BridgeClosed /\ Answered(c, "PtyNotLive") /\ resizeq' = resizeq
  <2>1. ~Up
    BY <1>5 DEF BridgeClosed, Up
  <2>2. resizeq' \in Seq(Sizes) /\ Len(resizeq') <= QueueCap
    BY <1>3, <1>5
  <2> QED  BY <1>1, <1>2, <1>5, <2>1, <2>2, ResizeAnswered
<1> QED  BY <1>4, <1>5 DEF ResizeApply

\* A prefix of the queue holds a prefix of the client's inputs.
LEMMA KeepsGrow ==
  ASSUME NEW X, NEW n \in Nat, NEW m \in Nat, n <= m,
         NEW keep \in [1 .. m -> BOOLEAN], NEW what \in [1 .. m -> X],
         NEW f, Keeps(m, keep, what, f)
  PROVE  IsPrefix(f[n], f[m])
<1>1. PICK S : S = {i \in 0 .. m : i < n \/ IsPrefix(f[n], f[i])}
  OBVIOUS
<1>2. \A i \in 0 .. m : f[i] \in Seq(X)
  BY KeepsTyped
<1>3. IsPrefix(f[n], f[n])
  <2>1. f[n] \in Seq(X)
    BY <1>2
  <2> QED  BY <2>1, PrefixOfSelf
<1>4. 0 \in S
  BY <1>1, <1>3
<1>5. ASSUME NEW i \in 1 .. m, i - 1 \in S PROVE i \in S
  <2>1. i \in 0 .. m /\ i - 1 \in 0 .. m
    OBVIOUS
  <2>2. CASE i < n
    BY <1>1, <2>1, <2>2
  <2>3. CASE i = n
    BY <1>1, <1>3, <2>1, <2>3
  <2>4. CASE i > n
    <3>1. IsPrefix(f[n], f[i - 1])
      BY <1>1, <1>5, <2>4
    <3>2. f[n] \in Seq(X) /\ f[i - 1] \in Seq(X)
      BY <1>2, <2>1
    <3>3. f[i] = IF keep[i] THEN Append(f[i - 1], what[i]) ELSE f[i - 1]
      BY DEF Keeps
    <3>4. \A x \in X : IsPrefix(f[n], Append(f[i - 1], x))
      BY <3>1, <3>2, PrefixGrows
    <3>5. IsPrefix(f[n], f[i])
      BY <3>1, <3>3, <3>4
    <3> QED  BY <1>1, <2>1, <3>5
  <2> QED  BY <2>2, <2>3, <2>4
<1>6. m \in S
  <2>1. m \in 0 .. m
    OBVIOUS
  <2> QED  BY <1>1, <1>4, <1>5, <2>1, UpTo
<1> QED  BY <1>1, <1>6

LEMMA OfClientGrows ==
  ASSUME NEW q \in Seq(Message), NEW r \in Seq(Message), NEW c
  PROVE  IsPrefix(OfClient(q, c), OfClient(q \o r, c))
<1>1. PICK n \in Nat : n = Len(q)
  BY LenProperties
<1>2. PICK q2 : q2 = q \o r
  OBVIOUS
<1>3. PICK m \in Nat : m = Len(q2) /\ n <= m /\ q2 \in Seq(Message) /\ \A i \in 1 .. n : q2[i] = q[i]
  <2>1. q2 \in Seq(Message) /\ Len(q2) = n + Len(r) /\ Len(r) \in Nat
    BY <1>1, <1>2, ConcatProperties, LenProperties
  <2>2. \A i \in 1 .. n + Len(r) : q2[i] = IF i <= n THEN q[i] ELSE r[i - n]
    BY <1>1, <1>2, ConcatProperties
  <2> QED  BY <2>1, <2>2
<1>4. PICK f : Counts(q, n, c, f)
  BY <1>1, OfClientIs
<1>5. PICK g : Counts(q2, m, c, g)
  BY <1>3, OfClientIs
<1>6. Agree(n, Mine(q2, m, c), Mine(q, n, c)) /\ Agree(n, Data(q2, m), Data(q, n))
  BY <1>3 DEF Agree, Mine, Data
<1>7. Keeps(n, Mine(q, n, c), Data(q, n), f) /\ Keeps(m, Mine(q2, m, c), Data(q2, m), g)
  BY <1>4, <1>5 DEF Counts
<1>8. g[n] = f[n]
  BY <1>3, <1>6, <1>7, KeepsSame
<1>9. Mine(q2, m, c) \in [1 .. m -> BOOLEAN] /\ Data(q2, m) \in [1 .. m -> Seq(Byte)]
  <2>1. \A i \in 1 .. m : q2[i] \in Message
    BY <1>3, ElementOfSeq
  <2>2. \A i \in 1 .. m : q2[i].data \in Seq(Byte)
    BY <2>1 DEF Message
  <2> QED  BY <2>2 DEF Mine, Data
<1>10. IsPrefix(g[n], g[m])
  BY <1>3, <1>7, <1>9, KeepsGrow
<1>11. OfClient(q, c) = f[n] /\ OfClient(q2, c) = g[m]
  BY <1>4, <1>5 DEF Counts
<1> QED  BY <1>2, <1>8, <1>10, <1>11

\* The first of a queue moves to the end of what came before.
LEMMA HeadMoves ==
  ASSUME NEW S, NEW s \in Seq(S), NEW q \in Seq(S), q # << >>
  PROVE  /\ Append(s, Head(q)) \in Seq(S) /\ Tail(q) \in Seq(S) /\ Len(Tail(q)) <= Len(q)
         /\ Append(s, Head(q)) \o Tail(q) = s \o q
<1>1. PICK n \in Nat, m \in Nat : n = Len(s) /\ m = Len(q)
  BY LenProperties
<1>2. PICK x, r : x = Head(q) /\ r = Tail(q)
  OBVIOUS
<1>3. x \in S /\ r \in Seq(S) /\ Len(r) = m - 1 /\ m - 1 \in Nat /\ x = q[1]
        /\ \A i \in 1 .. m - 1 : r[i] = q[i + 1]
  BY <1>1, <1>2, HeadTailProperties, EmptySeq, LenProperties
<1>4. PICK t : t = Append(s, x)
  OBVIOUS
<1>5. t \in Seq(S) /\ Len(t) = n + 1 /\ t[n + 1] = x /\ \A i \in 1 .. n : t[i] = s[i]
  BY <1>1, <1>3, <1>4, AppendProperties
<1>6. PICK u, v : u = t \o r /\ v = s \o q
  OBVIOUS
<1>7. /\ u \in Seq(S) /\ Len(u) = n + m
      /\ \A i \in 1 .. n + m : u[i] = IF i <= n + 1 THEN t[i] ELSE r[i - (n + 1)]
  <2>1. /\ u \in Seq(S) /\ Len(u) = Len(t) + Len(r)
        /\ \A i \in 1 .. Len(t) + Len(r) : u[i] = IF i <= Len(t) THEN t[i] ELSE r[i - Len(t)]
    BY <1>3, <1>5, <1>6, ConcatProperties
  <2>2. Len(t) + Len(r) = n + m
    BY <1>3, <1>5
  <2> QED  BY <1>5, <2>1, <2>2
<1>8. /\ v \in Seq(S) /\ Len(v) = n + m
      /\ \A i \in 1 .. n + m : v[i] = IF i <= n THEN s[i] ELSE q[i - n]
  BY <1>1, <1>6, ConcatProperties
<1>9. ASSUME NEW i \in 1 .. n + m PROVE u[i] = v[i]
  <2>1. CASE i <= n
    <3>1. i \in 1 .. n /\ i <= n + 1
      BY <2>1
    <3> QED  BY <1>5, <1>7, <1>8, <2>1, <3>1
  <2>2. CASE i = n + 1
    BY <1>3, <1>5, <1>7, <1>8, <2>2
  <2>3. CASE i > n + 1
    <3>1. i - (n + 1) \in 1 .. m - 1 /\ (i - (n + 1)) + 1 = i - n
      BY <2>3
    <3>2. u[i] = r[i - (n + 1)] /\ v[i] = q[i - n]
      BY <1>7, <1>8, <2>3
    <3>3. r[i - (n + 1)] = q[(i - (n + 1)) + 1]
      BY <1>3, <3>1
    <3> QED  BY <3>1, <3>2, <3>3
  <2> QED  BY <2>1, <2>2, <2>3
<1>10. u = v
  BY <1>7, <1>8, <1>9, SeqEqual
<1>11. Len(r) <= m
  BY <1>3
<1> QED  BY <1>1, <1>2, <1>3, <1>4, <1>5, <1>6, <1>10, <1>11

\* drive_channel.
LEMMA ShellTakesInputKeeps ==
  ASSUME SocketIInv, ShellTakesInput
  PROVE  SocketIInv'
<1>0. SocketShape /\ FramesEncode
  BY DEF SocketIInv
<1>1. /\ inputq # << >> /\ stdin' = Append(stdin, Head(inputq)) /\ inputq' = Tail(inputq)
      /\ UNCHANGED << sent, answers, conn, live, handshaken, frames, pty, driver, status, snapshot,
                      resizeq, window, missed, output >>
  BY DEF ShellTakesInput
<1>2. stdin \in Seq(Message) /\ inputq \in Seq(Message) /\ Len(inputq) <= QueueCap
  BY <1>0 DEF SocketShape
<1>3. /\ stdin' \in Seq(Message) /\ inputq' \in Seq(Message) /\ Len(inputq') <= Len(inputq)
      /\ stdin' \o inputq' = stdin \o inputq
  BY <1>1, <1>2, HeadMoves
<1>4. Len(inputq') <= QueueCap
  <2>1. Len(inputq') \in Nat /\ Len(inputq) \in Nat
    BY <1>2, <1>3, LenProperties
  <2> QED  BY <1>2, <1>3, <2>1, SocketAssumption
<1>5. SocketShape'
  BY <1>0, <1>1, <1>3, <1>4 DEF SocketShape
<1>6. Extended
  BY <1>0, <1>1, UnchangedExtends
<1>7. SilenceIsInput' /\ InputsArrive'
  BY <1>1, <1>3, <1>5, <1>6, QuietInputs
<1>8. InHand' /\ SizeInHand' /\ SnapshotFollows'
  <2>1. Up' => Up
    BY <1>1 DEF Up
  <2> QED  BY <1>1, <1>5, <1>6, <2>1, HandsKeep, SizesKeep
<1>9. FramesEncode'
  BY <1>0, <1>1, FramesKeep
<1> QED  BY <1>5, <1>7, <1>8, <1>9 DEF SocketIInv

LEMMA ShellTakesResizeKeeps ==
  ASSUME SocketIInv, ShellTakesResize
  PROVE  SocketIInv'
<1>0. SocketShape /\ FramesEncode
  BY DEF SocketIInv
<1>1. /\ resizeq # << >> /\ resizeq' = Tail(resizeq)
      /\ \/ window' = Head(resizeq) /\ missed' = missed
         \/ missed' = TRUE /\ window' = window
      /\ UNCHANGED << sent, answers, conn, live, handshaken, frames, pty, driver, status, snapshot,
                      inputq, stdin, output >>
  BY DEF ShellTakesResize
<1>2. PICK n \in Nat : n = Len(resizeq) /\ n <= QueueCap /\ QueueCap \in Nat
  BY <1>0, LenProperties, SocketAssumption DEF SocketShape
<1>3. resizeq \in Seq(Sizes) /\ window \in Sizes /\ missed \in BOOLEAN
  BY <1>0 DEF SocketShape
<1>4. /\ Head(resizeq) \in Sizes /\ Head(resizeq) = resizeq[1] /\ n # 0
      /\ resizeq' \in Seq(Sizes) /\ Len(resizeq') = n - 1
      /\ \A i \in 1 .. n - 1 : resizeq'[i] = resizeq[i + 1]
  BY <1>1, <1>2, <1>3, HeadTailProperties, EmptySeq, LenProperties
<1>5. window' \in Sizes /\ missed' \in BOOLEAN
  BY <1>1, <1>3, <1>4
<1>6. Len(resizeq') <= QueueCap
  BY <1>2, <1>4
<1>7. SocketShape'
  BY <1>0, <1>1, <1>4, <1>5, <1>6 DEF SocketShape
<1>8. Extended
  BY <1>0, <1>1, UnchangedExtends
<1>9. SilenceIsInput' /\ InputsArrive'
  BY <1>1, <1>7, <1>8, QuietInputs
<1>10. ASSUME ~missed'
       PROVE  ~missed /\ Last(<< window' >> \o resizeq') = Last(<< window >> \o resizeq)
  <2>1. window' = Head(resizeq) /\ missed' = missed
    BY <1>1, <1>10
  <2>2. Last(<< window >> \o resizeq) = resizeq[n]
    BY <1>2, <1>3, <1>4, LastIs
  <2>3. Last(<< window' >> \o resizeq') = IF n - 1 = 0 THEN window' ELSE resizeq'[n - 1]
    BY <1>4, <1>5, LastIs
  <2>4. n - 1 # 0 => n - 1 \in 1 .. n - 1 /\ (n - 1) + 1 = n
    BY <1>4
  <2> QED  BY <1>4, <1>10, <2>1, <2>2, <2>3, <2>4
<1>11. InHand' /\ SizeInHand' /\ SnapshotFollows'
  <2>1. Up' => Up
    BY <1>1 DEF Up
  <2> QED  BY <1>1, <1>7, <1>8, <1>10, <2>1, HandsKeep, SizesMove
<1>12. FramesEncode'
  BY <1>0, <1>1, FramesKeep
<1> QED  BY <1>7, <1>9, <1>11, <1>12 DEF SocketIInv

LEMMA ShellExitsKeeps ==
  ASSUME SocketIInv, ShellExits
  PROVE  SocketIInv'
<1>0. SocketShape /\ FramesEncode /\ InHand /\ SilenceIsInput /\ InputsArrive
  BY DEF SocketIInv
<1>1. /\ driver = "running" /\ driver' = "gone" /\ inputq' = << >> /\ resizeq' = << >>
      /\ UNCHANGED << sent, answers, conn, live, handshaken, frames, pty, status, snapshot,
                      stdin, window, missed, output >>
  BY DEF ShellExits
<1>2. /\ inputq' \in Seq(Message) /\ resizeq' \in Seq(Sizes)
      /\ Len(inputq') <= QueueCap /\ Len(resizeq') <= QueueCap
  <2>1. \A S : << >> \in Seq(S) /\ Len(<< >>) = 0
    BY EmptySeq
  <2> QED  BY <1>1, <2>1, SocketAssumption
<1>3. SocketShape'
  BY <1>0, <1>1, <1>2 DEF SocketShape
<1>4. stdin' \o inputq' = stdin
  BY <1>0, <1>1, ConcatEmptySeq DEF SocketShape
<1>5. SilenceIsInput'
  BY <1>0, <1>1 DEF SilenceIsInput
<1>6. InputsArrive'
  <2>1. ASSUME NEW c \in Clients PROVE IsPrefix(OfClient(stdin' \o inputq', c), TakenInputs(c)')
    <3>1. IsPrefix(OfClient(stdin, c), OfClient(stdin \o inputq, c))
      BY <1>0, OfClientGrows DEF SocketShape
    <3>2. OfClient(stdin \o inputq, c) = TakenInputs(c)
      BY <1>0, <1>1 DEF InputsArrive
    <3>3. TakenInputs(c)' = TakenInputs(c)
      BY <1>1 DEF TakenInputs
    <3> QED  BY <1>4, <3>1, <3>2, <3>3
  <2> QED  BY <1>1, <2>1 DEF InputsArrive
<1>7. InHand'
  <2>1. Extended
    BY <1>0, <1>1, UnchangedExtends
  <2> QED  BY <1>1, <1>3, <2>1, HandsKeep
<1>8. SizeInHand' /\ SnapshotFollows'
  BY <1>1 DEF SizeInHand, SnapshotFollows, Up
<1>9. FramesEncode'
  BY <1>0, <1>1, FramesKeep
<1> QED  BY <1>3, <1>5, <1>6, <1>7, <1>8, <1>9 DEF SocketIInv

\* send_binary_output: the frame is the encoding of the output it numbers.
LEMMA ShellPrintsKeeps ==
  ASSUME SocketIInv, NEW data \in OutputData, ShellPrints(data)
  PROVE  SocketIInv'
<1>0. SocketShape /\ FramesEncode
  BY DEF SocketIInv
<1>1. /\ Len(output) < MaxOutput /\ output' = Append(output, data)
      /\ frames' = [c \in Clients |->
                      IF live[c] /\ conn[c] # "ended"
                        THEN SendBinaryOutput(frames[c], Len(output) + 1, data) ELSE frames[c]]
      /\ UNCHANGED << sent, answers, conn, live, handshaken, pty, driver, status, snapshot,
                      inputq, resizeq, stdin, window, missed >>
  BY DEF ShellPrints
<1>2. data \in Seq(Byte)
  BY SocketAssumption
<1>3. PICK n \in Nat, k \in Nat : n = Len(output) /\ k = n + 1 /\ k <= MaxOutput
  <2>1. Len(output) \in Nat /\ MaxOutput \in Nat
    BY <1>0, LenProperties, SocketAssumption DEF SocketShape
  <2> QED  BY <1>1, <2>1
<1>4. /\ output' \in Seq(Seq(Byte)) /\ Len(output') = k /\ output'[k] = data
      /\ \A s \in 1 .. n : output'[s] = output[s]
  BY <1>0, <1>1, <1>2, <1>3, AppendProperties DEF SocketShape
<1>5. PICK buf : buf = Encode([kind |-> "Output", seq |-> k, payload |-> data])
  OBVIOUS
<1>6. ASSUME Len(data) <= MAX_PAYLOAD_LEN PROVE buf \in Seq(Byte)
  <2>1. k < Capacity(SeqWidth)
    <3>1. Capacity(SeqWidth) \in Nat
      BY WidthFacts, CapacityNat
    <3> QED  BY <1>3, <3>1, SocketAssumption
  <2>2. "Output" \in FrameKinds
    BY DEF FrameKinds
  <2> QED  BY <1>2, <1>5, <1>6, <2>1, <2>2, Encoded
<1>7. ASSUME NEW c \in Clients
      PROVE  \/ frames'[c] = frames[c]
             \/ Len(data) <= MAX_PAYLOAD_LEN /\ frames'[c] = Append(frames[c], buf)
  <2>1. frames'[c] = frames[c] \/ frames'[c] = SendBinaryOutput(frames[c], k, data)
    BY <1>1, <1>3
  <2>2. Len(data) \in Nat /\ MAX_PAYLOAD_LEN \in Nat
    BY <1>2, LenProperties, WidthFacts
  <2>3. EncodeFails(data) => SendBinaryOutput(frames[c], k, data) = frames[c]
    BY DEF SendBinaryOutput
  <2>4. ~EncodeFails(data) => SendBinaryOutput(frames[c], k, data) = Append(frames[c], buf)
    BY <1>5 DEF SendBinaryOutput
  <2>5. ~EncodeFails(data) => Len(data) <= MAX_PAYLOAD_LEN
    BY <2>2 DEF EncodeFails
  <2> QED  BY <2>1, <2>3, <2>4, <2>5
<1>8. ASSUME NEW c \in Clients
      PROVE  /\ frames'[c] \in Seq(Seq(Byte))
             /\ \A i \in 1 .. Len(frames'[c]) : \E s \in 1 .. k :
                  /\ Len(output'[s]) <= MAX_PAYLOAD_LEN
                  /\ frames'[c][i] = Encode([kind |-> "Output", seq |-> s, payload |-> output'[s]])
  <2>1. frames[c] \in Seq(Seq(Byte)) /\ Len(frames[c]) \in Nat
    BY <1>0, LenProperties DEF SocketShape
  <2>2. \A i \in 1 .. Len(frames[c]) : \E s \in 1 .. k :
          /\ Len(output'[s]) <= MAX_PAYLOAD_LEN
          /\ frames[c][i] = Encode([kind |-> "Output", seq |-> s, payload |-> output'[s]])
    <3> SUFFICES ASSUME NEW i \in 1 .. Len(frames[c])
                 PROVE  \E s \in 1 .. k :
                          /\ Len(output'[s]) <= MAX_PAYLOAD_LEN
                          /\ frames[c][i] = Encode([kind |-> "Output", seq |-> s, payload |-> output'[s]])
      OBVIOUS
    <3>1. PICK s \in 1 .. n :
            /\ Len(output[s]) <= MAX_PAYLOAD_LEN
            /\ frames[c][i] = Encode([kind |-> "Output", seq |-> s, payload |-> output[s]])
      BY <1>0, <1>3 DEF FramesEncode
    <3>2. s \in 1 .. k /\ output'[s] = output[s]
      BY <1>3, <1>4
    <3> QED  BY <3>1, <3>2
  <2>3. CASE frames'[c] = frames[c]
    BY <2>1, <2>2, <2>3
  <2>4. CASE Len(data) <= MAX_PAYLOAD_LEN /\ frames'[c] = Append(frames[c], buf)
    <3>1. PICK m \in Nat : m = Len(frames[c])
      BY <2>1
    <3>2. /\ frames'[c] \in Seq(Seq(Byte)) /\ Len(frames'[c]) = m + 1 /\ frames'[c][m + 1] = buf
          /\ \A i \in 1 .. m : frames'[c][i] = frames[c][i]
      BY <1>6, <2>1, <2>4, <3>1, AppendProperties
    <3>3. k \in 1 .. k /\ \A i \in 1 .. m + 1 : i \in 1 .. m \/ i = m + 1
      BY <1>3, <3>1
    <3>4. /\ Len(output'[k]) <= MAX_PAYLOAD_LEN
          /\ frames'[c][m + 1] = Encode([kind |-> "Output", seq |-> k, payload |-> output'[k]])
      BY <1>4, <1>5, <2>4, <3>2
    <3> QED  BY <2>2, <3>1, <3>2, <3>3, <3>4
  <2> QED  BY <1>7, <2>3, <2>4
<1>9. frames' \in [Clients -> Seq(Seq(Byte))]
  BY <1>1, <1>8
<1>10. SocketShape'
  BY <1>0, <1>1, <1>3, <1>4, <1>9 DEF SocketShape
<1>11. FramesEncode'
  BY <1>4, <1>8 DEF FramesEncode
<1>12. Extended
  BY <1>0, <1>1, UnchangedExtends
<1>13. SilenceIsInput' /\ InputsArrive'
  BY <1>1, <1>10, <1>12, QuietInputs
<1>14. InHand' /\ SizeInHand' /\ SnapshotFollows'
  <2>1. Up' => Up
    BY <1>1 DEF Up
  <2> QED  BY <1>1, <1>10, <1>12, <2>1, HandsKeep, SizesKeep
<1> QED  BY <1>10, <1>11, <1>13, <1>14 DEF SocketIInv

\* Nothing is sent, answered or queued at first.
LEMMA SocketInitIInv ==
  ASSUME SocketInit
  PROVE  SocketIInv
<1>1. \A S : << >> \in Seq(S) /\ Len(<< >>) = 0
  BY EmptySeq
<1>2. \A c \in Clients : sent[c] = << >> /\ answers[c] = << >> /\ frames[c] = << >> /\ conn[c] = "open"
  BY DEF SocketInit
<1>3. MIN_DIM \in Sizes /\ QueueCap \in Nat /\ MaxOutput \in Nat
  BY SocketAssumption DEF Sizes
<1>4. PICK none : none = << >> /\ Len(none) = 0 /\ \A S : none \in Seq(S)
  BY <1>1
<1>5. SocketShape
  <2>1. /\ sent = [c \in Clients |-> none] /\ answers = [c \in Clients |-> none]
        /\ conn = [c \in Clients |-> "open"] /\ live = [c \in Clients |-> pty = "bound"]
        /\ handshaken = [c \in Clients |-> FALSE] /\ frames = [c \in Clients |-> none]
        /\ pty \in {"stub", "bound"} /\ driver \in {"none", "running"} /\ status = "active" /\ snapshot = MIN_DIM /\ window = MIN_DIM
        /\ inputq = none /\ resizeq = none /\ stdin = none /\ output = none /\ missed = FALSE
    BY <1>4 DEF SocketInit
  <2>2. sent \in [Clients -> Seq(ClientFrames)] /\ answers \in [Clients -> Seq(Answers)]
          /\ frames \in [Clients -> Seq(Seq(Byte))]
    BY <1>4, <2>1
  <2>3. live \in [Clients -> BOOLEAN] /\ handshaken \in [Clients -> BOOLEAN]
    BY <2>1
  <2>4. inputq \in Seq(Message) /\ stdin \in Seq(Message) /\ resizeq \in Seq(Sizes)
          /\ output \in Seq(Seq(Byte))
    BY <1>4, <2>1
  <2>5. Len(inputq) <= QueueCap /\ Len(resizeq) <= QueueCap /\ Len(output) <= MaxOutput
          /\ \A c \in Clients : Len(answers[c]) <= Len(sent[c])
    BY <1>3, <1>4, <2>1
  <2>6. conn \in [Clients -> ConnStates]
    BY <2>1 DEF ConnStates
  <2> QED  BY <1>3, <2>1, <2>2, <2>3, <2>4, <2>5, <2>6 DEF SocketShape
<1>6. InHand
  BY <1>2 DEF InHand, Waits, Resizing
<1>7. SilenceIsInput
  BY <1>2, <1>4 DEF SilenceIsInput, AllInputs
<1>8. FramesEncode
  BY <1>2, <1>4 DEF FramesEncode
<1>9. SizeInHand
  BY <1>2 DEF SizeInHand, Resizing
<1>10. SnapshotFollows
  <2>1. Last(<< window >> \o resizeq) = window /\ snapshot = window
    <3>1. resizeq \in Seq(Sizes) /\ window \in Sizes /\ Len(resizeq) = 0
      BY <1>1, <1>5 DEF SocketShape, SocketInit
    <3> QED  BY <3>1, LastIs DEF SocketInit
  <2> QED  BY <2>1 DEF SnapshotFollows
<1>11. InputsArrive
  <2>1. ASSUME NEW c \in Clients PROVE OfClient(stdin \o inputq, c) = << >> /\ TakenInputs(c) = << >>
    <3>1. PICK q \in Seq(Message) : q = stdin \o inputq /\ Len(q) = 0
      <4>1. stdin = none /\ inputq = none
        BY <1>4 DEF SocketInit
      <4>2. none \in Seq(Message) /\ Len(none) = 0
        BY <1>4
      <4>3. none \o none \in Seq(Message) /\ Len(none \o none) = 0
        BY <4>2, ConcatProperties
      <4> QED  BY <4>1, <4>3
    <3>2. OfClient(q, c) = << >>
      <4>0. 0 \in Nat /\ 0 = Len(q)
        BY <3>1
      <4>1. PICK f : Counts(q, 0, c, f)
        BY <4>0, OfClientIs
      <4> QED  BY <4>1 DEF Counts, Keeps
    <3>3. TakenOf(answers[c], sent[c]) = << >>
      <4>1. PICK an, se : an = answers[c] /\ se = sent[c]
        OBVIOUS
      <4>2. Len(an) = 0 /\ AllInputs(an, se, 0)
        BY <1>2, <1>4, <4>1 DEF AllInputs
      <4>3. PICK f : Takes(an, se, 0, f)
        BY <4>2, TakenOfIs
      <4> QED  BY <4>1, <4>3 DEF Takes, Keeps
    <3> QED  BY <3>1, <3>2, <3>3, TakenIsOf
  <2>2. IsPrefix(<< >>, << >>)
    BY <1>1, PrefixOfSelf
  <2> QED  BY <2>1, <2>2 DEF InputsArrive
<1> QED  BY <1>5, <1>6, <1>7, <1>8, <1>9, <1>10, <1>11 DEF SocketIInv

\* Every step of a socket or of the shell's driver.
LEMMA SocketNextIInv ==
  ASSUME SocketIInv, [SocketNext]_socketVars
  PROVE  SocketIInv'
<1>1. CASE UNCHANGED socketVars
  <2>1. /\ UNCHANGED << sent, answers, conn, live, handshaken, frames, pty, driver, status, snapshot >>
        /\ UNCHANGED << inputq, resizeq, stdin, window, missed, output >>
    BY <1>1 DEF socketVars
  <2>2. SocketShape' /\ FramesEncode'
    BY <2>1 DEF SocketIInv, SocketShape, FramesEncode
  <2>3. Extended
    BY <2>1, UnchangedExtends DEF SocketIInv
  <2>4. SilenceIsInput' /\ InputsArrive'
    BY <2>1, <2>2, <2>3, QuietInputs
  <2>5. InHand' /\ SizeInHand' /\ SnapshotFollows'
    <3>1. Up' => Up
      BY <2>1 DEF Up
    <3> QED  BY <2>1, <2>2, <2>3, <3>1, HandsKeep, SizesKeep
  <2> QED  BY <2>2, <2>4, <2>5 DEF SocketIInv
<1>2. ASSUME NEW c \in Clients,
             \/ \E f \in ClientFrames : ClientSends(c, f)
             \/ Garbage(c) \/ Ping(c) \/ Attach(c) \/ TextInput(c) \/ BinaryFrame(c)
             \/ WriteInput(c) \/ ResizeRecord(c) \/ ResizeHandle(c) \/ ResizeApply(c)
             \/ Detach(c) \/ CloseMarks(c) \/ CloseRemoves(c) \/ SocketEnds(c)
      PROVE  SocketIInv'
  BY <1>2, SendsKeep, QuietHandlers, InputHandlers, WriteInputKeeps, ResizeRecordKeeps,
     ResizeHandleKeeps, ResizeApplyKeeps, CloseKeeps, EndsKeep
<1>3. CASE ShellTakesInput \/ ShellTakesResize \/ ShellExits \/ ForwarderEnds
  BY <1>3, ShellTakesInputKeeps, ShellTakesResizeKeeps, ShellExitsKeeps, ForwarderEndsKeeps
<1>4. CASE \E d \in OutputData : ShellPrints(d)
  BY <1>4, ShellPrintsKeeps
<1> QED  BY <1>1, <1>2, <1>3, <1>4 DEF SocketNext

\* A frame that encodes an output decodes to it.
LEMMA FramesDecode ==
  ASSUME SocketShape, FramesEncode
  PROVE  OutputRoundTrips
<1> SUFFICES ASSUME NEW c \in Clients, NEW i \in DOMAIN frames[c]
             PROVE  /\ DecodeError(frames[c][i]) = "none"
                    /\ Decoded(frames[c][i]).kind = "Output"
                    /\ Decoded(frames[c][i]).seq \in DOMAIN output
                    /\ Decoded(frames[c][i]).payload = output[Decoded(frames[c][i]).seq]
  BY DEF OutputRoundTrips
<1>1. i \in 1 .. Len(frames[c])
  <2>1. frames[c] \in Seq(Seq(Byte))
    BY DEF SocketShape
  <2> QED  BY <2>1, LenProperties
<1>2. PICK s \in 1 .. Len(output) :
        /\ Len(output[s]) <= MAX_PAYLOAD_LEN
        /\ frames[c][i] = Encode([kind |-> "Output", seq |-> s, payload |-> output[s]])
  BY <1>1 DEF FramesEncode
<1>3. output \in Seq(Seq(Byte)) /\ Len(output) \in Nat /\ DOMAIN output = 1 .. Len(output)
        /\ Len(output) <= MaxOutput
  BY LenProperties DEF SocketShape
<1>4. output[s] \in Seq(Byte)
  BY <1>3, ElementOfSeq
<1>5. s \in Nat /\ s < Capacity(SeqWidth)
  <2>1. Capacity(SeqWidth) \in Nat /\ MaxOutput \in Nat /\ MaxOutput < Capacity(SeqWidth)
    BY WidthFacts, CapacityNat, SocketAssumption
  <2> QED  BY <1>3, <2>1
<1>6. "Output" \in FrameKinds
  BY DEF FrameKinds
<1>7. PICK buf, p : buf = frames[c][i] /\ p = output[s]
  OBVIOUS
<1>8. /\ DecodeError(buf) = "none"
      /\ Decoded(buf).kind = "Output" /\ Decoded(buf).seq = s /\ Decoded(buf).payload = p
  BY <1>2, <1>4, <1>5, <1>6, <1>7, FrameRoundTrips
<1> QED  BY <1>3, <1>7, <1>8

LEMMA SocketIsSound ==
  ASSUME SocketIInv
  PROVE  SocketInv /\ InputExact
<1>0. SocketShape /\ FramesEncode /\ SilenceIsInput /\ InputsArrive /\ SnapshotFollows
  BY DEF SocketIInv
<1>1. SocketTypeOK
  <2>1. ASSUME NEW c \in Clients
        PROVE  Len(answers[c]) <= Len(sent[c]) /\ ToSet(answers[c]) \subseteq Answers
                 /\ conn[c] \in ConnStates
    <3>1. Len(answers[c]) <= Len(sent[c]) /\ conn[c] \in ConnStates
      BY <1>0 DEF SocketShape
    <3>2. answers[c] \in Seq(Answers) /\ DOMAIN answers[c] = 1 .. Len(answers[c])
      BY <1>0, Lengths
    <3>3. \A i \in DOMAIN answers[c] : answers[c][i] \in Answers
      BY <3>2, ElementOfSeq
    <3>4. ToSet(answers[c]) = {answers[c][i] : i \in DOMAIN answers[c]}
      BY DEF ToSet
    <3> QED  BY <3>1, <3>3, <3>4
  <2> QED  BY <1>0, <2>1 DEF SocketTypeOK, SocketShape, Sizes, ConnStates
<1>2. OutputRoundTrips
  BY <1>0, FramesDecode
<1>3. InputExact
  <2>1. ASSUME NEW c \in Clients, NEW i \in DOMAIN answers[c], answers[c][i] = "silent"
        PROVE  InputPayloads(sent[c][i]) # {}
    <3>1. i \in 1 .. Len(answers[c])
      BY <1>0, Lengths
    <3>2. IsInput(sent[c][i])
      BY <1>0, <2>1, <3>1 DEF SilenceIsInput, AllInputs
    <3> QED  BY <3>2 DEF IsInput
  <2> QED  BY <1>0, <2>1 DEF InputExact, InputsArrive
<1> QED  BY <1>0, <1>1, <1>2, <1>3 DEF SocketInv

\* What the sockets keep, at every step of every client, handler and shell.
THEOREM SocketInvariant == SocketSpec => []SocketIInv
<1>1. SocketInit => SocketIInv
  BY SocketInitIInv
<1>2. SocketIInv /\ [SocketNext]_socketVars => SocketIInv'
  BY SocketNextIInv
<1> QED  BY <1>1, <1>2, PTL DEF SocketSpec

\* Every binary frame a client receives decodes to the output of the session that it
\* numbers, whole; the size the registry reports is the one the shell has or is about to
\* get when one client resizes and nothing failed; the queues stay within their bounds
\* (encode_binary_frame and decode_binary_frame, send_binary_output, resize_session and
\* apply_pty_resize).
THEOREM SocketsSound == SocketSpec => []SocketInv
<1>1. SocketIInv => SocketInv
  BY SocketIsSound
<1> QED  BY <1>1, SocketInvariant, PTL

\* Inputs that no error answers reach the shell once, whole and in each client's order
\* while its driver runs, the ones sent after a close by a handler that had waited on a
\* full channel included, and only frames an encoder can produce are inputs
\* (handle_text_frame, handle_binary_frame, write_pty_input, write_input, drive_channel).
THEOREM InputsReachShell == SocketSpec => []InputExact
<1>1. SocketIInv => InputExact
  BY SocketIsSound
<1> QED  BY <1>1, SocketInvariant, PTL
=============================================================================
