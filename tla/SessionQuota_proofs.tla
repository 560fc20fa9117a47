------------------------- MODULE SessionQuota_proofs ------------------------
(***************************************************************************)
(* Proofs about the session quotas, for any users, any number of requests  *)
(* and sessions and any ceilings.                                          *)
(*                                                                         *)
(* OverrunBounded adds, for each ceiling, the entries it counts and the    *)
(* requests that have passed its check and are not entries yet.  A step    *)
(* either makes both smaller, or turns one of the requests into one of the *)
(* entries, or is the check itself, which found the count below the        *)
(* ceiling: Settled has these three cases, and SettledBounded says that    *)
(* each of them keeps the sum bounded.  SlotsHeld is what makes the second *)
(* case true: the entry that goes live is charged to the request's user.   *)
(***************************************************************************)
EXTENDS SessionQuota, FiniteSetTheorems, TLAPS

LiveOf(u) == OwnedBy(Live, u)
StartingOf(u) == OwnedBy(Starting, u)
PastOf(step, u) == {r \in Past(step) : req[r].user = u}
PastUser == ToLive \cup {"deployment", "starting"}
PastDeployment == ToLive \cup {"starting"}

Bounded(L, P, max) == Cardinality(L) + Cardinality(P) <= max + (Cardinality(Reqs) - 1)

\* L is what a ceiling counts, P the requests past its check; L2 and P2 the
\* same after a step.
Settled(L, P, L2, P2, max) ==
  \/ L2 \subseteq L /\ P2 \subseteq P
  \/ \E s, r : L2 \subseteq L \cup {s} /\ r \in P /\ P2 \subseteq P \ {r}
  \/ L2 \subseteq L /\ Cardinality(L) < max

SettledAll ==
  /\ \A u \in Users :
       /\ Settled(LiveOf(u), PastOf(PastUser, u), LiveOf(u)', PastOf(PastUser, u)', MaxLivePerUser)
       /\ Settled(StartingOf(u), PastOf(ToStarting, u),
                  StartingOf(u)', PastOf(ToStarting, u)', MaxStartingPerUser)
  /\ Settled(Live, Past(PastDeployment), Live', Past(PastDeployment)', MaxLivePerDeployment)

\* A starting entry is somebody's: StartingHeld without the count.
StartingOwned ==
  \A s \in Starting : s \in closed \/ s \in lost \/ \E r \in Reqs : r \in Holder(s)

Core == TypeOK /\ SlotsHeld /\ StartingOwned
IInv == QuotaInv /\ OverrunBounded

-----------------------------------------------------------------------------
(* Counting *)

LEMMA SettledBounded ==
  ASSUME NEW L, NEW P \in SUBSET Reqs, NEW L2, NEW P2 \in SUBSET Reqs, NEW max \in Nat,
         IsFiniteSet(L), Bounded(L, P, max), Settled(L, P, L2, P2, max)
  PROVE  Bounded(L2, P2, max)
<1>0. /\ IsFiniteSet(Reqs) /\ IsFiniteSet(P) /\ IsFiniteSet(P2)
      /\ Cardinality(L) \in Nat /\ Cardinality(P) \in Nat /\ Cardinality(P2) \in Nat
      /\ Cardinality(Reqs) \in Nat /\ Cardinality(P2) <= Cardinality(Reqs)
  BY QuotaAssumption, FS_Subset, FS_CardinalityType
<1>1. CASE L2 \subseteq L /\ P2 \subseteq P
  <2>1. /\ Cardinality(L2) <= Cardinality(L) /\ IsFiniteSet(L2)
        /\ Cardinality(P2) <= Cardinality(P)
    BY <1>0, <1>1, FS_Subset
  <2>2. Cardinality(L2) \in Nat
    BY <2>1, FS_CardinalityType
  <2> QED  BY <1>0, <2>1, <2>2 DEF Bounded
<1>2. CASE \E s, r : L2 \subseteq L \cup {s} /\ r \in P /\ P2 \subseteq P \ {r}
  <2>0. PICK s, r : L2 \subseteq L \cup {s} /\ r \in P /\ P2 \subseteq P \ {r}
    BY <1>2
  <2>1. /\ IsFiniteSet(L \cup {s}) /\ Cardinality(L \cup {s}) <= Cardinality(L) + 1
        /\ Cardinality(L \cup {s}) \in Nat
    <3>1. /\ IsFiniteSet(L \cup {s})
          /\ Cardinality(L \cup {s}) = IF s \in L THEN Cardinality(L) ELSE Cardinality(L) + 1
      BY FS_AddElement
    <3> QED  BY <1>0, <3>1
  <2>2. Cardinality(L2) <= Cardinality(L \cup {s}) /\ Cardinality(L2) \in Nat
    BY <2>0, <2>1, FS_Subset, FS_CardinalityType
  <2>3. IsFiniteSet(P \ {r}) /\ Cardinality(P \ {r}) = Cardinality(P) - 1
    BY <1>0, <2>0, FS_RemoveElement
  <2>4. Cardinality(P2) <= Cardinality(P) - 1
    BY <2>0, <2>3, FS_Subset
  <2> QED  BY <1>0, <2>1, <2>2, <2>4 DEF Bounded
<1>3. CASE L2 \subseteq L /\ Cardinality(L) < max
  <2>1. Cardinality(L2) <= Cardinality(L) /\ Cardinality(L2) \in Nat
    BY <1>0, <1>3, FS_Subset, FS_CardinalityType
  <2> QED  BY <1>0, <1>3, <2>1 DEF Bounded
<1> QED  BY <1>1, <1>2, <1>3 DEF Settled

LEMMA SessionsFinite ==
  /\ IsFiniteSet(Sessions) /\ IsFiniteSet(Live) /\ IsFiniteSet(Starting)
  /\ \A u : IsFiniteSet(LiveOf(u)) /\ IsFiniteSet(StartingOf(u))
<1>1. IsFiniteSet(Sessions)
  BY QuotaAssumption, FS_Interval DEF Sessions
<1> QED  BY <1>1, FS_Subset DEF Live, Starting, LiveOf, StartingOf, OwnedBy

LEMMA OverrunAsBounded ==
  OverrunBounded <=>
    /\ \A u \in Users :
         /\ Bounded(LiveOf(u), PastOf(PastUser, u), MaxLivePerUser)
         /\ Bounded(StartingOf(u), PastOf(ToStarting, u), MaxStartingPerUser)
    /\ Bounded(Live, Past(PastDeployment), MaxLivePerDeployment)
  BY DEF OverrunBounded, Bounded, count_live_pty_for_user, count_live_pty_total,
         count_starting_for_user, Of, PastOf, PastUser, PastDeployment, LiveOf, StartingOf

LEMMA OverrunStep ==
  ASSUME OverrunBounded, SettledAll
  PROVE  OverrunBounded'
<1>0. /\ {MaxLivePerUser, MaxLivePerDeployment, MaxStartingPerUser} \subseteq Nat
      /\ \A step : Past(step) \subseteq Reqs /\ Past(step)' \subseteq Reqs
      /\ \A step, u : PastOf(step, u) \subseteq Reqs /\ PastOf(step, u)' \subseteq Reqs
  BY QuotaAssumption DEF Past, PastOf
<1>1. ASSUME NEW u \in Users
      PROVE  /\ Bounded(LiveOf(u)', PastOf(PastUser, u)', MaxLivePerUser)
             /\ Bounded(StartingOf(u)', PastOf(ToStarting, u)', MaxStartingPerUser)
  <2>1. /\ Bounded(LiveOf(u), PastOf(PastUser, u), MaxLivePerUser)
        /\ Bounded(StartingOf(u), PastOf(ToStarting, u), MaxStartingPerUser)
    BY OverrunAsBounded
  <2>2. /\ Settled(LiveOf(u), PastOf(PastUser, u), LiveOf(u)', PastOf(PastUser, u)', MaxLivePerUser)
        /\ Settled(StartingOf(u), PastOf(ToStarting, u),
                  StartingOf(u)', PastOf(ToStarting, u)', MaxStartingPerUser)
    BY DEF SettledAll
  <2>3. IsFiniteSet(LiveOf(u)) /\ IsFiniteSet(StartingOf(u))
    BY SessionsFinite
  <2>4. Bounded(LiveOf(u)', PastOf(PastUser, u)', MaxLivePerUser)
    BY <1>0, <2>1, <2>2, <2>3, SettledBounded
  <2>5. Bounded(StartingOf(u)', PastOf(ToStarting, u)', MaxStartingPerUser)
    BY <1>0, <2>1, <2>2, <2>3, SettledBounded
  <2> QED  BY <2>4, <2>5
<1>2. Bounded(Live', Past(PastDeployment)', MaxLivePerDeployment)
  <2>1. /\ Bounded(Live, Past(PastDeployment), MaxLivePerDeployment)
        /\ Settled(Live, Past(PastDeployment), Live', Past(PastDeployment)', MaxLivePerDeployment)
    BY OverrunAsBounded DEF SettledAll
  <2> QED  BY <1>0, <2>1, SessionsFinite, SettledBounded
<1>3. /\ \A u \in Users : Bounded(LiveOf(u), PastOf(PastUser, u), MaxLivePerUser)'
      /\ \A u \in Users : Bounded(StartingOf(u), PastOf(ToStarting, u), MaxStartingPerUser)'
      /\ Bounded(Live, Past(PastDeployment), MaxLivePerDeployment)'
  BY <1>1, <1>2 DEF Bounded
<1>4. OverrunBounded' <=>
    /\ \A u \in Users :
         /\ Bounded(LiveOf(u), PastOf(PastUser, u), MaxLivePerUser)'
         /\ Bounded(StartingOf(u), PastOf(ToStarting, u), MaxStartingPerUser)'
    /\ Bounded(Live, Past(PastDeployment), MaxLivePerDeployment)'
  BY DEF OverrunBounded, Bounded, count_live_pty_for_user, count_live_pty_total,
         count_starting_for_user, Of, PastOf, PastUser, PastDeployment, LiveOf, StartingOf
<1> QED  BY <1>3, <1>4

LEMMA StartingHeldIffOwned ==
  ASSUME TypeOK, SlotsHeld
  PROVE  StartingHeld <=> StartingOwned
<1>1. ASSUME NEW s \in Starting
      PROVE  Cardinality(Holder(s)) = 1 <=> \E r \in Reqs : r \in Holder(s)
  <2>1. IsFiniteSet(Holder(s)) /\ Holder(s) \subseteq Reqs
    BY QuotaAssumption, FS_Subset DEF Holder
  <2>2. \A q, r \in Holder(s) : q = r
    BY DEF SlotsHeld, Starting, Sessions, Holder
  <2>3. CASE Holder(s) = {}
    <3>1. Cardinality(Holder(s)) = 0
      BY <2>3, FS_EmptySet
    <3> QED  BY <2>3, <3>1
  <2>4. CASE \E r \in Reqs : r \in Holder(s)
    <3>1. PICK r : r \in Holder(s)
      BY <2>4
    <3>2. Holder(s) = {r}
      BY <2>2, <3>1
    <3> QED  BY <2>4, <3>2, FS_Singleton
  <2> QED  BY <2>1, <2>3, <2>4
<1> QED  BY <1>1 DEF StartingHeld, StartingOwned

-----------------------------------------------------------------------------
(* The steps, each by what it does to the entries and to the requests *)

Same == entry' = entry /\ owner' = owner
Quiet == UNCHANGED << registry, rows, faults >>

LEMMA InitCore ==
  Init => Core
<1> SUFFICES ASSUME Init PROVE Core
  OBVIOUS
<1> USE QuotaAssumption DEF Init, Idle, Steps, Checks, Phases, Binding, Starts, Holding
<1>1. TypeOK
  BY DEF TypeOK
<1>2. SlotsHeld
  BY DEF SlotsHeld
<1>3. StartingOwned
  BY DEF StartingOwned, Starting
<1> QED  BY <1>1, <1>2, <1>3 DEF Core

LEMMA InitOverrun ==
  Init => OverrunBounded
<1> SUFFICES ASSUME Init PROVE OverrunBounded
  OBVIOUS
<1>1. /\ Live = {} /\ Starting = {} /\ \A u : LiveOf(u) = {} /\ StartingOf(u) = {}
  BY DEF Init, Live, Starting, LiveOf, StartingOf, OwnedBy
<1>2. /\ Past(PastDeployment) = {} /\ Past(PastUser) = {} /\ Past(ToStarting) = {}
  BY DEF Init, Idle, Past, PastDeployment, PastUser, ToLive, ToStarting, Starts, Binding, Phases
<1>3. \A u : PastOf(PastUser, u) = {} /\ PastOf(ToStarting, u) = {}
  BY <1>2 DEF PastOf
<1>4. Cardinality({}) = 0 /\ Cardinality(Reqs) \in Nat
  BY QuotaAssumption, FS_EmptySet, FS_CardinalityType
<1>5. \A max \in Nat \ {0} : Bounded({}, {}, max)
  BY <1>4 DEF Bounded
<1> QED  BY <1>1, <1>2, <1>3, <1>5, QuotaAssumption, OverrunAsBounded

\* Nothing the quotas look at changes, or requests only leave.
LEMMA LeaveSettled ==
  ASSUME TypeOK, NEW r \in Reqs, Same, Done(r)
  PROVE  SettledAll
<1>1. Live' = Live /\ Starting' = Starting
  BY DEF Same, Live, Starting
<1>2. \A u : LiveOf(u)' = LiveOf(u) /\ StartingOf(u)' = StartingOf(u)
  BY <1>1 DEF Same, LiveOf, StartingOf, OwnedBy
<1>3. \A q \in Reqs : req'[q] = req[q] \/ req'[q] = Idle
  BY DEF Done, TypeOK
<1>4. /\ Past(PastDeployment)' \subseteq Past(PastDeployment)
      /\ \A u : /\ PastOf(PastUser, u)' \subseteq PastOf(PastUser, u)
                /\ PastOf(ToStarting, u)' \subseteq PastOf(ToStarting, u)
  BY <1>3 DEF Past, PastOf, PastUser, PastDeployment, ToLive, ToStarting, Starts, Binding, Phases, Idle
<1> QED  BY <1>1, <1>2, <1>4 DEF SettledAll, Settled

LEMMA BeginStep ==
  ASSUME Core, NEW r \in Reqs, NEW u \in Users, Begin(r, u)
  PROVE  Core' /\ SettledAll
<1> USE DEF Begin, Idle
<1>0. TypeOK /\ SlotsHeld /\ StartingOwned /\ Same /\ Quiet
  BY DEF Core, Same, Quiet, registry
<1>1. TypeOK'
  <2>1. 0 \in 0 .. MaxSessions
    BY QuotaAssumption
  <2>2. [Idle EXCEPT !.pc = "user", !.user = u]
          \in [pc : Steps, user : Users \cup {None}, session : 0 .. MaxSessions]
    BY <2>1 DEF Steps, Checks
  <2> QED  BY <1>0, <2>2 DEF TypeOK, Quiet, registry, rows
<1>2. SlotsHeld'
  BY <1>0, QuotaAssumption DEF SlotsHeld, TypeOK, Holding, Starts, Binding, Phases, Same
<1>3. StartingOwned'
  <2>1. \A q \in Reqs : req[q].pc \in Starts => req'[q] = req[q]
    BY <1>0 DEF TypeOK, Starts, Binding, Phases
  <2>3. Starting' = Starting /\ closed' = closed /\ lost' = lost
    BY <1>0 DEF Starting, Same, Quiet, rows
  <2>4. ASSUME NEW t \in Starting
        PROVE  t \in closed \/ t \in lost \/ \E q \in Reqs : req'[q].session = t /\ req'[q].pc \in Starts
    <3>1. CASE t \in closed \/ t \in lost
      BY <3>1
    <3>2. CASE \E q \in Reqs : q \in Holder(t)
      <4>1. PICK q \in Reqs : req[q].session = t /\ req[q].pc \in Starts
        BY <3>2 DEF Holder
      <4>2. req'[q] = req[q]
        BY <2>1, <4>1
      <4> QED  BY <4>1, <4>2
    <3> QED  BY <1>0, <3>1, <3>2 DEF StartingOwned
  <2> QED  BY <2>3, <2>4 DEF StartingOwned, Holder
<1>4. Live' = Live /\ Starting' = Starting /\ \A v : LiveOf(v)' = LiveOf(v) /\ StartingOf(v)' = StartingOf(v)
  BY <1>0 DEF Live, Starting, LiveOf, StartingOf, OwnedBy, Same
<1>5. \A q \in Reqs : req'[q] = req[q] \/ req'[q].pc = "user"
  BY <1>0 DEF TypeOK
<1>6. /\ Past(PastDeployment)' \subseteq Past(PastDeployment)
      /\ \A v : /\ PastOf(PastUser, v)' \subseteq PastOf(PastUser, v)
                /\ PastOf(ToStarting, v)' \subseteq PastOf(ToStarting, v)
  BY <1>5 DEF Past, PastOf, PastUser, PastDeployment, ToLive, ToStarting, Starts, Binding, Phases
<1> QED  BY <1>1, <1>2, <1>3, <1>4, <1>6 DEF Core, SettledAll, Settled

\* A request ends; the session it held, if it still counts as starting, has a
\* closed row or is booked as lost.
LEMMA DoneCore ==
  ASSUME Core, NEW r \in Reqs, Same, Done(r), UNCHANGED << expiring, ended, closed, closing >>,
         lost \subseteq lost', lost' \subseteq Sessions, faults' \in 0 .. MaxFaults,
         r \in Holder(req[r].session) /\ req[r].session \in Starting
           => req[r].session \in closed \cup lost'
  PROVE  Core'
<1> USE DEF Done, Same, Idle
<1>0. TypeOK /\ SlotsHeld /\ StartingOwned
  BY DEF Core
<1>1. TypeOK'
  BY <1>0, QuotaAssumption DEF TypeOK, Steps
<1>2. SlotsHeld'
  BY <1>0, QuotaAssumption DEF SlotsHeld, TypeOK, Holding, Starts, Binding, Phases
<1>3. StartingOwned'
  <2>1. ASSUME NEW s \in Starting, s \notin closed, s \notin lost'
        PROVE  \E q \in Reqs : req'[q].session = s /\ req'[q].pc \in Starts
    <3>1. PICK q \in Reqs : q \in Holder(s)
      BY <1>0, <2>1 DEF StartingOwned
    <3>2. q # r
      BY <2>1, <3>1 DEF Holder
    <3>3. req'[q] = req[q]
      BY <1>0, <3>2 DEF TypeOK
    <3> QED  BY <3>1, <3>3 DEF Holder
  <2> QED  BY <2>1 DEF StartingOwned, Starting, Holder
<1> QED  BY <1>1, <1>2, <1>3 DEF Core

LEMMA GoChanges ==
  ASSUME TypeOK, NEW r \in Reqs, NEW step, Go(r, step)
  PROVE  /\ req'[r].pc = step /\ req'[r].user = req[r].user /\ req'[r].session = req[r].session
         /\ \A q \in Reqs : q # r => req'[q] = req[q]
  BY DEF Go, TypeOK

\* A request moves to step; the rows may change, but no row is opened again
\* that is not the request's own.
LEMMA GoCore ==
  ASSUME Core, NEW r \in Reqs, NEW step, Same, Go(r, step),
         UNCHANGED << expiring, ended, closing, lost, faults >>,
         closed' \subseteq Sessions,
         closed \subseteq closed' \/ (req[r].pc \in Starts /\ closed \ {req[r].session} \subseteq closed'),
         \/ req[r].pc \in Checks /\ step \in Checks \cup {"register"}
         \/ req[r].pc \in Starts /\ step \in Starts
  PROVE  Core'
<1> USE DEF Same
<1>0. TypeOK /\ SlotsHeld /\ StartingOwned
  BY DEF Core
<1>1. TypeOK'
  BY <1>0, QuotaAssumption DEF TypeOK, Steps, Checks, Holding, Starts, Go
<1>2. /\ req'[r].pc = step /\ req'[r].user = req[r].user /\ req'[r].session = req[r].session
      /\ \A q \in Reqs : q # r => req'[q] = req[q]
  BY <1>0, GoChanges
<1>3. SlotsHeld'
  <2>1. step \in Holding <=> req[r].pc \in Holding
    BY DEF Checks, Holding, Starts, Binding, Phases
  <2>2. step # "idle" /\ req[r].pc # "idle"
    BY DEF Checks, Starts, Binding, Phases
  <2> QED  BY <1>0, <1>2, <2>1, <2>2 DEF SlotsHeld
<1>4. StartingOwned'
  <2>1. \A q \in Reqs : req[q].session = req'[q].session /\ (req[q].pc \in Starts => req'[q].pc \in Starts)
    BY <1>2 DEF Checks, Starts, Binding, Phases
  <2> QED  BY <1>0, <2>1 DEF StartingOwned, Starting, Holder
<1> QED  BY <1>1, <1>3, <1>4 DEF Core

LEMMA CheckUserStep ==
  ASSUME Core, NEW r \in Reqs, CheckUser(r)
  PROVE  Core' /\ SettledAll
<1> DEFINE full == count_live_pty_for_user(req[r].user) >= MaxLivePerUser
<1>0. TypeOK /\ req[r].pc = "user" /\ Same /\ Quiet
  BY DEF Core, CheckUser, Same, Quiet, registry
<1>1. CASE full
  <2>1. Done(r)
    BY <1>1 DEF CheckUser
  <2>2. Core'
    BY <1>0, <2>1, DoneCore DEF Quiet, registry, rows, Holder, Starts, Binding, Phases, TypeOK
  <2> QED  BY <1>0, <2>1, <2>2, LeaveSettled
<1>2. CASE ~full
  <2>1. Go(r, "deployment")
    BY <1>2 DEF CheckUser
  <2>2. Core'
    BY <1>0, <2>1, GoCore DEF Checks, Quiet, registry, rows, TypeOK
  <2>3. /\ Live' = Live /\ Starting' = Starting
        /\ \A u : LiveOf(u)' = LiveOf(u) /\ StartingOf(u)' = StartingOf(u)
    BY <1>0 DEF Same, Live, Starting, LiveOf, StartingOf, OwnedBy
  <2>4. /\ req'[r].pc = "deployment" /\ req'[r].user = req[r].user
        /\ \A q \in Reqs : q # r => req'[q] = req[q]
    BY <1>0, <2>1, GoChanges
  <2>5. /\ Past(PastDeployment)' \subseteq Past(PastDeployment)
        /\ \A u : PastOf(ToStarting, u)' \subseteq PastOf(ToStarting, u)
        /\ \A u : u # req[r].user => PastOf(PastUser, u)' \subseteq PastOf(PastUser, u)
    BY <2>4 DEF Past, PastOf, PastUser, PastDeployment, ToLive, ToStarting, Starts, Binding, Phases
  <2>6. Cardinality(LiveOf(req[r].user)) < MaxLivePerUser
    <3>1. Cardinality(LiveOf(req[r].user)) \in Nat
      BY SessionsFinite, FS_CardinalityType
    <3> QED  BY <1>2, <3>1, QuotaAssumption DEF count_live_pty_for_user, LiveOf
  <2> QED  BY <2>2, <2>3, <2>5, <2>6 DEF SettledAll, Settled
<1> QED  BY <1>1, <1>2

LEMMA CheckDeploymentStep ==
  ASSUME Core, NEW r \in Reqs, CheckDeployment(r)
  PROVE  Core' /\ SettledAll
<1> DEFINE full == count_live_pty_total >= MaxLivePerDeployment
<1>0. TypeOK /\ req[r].pc = "deployment" /\ Same /\ Quiet
  BY DEF Core, CheckDeployment, Same, Quiet, registry
<1>1. CASE full
  <2>1. Done(r)
    BY <1>1 DEF CheckDeployment
  <2>2. Core'
    BY <1>0, <2>1, DoneCore DEF Quiet, registry, rows, Holder, Starts, Binding, Phases, TypeOK
  <2> QED  BY <1>0, <2>1, <2>2, LeaveSettled
<1>2. CASE ~full
  <2>1. Go(r, "starting")
    BY <1>2 DEF CheckDeployment
  <2>2. Core'
    BY <1>0, <2>1, GoCore DEF Checks, Quiet, registry, rows, TypeOK
  <2>3. /\ Live' = Live /\ Starting' = Starting
        /\ \A u : LiveOf(u)' = LiveOf(u) /\ StartingOf(u)' = StartingOf(u)
    BY <1>0 DEF Same, Live, Starting, LiveOf, StartingOf, OwnedBy
  <2>4. /\ req'[r].pc = "starting" /\ req'[r].user = req[r].user
        /\ \A q \in Reqs : q # r => req'[q] = req[q]
    BY <1>0, <2>1, GoChanges
  <2>5. /\ \A u : PastOf(ToStarting, u)' \subseteq PastOf(ToStarting, u)
        /\ \A u : PastOf(PastUser, u)' \subseteq PastOf(PastUser, u)
    BY <1>0, <2>4 DEF Past, PastOf, PastUser, ToLive, ToStarting, Starts, Binding, Phases
  <2>6. Cardinality(Live) < MaxLivePerDeployment
    <3>1. Cardinality(Live) \in Nat
      BY SessionsFinite, FS_CardinalityType
    <3> QED  BY <1>2, <3>1, QuotaAssumption DEF count_live_pty_total
  <2> QED  BY <2>2, <2>3, <2>5, <2>6 DEF SettledAll, Settled
<1> QED  BY <1>1, <1>2

LEMMA CheckStartingStep ==
  ASSUME Core, NEW r \in Reqs, CheckStarting(r)
  PROVE  Core' /\ SettledAll
<1> DEFINE full == count_starting_for_user(req[r].user) >= MaxStartingPerUser
<1>0. TypeOK /\ req[r].pc = "starting" /\ Same /\ Quiet
  BY DEF Core, CheckStarting, Same, Quiet, registry
<1>1. CASE full
  <2>1. Done(r)
    BY <1>1 DEF CheckStarting
  <2>2. Core'
    BY <1>0, <2>1, DoneCore DEF Quiet, registry, rows, Holder, Starts, Binding, Phases, TypeOK
  <2> QED  BY <1>0, <2>1, <2>2, LeaveSettled
<1>2. CASE ~full
  <2>1. Go(r, "register")
    BY <1>2 DEF CheckStarting
  <2>2. Core'
    BY <1>0, <2>1, GoCore DEF Checks, Quiet, registry, rows, TypeOK
  <2>3. /\ Live' = Live /\ Starting' = Starting
        /\ \A u : LiveOf(u)' = LiveOf(u) /\ StartingOf(u)' = StartingOf(u)
    BY <1>0 DEF Same, Live, Starting, LiveOf, StartingOf, OwnedBy
  <2>4. /\ req'[r].pc = "register" /\ req'[r].user = req[r].user
        /\ \A q \in Reqs : q # r => req'[q] = req[q]
    BY <1>0, <2>1, GoChanges
  <2>5. /\ Past(PastDeployment)' \subseteq Past(PastDeployment)
        /\ \A u : PastOf(PastUser, u)' \subseteq PastOf(PastUser, u)
        /\ \A u : u # req[r].user => PastOf(ToStarting, u)' \subseteq PastOf(ToStarting, u)
    BY <1>0, <2>4 DEF Past, PastOf, PastUser, PastDeployment, ToLive, ToStarting, Starts, Binding, Phases
  <2>6. Cardinality(StartingOf(req[r].user)) < MaxStartingPerUser
    <3>1. Cardinality(StartingOf(req[r].user)) \in Nat
      BY SessionsFinite, FS_CardinalityType
    <3> QED  BY <1>2, <3>1, QuotaAssumption DEF count_starting_for_user, StartingOf
  <2> QED  BY <2>2, <2>3, <2>5, <2>6 DEF SettledAll, Settled
<1> QED  BY <1>1, <1>2

\* The request gets a session of its own that nobody else knows.
LEMMA InsertRowStep ==
  ASSUME Core, NEW r \in Reqs, InsertRow(r)
  PROVE  Core' /\ SettledAll
<1>0. TypeOK /\ SlotsHeld /\ StartingOwned
  BY DEF Core
<1>1. PICK s \in Sessions :
        /\ req[r].pc = "register" /\ Unused(s)
        /\ ended' = ended \ {s} /\ closed' = closed \ {s} /\ lost' = lost \ {s}
        /\ req' = [req EXCEPT ![r].pc = "enter", ![r].session = s]
        /\ UNCHANGED << entry, owner, expiring, closing, faults >>
  BY DEF InsertRow
<1>2. s \in 0 .. MaxSessions /\ s # 0
  BY QuotaAssumption DEF Sessions
<1>3. /\ req'[r].pc = "enter" /\ req'[r].session = s /\ req'[r].user = req[r].user
      /\ \A q \in Reqs : q # r => req'[q] = req[q]
  BY <1>0, <1>1 DEF TypeOK
<1>4. TypeOK'
  <2>1. req' \in [Reqs -> [pc : Steps, user : Users \cup {None}, session : 0 .. MaxSessions]]
    <3>1. "enter" \in Steps
      BY DEF Steps, Holding
    <3>2. [req[r] EXCEPT !.pc = "enter", !.session = s]
            \in [pc : Steps, user : Users \cup {None}, session : 0 .. MaxSessions]
      BY <1>0, <1>2, <3>1 DEF TypeOK
    <3>3. req' = [req EXCEPT ![r] = [req[r] EXCEPT !.pc = "enter", !.session = s]]
      BY <1>0, <1>1 DEF TypeOK
    <3> QED  BY <1>0, <3>2, <3>3 DEF TypeOK
  <2> QED  BY <1>0, <1>1, <2>1 DEF TypeOK
<1>5. entry[s] = "none" /\ \A q \in Reqs : req[q].session # s
  BY <1>1 DEF Unused
<1>6. SlotsHeld'
  <2>1. req[r].user \in Users
    BY <1>0, <1>1 DEF SlotsHeld
  <2>2. \A q \in Reqs : /\ req'[q].pc # "idle" => req'[q].user \in Users
                        /\ req'[q].session # 0 <=> req'[q].pc \in Holding
    BY <1>0, <1>2, <1>3, <2>1 DEF SlotsHeld, Holding
  <2>3. \A q \in Reqs : req'[q].session # 0 /\ entry'[req'[q].session] # "none"
                         => owner'[req'[q].session] = req'[q].user
    BY <1>0, <1>1, <1>3, <1>5 DEF SlotsHeld
  <2>4. \A q, t \in Reqs : q # t /\ req'[q].session = req'[t].session => req'[t].session = 0
    BY <1>0, <1>3, <1>5 DEF SlotsHeld
  <2> QED  BY <2>2, <2>3, <2>4 DEF SlotsHeld
<1>7. StartingOwned'
  <2>1. \A t \in Starting : t # s
    BY <1>5 DEF Starting
  <2>2. \A q \in Reqs : req[q].pc \in Starts => req'[q] = req[q]
    BY <1>1, <1>3 DEF Starts, Binding, Phases
  <2>4. Starting' = Starting
    BY <1>1 DEF Starting
  <2>5. ASSUME NEW t \in Starting
        PROVE  t \in closed' \/ t \in lost' \/ \E q \in Reqs : req'[q].session = t /\ req'[q].pc \in Starts
    <3>1. CASE t \in closed \/ t \in lost
      BY <1>1, <2>1, <3>1
    <3>2. CASE \E q \in Reqs : q \in Holder(t)
      <4>1. PICK q \in Reqs : req[q].session = t /\ req[q].pc \in Starts
        BY <3>2 DEF Holder
      <4>2. req'[q] = req[q]
        BY <2>2, <4>1
      <4> QED  BY <4>1, <4>2
    <3> QED  BY <1>0, <3>1, <3>2 DEF StartingOwned
  <2> QED  BY <2>4, <2>5 DEF StartingOwned, Holder
<1>8. Live' = Live /\ Starting' = Starting /\ \A u : LiveOf(u)' = LiveOf(u) /\ StartingOf(u)' = StartingOf(u)
  BY <1>1 DEF Live, Starting, LiveOf, StartingOf, OwnedBy
<1>9. /\ Past(PastDeployment)' \subseteq Past(PastDeployment)
      /\ \A u : PastOf(PastUser, u)' \subseteq PastOf(PastUser, u)
      /\ \A u : PastOf(ToStarting, u)' \subseteq PastOf(ToStarting, u)
  BY <1>1, <1>3 DEF Past, PastOf, PastUser, PastDeployment, ToLive, ToStarting, Starts, Binding, Phases
<1> QED  BY <1>4, <1>6, <1>7, <1>8, <1>9 DEF Core, SettledAll, Settled

\* The request becomes an entry of its user, and is no longer on its way to one.
LEMMA InsertEntryStep ==
  ASSUME Core, NEW r \in Reqs, InsertEntry(r)
  PROVE  Core' /\ SettledAll
<1> DEFINE s == req[r].session
<1>0. TypeOK /\ SlotsHeld /\ StartingOwned
  BY DEF Core
<1>1. /\ req[r].pc = "enter" /\ Go(r, "connect") /\ UNCHANGED << expiring, ended, rows, faults >>
      /\ owner' = [owner EXCEPT ![s] = req[r].user]
      /\ entry' = [entry EXCEPT ![s] = "starting"]
  BY DEF InsertEntry
<1>2. s \in Sessions /\ s # 0
  BY <1>0, <1>1, QuotaAssumption DEF SlotsHeld, TypeOK, Sessions, Holding
<1>3. /\ req'[r].pc = "connect" /\ req'[r].user = req[r].user /\ req'[r].session = s
      /\ \A q \in Reqs : q # r => req'[q] = req[q]
  BY <1>0, <1>1, GoChanges
<1>4. /\ owner'[s] = req[r].user /\ entry'[s] = "starting"
      /\ \A t \in Sessions : t # s => owner'[t] = owner[t] /\ entry'[t] = entry[t]
  BY <1>0, <1>1, <1>2 DEF TypeOK
<1>5. TypeOK'
  <2>1. entry' \in [Sessions -> {"none", "starting", "live", "ended"}]
    BY <1>0, <1>1 DEF TypeOK
  <2>2. owner' \in [Sessions -> Users \cup {None}]
    BY <1>0, <1>1 DEF TypeOK
  <2>3. req' \in [Reqs -> [pc : Steps, user : Users \cup {None}, session : 0 .. MaxSessions]]
    BY <1>0, <1>1 DEF Go, TypeOK, Steps, Holding, Starts, Phases
  <2> QED  BY <1>0, <1>1, <2>1, <2>2, <2>3 DEF TypeOK, rows
<1>6. SlotsHeld'
  <2>1. \A q \in Reqs : req'[q].session = req[q].session /\ req'[q].user = req[q].user
    BY <1>3
  <2>2. \A q \in Reqs : req[q].session \in Sessions \cup {0}
    BY <1>0, QuotaAssumption DEF TypeOK, Sessions
  <2>3. \A q \in Reqs : /\ req'[q].pc # "idle" => req'[q].user \in Users
                        /\ req'[q].session # 0 <=> req'[q].pc \in Holding
    BY <1>0, <1>1, <1>2, <1>3 DEF SlotsHeld, Holding, Starts, Phases
  <2>4. \A q, t \in Reqs : q # t /\ req'[q].session = req'[t].session => req'[t].session = 0
    BY <1>0, <2>1 DEF SlotsHeld
  <2>5. \A q \in Reqs : req'[q].session # 0 /\ entry'[req'[q].session] # "none"
                         => owner'[req'[q].session] = req'[q].user
    BY <1>0, <1>2, <1>3, <1>4, <2>1, <2>2, <2>4 DEF SlotsHeld
  <2> QED  BY <2>3, <2>4, <2>5 DEF SlotsHeld
<1>7. StartingOwned'
  <2>1. closed' = closed /\ lost' = lost
    BY <1>1 DEF rows
  <2>2. ASSUME NEW t \in Sessions, entry'[t] = "starting"
        PROVE  t \in closed \/ t \in lost \/ \E q \in Reqs : req'[q].session = t /\ req'[q].pc \in Starts
    <3>1. CASE t = s
      BY <1>3, <3>1 DEF Starts, Phases
    <3>2. CASE t # s
      <4>1. t \in Starting
        BY <1>4, <2>2, <3>2 DEF Starting
      <4>2. \A q \in Reqs : req[q].session = t => req'[q] = req[q]
        BY <1>3, <3>2
      <4> QED  BY <1>0, <4>1, <4>2 DEF StartingOwned, Holder
    <3> QED  BY <3>1, <3>2
  <2> QED  BY <2>1, <2>2 DEF StartingOwned, Starting, Holder
<1>8. Live' \subseteq Live /\ Starting' \subseteq Starting \cup {s}
  BY <1>2, <1>4 DEF Live, Starting
<1>9. \A u : /\ LiveOf(u)' \subseteq LiveOf(u) /\ StartingOf(u)' \subseteq StartingOf(u) \cup {s}
             /\ u # req[r].user => StartingOf(u)' \subseteq StartingOf(u)
  BY <1>2, <1>4 DEF LiveOf, StartingOf, OwnedBy, Live, Starting
<1>10. /\ Past(PastDeployment)' \subseteq Past(PastDeployment)
       /\ \A u : PastOf(PastUser, u)' \subseteq PastOf(PastUser, u)
       /\ \A u : PastOf(ToStarting, u)' \subseteq PastOf(ToStarting, u) \ {r}
       /\ r \in PastOf(ToStarting, req[r].user)
  BY <1>1, <1>3 DEF Past, PastOf, PastUser, PastDeployment, ToLive, ToStarting, Starts, Binding, Phases
<1> QED  BY <1>5, <1>6, <1>7, <1>8, <1>9, <1>10 DEF Core, SettledAll, Settled

\* A request that goes on with its start, and touches no entry.
LEMMA StartsSettled ==
  ASSUME TypeOK, NEW r \in Reqs, NEW step \in Starts, req[r].pc \in Starts, Same, Go(r, step)
  PROVE  SettledAll
<1>1. /\ Live' = Live /\ Starting' = Starting
      /\ \A u : LiveOf(u)' = LiveOf(u) /\ StartingOf(u)' = StartingOf(u)
  BY DEF Same, Live, Starting, LiveOf, StartingOf, OwnedBy
<1>2. /\ req'[r].pc = step /\ req'[r].user = req[r].user
      /\ \A q \in Reqs : q # r => req'[q] = req[q]
  BY GoChanges
<1>3. /\ Past(PastDeployment)' \subseteq Past(PastDeployment)
      /\ \A u : PastOf(PastUser, u)' \subseteq PastOf(PastUser, u)
      /\ \A u : PastOf(ToStarting, u)' \subseteq PastOf(ToStarting, u)
  BY <1>2 DEF Past, PastOf, PastUser, PastDeployment, ToLive, ToStarting, Starts, Binding, Phases
<1> QED  BY <1>1, <1>3 DEF SettledAll, Settled

LEMMA AnsweredStep ==
  ASSUME Core, NEW r \in Reqs, NEW step \in Phases, Answered(r, step)
  PROVE  Core' /\ SettledAll
<1>0. TypeOK /\ req[r].pc = step /\ Same /\ Quiet /\ Go(r, NextPhase(step))
  BY DEF Core, Answered, Same, Quiet, registry
<1>1. NextPhase(step) \in Starts /\ step \in Starts
  BY DEF NextPhase, Starts, Binding, Phases
<1>2. Core'
  BY <1>0, <1>1, GoCore DEF Quiet, registry, rows, TypeOK
<1> QED  BY <1>0, <1>1, <1>2, StartsSettled

\* The request still holds the session, which is no longer starting.
LEMMA StartFailedStep ==
  ASSUME Core, NEW r \in Reqs, NEW step \in Phases, StartFailed(r, step)
  PROVE  Core' /\ SettledAll
<1> DEFINE s == req[r].session
<1>0. TypeOK /\ SlotsHeld /\ StartingOwned
  BY DEF Core
<1>1. /\ req[r].pc = step /\ Go(r, "record") /\ UNCHANGED << owner, expiring, ended, rows, faults >>
      /\ entry' = [entry EXCEPT ![s] = IF entry[s] = "none" THEN "none" ELSE "ended"]
  BY DEF StartFailed
<1>2. s \in Sessions /\ s # 0
  BY <1>0, <1>1, QuotaAssumption DEF SlotsHeld, TypeOK, Sessions, Holding, Starts
<1>3. /\ req'[r].pc = "record" /\ req'[r].user = req[r].user /\ req'[r].session = s
      /\ \A q \in Reqs : q # r => req'[q] = req[q]
  BY <1>0, <1>1, GoChanges
<1>4. /\ entry'[s] \in {"none", "ended"} /\ (entry'[s] = "none" <=> entry[s] = "none")
      /\ \A t \in Sessions : t # s => entry'[t] = entry[t]
  BY <1>0, <1>1, <1>2 DEF TypeOK
<1>5. TypeOK'
  <2>1. entry' \in [Sessions -> {"none", "starting", "live", "ended"}]
    BY <1>0, <1>1 DEF TypeOK
  <2>2. req' \in [Reqs -> [pc : Steps, user : Users \cup {None}, session : 0 .. MaxSessions]]
    BY <1>0, <1>1 DEF Go, TypeOK, Steps, Holding
  <2> QED  BY <1>0, <1>1, <2>1, <2>2 DEF TypeOK, rows
<1>6. SlotsHeld'
  <2>1. \A q \in Reqs : req'[q].session = req[q].session /\ req'[q].user = req[q].user
    BY <1>3
  <2>2. \A q \in Reqs : req[q].session \in Sessions \cup {0}
    BY <1>0, QuotaAssumption DEF TypeOK, Sessions
  <2>3. \A q \in Reqs : /\ req'[q].pc # "idle" => req'[q].user \in Users
                        /\ req'[q].session # 0 <=> req'[q].pc \in Holding
    BY <1>0, <1>1, <1>2, <1>3 DEF SlotsHeld, Holding, Starts, Phases
  <2>4. \A q \in Reqs : req'[q].session # 0 /\ entry'[req'[q].session] # "none"
                         => owner'[req'[q].session] = req'[q].user
    BY <1>0, <1>1, <1>2, <1>4, <2>1, <2>2 DEF SlotsHeld
  <2>5. \A q, t \in Reqs : q # t /\ req'[q].session = req'[t].session => req'[t].session = 0
    BY <1>0, <2>1 DEF SlotsHeld
  <2> QED  BY <2>3, <2>4, <2>5 DEF SlotsHeld
<1>7. StartingOwned'
  <2>1. ASSUME NEW t \in Sessions, entry'[t] = "starting"
        PROVE  t # s /\ t \in Starting /\ Holder(t) \subseteq Holder(t)'
    <3>1. t # s /\ entry[t] = "starting"
      BY <1>4, <2>1
    <3>2. \A q \in Reqs : req[q].session = t => req'[q] = req[q]
      BY <1>3, <3>1
    <3> QED  BY <3>1, <3>2 DEF Holder, Starting
  <2> QED  BY <1>0, <1>1, <2>1 DEF StartingOwned, Starting, rows, Remove
<1>8. /\ Live' \subseteq Live /\ Starting' \subseteq Starting
      /\ \A u : LiveOf(u)' \subseteq LiveOf(u) /\ StartingOf(u)' \subseteq StartingOf(u)
  BY <1>1, <1>2, <1>4 DEF Live, Starting, LiveOf, StartingOf, OwnedBy
<1>9. /\ Past(PastDeployment)' \subseteq Past(PastDeployment)
      /\ \A u : PastOf(PastUser, u)' \subseteq PastOf(PastUser, u)
      /\ \A u : PastOf(ToStarting, u)' \subseteq PastOf(ToStarting, u)
  BY <1>1, <1>3 DEF Past, PastOf, PastUser, PastDeployment, ToLive, ToStarting, Starts, Binding, Phases
<1> QED  BY <1>5, <1>6, <1>7, <1>8, <1>9 DEF Core, SettledAll, Settled

LEMMA StartReadStep ==
  ASSUME Core, NEW r \in Reqs, StartRead(r)
  PROVE  Core' /\ SettledAll
<1> DEFINE s == req[r].session
<1>0. TypeOK /\ req[r].pc = "start" /\ Same /\ Quiet
  BY DEF Core, StartRead, Same, Quiet, registry
<1>1. CASE s \in closed \/ entry[s] = "none"
  <2>1. Done(r)
    BY <1>1 DEF StartRead
  <2>2. Core'
    BY <1>0, <1>1, <2>1, DoneCore DEF Quiet, registry, rows, Starting, TypeOK
  <2> QED  BY <1>0, <2>1, <2>2, LeaveSettled
<1>2. CASE ~(s \in closed \/ entry[s] = "none")
  <2>1. Go(r, "mark") /\ "mark" \in Starts /\ "start" \in Starts
    BY <1>2 DEF StartRead, Starts, Binding
  <2>2. Core'
    BY <1>0, <2>1, GoCore DEF Quiet, registry, rows, TypeOK
  <2> QED  BY <1>0, <2>1, <2>2, StartsSettled
<1> QED  BY <1>1, <1>2

LEMMA StartMarkStep ==
  ASSUME Core, NEW r \in Reqs, StartMark(r)
  PROVE  Core' /\ SettledAll
<1>0. TypeOK /\ Same /\ Go(r, "install") /\ req[r].pc = "mark" /\ closed' = closed \ {req[r].session}
  BY DEF Core, StartMark, Same, registry
<1>1. "install" \in Starts /\ "mark" \in Starts
  BY DEF Starts, Binding
<1>2. Core'
  BY <1>0, <1>1, GoCore DEF StartMark, registry, TypeOK
<1> QED  BY <1>0, <1>1, <1>2, StartsSettled

\* The entry goes live, charged to the user whose request leaves.
LEMMA StartInstallStep ==
  ASSUME Core, NEW r \in Reqs, StartInstall(r)
  PROVE  Core' /\ SettledAll
<1> DEFINE s == req[r].session
<1>0. TypeOK /\ SlotsHeld /\ StartingOwned
  BY DEF Core
<1>1. /\ req[r].pc = "install" /\ Done(r) /\ UNCHANGED << owner, expiring, ended, rows, faults >>
      /\ entry' = [entry EXCEPT ![s] = IF entry[s] = "none" THEN "none" ELSE "live"]
  BY DEF StartInstall
<1>2. s \in Sessions /\ s # 0
  BY <1>0, <1>1, QuotaAssumption DEF SlotsHeld, TypeOK, Sessions, Holding, Starts, Binding
<1>3. /\ req'[r] = Idle /\ \A q \in Reqs : q # r => req'[q] = req[q]
  BY <1>0, <1>1 DEF Done, TypeOK
<1>4. /\ entry'[s] \in {"none", "live"} /\ (entry'[s] = "none" <=> entry[s] = "none")
      /\ \A t \in Sessions : t # s => entry'[t] = entry[t]
  BY <1>0, <1>1, <1>2 DEF TypeOK
<1>5. TypeOK'
  <2>1. 0 \in 0 .. MaxSessions
    BY QuotaAssumption
  <2> QED  BY <1>0, <1>1, <2>1 DEF Done, Idle, TypeOK, Steps, rows
<1>6. SlotsHeld'
  <2>2. \A q \in Reqs : req[q].session \in Sessions \cup {0}
    BY <1>0, QuotaAssumption DEF TypeOK, Sessions
  <2>3. \A q \in Reqs : /\ req'[q].pc # "idle" => req'[q].user \in Users
                        /\ req'[q].session # 0 <=> req'[q].pc \in Holding
    BY <1>0, <1>3 DEF SlotsHeld, Holding, Starts, Binding, Phases, Idle
  <2>4. \A q \in Reqs : req'[q].session # 0 /\ entry'[req'[q].session] # "none"
                         => owner'[req'[q].session] = req'[q].user
    BY <1>0, <1>1, <1>3, <1>4, <2>2 DEF SlotsHeld, Idle
  <2>5. \A q, t \in Reqs : q # t /\ req'[q].session = req'[t].session => req'[t].session = 0
    BY <1>0, <1>3 DEF SlotsHeld, Idle
  <2> QED  BY <2>3, <2>4, <2>5 DEF SlotsHeld
<1>7. StartingOwned'
  <2>1. ASSUME NEW t \in Sessions, entry'[t] = "starting"
        PROVE  t # s /\ t \in Starting /\ Holder(t) \subseteq Holder(t)'
    <3>1. t # s /\ entry[t] = "starting"
      BY <1>4, <2>1
    <3>2. \A q \in Reqs : req[q].session = t => req'[q] = req[q]
      BY <1>3, <3>1
    <3> QED  BY <3>1, <3>2 DEF Holder, Starting
  <2> QED  BY <1>0, <1>1, <2>1 DEF StartingOwned, Starting, rows, Remove
<1>8. entry[s] # "none" => owner[s] = req[r].user
  BY <1>0, <1>2 DEF SlotsHeld
<1>9. /\ Live' \subseteq Live \cup {s} /\ Starting' \subseteq Starting
      /\ \A u : LiveOf(u)' \subseteq LiveOf(u) \cup {s} /\ StartingOf(u)' \subseteq StartingOf(u)
  BY <1>1, <1>2, <1>4 DEF Live, Starting, LiveOf, StartingOf, OwnedBy
<1>10. \A u : u # req[r].user => LiveOf(u)' \subseteq LiveOf(u)
  BY <1>1, <1>2, <1>4, <1>8 DEF Live, LiveOf, OwnedBy
<1>11. /\ Past(PastDeployment)' \subseteq Past(PastDeployment) \ {r} /\ r \in Past(PastDeployment)
       /\ \A u : PastOf(PastUser, u)' \subseteq PastOf(PastUser, u) \ {r}
       /\ r \in PastOf(PastUser, req[r].user)
       /\ \A u : PastOf(ToStarting, u)' \subseteq PastOf(ToStarting, u)
  BY <1>1, <1>3 DEF Past, PastOf, PastUser, PastDeployment, ToLive, ToStarting, Starts, Binding, Phases, Idle
<1>12. Settled(Live, Past(PastDeployment), Live', Past(PastDeployment)', MaxLivePerDeployment)
  BY <1>9, <1>11 DEF Settled
<1> QED  BY <1>5, <1>6, <1>7, <1>9, <1>10, <1>11, <1>12 DEF Core, SettledAll, Settled

\* runtimes.remove, whoever calls it: the entry leaves every count.
LEMMA RemoveEntry ==
  ASSUME TypeOK, NEW s \in Sessions, Remove(s)
  PROVE  /\ entry'[s] = "none" /\ \A t \in Sessions : t # s => entry'[t] = entry[t] /\ owner'[t] = owner[t]
         /\ Live' \subseteq Live /\ Starting' \subseteq Starting
         /\ \A u : LiveOf(u)' \subseteq LiveOf(u) /\ StartingOf(u)' \subseteq StartingOf(u)
<1>1. entry'[s] = "none" /\ \A t \in Sessions : t # s => entry'[t] = entry[t] /\ owner'[t] = owner[t]
  BY DEF Remove, TypeOK
<1> QED  BY <1>1 DEF Live, Starting, LiveOf, StartingOf, OwnedBy

LEMMA RemoveStep ==
  ASSUME Core, NEW s \in Sessions, Remove(s), closed \ {s} \subseteq closed',
         closed' \subseteq Sessions, closing' \subseteq Sessions, UNCHANGED << req, faults >>
  PROVE  Core' /\ SettledAll
<1>0. TypeOK /\ SlotsHeld /\ StartingOwned
  BY DEF Core
<1>1. TypeOK'
  BY <1>0, QuotaAssumption DEF TypeOK, Remove
<1>2. \A q \in Reqs : req[q].session \in Sessions \cup {0}
  BY <1>0, QuotaAssumption DEF TypeOK, Sessions
<1>3. SlotsHeld'
  BY <1>0, <1>2, RemoveEntry DEF SlotsHeld
<1>4. StartingOwned'
  BY <1>0, RemoveEntry DEF StartingOwned, Starting, Holder, Remove
<1>5. \A step, u : Past(step)' = Past(step) /\ PastOf(step, u)' = PastOf(step, u)
  BY DEF Past, PastOf
<1> QED  BY <1>0, <1>1, <1>3, <1>4, <1>5, RemoveEntry DEF Core, SettledAll, Settled

LEMMA RecordFailedStep ==
  ASSUME Core, NEW r \in Reqs, RecordFailed(r)
  PROVE  Core' /\ SettledAll
<1> DEFINE s == req[r].session
<1>0. TypeOK /\ SlotsHeld /\ StartingOwned
  BY DEF Core
<1>a. CASE s \in closed
  <2>1. Same /\ Quiet /\ Done(r) /\ req[r].pc = "record"
    BY <1>a DEF RecordFailed, Same, Quiet, registry, rows
  <2>2. Core'
    BY <1>0, <1>a, <2>1, DoneCore DEF Quiet, registry, rows, TypeOK
  <2> QED  BY <1>0, <2>1, <2>2, LeaveSettled
<1>b. SUFFICES ASSUME s \notin closed
               PROVE  Core' /\ SettledAll
  BY <1>a
<1>1. req[r].pc = "record" /\ Remove(s) /\ Done(r) /\ UNCHANGED << closed, closing, faults >>
  BY <1>b DEF RecordFailed
<1>2. s \in Sessions /\ s # 0
  BY <1>0, <1>1, QuotaAssumption DEF SlotsHeld, TypeOK, Sessions, Holding
<1>3. /\ req'[r] = Idle /\ \A q \in Reqs : q # r => req'[q] = req[q]
  BY <1>0, <1>1 DEF Done, TypeOK
<1>4. /\ entry'[s] = "none" /\ \A t \in Sessions : t # s => entry'[t] = entry[t] /\ owner'[t] = owner[t]
      /\ Live' \subseteq Live /\ Starting' \subseteq Starting
      /\ \A u : LiveOf(u)' \subseteq LiveOf(u) /\ StartingOf(u)' \subseteq StartingOf(u)
  BY <1>0, <1>1, <1>2, RemoveEntry
<1>5. TypeOK'
  <2>1. 0 \in 0 .. MaxSessions
    BY QuotaAssumption
  <2> QED  BY <1>0, <1>1, <2>1 DEF Done, Idle, Remove, TypeOK, Steps
<1>6. SlotsHeld'
  <2>2. \A q \in Reqs : req[q].session \in Sessions \cup {0}
    BY <1>0, QuotaAssumption DEF TypeOK, Sessions
  <2>3. \A q \in Reqs : /\ req'[q].pc # "idle" => req'[q].user \in Users
                        /\ req'[q].session # 0 <=> req'[q].pc \in Holding
    BY <1>0, <1>3 DEF SlotsHeld, Holding, Starts, Binding, Phases, Idle
  <2>4. \A q \in Reqs : req'[q].session # 0 /\ entry'[req'[q].session] # "none"
                         => owner'[req'[q].session] = req'[q].user
    BY <1>0, <1>3, <1>4, <2>2 DEF SlotsHeld, Idle
  <2>5. \A q, t \in Reqs : q # t /\ req'[q].session = req'[t].session => req'[t].session = 0
    BY <1>0, <1>3 DEF SlotsHeld, Idle
  <2> QED  BY <2>3, <2>4, <2>5 DEF SlotsHeld
<1>7. StartingOwned'
  <2>1. ASSUME NEW t \in Sessions, entry'[t] = "starting"
        PROVE  t # s /\ t \in Starting /\ Holder(t) \subseteq Holder(t)'
    <3>1. t # s /\ entry[t] = "starting"
      BY <1>4, <2>1
    <3>2. \A q \in Reqs : req[q].session = t => req'[q] = req[q]
      BY <1>3, <3>1
    <3> QED  BY <3>1, <3>2 DEF Holder, Starting
  <2> QED  BY <1>0, <1>1, <2>1 DEF StartingOwned, Starting, rows, Remove
<1>8. /\ Past(PastDeployment)' \subseteq Past(PastDeployment)
      /\ \A u : PastOf(PastUser, u)' \subseteq PastOf(PastUser, u)
      /\ \A u : PastOf(ToStarting, u)' \subseteq PastOf(ToStarting, u)
  BY <1>3 DEF Past, PastOf, PastUser, PastDeployment, ToLive, ToStarting, Starts, Binding, Phases, Idle
<1> QED  BY <1>4, <1>5, <1>6, <1>7, <1>8 DEF Core, SettledAll, Settled

LEMMA FaultStep ==
  ASSUME Core, NEW r \in Reqs, Fault(r)
  PROVE  Core' /\ SettledAll
<1>1. TypeOK /\ Same /\ Done(r) /\ UNCHANGED << expiring, ended, closed, closing >>
  BY DEF Core, Fault, Same, registry
<1>2. lost' = lost \cup ({req[r].session} \cap Starting) /\ lost' \subseteq Sessions
  BY <1>1 DEF Fault, TypeOK, Starting
<1>3. faults' \in 0 .. MaxFaults
  BY <1>1, QuotaAssumption DEF Fault, TypeOK
<1>4. Core'
  BY <1>1, <1>2, <1>3, DoneCore
<1> QED  BY <1>1, <1>4, LeaveSettled

\* A step that moves neither an entry nor a request, and opens no row.
LEMMA StillStep ==
  ASSUME Core, UNCHANGED << entry, owner, req >>, closed \subseteq closed', lost' = lost, TypeOK'
  PROVE  Core' /\ SettledAll
<1>1. SlotsHeld' /\ StartingOwned'
  BY DEF Core, SlotsHeld, StartingOwned, Starting, Holder
<1>2. SettledAll
  <2>1. /\ Live' = Live /\ Starting' = Starting
        /\ \A u : LiveOf(u)' = LiveOf(u) /\ StartingOf(u)' = StartingOf(u)
    BY DEF Live, Starting, LiveOf, StartingOf, OwnedBy
  <2>2. \A step, u : Past(step)' = Past(step) /\ PastOf(step, u)' = PastOf(step, u)
    BY DEF Past, PastOf
  <2> QED  BY <2>1, <2>2 DEF SettledAll, Settled
<1> QED  BY <1>1, <1>2 DEF Core

LEMMA CloseMarkStep ==
  ASSUME Core, NEW s \in Sessions, CloseMark(s), UNCHANGED << req, faults >>
  PROVE  Core' /\ SettledAll
<1>0. TypeOK
  BY DEF Core
<1>1. CASE s \in closed
  BY <1>0, <1>1, RemoveStep DEF CloseMark, Forget, TypeOK
<1>2. CASE s \notin closed
  <2>1. /\ UNCHANGED << entry, owner, ended, lost, req, faults >> /\ closed' = closed \cup {s}
        /\ closing' = closing \cup {s} /\ expiring' = expiring \ {s}
    BY <1>2 DEF CloseMark
  <2>2. TypeOK'
    BY <1>0, <2>1 DEF TypeOK
  <2> QED  BY <2>1, <2>2, StillStep
<1> QED  BY <1>1, <1>2

LEMMA SessionStep ==
  ASSUME Core, NEW s \in Sessions,
         \/ Attach(s) \/ Detach(s) \/ PtyEnds(s)
         \/ Close(s) \/ Expire(s) \/ CloseRemove(s) \/ CloseFails(s)
  PROVE  Core' /\ SettledAll
<1>0. TypeOK
  BY DEF Core
<1>1. CASE Attach(s) \/ Detach(s) \/ PtyEnds(s)
  <2>1. TypeOK' /\ UNCHANGED << entry, owner, req >> /\ closed \subseteq closed' /\ lost' = lost
    BY <1>0, <1>1 DEF TypeOK, Attach, Detach, PtyEnds, rows
  <2> QED  BY <2>1, StillStep
<1>2. CASE CloseFails(s)
  <2>1. UNCHANGED << registry, closed, lost, req >> /\ closing' \subseteq closing /\ faults' \in 0 .. MaxFaults
    BY <1>0, <1>2, QuotaAssumption DEF CloseFails, TypeOK
  <2>2. TypeOK'
    BY <1>0, <2>1 DEF TypeOK, registry
  <2> QED  BY <2>1, <2>2, StillStep DEF registry
<1>3. CASE Close(s) \/ Expire(s)
  BY <1>3, CloseMarkStep DEF Close, Expire
<1>4. CASE CloseRemove(s)
  BY <1>0, <1>4, RemoveStep DEF CloseRemove, Forget, TypeOK
<1> QED  BY <1>1, <1>2, <1>3, <1>4

LEMMA CoreStep ==
  ASSUME Core, [Next]_vars
  PROVE  Core' /\ SettledAll
<1>1. ASSUME NEW r \in Reqs, NEW u \in Users, Begin(r, u)
      PROVE  Core' /\ SettledAll
  BY <1>1, BeginStep
<1>2. ASSUME NEW r \in Reqs, Local(r)
      PROVE  Core' /\ SettledAll
  BY <1>2, CheckUserStep, CheckDeploymentStep, CheckStartingStep, InsertRowStep, InsertEntryStep,
     StartReadStep, StartMarkStep, StartInstallStep, RecordFailedStep DEF Local
<1>3. ASSUME NEW r \in Reqs, NEW step \in Phases, Answered(r, step) \/ StartFailed(r, step)
      PROVE  Core' /\ SettledAll
  BY <1>3, AnsweredStep, StartFailedStep
<1>4. ASSUME NEW r \in Reqs, Fault(r)
      PROVE  Core' /\ SettledAll
  BY <1>4, FaultStep
<1>5. ASSUME NEW s \in Sessions,
             \/ Attach(s) \/ Detach(s) \/ PtyEnds(s)
             \/ Close(s) \/ Expire(s) \/ CloseRemove(s) \/ CloseFails(s)
      PROVE  Core' /\ SettledAll
  BY <1>5, SessionStep
<1>6. CASE UNCHANGED vars
  <2>1. TypeOK' /\ UNCHANGED << entry, owner, req, closed, lost >>
    BY <1>6 DEF vars, Core, TypeOK
  <2> QED  BY <2>1, StillStep
<1> QED  BY <1>1, <1>2, <1>3, <1>4, <1>5, <1>6 DEF Next, Timed, Phases

-----------------------------------------------------------------------------
(* Theorems *)

\* At every moment a session that counts as starting has its create request at
\* work, or a closed row, or lost its request to a fault; it counts against that
\* request's user; and the requests that overlap overrun a ceiling by at most
\* the other requests.
THEOREM QuotaInvariant == Spec => []IInv
<1>1. Init => Core /\ OverrunBounded
  BY InitCore, InitOverrun
<1>2. Core /\ OverrunBounded /\ [Next]_vars => (Core /\ OverrunBounded)'
  BY CoreStep, OverrunStep
<1>3. Core /\ OverrunBounded => IInv
  BY StartingHeldIffOwned DEF Core, IInv, QuotaInv
<1> QED  BY <1>1, <1>2, <1>3, PTL DEF Spec

\* create counts, awaits and only then registers: the ceilings are overrun by
\* no more than the requests in flight, whatever their number.
THEOREM QuotaOverrunBounded == Spec => []OverrunBounded
<1>1. IInv => OverrunBounded
  BY DEF IInv
<1> QED  BY <1>1, QuotaInvariant, PTL

\* No failed start leaves a starting slot behind (create_session, start_live_pty,
\* record_pty_start_failed).  A start that a close overtakes may, and then the row
\* is closed, so that the next close_session sweeps the entry; and no slot is
\* charged to a user other than the one who asked.
THEOREM StartingSlotsHeld == Spec => []QuotaInv
<1>1. IInv => QuotaInv
  BY DEF IInv
<1> QED  BY <1>1, QuotaInvariant, PTL
=============================================================================
