-------------------------- MODULE Inventory_proofs --------------------------
(***************************************************************************)
(* Proofs about the inventory routes, for any users, rows and number of    *)
(* concurrent requests.                                                    *)
(*                                                                         *)
(* InventoryInv is inductive.  A request only ever drops the head of its   *)
(* list of statements (Advanced), so what it relies on splits in two: what *)
(* its own lookups told it, RefsHold, which no other request can disturb,  *)
(* and what it needs the tables to say still, RowsHold, which holds        *)
(* because the tables change in few ways (Steady): an audit stays, a       *)
(* deleted row stays deleted, and pins and sessions go only with their     *)
(* row.                                                                    *)
(***************************************************************************)
EXTENDS Inventory, SequenceTheorems, TLAPS

IInv == InventoryInv /\ DeletionAudited

-----------------------------------------------------------------------------
(* The statements a request has still to run *)

LEMMA TailOf ==
  ASSUME NEW s \in Seq(Steps), s # << >>
  PROVE  /\ Tail(s) \in Seq(Steps) /\ Head(s) = s[1] /\ Head(s) \in Steps /\ 1 \in DOMAIN s
         /\ \A i \in DOMAIN Tail(s) : i + 1 \in DOMAIN s /\ Tail(s)[i] = s[i + 1]
         /\ \A i \in DOMAIN s : i = 1 \/ i - 1 \in DOMAIN Tail(s)
         /\ DOMAIN s \subseteq Nat \ {0}
  OBVIOUS

LEMMA HeadFirst ==
  ASSUME NEW q \in Requests, q.todo # << >>, InOrder(q), NEW step, Has(q, step)
  PROVE  step = Head(q.todo) \/ Rank(q.kind, Head(q.todo)) < Rank(q.kind, step)
<1>1. q.todo \in Seq(Steps)
  BY DEF Requests
<1>2. PICK i \in DOMAIN q.todo : q.todo[i] = step
  BY DEF Has
<1>3. i = 1 \/ 1 < i
  BY <1>1, TailOf
<1> QED  BY <1>1, <1>2, <1>3, TailOf DEF InOrder

\* The part of q2 that says what is left to do is q's without its head.
Dropped(q, q2) ==
  /\ q.todo # << >> /\ q2.todo = Tail(q.todo) /\ q2.todo # << >>
  /\ q2.kind = q.kind /\ q2.user = q.user /\ q2.id = q.id /\ q2.barred = q.barred

LEMMA DroppedOrder ==
  ASSUME NEW q \in Requests, NEW q2 \in Requests, Dropped(q, q2), InOrder(q)
  PROVE  /\ InOrder(q2)
         /\ \A step : Has(q, step) <=> step = Head(q.todo) \/ Has(q2, step)
         /\ \A step : Has(q2, step) => Rank(q.kind, Head(q.todo)) < Rank(q.kind, step)
<1>1. q.todo \in Seq(Steps) /\ q.todo # << >> /\ q2.todo = Tail(q.todo) /\ q2.kind = q.kind
  BY DEF Requests, Dropped
<1>2. InOrder(q2)
  <2>1. SUFFICES ASSUME NEW i \in DOMAIN Tail(q.todo), NEW j \in DOMAIN Tail(q.todo), i < j
                 PROVE  Rank(q.kind, Tail(q.todo)[i]) < Rank(q.kind, Tail(q.todo)[j])
    BY <1>1 DEF InOrder
  <2>2. /\ i + 1 \in DOMAIN q.todo /\ Tail(q.todo)[i] = q.todo[i + 1]
        /\ j + 1 \in DOMAIN q.todo /\ Tail(q.todo)[j] = q.todo[j + 1]
    BY <1>1, TailOf
  <2>3. i + 1 < j + 1
    BY <1>1, <2>1
  <2> QED  BY <2>2, <2>3 DEF InOrder
<1>3. ASSUME NEW step PROVE Has(q2, step) => Has(q, step) /\ Rank(q.kind, Head(q.todo)) < Rank(q.kind, step)
  <2>1. SUFFICES ASSUME Has(q2, step) PROVE Has(q, step) /\ Rank(q.kind, Head(q.todo)) < Rank(q.kind, step)
    OBVIOUS
  <2>2. PICK i \in DOMAIN Tail(q.todo) : Tail(q.todo)[i] = step
    BY <1>1, <2>1 DEF Has
  <2>3. i + 1 \in DOMAIN q.todo /\ q.todo[i + 1] = step /\ 1 \in DOMAIN q.todo /\ Head(q.todo) = q.todo[1]
    BY <1>1, <2>2, TailOf
  <2>4. 1 < i + 1
    BY <1>1, <2>2
  <2> QED  BY <2>3, <2>4 DEF Has, InOrder
<1>4. ASSUME NEW step PROVE Has(q, step) => step = Head(q.todo) \/ Has(q2, step)
  <2>1. SUFFICES ASSUME Has(q, step) PROVE step = Head(q.todo) \/ Has(q2, step)
    OBVIOUS
  <2>2. PICK i \in DOMAIN q.todo : q.todo[i] = step
    BY <2>1 DEF Has
  <2>3. CASE i = 1
    BY <1>1, <2>2, <2>3, TailOf
  <2>4. CASE i # 1
    <3>1. i - 1 \in DOMAIN Tail(q.todo)
      BY <1>1, <2>4, TailOf
    <3>2. Tail(q.todo)[i - 1] = q.todo[i]
      BY <1>1, <3>1, TailOf
    <3> QED  BY <1>1, <2>2, <3>1, <3>2 DEF Has
  <2> QED  BY <2>3, <2>4
<1>5. Has(q, Head(q.todo))
  BY <1>1, TailOf DEF Has
<1> QED  BY <1>2, <1>3, <1>4, <1>5

LEMMA IdleHolds ==
  /\ Idle \in Requests /\ RefsHold(Idle) /\ RowsHold(Idle) /\ RowsHold(Idle)'
  /\ Idle.todo = << >> /\ Idle.kind \notin Kinds
<1>1. Idle \in Requests /\ Idle.todo = << >> /\ ~Idle.barred /\ Idle.kind = None
  BY DEF Idle, Requests
<1>2. None \notin Kinds
  BY InventoryAssumption
<1>3. \A step : ~Has(Idle, step) /\ ~PastStep(Idle, step)
  BY <1>1 DEF Has, PastStep
<1>4. InOrder(Idle)
  BY <1>1 DEF InOrder
<1>5. RefsHold(Idle)
  BY <1>1, <1>2, <1>3, <1>4 DEF RefsHold
<1>6. RowsHold(Idle) /\ RowsHold(Idle)'
  BY <1>1, <1>3 DEF RowsHold
<1> QED  BY <1>1, <1>2, <1>5, <1>6

\* A lookup that went through adds to what the request knows.
LEMMA RefsAdvance ==
  ASSUME NEW q \in Requests, NEW q2 \in Requests, RefsHold(q), Dropped(q, q2),
         Head(q.todo) = "get" => q.user = Owner[q.id],
         Head(q.todo) = "get" /\ q.kind = "trust" => q2.host \in Hosts,
         q2.host = None \/ Owner[q2.host] = q.user \/ Has(q2, "host"),
         q2.ident = None \/ Owner[q2.ident] = q.user \/ Has(q2, "ident"),
         q2.host = q.host \/ ~Has(q2, "write") \/ q.kind \in {"launch", "trust"},
         q2.ident = q.ident \/ ~Has(q2, "write") \/ q.kind \in {"launch", "trust"},
         q.kind = "trust" => q2.host = q.host \/ Head(q.todo) = "get"
  PROVE  RefsHold(q2)
<1>1. /\ InOrder(q2) /\ \A step : Has(q, step) <=> step = Head(q.todo) \/ Has(q2, step)
  BY DroppedOrder DEF RefsHold
<1>2. \A step : PastStep(q2, step) => PastStep(q, step) \/ step = Head(q.todo)
  BY <1>1 DEF PastStep, Dropped
<1>3. q2.kind = q.kind /\ q2.id = q.id /\ q2.user = q.user /\ q.todo # << >>
  BY DEF Dropped
<1>4. q.kind \in Kinds /\ q.id \in IF q.kind \in {"create", "update", "delete"} THEN Ids ELSE Profiles
  BY <1>3 DEF RefsHold
<1>5. PastStep(q2, "get") => q2.user = Owner[q2.id]
  BY <1>2, <1>3 DEF RefsHold
<1>6. /\ PastStep(q2, "host") => q2.host = None \/ Owner[q2.host] = q2.user
      /\ PastStep(q2, "ident") => q2.ident = None \/ Owner[q2.ident] = q2.user
  BY <1>3 DEF PastStep
<1>7. q2.kind = "trust" => ~Has(q2, "audit") /\ (PastStep(q2, "get") => q2.host \in Hosts)
  BY <1>1, <1>2, <1>3 DEF RefsHold
<1>8. q2.kind = "create" /\ Has(q2, "write") /\ q2.id \in Profiles => q2.host \in Hosts /\ q2.ident \in Idents
  BY <1>1, <1>3 DEF RefsHold
<1> QED  BY <1>1, <1>3, <1>4, <1>5, <1>6, <1>7, <1>8 DEF RefsHold

\* How the tables may change under a request q that is none the wiser.
Steady(q) ==
  /\ audits \subseteq audits'
  /\ q.barred /\ q.kind = "delete" /\ row[q.id] = "gone" => row'[q.id] = "gone"
  /\ q.barred /\ q.kind \in {"launch", "trust"} /\ q.id \in disabled => q.id \in disabled'
  /\ q.barred /\ q.kind = "delete" /\ q.id \in pins \cup sessions =>
       q.id \in pins' \cup sessions' \/ row'[q.id] = "gone"

LEMMA RowsAdvance ==
  ASSUME NEW q \in Requests, NEW q2 \in Requests, RefsHold(q), RowsHold(q), Dropped(q, q2), Steady(q),
         q.kind = "create" /\ row[q.id] = "none" => row'[q.id] = "none" \/ Head(q.todo) = "write",
         Head(q.todo) = "audit" /\ q.kind = "delete" /\ q.id \notin Hosts => q.id \in audits',
         Head(q.todo) = "get" => ~(q.barred /\ q.kind \in {"launch", "trust"}),
         Head(q.todo) = "dependents" /\ q.barred /\ q.kind = "delete" => q.id \notin pins \cup sessions
  PROVE  RowsHold(q2)'
<1>1. /\ \A step : Has(q, step) <=> step = Head(q.todo) \/ Has(q2, step)
      /\ \A step : Has(q2, step) => Rank(q.kind, Head(q.todo)) < Rank(q.kind, step)
  BY DroppedOrder DEF RefsHold
<1>2. q2.kind = q.kind /\ q2.id = q.id /\ q2.user = q.user /\ q.todo # << >> /\ q2.barred = q.barred
  BY DEF Dropped
<1>3. q2.kind = "create" /\ Has(q2, "write") => row'[q2.id] = "none"
  <2>1. SUFFICES ASSUME q.kind = "create", Has(q2, "write") PROVE row'[q.id] = "none"
    BY <1>2
  <2>2. Head(q.todo) # "write"
    BY <1>1, <2>1 DEF Rank
  <2> QED  BY <1>1, <2>1, <2>2 DEF RowsHold
<1>4. q2.kind = "delete" /\ q2.id \notin Hosts /\ PastStep(q2, "audit") => q2.id \in audits'
  BY <1>1, <1>2 DEF RowsHold, PastStep, Steady
<1>5. q2.barred =>
       \/ q2.kind \in {"launch", "trust"} /\ q2.id \in disabled' /\ Has(q2, "get")
       \/ q2.kind = "delete" /\ row'[q2.id] = "gone"
       \/ q2.kind = "delete" /\ q2.id \in pins' \cup sessions' /\ Has(q2, "dependents")
  BY <1>1, <1>2 DEF RowsHold, Steady
<1> QED  BY <1>3, <1>4, <1>5 DEF RowsHold, Has, PastStep

\* The other requests: nothing of theirs changes, except that an enabled
\* profile bars no more.
LEMMA OthersHold ==
  ASSUME NEW q \in Requests, NEW q2 \in Requests, RefsHold(q), RowsHold(q), Steady(q2),
         q2.todo = q.todo, q2.kind = q.kind, q2.user = q.user, q2.id = q.id,
         q2.host = q.host, q2.ident = q.ident, q2.barred => q.barred,
         q.kind = "create" /\ row[q.id] = "none" => row'[q.id] = "none"
  PROVE  RefsHold(q2) /\ RowsHold(q2)'
<1>1. \A step : (Has(q2, step) <=> Has(q, step)) /\ (PastStep(q2, step) <=> PastStep(q, step))
  BY DEF Has, PastStep
<1>2. RefsHold(q2)
  BY <1>1 DEF RefsHold, InOrder
<1>3. q2.kind = "create" /\ Has(q2, "write") => row'[q2.id] = "none"
  BY <1>1 DEF RowsHold
<1>4. q2.kind = "delete" /\ q2.id \notin Hosts /\ PastStep(q2, "audit") => q2.id \in audits'
  BY <1>1 DEF RowsHold, Steady
<1>5. q2.barred =>
       \/ q2.kind \in {"launch", "trust"} /\ q2.id \in disabled' /\ Has(q2, "get")
       \/ q2.kind = "delete" /\ row'[q2.id] = "gone"
       \/ q2.kind = "delete" /\ q2.id \in pins' \cup sessions' /\ Has(q2, "dependents")
  BY <1>1 DEF RowsHold, Steady
<1> QED  BY <1>2, <1>3, <1>4, <1>5 DEF RowsHold, Has, PastStep

-----------------------------------------------------------------------------
(* One step of one request *)

RequestsHold == CreatesApart /\ \A r \in Reqs : RefsHold(req[r]) /\ RowsHold(req[r])

RowsSteady ==
  /\ audits \subseteq audits' /\ disabled \subseteq disabled'
  /\ \A id \in Ids : row[id] = "gone" => row'[id] = "gone"
  /\ \A id \in pins \cup sessions : id \in pins' \cup sessions' \/ row'[id] = "gone"

\* The only row that appears is the one that r creates.
NoOtherInsert(r) ==
  \A id \in Ids : row[id] = "none" => row'[id] = "none" \/ (req[r].kind = "create" /\ id = req[r].id)

LEMMA SteadyRequest ==
  ASSUME RowsSteady, NEW q, RefsHold(q)
  PROVE  Steady(q)
  BY DEF RowsSteady, Steady, RefsHold, Kinds

LEMMA StepHolds ==
  ASSUME TypeOK, RequestsHold, NEW r \in Reqs, TypeOK', RowsSteady, NoOtherInsert(r),
         \A s \in Reqs : s # r => req'[s] = req[s],
         RefsHold(req'[r]), RowsHold(req[r])',
         req'[r] = Idle \/ (req'[r].kind = req[r].kind /\ req'[r].id = req[r].id)
  PROVE  RequestsHold'
<1>1. ASSUME NEW s \in Reqs, s # r
      PROVE  RefsHold(req'[s]) /\ RowsHold(req[s])'
  <2>1. PICK q \in Requests : q = req[s]
    BY DEF TypeOK
  <2>2. q = req'[s] /\ RefsHold(q) /\ RowsHold(q)
    BY <1>1, <2>1 DEF RequestsHold
  <2>3. Steady(q)
    BY <2>2, SteadyRequest
  <2>4. q.kind = "create" /\ row[q.id] = "none" => row'[q.id] = "none"
    <3>1. q.kind = "create" => q.id \in Ids
      BY <2>2 DEF RefsHold, Kinds
    <3>2. q.kind = "create" /\ req[r].kind = "create" => q.id # req[r].id
      BY <1>1, <2>1 DEF RequestsHold, CreatesApart
    <3> QED  BY <3>1, <3>2 DEF NoOtherInsert
  <2>5. RefsHold(q) /\ RowsHold(q)'
    BY <2>2, <2>3, <2>4, OthersHold
  <2> QED  BY <2>2, <2>5 DEF RowsHold, Has, PastStep
<1>2. CreatesApart'
  BY IdleHolds DEF RequestsHold, CreatesApart, Kinds
<1>3. \A s \in Reqs : RefsHold(req'[s]) /\ RowsHold(req[s])'
  BY <1>1
<1> QED  BY <1>2, <1>3 DEF RequestsHold

LEMMA DoneChanges ==
  ASSUME TypeOK, NEW r \in Reqs, Done(r)
  PROVE  req' \in [Reqs -> Requests] /\ req'[r] = Idle /\ \A s \in Reqs : s # r => req'[s] = req[s]
  BY IdleHolds DEF Done, TypeOK

LEMMA DoneHolds ==
  ASSUME TypeOK, RequestsHold, NEW r \in Reqs, TypeOK', RowsSteady, NoOtherInsert(r), Done(r)
  PROVE  RequestsHold'
<1>1. req'[r] = Idle /\ \A s \in Reqs : s # r => req'[s] = req[s]
  BY DoneChanges
<1>2. RefsHold(req'[r]) /\ RowsHold(req[r])'
  BY <1>1, IdleHolds DEF RowsHold, Has, PastStep
<1> QED  BY <1>1, <1>2, StepHolds

\* What Go forgets is what the statements left do not use.
GoForgets(q, q2) ==
  /\ q2.host = q.host \/ (q2.host = None /\ (q2.todo = << "audit" >> \/ q.kind = "launch"))
  /\ q2.ident = q.ident
     \/ (q2.ident = None /\ (q2.todo = << "audit" >> \/ q.kind \in {"launch", "trust"}))

LEMMA GoChanges ==
  ASSUME TypeOK, NEW r \in Reqs, req[r].todo # << >>, Go(r)
  PROVE  /\ req' \in [Reqs -> Requests] /\ \A s \in Reqs : s # r => req'[s] = req[s]
         /\ req'[r] = Idle \/ (Dropped(req[r], req'[r]) /\ GoForgets(req[r], req'[r]))
<1>1. CASE Tail(req[r].todo) = << >>
  BY <1>1, DoneChanges DEF Go
<1>2. CASE Tail(req[r].todo) # << >>
  <2> DEFINE rest == Tail(req[r].todo)
             h == IF rest = << "audit" >> \/ (req[r].kind = "launch" /\ rest = << "write" >>)
                    THEN None ELSE req[r].host
             i == IF rest = << "audit" >> \/ (req[r].kind \in {"launch", "trust"} /\ Head(rest) # "ident")
                    THEN None ELSE req[r].ident
  <2>1. PICK q \in Requests : q = req[r]
    BY DEF TypeOK
  <2>2. rest \in Seq(Steps) /\ h \in Hosts \cup {None} /\ i \in Idents \cup {None}
    BY <2>1, TailOf DEF Requests
  <2>3. req' = [req EXCEPT ![r] = [req[r] EXCEPT !.todo = rest, !.host = h, !.ident = i]]
    BY <1>2 DEF Go, TypeOK, Requests
  <2> HIDE DEF rest, h, i
  <2>4. PICK q2 : q2 = [q EXCEPT !.todo = rest, !.host = h, !.ident = i]
    OBVIOUS
  <2>5. /\ q2 \in Requests /\ q2.todo = rest /\ q2.host = h /\ q2.ident = i
        /\ q2.kind = q.kind /\ q2.user = q.user /\ q2.id = q.id /\ q2.barred = q.barred
    BY <2>2, <2>4 DEF Requests
  <2>6. req' = [req EXCEPT ![r] = q2]
    BY <2>1, <2>3, <2>4
  <2>7. Dropped(q, q2)
    BY <1>2, <2>1, <2>5 DEF Dropped, rest
  <2>8. GoForgets(q, q2)
    BY <2>1, <2>5 DEF GoForgets, rest, h, i
  <2> QED  BY <2>1, <2>5, <2>6, <2>7, <2>8 DEF TypeOK
<1> QED  BY <1>1, <1>2

\* What a request has found out when it goes on.
Learned(q) ==
  /\ Head(q.todo) = "get" => q.user = Owner[q.id] /\ q.kind \notin {"launch", "trust"}
  /\ Head(q.todo) = "host" => q.host = None \/ Owner[q.host] = q.user
  /\ Head(q.todo) = "ident" => q.ident = None \/ Owner[q.ident] = q.user
  /\ Head(q.todo) = "audit" /\ q.kind = "delete" /\ q.id \notin Hosts => q.id \in audits'
  /\ Head(q.todo) = "dependents" => q.id \notin pins \cup sessions

LEMMA GoHolds ==
  ASSUME TypeOK, RequestsHold, NEW r \in Reqs, TypeOK', RowsSteady, NoOtherInsert(r),
         req[r].todo # << >>, Go(r), Learned(req[r]),
         req[r].kind = "create" /\ row[req[r].id] = "none" => row'[req[r].id] = "none" \/ Head(req[r].todo) = "write"
  PROVE  RequestsHold'
<1>1. /\ \A s \in Reqs : s # r => req'[s] = req[s]
      /\ req'[r] = Idle \/ (Dropped(req[r], req'[r]) /\ GoForgets(req[r], req'[r]))
  BY GoChanges
<1>2. CASE req'[r] = Idle
  <2>1. RefsHold(req'[r]) /\ RowsHold(req[r])'
    BY <1>2, IdleHolds DEF RowsHold, Has, PastStep
  <2> QED  BY <1>1, <1>2, <2>1, StepHolds
<1>3. CASE Dropped(req[r], req'[r]) /\ GoForgets(req[r], req'[r])
  <2>1. PICK q \in Requests : q = req[r]
    BY DEF TypeOK
  <2>2. PICK q2 \in Requests : q2 = req'[r]
    BY DEF TypeOK
  <2>3. Dropped(q, q2) /\ GoForgets(q, q2) /\ Learned(q) /\ RefsHold(q) /\ RowsHold(q)
    BY <1>3, <2>1, <2>2 DEF RequestsHold
  <2>4. \A step : Has(q, step) <=> step = Head(q.todo) \/ Has(q2, step)
    BY <2>3, DroppedOrder DEF RefsHold
  <2>5. q.todo # << >> /\ q2.todo # << >>
    BY <2>3 DEF Dropped
  <2>6. q2.todo = << "audit" >> => ~Has(q2, "write")
    BY DEF Has
  <2>7. /\ q.host = None \/ Owner[q.host] = q.user \/ Has(q2, "host")
        /\ q.ident = None \/ Owner[q.ident] = q.user \/ Has(q2, "ident")
    BY <2>3, <2>4, <2>5 DEF RefsHold, PastStep, Learned
  <2>8. /\ q2.host = None \/ Owner[q2.host] = q.user \/ Has(q2, "host")
        /\ q2.ident = None \/ Owner[q2.ident] = q.user \/ Has(q2, "ident")
    BY <2>3, <2>7 DEF GoForgets
  <2>9. /\ q2.host = q.host \/ ~Has(q2, "write") \/ q.kind \in {"launch", "trust"}
        /\ q2.ident = q.ident \/ ~Has(q2, "write") \/ q.kind \in {"launch", "trust"}
    BY <2>3, <2>6 DEF GoForgets
  <2>10. q.kind = "trust" => q2.host = q.host \/ q2.todo = << "audit" >>
    BY <2>3 DEF GoForgets
  <2>11. q2.todo # << "audit" >> \/ q.kind # "trust"
    <3>1. q2.todo = << "audit" >> => Has(q2, "audit")
      BY DEF Has
    <3> QED  BY <2>3, <2>4, <3>1 DEF RefsHold
  <2>12. RefsHold(q2)
    BY <2>3, <2>8, <2>9, <2>10, <2>11, RefsAdvance DEF Learned
  <2>13. Steady(q)
    BY <2>3, SteadyRequest
  <2>14. RowsHold(q2)'
    BY <2>1, <2>3, <2>13, RowsAdvance DEF Learned
  <2>15. RefsHold(req'[r]) /\ RowsHold(req[r])'
    BY <2>2, <2>12, <2>14 DEF RowsHold, Has, PastStep
  <2> QED  BY <1>1, <1>3, <2>15, StepHolds DEF Dropped
<1> QED  BY <1>1, <1>2, <1>3

-----------------------------------------------------------------------------
(* Steps that only read *)

LEMMA ReadOnly ==
  ASSUME IInv, UNCHANGED << rows, audits >>, req' \in [Reqs -> Requests]
  PROVE  /\ TypeOK' /\ ReferencesOwned' /\ DeletionAudited' /\ RowsSteady
         /\ \A r \in Reqs : NoOtherInsert(r)
<1> USE DEF rows
<1>1. TypeOK'
  BY DEF IInv, InventoryInv, TypeOK
<1>2. ReferencesOwned' /\ DeletionAudited'
  BY DEF IInv, InventoryInv, ReferencesOwned, DeletionAudited, Owned
<1>3. RowsSteady
  BY DEF RowsSteady
<1> QED  BY <1>1, <1>2, <1>3 DEF NoOtherInsert

\* From the parts to the invariant.
LEMMA IInvParts ==
  /\ IInv <=> TypeOK /\ ReferencesOwned /\ DeletionAudited /\ RequestsHold
  /\ IInv' <=> TypeOK' /\ ReferencesOwned' /\ DeletionAudited' /\ RequestsHold'
  BY DEF IInv, InventoryInv, RequestsHold

LEMMA ReadDone ==
  ASSUME IInv, NEW r \in Reqs, Done(r), UNCHANGED << rows, audits >>
  PROVE  IInv'
<1>1. TypeOK /\ RequestsHold
  BY IInvParts
<1>2. req' \in [Reqs -> Requests]
  BY <1>1, DoneChanges
<1> QED  BY <1>1, <1>2, ReadOnly, DoneHolds, IInvParts

LEMMA ReadGo ==
  ASSUME IInv, NEW r \in Reqs, req[r].todo # << >>, Go(r), Learned(req[r]), UNCHANGED << rows, audits >>
  PROVE  IInv'
<1>1. TypeOK /\ RequestsHold
  BY IInvParts
<1>2. req' \in [Reqs -> Requests]
  BY <1>1, GoChanges
<1>3. row' = row
  BY DEF rows
<1>4. TypeOK' /\ RowsSteady /\ NoOtherInsert(r)
  BY <1>2, ReadOnly
<1>5. RequestsHold'
  BY <1>1, <1>3, <1>4, GoHolds
<1> QED  BY <1>2, <1>5, ReadOnly, IInvParts

LEMMA GetStep ==
  ASSUME IInv, NEW r \in Reqs, Get(r)
  PROVE  IInv'
<1>0. TypeOK /\ ReferencesOwned /\ RequestsHold
  BY IInvParts
<1>1. req[r].todo # << >> /\ Head(req[r].todo) = "get" /\ UNCHANGED << rows, audits >>
  BY DEF Get, At
<1>2. CASE Done(r)
  BY <1>1, <1>2, ReadDone
<1>3. CASE ~Done(r)
  <2>1. /\ Owned(req[r].user, req[r].id)
        /\ req[r].kind \in {"launch", "trust"} => req[r].id \notin disabled
    BY <1>3 DEF Get
  <2>2. CASE req[r].kind \notin {"launch", "trust"}
    <3>1. Go(r)
      BY <1>3, <2>2 DEF Get
    <3>2. Learned(req[r])
      BY <1>1, <2>1, <2>2 DEF Learned, Owned
    <3> QED  BY <1>1, <3>1, <3>2, ReadGo
  <2>3. CASE req[r].kind \in {"launch", "trust"}
    <3> DEFINE p == req[r].id
    <3>1. p \in Profiles /\ RefsHold(req[r]) /\ RowsHold(req[r])
      BY <1>0, <2>3 DEF RequestsHold, RefsHold, Kinds
    <3>2. /\ row[p] = "live" /\ Owner[p] = req[r].user
          /\ host_id[p] \in Hosts /\ Owner[host_id[p]] = req[r].user
          /\ ident_id[p] \in Idents /\ Owner[ident_id[p]] = req[r].user
      BY <1>0, <2>1, <3>1 DEF Owned, ReferencesOwned
    <3>3. req' = [req EXCEPT ![r] = [req[r] EXCEPT !.todo = Tail(req[r].todo),
                                        !.host = host_id[p], !.ident = ident_id[p]]]
      BY <1>0, <1>3, <2>3 DEF Get, TypeOK, Requests
    <3>4. PICK q \in Requests : q = req[r]
      BY <1>0 DEF TypeOK
    <3>5. PICK q2 : q2 = [q EXCEPT !.todo = Tail(q.todo), !.host = host_id[p], !.ident = ident_id[p]]
      OBVIOUS
    <3>6. /\ q2 \in Requests /\ q2.todo = Tail(q.todo) /\ q2.host = host_id[p] /\ q2.ident = ident_id[p]
          /\ q2.kind = q.kind /\ q2.user = q.user /\ q2.id = q.id /\ q2.barred = q.barred
      <4>1. Tail(q.todo) \in Seq(Steps)
        BY <1>1, <3>4, TailOf DEF Requests
      <4> QED  BY <3>2, <3>4, <3>5, <4>1 DEF Requests
    <3>7. req'[r] = q2 /\ req' \in [Reqs -> Requests] /\ \A s \in Reqs : s # r => req'[s] = req[s]
      BY <1>0, <3>3, <3>4, <3>5, <3>6 DEF TypeOK
    <3>8. TypeOK' /\ RowsSteady /\ NoOtherInsert(r)
      BY <1>1, <3>7, ReadOnly
    <3>9. RefsHold(q2) /\ RowsHold(q2)'
      <4>1. CASE q2.todo = << >>
        <5>1. \A step : ~Has(q2, step) /\ ~PastStep(q2, step)
          BY <4>1 DEF Has, PastStep
        <5>2. ~q.barred
          BY <2>1, <2>3, <3>1, <3>4 DEF RowsHold
        <5>3. InOrder(q2)
          BY <4>1 DEF InOrder
        <5>4. RefsHold(q2)
          BY <3>1, <3>4, <3>6, <4>1, <5>1, <5>3 DEF RefsHold
        <5>5. RowsHold(q2)'
          BY <2>3, <3>4, <3>6, <5>1, <5>2 DEF RowsHold, Has, PastStep
        <5> QED  BY <5>4, <5>5
      <4>2. CASE q2.todo # << >>
        <5>1. Dropped(q, q2) /\ Head(q.todo) = "get"
          BY <1>1, <3>4, <3>6, <4>2 DEF Dropped
        <5>2. RefsHold(q) /\ RowsHold(q) /\ Steady(q) /\ q.user = Owner[q.id] /\ q.id \notin disabled
          BY <2>1, <2>3, <3>1, <3>2, <3>4, <3>8, SteadyRequest
        <5>3. ~q.barred /\ q.kind \in {"launch", "trust"}
          BY <2>3, <3>4, <5>2 DEF RowsHold
        <5>4. RefsHold(q2)
          BY <3>2, <3>4, <3>6, <5>1, <5>2, <5>3, RefsAdvance
        <5>5. RowsHold(q2)'
          <6>1. q.kind # "create" /\ q.kind # "delete"
            BY <5>3
          <6> QED  BY <3>6, <5>1, <5>2, <5>3, <6>1, RowsAdvance
        <5> QED  BY <5>4, <5>5
      <4> QED  BY <4>1, <4>2
    <3>10. RefsHold(req'[r]) /\ RowsHold(req[r])'
      BY <3>7, <3>9 DEF RowsHold, Has, PastStep
    <3>11. RequestsHold'
      BY <1>0, <3>4, <3>6, <3>7, <3>8, <3>10, StepHolds
    <3> QED  BY <1>1, <3>7, <3>11, ReadOnly, IInvParts
  <2> QED  BY <2>2, <2>3
<1> QED  BY <1>2, <1>3

LEMMA LookupStep ==
  ASSUME IInv, NEW r \in Reqs, GetHost(r) \/ GetIdentity(r) \/ ListPins(r) \/ CheckDependents(r)
  PROVE  IInv'
<1>0. TypeOK
  BY IInvParts
<1>1. req[r].todo # << >> /\ UNCHANGED << rows, audits >> /\ (Done(r) \/ Go(r))
  BY DEF GetHost, GetIdentity, ListPins, CheckDependents, At
<1>2. CASE Done(r)
  BY <1>1, <1>2, ReadDone
<1>3. CASE Go(r) /\ ~Done(r)
  <2>1. CASE GetHost(r)
    BY <1>1, <1>3, <2>1, ReadGo DEF GetHost, At, Owned, Learned
  <2>2. CASE GetIdentity(r)
    BY <1>1, <1>3, <2>2, ReadGo DEF GetIdentity, At, Owned, Learned
  <2>3. CASE ListPins(r)
    BY <1>1, <1>3, <2>3, ReadGo DEF ListPins, At, Learned
  <2>4. CASE CheckDependents(r)
    <3>1. pins \subseteq Hosts /\ sessions \subseteq Profiles
      BY <1>0 DEF TypeOK
    <3>2. Head(req[r].todo) = "dependents" /\ req[r].id \notin pins \cup sessions
      BY <1>3, <2>4, <3>1 DEF CheckDependents, At, HostDependents, ProfileDependents
    <3>3. Learned(req[r])
      BY <3>2 DEF Learned
    <3> QED  BY <1>1, <1>3, <3>3, ReadGo
  <2> QED  BY <2>1, <2>2, <2>3, <2>4
<1> QED  BY <1>1, <1>2, <1>3

LEMMA FailStep ==
  ASSUME IInv, NEW r \in Reqs, Fail(r)
  PROVE  IInv'
  BY ReadDone DEF Fail

-----------------------------------------------------------------------------
(* Writes *)

\* What a request at its write or its audit knows.
LEMMA AtWrite ==
  ASSUME IInv, NEW r \in Reqs, At(r, "write") \/ At(r, "audit")
  PROVE  /\ req[r].todo # << >> /\ req[r] \in Requests
         /\ req[r].user = Owner[req[r].id]
         /\ Learned(req[r]) \/ At(r, "audit")
         /\ req[r].host = None \/ Owner[req[r].host] = req[r].user
         /\ req[r].ident = None \/ Owner[req[r].ident] = req[r].user
         /\ ~Has(req[r], "get") /\ ~Has(req[r], "dependents")
<1>1. PICK q \in Requests : q = req[r]
  BY IInvParts DEF TypeOK
<1>2. /\ q.todo # << >> /\ Head(q.todo) \in {"write", "audit"} /\ RefsHold(q)
  BY <1>1, IInvParts DEF RequestsHold, At
<1>3. \A step : Has(q, step) => step = Head(q.todo) \/ Rank(q.kind, Head(q.todo)) < Rank(q.kind, step)
  BY <1>2, HeadFirst DEF RefsHold
<1>4. \A step \in {"get", "host", "ident", "dependents"} : ~Has(q, step)
  BY <1>2, <1>3 DEF Rank
<1>5. /\ PastStep(q, "get") /\ PastStep(q, "host") /\ PastStep(q, "ident")
  BY <1>2, <1>4 DEF PastStep
<1>6. /\ q.user = Owner[q.id]
      /\ q.host = None \/ Owner[q.host] = q.user
      /\ q.ident = None \/ Owner[q.ident] = q.user
  BY <1>2, <1>5 DEF RefsHold
<1> QED  BY <1>1, <1>2, <1>4, <1>6 DEF Learned, At

\* Steady tables and a request that goes on, or ends, are all a write leaves to show.
LEMMA WriteGo ==
  ASSUME IInv, NEW r \in Reqs, req[r].todo # << >>, Go(r), Learned(req[r]), TypeOK', RowsSteady,
         NoOtherInsert(r), ReferencesOwned', DeletionAudited', At(r, "write") \/ row' = row
  PROVE  IInv'
<1>1. TypeOK /\ RequestsHold
  BY IInvParts
<1>2. req[r].kind = "create" /\ row[req[r].id] = "none" =>
        row'[req[r].id] = "none" \/ Head(req[r].todo) = "write"
  BY DEF At
<1>3. RequestsHold'
  BY <1>1, <1>2, GoHolds
<1> QED  BY <1>3, IInvParts

LEMMA WriteDone ==
  ASSUME IInv, NEW r \in Reqs, Done(r), TypeOK', RowsSteady,
         NoOtherInsert(r), ReferencesOwned', DeletionAudited'
  PROVE  IInv'
  BY IInvParts, DoneHolds

LEMMA InsertStep ==
  ASSUME IInv, NEW r \in Reqs, InsertHost(r) \/ InsertIdentity(r)
  PROVE  IInv'
<1> DEFINE id == req[r].id
<1>0. TypeOK /\ ReferencesOwned /\ DeletionAudited /\ RequestsHold
  BY IInvParts
<1>1. /\ At(r, "write") /\ req[r].kind = "create" /\ id \in Hosts \cup Idents /\ Go(r)
      /\ row' = [row EXCEPT ![id] = "live"]
      /\ UNCHANGED << host_id, ident_id, disabled, pins, sessions, audits >>
  BY DEF InsertHost, InsertIdentity, Writes
<1>2. req[r].todo # << >> /\ Learned(req[r])
  BY <1>1, AtWrite DEF At
<1>3. row[id] = "none"
  <2>1. Has(req[r], "write")
    <3>1. req[r].todo \in Seq(Steps)
      BY <1>0 DEF TypeOK, Requests
    <3> QED  BY <1>1, <1>2, <3>1, TailOf DEF At, Has
  <2> QED  BY <1>0, <1>1, <2>1 DEF RequestsHold, RowsHold
<1>4. id \in Ids /\ id \notin Profiles
  BY <1>1, InventoryAssumption DEF Ids
<1>5. row'[id] = "live" /\ \A i \in Ids : i # id => row'[i] = row[i]
  BY <1>0, <1>1, <1>4 DEF TypeOK
<1>6. TypeOK'
  BY <1>0, <1>1, <1>2, GoChanges DEF TypeOK
<1>7. RowsSteady /\ NoOtherInsert(r)
  BY <1>1, <1>3, <1>5 DEF RowsSteady, NoOtherInsert
<1>8. ReferencesOwned'
  <2>1. \A p \in Profiles : row'[p] = row[p]
    BY <1>4, <1>5 DEF Ids
  <2>2. \A i \in Ids : row[i] = "live" => row'[i] = "live"
    BY <1>5
  <2>3. pins \subseteq Ids /\ Hosts \subseteq Ids /\ Idents \subseteq Ids
    BY <1>0 DEF TypeOK, Ids
  <2> QED  BY <1>0, <1>1, <2>1, <2>2, <2>3 DEF ReferencesOwned, Owned
<1>9. DeletionAudited'
  BY <1>0, <1>1, <1>5 DEF DeletionAudited, Ids
<1> QED  BY <1>1, <1>2, <1>6, <1>7, <1>8, <1>9, WriteGo

LEMMA InsertProfileStep ==
  ASSUME IInv, NEW r \in Reqs, InsertProfile(r)
  PROVE  IInv'
<1>0. TypeOK /\ ReferencesOwned /\ DeletionAudited /\ RequestsHold
  BY IInvParts
<1>q. PICK q \in Requests : q = req[r]
  BY <1>0 DEF TypeOK
<1>1. /\ At(r, "write") /\ q.kind = "create" /\ q.id \in Profiles
      /\ UNCHANGED << disabled, pins, sessions, audits >>
  BY <1>q DEF InsertProfile, Writes
<1>2. req[r].todo # << >> /\ Learned(req[r])
  BY <1>1, AtWrite DEF At
<1>3. CASE ~RefsExist(q.host, q.ident)
  BY <1>1, <1>3, <1>q, ReadDone DEF InsertProfile, rows
<1>4. CASE RefsExist(q.host, q.ident)
  <2>1. /\ row' = [row EXCEPT ![q.id] = "live"]
        /\ host_id' = [host_id EXCEPT ![q.id] = q.host]
        /\ ident_id' = [ident_id EXCEPT ![q.id] = q.ident]
        /\ Go(r)
    BY <1>4, <1>q DEF InsertProfile
  <2>2. RefsHold(q) /\ RowsHold(q)
    BY <1>0, <1>q DEF RequestsHold
  <2>3. Has(q, "write")
    <3>1. q.todo \in Seq(Steps)
      BY DEF Requests
    <3> QED  BY <1>1, <1>2, <1>q, <3>1, TailOf DEF At, Has
  <2>4. row[q.id] = "none" /\ q.host \in Hosts /\ q.ident \in Idents
    BY <1>1, <2>2, <2>3 DEF RefsHold, RowsHold
  <2>5. /\ row[q.host] = "live" /\ Owner[q.host] = Owner[q.id]
        /\ row[q.ident] = "live" /\ Owner[q.ident] = Owner[q.id]
    <3>1. q.host # None /\ q.ident # None
      BY <2>4, InventoryAssumption DEF Ids
    <3> QED  BY <1>1, <1>4, <1>q, <3>1, AtWrite DEF RefsExist
  <2>6. q.id \in Ids /\ q.id \notin Hosts \cup Idents
    BY <1>1, InventoryAssumption DEF Ids
  <2>7. row'[q.id] = "live" /\ \A i \in Ids : i # q.id => row'[i] = row[i]
    BY <1>0, <2>1, <2>6 DEF TypeOK
  <2>8. TypeOK'
    <3>1. row' \in [Ids -> {"none", "live", "gone"}]
      BY <1>0, <2>1 DEF TypeOK
    <3>2. host_id' \in [Profiles -> Hosts \cup {None}] /\ ident_id' \in [Profiles -> Idents \cup {None}]
      BY <1>0, <2>1, <2>4 DEF TypeOK
    <3> QED  BY <1>0, <1>1, <1>2, <2>1, <3>1, <3>2, GoChanges DEF TypeOK
  <2>9. RowsSteady /\ NoOtherInsert(r)
    BY <1>1, <1>q, <2>4, <2>7 DEF RowsSteady, NoOtherInsert
  <2>10. ReferencesOwned'
    <3>1. ASSUME NEW p \in Profiles, row'[p] = "live"
          PROVE  /\ host_id'[p] \in Hosts /\ row'[host_id'[p]] = "live" /\ Owner[host_id'[p]] = Owner[p]
                 /\ ident_id'[p] \in Idents /\ row'[ident_id'[p]] = "live" /\ Owner[ident_id'[p]] = Owner[p]
      <4>1. CASE p = q.id
        <5>1. host_id'[p] = q.host /\ ident_id'[p] = q.ident
          BY <1>0, <2>1, <4>1 DEF TypeOK
        <5> QED  BY <2>4, <2>5, <2>6, <2>7, <4>1, <5>1 DEF Ids
      <4>2. CASE p # q.id
        <5>1. host_id'[p] = host_id[p] /\ ident_id'[p] = ident_id[p] /\ row[p] = "live"
          BY <1>0, <2>1, <2>7, <3>1, <4>2 DEF TypeOK, Ids
        <5>2. /\ host_id[p] \in Hosts /\ row[host_id[p]] = "live" /\ Owner[host_id[p]] = Owner[p]
              /\ ident_id[p] \in Idents /\ row[ident_id[p]] = "live" /\ Owner[ident_id[p]] = Owner[p]
          BY <1>0, <5>1 DEF ReferencesOwned, Owned
        <5> QED  BY <2>6, <2>7, <5>1, <5>2 DEF Ids
      <4> QED  BY <4>1, <4>2
    <3>2. \A p \in sessions : row'[p] = "live"
      BY <1>0, <2>7 DEF ReferencesOwned, TypeOK, Ids
    <3>3. \A h \in pins : row'[h] = "live"
      BY <1>0, <2>7 DEF ReferencesOwned, TypeOK, Ids
    <3> QED  BY <1>1, <3>1, <3>2, <3>3 DEF ReferencesOwned, Owned
  <2>11. DeletionAudited'
    BY <1>0, <1>1, <2>7 DEF DeletionAudited, Ids
  <2> QED  BY <1>1, <1>2, <2>1, <2>8, <2>9, <2>10, <2>11, WriteGo
<1> QED  BY <1>3, <1>4

LEMMA WriteNameStep ==
  ASSUME IInv, NEW r \in Reqs, WriteHost(r) \/ WriteName(r)
  PROVE  IInv'
<1>1. At(r, "write") /\ Go(r) /\ UNCHANGED << rows, audits >>
  BY DEF WriteHost, WriteName, Writes
<1> QED  BY <1>1, AtWrite, ReadGo DEF At

LEMMA WriteProfileStep ==
  ASSUME IInv, NEW r \in Reqs, WriteProfile(r)
  PROVE  IInv'
<1>0. TypeOK /\ ReferencesOwned /\ DeletionAudited /\ RequestsHold
  BY IInvParts
<1>q. PICK q \in Requests : q = req[r]
  BY <1>0 DEF TypeOK
<1>1. /\ At(r, "write") /\ q.id \in Profiles /\ UNCHANGED << row, disabled, pins, sessions, audits >>
  BY <1>q DEF WriteProfile, Writes
<1>2. req[r].todo # << >> /\ Learned(req[r])
  BY <1>1, AtWrite DEF At
<1>3. CASE ~(row[q.id] = "live" /\ RefsExist(q.host, q.ident))
  BY <1>1, <1>3, <1>q, ReadDone DEF WriteProfile, rows
<1>4. CASE row[q.id] = "live" /\ RefsExist(q.host, q.ident)
  <2>1. /\ host_id' = IF q.host = None THEN host_id ELSE [host_id EXCEPT ![q.id] = q.host]
        /\ ident_id' = IF q.ident = None THEN ident_id ELSE [ident_id EXCEPT ![q.id] = q.ident]
        /\ Go(r)
    BY <1>4, <1>q DEF WriteProfile
  <2>2. /\ q.host # None => q.host \in Hosts /\ row[q.host] = "live" /\ Owner[q.host] = Owner[q.id]
        /\ q.ident # None => q.ident \in Idents /\ row[q.ident] = "live" /\ Owner[q.ident] = Owner[q.id]
    BY <1>1, <1>4, <1>q, AtWrite DEF RefsExist, Requests
  <2>3. TypeOK'
    <3>1. host_id' \in [Profiles -> Hosts \cup {None}] /\ ident_id' \in [Profiles -> Idents \cup {None}]
      BY <1>0, <2>1, <2>2 DEF TypeOK
    <3> QED  BY <1>0, <1>1, <1>2, <2>1, <3>1, GoChanges DEF TypeOK
  <2>4. RowsSteady /\ NoOtherInsert(r) /\ DeletionAudited'
    BY <1>0, <1>1 DEF RowsSteady, NoOtherInsert, DeletionAudited
  <2>5. ReferencesOwned'
    <3>1. ASSUME NEW p \in Profiles, row[p] = "live"
          PROVE  /\ host_id'[p] \in Hosts /\ row[host_id'[p]] = "live" /\ Owner[host_id'[p]] = Owner[p]
                 /\ ident_id'[p] \in Idents /\ row[ident_id'[p]] = "live" /\ Owner[ident_id'[p]] = Owner[p]
      <4>1. /\ host_id[p] \in Hosts /\ row[host_id[p]] = "live" /\ Owner[host_id[p]] = Owner[p]
            /\ ident_id[p] \in Idents /\ row[ident_id[p]] = "live" /\ Owner[ident_id[p]] = Owner[p]
        BY <1>0, <3>1 DEF ReferencesOwned, Owned
      <4>2. /\ host_id'[p] = host_id[p] \/ (p = q.id /\ q.host # None /\ host_id'[p] = q.host)
            /\ ident_id'[p] = ident_id[p] \/ (p = q.id /\ q.ident # None /\ ident_id'[p] = q.ident)
        BY <1>0, <2>1 DEF TypeOK
      <4> QED  BY <2>2, <4>1, <4>2
    <3> QED  BY <1>0, <1>1, <3>1 DEF ReferencesOwned, Owned
  <2> QED  BY <1>1, <1>2, <2>1, <2>3, <2>4, <2>5, WriteGo
<1> QED  BY <1>3, <1>4

\* An enable takes the bar off the requests that wait on the profile; the
\* others see more disabled profiles than before, or the same.
LEMMA SetDisabledAtStep ==
  ASSUME IInv, NEW r \in Reqs, SetDisabledAt(r)
  PROVE  IInv'
<1>0. TypeOK /\ ReferencesOwned /\ DeletionAudited /\ RequestsHold
  BY IInvParts
<1>q. PICK q \in Requests : q = req[r]
  BY <1>0 DEF TypeOK
<1>1. /\ At(r, "write") /\ q.kind \in {"disable", "enable"}
      /\ UNCHANGED << row, host_id, ident_id, pins, sessions, audits >>
  BY <1>q DEF SetDisabledAt
<1>2. RefsHold(q) /\ RowsHold(q) /\ q.todo # << >> /\ Head(q.todo) = "write" /\ q.todo \in Seq(Steps)
  BY <1>0, <1>1, <1>q DEF RequestsHold, At, Requests
<1>3. CASE row[q.id] # "live"
  BY <1>1, <1>3, <1>q, ReadDone DEF SetDisabledAt, rows
<1>4. CASE row[q.id] = "live"
  <2>1. /\ disabled' = IF q.kind = "disable" THEN disabled \cup {q.id} ELSE disabled \ {q.id}
        /\ req' = [s \in Reqs |->
                    IF s = r THEN [q EXCEPT !.todo = Tail(q.todo)]
                    ELSE [req[s] EXCEPT !.barred = req[s].barred /\ (q.kind = "enable" => req[s].id # q.id)]]
    BY <1>4, <1>q DEF SetDisabledAt
  <2>2. q.id \in Profiles
    BY <1>1, <1>2 DEF RefsHold, Kinds
  <2>3. PICK q2 : q2 = [q EXCEPT !.todo = Tail(q.todo)]
    OBVIOUS
  <2>4. /\ q2 \in Requests /\ q2.todo = Tail(q.todo) /\ q2.kind = q.kind /\ q2.id = q.id
        /\ q2.user = q.user /\ q2.host = q.host /\ q2.ident = q.ident /\ q2.barred = q.barred
    BY <1>2, <2>3, TailOf DEF Requests
  <2>5. req'[r] = q2
    BY <2>1, <2>3
  <2>6. ASSUME NEW s \in Reqs, s # r, NEW p \in Requests, p = req[s], NEW p2, p2 = req'[s]
        PROVE  /\ p2 \in Requests /\ p2.todo = p.todo /\ p2.kind = p.kind /\ p2.user = p.user
               /\ p2.id = p.id /\ p2.host = p.host /\ p2.ident = p.ident /\ (p2.barred => p.barred)
               /\ p2.barred /\ q.kind = "enable" => p.id # q.id
    <3>1. PICK b \in BOOLEAN : b = (p.barred /\ (q.kind = "enable" => p.id # q.id))
      OBVIOUS
    <3>2. p2 = [p EXCEPT !.barred = b]
      BY <2>1, <2>6, <3>1
    <3>3. /\ p2 \in Requests /\ p2.todo = p.todo /\ p2.kind = p.kind /\ p2.user = p.user
          /\ p2.id = p.id /\ p2.host = p.host /\ p2.ident = p.ident /\ p2.barred = b
      BY <3>2 DEF Requests
    <3> QED  BY <3>1, <3>3
  <2>7. \A s \in Reqs : s # r => \E p \in Requests : p = req[s] /\ req'[s] \in Requests
    BY <1>0, <2>6 DEF TypeOK
  <2>8. TypeOK'
    BY <1>0, <1>1, <2>1, <2>2, <2>4, <2>5, <2>7 DEF TypeOK
  <2>9. ReferencesOwned' /\ DeletionAudited'
    BY <1>0, <1>1 DEF ReferencesOwned, Owned, DeletionAudited
  <2>10. ~q.barred
    BY <1>1, <1>2 DEF RowsHold
  <2>11. RefsHold(q2) /\ RowsHold(q2)'
    <3>1. RowsHold(q2)'
      BY <1>1, <2>4, <2>10 DEF RowsHold
    <3>2. CASE q2.todo = << >>
      <4>1. \A step : ~Has(q2, step) /\ ~PastStep(q2, step)
        BY <3>2 DEF Has, PastStep
      <4>2. InOrder(q2)
        BY <3>2 DEF InOrder
      <4> QED  BY <1>1, <1>2, <2>4, <3>1, <3>2, <4>1, <4>2 DEF RefsHold
    <3>3. CASE q2.todo # << >>
      <4>1. Dropped(q, q2)
        BY <1>2, <2>4, <3>3 DEF Dropped
      <4>2. /\ q.host = None \/ Owner[q.host] = q.user
            /\ q.ident = None \/ Owner[q.ident] = q.user
        BY <1>1, <1>q, AtWrite
      <4>3. RefsHold(q2)
        BY <1>1, <1>2, <2>4, <4>1, <4>2, RefsAdvance
      <4> QED  BY <3>1, <4>3
    <3> QED  BY <3>2, <3>3
  <2>12. ASSUME NEW s \in Reqs, s # r
         PROVE  RefsHold(req'[s]) /\ RowsHold(req[s])'
    <3>1. PICK p \in Requests : p = req[s]
      BY <1>0 DEF TypeOK
    <3>2. PICK p2 : p2 = req'[s]
      OBVIOUS
    <3>3. /\ p2 \in Requests /\ p2.todo = p.todo /\ p2.kind = p.kind /\ p2.user = p.user
          /\ p2.id = p.id /\ p2.host = p.host /\ p2.ident = p.ident /\ (p2.barred => p.barred)
          /\ p2.barred /\ q.kind = "enable" => p.id # q.id
      BY <2>6, <2>12, <3>1, <3>2
    <3>4. Steady(p2)
      BY <1>1, <2>1, <3>3 DEF Steady
    <3>5. RefsHold(p) /\ RowsHold(p)
      BY <1>0, <3>1 DEF RequestsHold
    <3>6. RefsHold(p2) /\ RowsHold(p2)'
      BY <1>1, <3>3, <3>4, <3>5, OthersHold
    <3> QED  BY <3>2, <3>6 DEF RowsHold, Has, PastStep
  <2>13. RefsHold(req'[r]) /\ RowsHold(req[r])'
    BY <2>5, <2>11 DEF RowsHold, Has, PastStep
  <2>14. \A s \in Reqs : req'[s].kind = req[s].kind /\ req'[s].id = req[s].id
    BY <1>0, <1>q, <2>4, <2>5, <2>6 DEF TypeOK
  <2>15. CreatesApart'
    BY <1>0, <2>14 DEF RequestsHold, CreatesApart
  <2>16. \A s \in Reqs : RefsHold(req'[s]) /\ RowsHold(req[s])'
    BY <2>12, <2>13
  <2>17. RequestsHold'
    BY <2>15, <2>16 DEF RequestsHold
  <2> QED  BY <2>8, <2>9, <2>17, IInvParts
<1> QED  BY <1>3, <1>4

\* A delete of a profile or of an identity has its event behind it.
LEMMA DeleteAudited ==
  ASSUME IInv, NEW r \in Reqs, At(r, "write"), req[r].kind = "delete"
  PROVE  req[r].id \in Ids /\ (req[r].id \notin Hosts => req[r].id \in audits)
<1>1. PICK q \in Requests : q = req[r]
  BY IInvParts DEF TypeOK
<1>2. /\ q.todo # << >> /\ Head(q.todo) = "write" /\ RefsHold(q) /\ RowsHold(q) /\ q.kind = "delete"
  BY <1>1, IInvParts DEF RequestsHold, At
<1>3. ~Has(q, "audit")
  BY <1>2, HeadFirst DEF RefsHold, Rank
<1>4. q.id \in Ids
  BY <1>2 DEF RefsHold, Kinds
<1> QED  BY <1>1, <1>2, <1>3, <1>4 DEF RowsHold, PastStep

LEMMA DeleteStep ==
  ASSUME IInv, NEW r \in Reqs, DeleteHostRow(r) \/ DeleteIdentityRow(r) \/ DeleteProfileRow(r)
  PROVE  IInv'
<1> DEFINE id == req[r].id
<1>0. TypeOK /\ ReferencesOwned /\ DeletionAudited /\ RequestsHold
  BY IInvParts
<1>1. /\ At(r, "write") /\ req[r].kind = "delete" /\ Go(r)
      /\ UNCHANGED << host_id, ident_id, disabled, sessions, audits >>
  BY DEF DeleteHostRow, DeleteIdentityRow, DeleteProfileRow, Writes
<1>2. req[r].todo # << >> /\ Learned(req[r])
  BY <1>1, AtWrite DEF At
<1>3. id \in Ids /\ (id \notin Hosts => id \in audits)
  BY <1>1, DeleteAudited
<1>4. row' = row \/ (row[id] = "live" /\ row' = [row EXCEPT ![id] = "gone"])
  BY DEF DeleteHostRow, DeleteIdentityRow, DeleteProfileRow, Delete
<1>5. /\ \A i \in Ids : i # id => row'[i] = row[i]
      /\ row'[id] = row[id] \/ (row[id] = "live" /\ row'[id] = "gone")
  BY <1>0, <1>3, <1>4 DEF TypeOK
<1>6. \/ pins' = pins /\ (id \in Hosts => row'[id] = "live")
      \/ id \in Hosts /\ row'[id] # "live" /\ pins' = pins \ {id}
  BY InventoryAssumption DEF DeleteHostRow, DeleteIdentityRow, DeleteProfileRow, Writes
<1>7. TypeOK'
  <2>1. row' \in [Ids -> {"none", "live", "gone"}]
    BY <1>0, <1>4 DEF TypeOK
  <2> QED  BY <1>0, <1>1, <1>2, <1>6, <2>1, GoChanges DEF TypeOK
<1>8. RowsSteady
  <2>1. \A i \in Ids : row[i] = "gone" => row'[i] = "gone"
    BY <1>5
  <2>2. \A i \in pins \cup sessions : i \in pins' \cup sessions' \/ row'[i] = "gone"
    BY <1>0, <1>1, <1>5, <1>6 DEF ReferencesOwned
  <2> QED  BY <1>1, <2>1, <2>2 DEF RowsSteady
<1>9. NoOtherInsert(r)
  BY <1>5 DEF NoOtherInsert
<1>10. DeletionAudited'
  <2>1. \A i \in Idents \cup Profiles : i \in Ids /\ i \notin Hosts
    BY InventoryAssumption DEF Ids
  <2> QED  BY <1>0, <1>1, <1>3, <1>5, <2>1 DEF DeletionAudited
<1>11. /\ row'[id] = "gone" /\ row[id] = "live" =>
            /\ \A p \in Profiles : row[p] = "live" => host_id[p] # id /\ ident_id[p] # id
            /\ id \notin sessions
  <2>1. CASE row' = row
    BY <2>1
  <2>2. CASE DeleteHostRow(r) /\ row' # row
    <3>1. id \in Hosts /\ \A p \in Profiles : row[p] = "live" => host_id[p] # id
      BY <2>2 DEF DeleteHostRow, Delete, Writes
    <3> QED  BY <1>0, <3>1, InventoryAssumption DEF ReferencesOwned, TypeOK
  <2>3. CASE DeleteIdentityRow(r) /\ row' # row
    <3>1. id \in Idents /\ \A p \in Profiles : row[p] = "live" => ident_id[p] # id
      BY <2>3 DEF DeleteIdentityRow, Delete, Writes
    <3> QED  BY <1>0, <3>1, InventoryAssumption DEF ReferencesOwned, TypeOK
  <2>4. CASE DeleteProfileRow(r) /\ row' # row
    <3>1. id \in Profiles /\ id \notin sessions
      BY <2>4 DEF DeleteProfileRow, Delete, Writes
    <3> QED  BY <1>0, <3>1, InventoryAssumption DEF ReferencesOwned
  <2> QED  BY <2>1, <2>2, <2>3, <2>4
<1>12. ReferencesOwned'
  <2>1. ASSUME NEW p \in Profiles, row'[p] = "live"
        PROVE  /\ host_id[p] \in Hosts /\ row'[host_id[p]] = "live" /\ Owner[host_id[p]] = Owner[p]
               /\ ident_id[p] \in Idents /\ row'[ident_id[p]] = "live" /\ Owner[ident_id[p]] = Owner[p]
    <3>1. row[p] = "live"
      BY <1>5, <2>1 DEF Ids
    <3>2. /\ host_id[p] \in Hosts /\ row[host_id[p]] = "live" /\ Owner[host_id[p]] = Owner[p]
          /\ ident_id[p] \in Idents /\ row[ident_id[p]] = "live" /\ Owner[ident_id[p]] = Owner[p]
      BY <1>0, <3>1 DEF ReferencesOwned, Owned
    <3> QED  BY <1>5, <1>11, <3>1, <3>2 DEF Ids
  <2>2. \A p \in Profiles : p \in sessions => row'[p] = "live"
    BY <1>0, <1>5, <1>11 DEF ReferencesOwned, Ids
  <2>3. \A h \in pins' : row'[h] = "live"
    <3>1. \A h \in pins : h \in Ids /\ h \in Hosts /\ row[h] = "live"
      BY <1>0 DEF ReferencesOwned, TypeOK, Ids
    <3> QED  BY <1>5, <1>6, <3>1
  <2> QED  BY <1>1, <2>1, <2>2, <2>3 DEF ReferencesOwned, Owned
<1> QED  BY <1>1, <1>2, <1>7, <1>8, <1>9, <1>10, <1>12, WriteGo

LEMMA UseStep ==
  ASSUME IInv, NEW r \in Reqs, RecordTrusted(r) \/ InsertSession(r)
  PROVE  IInv'
<1>0. TypeOK /\ ReferencesOwned /\ DeletionAudited /\ RequestsHold
  BY IInvParts
<1>1. /\ At(r, "write") /\ Done(r) /\ req[r].id \in Profiles
      /\ UNCHANGED << row, host_id, ident_id, disabled, audits >>
  BY DEF RecordTrusted, InsertSession, Writes
<1>2. /\ pins' = pins \/ \E h \in Hosts : row[h] = "live" /\ pins' = pins \cup {h}
      /\ sessions' = sessions \/ \E p \in Profiles : row[p] = "live" /\ sessions' = sessions \cup {p}
  <2>1. CASE RecordTrusted(r)
    <3>1. req[r].host \in Hosts
      <4>1. PastStep(req[r], "get") /\ req[r].kind = "trust"
        BY <1>1, <2>1, AtWrite DEF PastStep, RecordTrusted, Writes
      <4> QED  BY <1>0, <4>1 DEF RequestsHold, RefsHold
    <3> QED  BY <2>1, <3>1 DEF RecordTrusted
  <2>2. CASE InsertSession(r)
    BY <1>1, <2>2 DEF InsertSession
  <2> QED  BY <2>1, <2>2
<1>3. TypeOK'
  BY <1>0, <1>1, <1>2, DoneChanges DEF TypeOK
<1>4. RowsSteady /\ NoOtherInsert(r) /\ DeletionAudited'
  BY <1>0, <1>1, <1>2 DEF RowsSteady, NoOtherInsert, DeletionAudited
<1>5. ReferencesOwned'
  BY <1>0, <1>1, <1>2 DEF ReferencesOwned, Owned
<1> QED  BY <1>1, <1>3, <1>4, <1>5, WriteDone

LEMMA AuditStep ==
  ASSUME IInv, NEW r \in Reqs, WriteLifecycleAudit(r) \/ WriteCreateAudit(r) \/ WriteDeleteAudit(r)
  PROVE  IInv'
<1>0. TypeOK /\ ReferencesOwned /\ DeletionAudited /\ RequestsHold
  BY IInvParts
<1>1. /\ At(r, "audit") /\ Go(r) /\ UNCHANGED rows /\ req[r].id \in Idents \cup Profiles
      /\ audits' = audits \/ audits' = audits \cup {req[r].id}
      /\ req[r].kind = "delete" => req[r].id \in audits'
  BY DEF WriteLifecycleAudit, WriteCreateAudit, WriteDeleteAudit
<1>2. req[r].todo # << >> /\ Head(req[r].todo) = "audit"
  BY <1>1 DEF At
<1>3. Learned(req[r])
  BY <1>1, <1>2 DEF Learned
<1>4. TypeOK'
  <2>1. req[r].id \in Ids
    BY <1>1 DEF Ids
  <2> QED  BY <1>0, <1>1, <1>2, <2>1, GoChanges DEF TypeOK, rows
<1>5. RowsSteady /\ NoOtherInsert(r) /\ DeletionAudited' /\ ReferencesOwned' /\ row' = row
  BY <1>0, <1>1 DEF RowsSteady, NoOtherInsert, DeletionAudited, ReferencesOwned, Owned, rows
<1> QED  BY <1>1, <1>2, <1>3, <1>4, <1>5, WriteGo

-----------------------------------------------------------------------------
(* New requests *)

\* What a route's list of statements has to contain for its request to start
\* out sound.
Sound(q) ==
  /\ q \in Requests /\ q.todo # << >> /\ q.kind \in Kinds /\ InOrder(q)
  /\ q.id \in IF q.kind \in {"create", "update", "delete"} THEN Ids ELSE Profiles
  /\ Has(q, "get") \/ (q.kind = "create" /\ q.user = Owner[q.id])
  /\ q.host = None \/ Has(q, "host")
  /\ q.ident = None \/ Has(q, "ident")
  /\ q.kind = "trust" => ~Has(q, "audit")
  /\ q.kind = "create" /\ q.id \in Profiles => q.host \in Hosts /\ q.ident \in Idents
  /\ q.kind = "delete" => Has(q, "dependents") /\ (q.id \notin Hosts => Has(q, "audit"))

LEMMA RequestStep ==
  ASSUME IInv, NEW r \in Reqs, NEW kind, NEW u, NEW id, NEW h, NEW i, NEW todo,
         Request(r, kind, u, id, h, i, todo),
         Sound([kind |-> kind, todo |-> todo, user |-> u, id |-> id,
                host |-> h, ident |-> i, barred |-> Bars(kind, id)]),
         kind = "create" => Fresh(u, id)
  PROVE  IInv'
<1>0. TypeOK /\ ReferencesOwned /\ DeletionAudited /\ RequestsHold
  BY IInvParts
<1>1. PICK q : q = [kind |-> kind, todo |-> todo, user |-> u, id |-> id,
                    host |-> h, ident |-> i, barred |-> Bars(kind, id)]
  OBVIOUS
<1>2. /\ Sound(q) /\ q.kind = kind /\ q.id = id /\ q.todo = todo /\ q.barred = Bars(kind, id)
      /\ q.user = u /\ q.host = h /\ q.ident = i
  BY <1>1
<1>3. req' = [req EXCEPT ![r] = q] /\ UNCHANGED << rows, audits >>
  BY <1>1 DEF Request
<1>4. /\ req' \in [Reqs -> Requests] /\ req'[r] = q /\ \A s \in Reqs : s # r => req'[s] = req[s]
  BY <1>0, <1>2, <1>3 DEF TypeOK, Sound
<1>5. TypeOK' /\ ReferencesOwned' /\ DeletionAudited' /\ RowsSteady
  BY <1>3, <1>4, ReadOnly
<1>6. RefsHold(q)
  BY <1>2 DEF Sound, RefsHold, PastStep
<1>7. RowsHold(q)'
  <2>1. row' = row /\ disabled' = disabled /\ pins' = pins /\ sessions' = sessions
    BY <1>3 DEF rows
  <2>2. q.kind = "create" => row'[q.id] = "none"
    BY <1>2, <2>1 DEF Fresh
  <2>3. q.kind = "delete" /\ q.id \notin Hosts => ~PastStep(q, "audit")
    BY <1>2 DEF Sound, PastStep
  <2>4. q.kind \in {"launch", "trust"} => Has(q, "get")
    BY <1>2 DEF Sound
  <2>5. q.kind = "delete" => Has(q, "dependents")
    BY <1>2 DEF Sound
  <2>6. q.barred => \/ q.kind \in {"launch", "trust"} /\ q.id \in disabled
                    \/ q.kind = "delete" /\ q.id \in pins \cup sessions
    BY <1>2 DEF Bars
  <2> QED  BY <2>1, <2>2, <2>3, <2>4, <2>5, <2>6 DEF RowsHold, Has, PastStep
<1>8. ASSUME NEW s \in Reqs, s # r
      PROVE  RefsHold(req'[s]) /\ RowsHold(req[s])'
  <2>1. req'[s] = req[s] /\ RefsHold(req[s]) /\ RowsHold(req[s])
    BY <1>0, <1>4, <1>8 DEF RequestsHold
  <2> QED  BY <1>3, <2>1 DEF RowsHold, Has, PastStep, rows
<1>9. RefsHold(req'[r]) /\ RowsHold(req[r])'
  BY <1>4, <1>6, <1>7 DEF RowsHold, Has, PastStep
<1>10. CreatesApart'
  BY <1>0, <1>2, <1>4 DEF RequestsHold, CreatesApart, Fresh
<1>11. RequestsHold'
  <2>1. \A s \in Reqs : RefsHold(req'[s]) /\ RowsHold(req[s])'
    BY <1>8, <1>9
  <2> QED  BY <1>10, <2>1 DEF RequestsHold
<1> QED  BY <1>5, <1>11, IInvParts

\* The lists of the routes, each in the order of its ranks.
LEMMA RouteLists ==
  ASSUME NEW q, q.kind \in Kinds
  PROVE  /\ q.todo = << "write" >> => InOrder(q) /\ Has(q, "write")
         /\ q.todo = << "get", "write" >> => InOrder(q) /\ Has(q, "get") /\ ~Has(q, "audit")
         /\ q.todo = << "write", "audit" >> /\ q.kind # "delete" => InOrder(q)
         /\ q.todo = << "get", "dependents", "write" >> => InOrder(q) /\ Has(q, "get") /\ Has(q, "dependents")
         /\ q.todo = << "get", "dependents", "audit", "write" >> /\ q.kind = "delete" =>
              InOrder(q) /\ Has(q, "get") /\ Has(q, "dependents") /\ Has(q, "audit")
         /\ q.todo = << "host", "ident", "write", "audit" >> /\ q.kind # "delete" =>
              InOrder(q) /\ Has(q, "host") /\ Has(q, "ident")
         /\ q.todo = << "get", "host", "ident", "write", "audit" >> /\ q.kind # "delete" =>
              InOrder(q) /\ Has(q, "get") /\ Has(q, "host") /\ Has(q, "ident")
         /\ q.todo = << "get", "write", "audit" >> /\ q.kind # "delete" => InOrder(q) /\ Has(q, "get")
         /\ q.todo = << "get", "host", "ident", "write" >> =>
              InOrder(q) /\ Has(q, "get") /\ ~Has(q, "audit")
         /\ q.todo = << "get", "host", "ident", "pins", "write" >> => InOrder(q) /\ Has(q, "get")
<1>1. q.todo = << "write" >> => InOrder(q) /\ Has(q, "write")
  BY DEF InOrder, Has
<1>2. q.todo = << "get", "write" >> => InOrder(q) /\ Has(q, "get") /\ ~Has(q, "audit")
  BY DEF InOrder, Has, Rank
<1>3. q.todo = << "write", "audit" >> /\ q.kind # "delete" => InOrder(q)
  BY DEF InOrder, Rank
<1>4. q.todo = << "get", "dependents", "write" >> => InOrder(q) /\ Has(q, "get") /\ Has(q, "dependents")
  BY DEF InOrder, Has, Rank
<1>5. q.todo = << "get", "dependents", "audit", "write" >> /\ q.kind = "delete" =>
              InOrder(q) /\ Has(q, "get") /\ Has(q, "dependents") /\ Has(q, "audit")
  BY DEF InOrder, Has, Rank
<1>6. q.todo = << "host", "ident", "write", "audit" >> /\ q.kind # "delete" =>
              InOrder(q) /\ Has(q, "host") /\ Has(q, "ident")
  BY DEF InOrder, Has, Rank
<1>7. q.todo = << "get", "host", "ident", "write", "audit" >> /\ q.kind # "delete" =>
              InOrder(q) /\ Has(q, "get") /\ Has(q, "host") /\ Has(q, "ident")
  BY DEF InOrder, Has, Rank
<1>8. q.todo = << "get", "write", "audit" >> /\ q.kind # "delete" => InOrder(q) /\ Has(q, "get")
  BY DEF InOrder, Has, Rank
<1>9. q.todo = << "get", "host", "ident", "write" >> =>
              InOrder(q) /\ Has(q, "get") /\ ~Has(q, "audit")
  BY DEF InOrder, Has, Rank
<1>10. q.todo = << "get", "host", "ident", "pins", "write" >> => InOrder(q) /\ Has(q, "get")
  BY DEF InOrder, Has, Rank
<1> QED  BY <1>1, <1>2, <1>3, <1>4, <1>5, <1>6, <1>7, <1>8, <1>9, <1>10

\* Every route begins sound.
LEMMA BeginStep ==
  ASSUME IInv, NEW r \in Reqs, NEW u \in Users, Begin(r, u)
  PROVE  IInv'
<1>0. /\ Hosts \subseteq Ids /\ Idents \subseteq Ids /\ Profiles \subseteq Ids
      /\ (Hosts \cup Idents) \cap Profiles = {}
  BY InventoryAssumption DEF Ids
<1>1. ASSUME NEW id \in Hosts,
             CreateHost(r, u, id)
      PROVE  IInv'
  <2> DEFINE todo == << "write" >>
             new == [kind |-> "create", todo |-> todo, user |-> u, id |-> id,
                     host |-> None, ident |-> None, barred |-> Bars("create", id)]
  <2>1. Request(r, "create", u, id, None, None, todo)
    BY <1>1 DEF CreateHost
  <2>2. todo \in Seq(Steps) /\ todo # << >> /\ Bars("create", id) \in BOOLEAN
    BY DEF Steps, Bars
  <2>3. PICK q : q = new
    OBVIOUS
  <2>4. /\ q \in Requests /\ q.kind = "create" /\ q.todo = todo /\ q.id = id /\ q.user = u
        /\ q.host = None /\ q.ident = None
    BY <1>0, <2>2, <2>3 DEF Requests, Kinds
  <2>5. Fresh(u, id)
    BY <1>1 DEF CreateHost
  <2>6. Sound(q)
    BY <1>0, <2>4, <2>5, RouteLists DEF Sound, Kinds, Fresh
  <2> QED  BY <2>1, <2>3, <2>5, <2>6, RequestStep
<1>2. ASSUME NEW id \in Hosts,
             UpdateHost(r, u, id)
      PROVE  IInv'
  <2> DEFINE todo == << "get", "write" >>
             new == [kind |-> "update", todo |-> todo, user |-> u, id |-> id,
                     host |-> None, ident |-> None, barred |-> Bars("update", id)]
  <2>1. Request(r, "update", u, id, None, None, todo)
    BY <1>2 DEF UpdateHost
  <2>2. todo \in Seq(Steps) /\ todo # << >> /\ Bars("update", id) \in BOOLEAN
    BY DEF Steps, Bars
  <2>3. PICK q : q = new
    OBVIOUS
  <2>4. /\ q \in Requests /\ q.kind = "update" /\ q.todo = todo /\ q.id = id /\ q.user = u
        /\ q.host = None /\ q.ident = None
    BY <1>0, <2>2, <2>3 DEF Requests, Kinds
  <2>5. Sound(q)
    BY <1>0, <2>4, RouteLists DEF Sound, Kinds
  <2> QED  BY <2>1, <2>3, <2>5, RequestStep
<1>3. ASSUME NEW id \in Hosts,
             DeleteHost(r, u, id)
      PROVE  IInv'
  <2> DEFINE todo == << "get", "dependents", "write" >>
             new == [kind |-> "delete", todo |-> todo, user |-> u, id |-> id,
                     host |-> None, ident |-> None, barred |-> Bars("delete", id)]
  <2>1. Request(r, "delete", u, id, None, None, todo)
    BY <1>3 DEF DeleteHost
  <2>2. todo \in Seq(Steps) /\ todo # << >> /\ Bars("delete", id) \in BOOLEAN
    BY DEF Steps, Bars
  <2>3. PICK q : q = new
    OBVIOUS
  <2>4. /\ q \in Requests /\ q.kind = "delete" /\ q.todo = todo /\ q.id = id /\ q.user = u
        /\ q.host = None /\ q.ident = None
    BY <1>0, <2>2, <2>3 DEF Requests, Kinds
  <2>5. Sound(q)
    BY <1>0, <2>4, RouteLists DEF Sound, Kinds
  <2> QED  BY <2>1, <2>3, <2>5, RequestStep
<1>4. ASSUME NEW id \in Idents,
             CreateIdentity(r, u, id)
      PROVE  IInv'
  <2> DEFINE todo == << "write", "audit" >>
             new == [kind |-> "create", todo |-> todo, user |-> u, id |-> id,
                     host |-> None, ident |-> None, barred |-> Bars("create", id)]
  <2>1. Request(r, "create", u, id, None, None, todo)
    BY <1>4 DEF CreateIdentity
  <2>2. todo \in Seq(Steps) /\ todo # << >> /\ Bars("create", id) \in BOOLEAN
    BY DEF Steps, Bars
  <2>3. PICK q : q = new
    OBVIOUS
  <2>4. /\ q \in Requests /\ q.kind = "create" /\ q.todo = todo /\ q.id = id /\ q.user = u
        /\ q.host = None /\ q.ident = None
    BY <1>0, <2>2, <2>3 DEF Requests, Kinds
  <2>5. Fresh(u, id)
    BY <1>4 DEF CreateIdentity
  <2>6. Sound(q)
    BY <1>0, <2>4, <2>5, RouteLists DEF Sound, Kinds, Fresh
  <2> QED  BY <2>1, <2>3, <2>5, <2>6, RequestStep
<1>5. ASSUME NEW id \in Idents,
             RenameIdentity(r, u, id)
      PROVE  IInv'
  <2> DEFINE todo == << "get", "write" >>
             new == [kind |-> "update", todo |-> todo, user |-> u, id |-> id,
                     host |-> None, ident |-> None, barred |-> Bars("update", id)]
  <2>1. Request(r, "update", u, id, None, None, todo)
    BY <1>5 DEF RenameIdentity
  <2>2. todo \in Seq(Steps) /\ todo # << >> /\ Bars("update", id) \in BOOLEAN
    BY DEF Steps, Bars
  <2>3. PICK q : q = new
    OBVIOUS
  <2>4. /\ q \in Requests /\ q.kind = "update" /\ q.todo = todo /\ q.id = id /\ q.user = u
        /\ q.host = None /\ q.ident = None
    BY <1>0, <2>2, <2>3 DEF Requests, Kinds
  <2>5. Sound(q)
    BY <1>0, <2>4, RouteLists DEF Sound, Kinds
  <2> QED  BY <2>1, <2>3, <2>5, RequestStep
<1>6. ASSUME NEW id \in Idents,
             DeleteIdentity(r, u, id)
      PROVE  IInv'
  <2> DEFINE todo == << "get", "dependents", "audit", "write" >>
             new == [kind |-> "delete", todo |-> todo, user |-> u, id |-> id,
                     host |-> None, ident |-> None, barred |-> Bars("delete", id)]
  <2>1. Request(r, "delete", u, id, None, None, todo)
    BY <1>6 DEF DeleteIdentity
  <2>2. todo \in Seq(Steps) /\ todo # << >> /\ Bars("delete", id) \in BOOLEAN
    BY DEF Steps, Bars
  <2>3. PICK q : q = new
    OBVIOUS
  <2>4. /\ q \in Requests /\ q.kind = "delete" /\ q.todo = todo /\ q.id = id /\ q.user = u
        /\ q.host = None /\ q.ident = None
    BY <1>0, <2>2, <2>3 DEF Requests, Kinds
  <2>5. Sound(q)
    BY <1>0, <2>4, RouteLists DEF Sound, Kinds
  <2> QED  BY <2>1, <2>3, <2>5, RequestStep
<1>7. ASSUME NEW id \in Profiles,
             DeleteProfile(r, u, id)
      PROVE  IInv'
  <2> DEFINE todo == << "get", "dependents", "audit", "write" >>
             new == [kind |-> "delete", todo |-> todo, user |-> u, id |-> id,
                     host |-> None, ident |-> None, barred |-> Bars("delete", id)]
  <2>1. Request(r, "delete", u, id, None, None, todo)
    BY <1>7 DEF DeleteProfile
  <2>2. todo \in Seq(Steps) /\ todo # << >> /\ Bars("delete", id) \in BOOLEAN
    BY DEF Steps, Bars
  <2>3. PICK q : q = new
    OBVIOUS
  <2>4. /\ q \in Requests /\ q.kind = "delete" /\ q.todo = todo /\ q.id = id /\ q.user = u
        /\ q.host = None /\ q.ident = None
    BY <1>0, <2>2, <2>3 DEF Requests, Kinds
  <2>5. Sound(q)
    BY <1>0, <2>4, RouteLists DEF Sound, Kinds
  <2> QED  BY <2>1, <2>3, <2>5, RequestStep
<1>8. ASSUME NEW id \in Profiles,
             DisableProfile(r, u, id)
      PROVE  IInv'
  <2> DEFINE todo == << "get", "write", "audit" >>
             new == [kind |-> "disable", todo |-> todo, user |-> u, id |-> id,
                     host |-> None, ident |-> None, barred |-> Bars("disable", id)]
  <2>1. Request(r, "disable", u, id, None, None, todo)
    BY <1>8 DEF DisableProfile
  <2>2. todo \in Seq(Steps) /\ todo # << >> /\ Bars("disable", id) \in BOOLEAN
    BY DEF Steps, Bars
  <2>3. PICK q : q = new
    OBVIOUS
  <2>4. /\ q \in Requests /\ q.kind = "disable" /\ q.todo = todo /\ q.id = id /\ q.user = u
        /\ q.host = None /\ q.ident = None
    BY <1>0, <2>2, <2>3 DEF Requests, Kinds
  <2>5. Sound(q)
    BY <1>0, <2>4, RouteLists DEF Sound, Kinds
  <2> QED  BY <2>1, <2>3, <2>5, RequestStep
<1>9. ASSUME NEW id \in Profiles,
             EnableProfile(r, u, id)
      PROVE  IInv'
  <2> DEFINE todo == << "get", "write", "audit" >>
             new == [kind |-> "enable", todo |-> todo, user |-> u, id |-> id,
                     host |-> None, ident |-> None, barred |-> Bars("enable", id)]
  <2>1. Request(r, "enable", u, id, None, None, todo)
    BY <1>9 DEF EnableProfile
  <2>2. todo \in Seq(Steps) /\ todo # << >> /\ Bars("enable", id) \in BOOLEAN
    BY DEF Steps, Bars
  <2>3. PICK q : q = new
    OBVIOUS
  <2>4. /\ q \in Requests /\ q.kind = "enable" /\ q.todo = todo /\ q.id = id /\ q.user = u
        /\ q.host = None /\ q.ident = None
    BY <1>0, <2>2, <2>3 DEF Requests, Kinds
  <2>5. Sound(q)
    BY <1>0, <2>4, RouteLists DEF Sound, Kinds
  <2> QED  BY <2>1, <2>3, <2>5, RequestStep
<1>10. ASSUME NEW id \in Profiles,
             TrustHostKey(r, u, id)
      PROVE  IInv'
  <2> DEFINE todo == << "get", "host", "ident", "write" >>
             new == [kind |-> "trust", todo |-> todo, user |-> u, id |-> id,
                     host |-> None, ident |-> None, barred |-> Bars("trust", id)]
  <2>1. Request(r, "trust", u, id, None, None, todo)
    BY <1>10 DEF TrustHostKey
  <2>2. todo \in Seq(Steps) /\ todo # << >> /\ Bars("trust", id) \in BOOLEAN
    BY DEF Steps, Bars
  <2>3. PICK q : q = new
    OBVIOUS
  <2>4. /\ q \in Requests /\ q.kind = "trust" /\ q.todo = todo /\ q.id = id /\ q.user = u
        /\ q.host = None /\ q.ident = None
    BY <1>0, <2>2, <2>3 DEF Requests, Kinds
  <2>5. Sound(q)
    BY <1>0, <2>4, RouteLists DEF Sound, Kinds
  <2> QED  BY <2>1, <2>3, <2>5, RequestStep
<1>11. ASSUME NEW id \in Profiles,
             LaunchSession(r, u, id)
      PROVE  IInv'
  <2> DEFINE todo == << "get", "host", "ident", "pins", "write" >>
             new == [kind |-> "launch", todo |-> todo, user |-> u, id |-> id,
                     host |-> None, ident |-> None, barred |-> Bars("launch", id)]
  <2>1. Request(r, "launch", u, id, None, None, todo)
    BY <1>11 DEF LaunchSession
  <2>2. todo \in Seq(Steps) /\ todo # << >> /\ Bars("launch", id) \in BOOLEAN
    BY DEF Steps, Bars
  <2>3. PICK q : q = new
    OBVIOUS
  <2>4. /\ q \in Requests /\ q.kind = "launch" /\ q.todo = todo /\ q.id = id /\ q.user = u
        /\ q.host = None /\ q.ident = None
    BY <1>0, <2>2, <2>3 DEF Requests, Kinds
  <2>5. Sound(q)
    BY <1>0, <2>4, RouteLists DEF Sound, Kinds
  <2> QED  BY <2>1, <2>3, <2>5, RequestStep
<1>12. ASSUME NEW id \in Profiles, NEW h \in Hosts, NEW i \in Idents,
             CreateProfile(r, u, id, h, i)
      PROVE  IInv'
  <2> DEFINE todo == << "host", "ident", "write", "audit" >>
             new == [kind |-> "create", todo |-> todo, user |-> u, id |-> id,
                     host |-> h, ident |-> i, barred |-> Bars("create", id)]
  <2>1. Request(r, "create", u, id, h, i, todo)
    BY <1>12 DEF CreateProfile
  <2>2. todo \in Seq(Steps) /\ todo # << >> /\ Bars("create", id) \in BOOLEAN
    BY DEF Steps, Bars
  <2>3. PICK q : q = new
    OBVIOUS
  <2>4. /\ q \in Requests /\ q.kind = "create" /\ q.todo = todo /\ q.id = id /\ q.user = u
        /\ q.host = h /\ q.ident = i
    BY <1>0, <2>2, <2>3 DEF Requests, Kinds
  <2>5. Fresh(u, id)
    BY <1>12 DEF CreateProfile
  <2>6. Sound(q)
    BY <1>0, <2>4, <2>5, RouteLists DEF Sound, Kinds, Fresh
  <2> QED  BY <2>1, <2>3, <2>5, <2>6, RequestStep
<1>13. ASSUME NEW id \in Profiles, NEW h \in Hosts \cup {None}, NEW i \in Idents \cup {None},
             UpdateProfile(r, u, id, h, i)
      PROVE  IInv'
  <2> DEFINE todo == << "get", "host", "ident", "write", "audit" >>
             new == [kind |-> "update", todo |-> todo, user |-> u, id |-> id,
                     host |-> h, ident |-> i, barred |-> Bars("update", id)]
  <2>1. Request(r, "update", u, id, h, i, todo)
    BY <1>13 DEF UpdateProfile
  <2>2. todo \in Seq(Steps) /\ todo # << >> /\ Bars("update", id) \in BOOLEAN
    BY DEF Steps, Bars
  <2>3. PICK q : q = new
    OBVIOUS
  <2>4. /\ q \in Requests /\ q.kind = "update" /\ q.todo = todo /\ q.id = id /\ q.user = u
        /\ q.host = h /\ q.ident = i
    BY <1>0, <2>2, <2>3 DEF Requests, Kinds
  <2>5. Sound(q)
    BY <1>0, <2>4, RouteLists DEF Sound, Kinds
  <2> QED  BY <2>1, <2>3, <2>5, RequestStep
<1> QED  BY <1>1, <1>2, <1>3, <1>4, <1>5, <1>6, <1>7, <1>8, <1>9, <1>10, <1>11, <1>12, <1>13 DEF Begin

-----------------------------------------------------------------------------
(* The invariant *)

LEMMA InitIInv ==
  Init => IInv
<1> SUFFICES ASSUME Init PROVE IInv
  OBVIOUS
<1>1. TypeOK
  BY IdleHolds DEF Init, TypeOK
<1>2. ReferencesOwned
  <2>1. \A p \in Profiles : p \notin Provisioned
    BY InventoryAssumption
  <2> QED  BY <2>1 DEF Init, ReferencesOwned, Ids
<1>3. RequestsHold
  <2>1. \A r \in Reqs : req[r] = Idle
    BY DEF Init
  <2> QED  BY <2>1, IdleHolds DEF RequestsHold, CreatesApart, Kinds
<1>4. DeletionAudited
  BY DEF Init, DeletionAudited, Ids
<1> QED  BY <1>1, <1>2, <1>3, <1>4, IInvParts

LEMMA NextIInv ==
  IInv /\ [Next]_vars => IInv'
<1> SUFFICES ASSUME IInv, [Next]_vars PROVE IInv'
  OBVIOUS
<1>1. ASSUME NEW r \in Reqs, Step(r)
      PROVE  IInv'
  <2>1. CASE Get(r) \/ GetHost(r) \/ GetIdentity(r) \/ ListPins(r) \/ CheckDependents(r)
    BY <2>1, GetStep, LookupStep
  <2>2. CASE InsertHost(r) \/ InsertIdentity(r) \/ InsertProfile(r)
    BY <2>2, InsertStep, InsertProfileStep
  <2>3. CASE WriteHost(r) \/ WriteName(r) \/ WriteProfile(r) \/ SetDisabledAt(r)
    BY <2>3, WriteNameStep, WriteProfileStep, SetDisabledAtStep
  <2>4. CASE DeleteHostRow(r) \/ DeleteIdentityRow(r) \/ DeleteProfileRow(r)
    BY <2>4, DeleteStep
  <2>5. CASE RecordTrusted(r) \/ InsertSession(r)
    BY <2>5, UseStep
  <2>6. CASE WriteLifecycleAudit(r) \/ WriteCreateAudit(r) \/ WriteDeleteAudit(r)
    BY <2>6, AuditStep
  <2> QED  BY <1>1, <2>1, <2>2, <2>3, <2>4, <2>5, <2>6 DEF Step
<1>2. ASSUME NEW r \in Reqs, Fail(r) PROVE IInv'
  BY <1>2, FailStep
<1>3. ASSUME NEW r \in Reqs, NEW u \in Users, Begin(r, u) PROVE IInv'
  BY <1>3, BeginStep
<1>4. CASE UNCHANGED vars
  <2>1. UNCHANGED << rows, audits >> /\ req' = req
    BY <1>4 DEF vars
  <2>2. req' \in [Reqs -> Requests]
    BY <2>1, IInvParts DEF TypeOK
  <2>3. RequestsHold'
    BY <2>1, IInvParts DEF RequestsHold, CreatesApart, RowsHold, Has, PastStep, rows
  <2> QED  BY <2>1, <2>2, <2>3, ReadOnly, IInvParts
<1> QED  BY <1>1, <1>2, <1>3, <1>4 DEF Next

-----------------------------------------------------------------------------
(* Theorems *)

\* Every reachable state of the tables and of the requests that are under way
\* satisfies the inductive invariant.
THEOREM InventoryInvariant == Spec => []IInv
  BY InitIInv, NextIInv, PTL DEF Spec

\* Whatever creates, updates and deletes interleave, a profile's host and
\* identity exist and are its owner's, a session's profile and a pin's host
\* exist (the owner checks of the routes and the schema's foreign keys).
THEOREM ReferencesStayOwned == Spec => []InventoryInv
<1>1. IInv => InventoryInv
  BY DEF IInv
<1> QED  BY <1>1, InventoryInvariant, PTL

\* No profile and no identity is deleted without its deleted event, also when
\* a statement fails half way or two deletes race (ssh_identities.rs delete,
\* server_profiles.rs delete).
THEOREM DeletesAreAudited == Spec => []DeletionAudited
<1>1. IInv => DeletionAudited
  BY DEF IInv
<1> QED  BY <1>1, InventoryInvariant, PTL

\* A request that began after a profile was disabled, a host pinned or a
\* session launched never reaches its write on a row that is still there.
THEOREM BarredRequestsStop == Spec => []BarredNeverWrites
<1>1. IInv => BarredNeverWrites
  <2> SUFFICES ASSUME IInv, NEW r \in Reqs, req[r].barred, row[req[r].id] = "live",
                      At(r, "audit") \/ At(r, "write")
               PROVE  FALSE
    BY DEF BarredNeverWrites
  <2>1. ~Has(req[r], "get") /\ ~Has(req[r], "dependents")
    BY AtWrite
  <2>2. RowsHold(req[r])
    BY IInvParts DEF RequestsHold
  <2> QED  BY <2>1, <2>2 DEF RowsHold
<1> QED  BY <1>1, InventoryInvariant, PTL
=============================================================================
