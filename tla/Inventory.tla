----------------------------- MODULE Inventory ------------------------------
(***************************************************************************)
(* Hosts, SSH identities and server profiles: the routes of                *)
(* routes/v1/hosts.rs, ssh_identities.rs and server_profiles.rs that       *)
(* create, change, disable and delete them, and the two requests that use  *)
(* a profile later: a host key trust and a session launch.                 *)
(*                                                                         *)
(* A route is a chain of statements, each of its own transaction: an       *)
(* owner-scoped lookup, a check of dependents, an audit insert, the write. *)
(* A request carries the statements its route has still to run; requests   *)
(* interleave between any two of them, and the schema's foreign keys are   *)
(* all that protects the last statement.  A row's fields that no other row *)
(* depends on (names, ports, tags, keys) are left out.                     *)
(***************************************************************************)
EXTENDS Naturals, Sequences, FiniteSets

CONSTANTS
  Users, Hosts, Idents, Profiles,
  Reqs,       \* request tasks
  Provisioned,\* rows that exist at the start
  Owner,      \* the user who creates a row: ids are fresh, so this only names them
  None

Ids == Hosts \cup Idents \cup Profiles
Kinds == {"create", "update", "delete", "disable", "enable", "trust", "launch"}
Steps == {"get", "host", "ident", "pins", "dependents", "audit", "write"}

ASSUME InventoryAssumption ==
  /\ Owner \in [Ids -> Users]
  /\ None \notin Ids \cup Users \cup Kinds
  /\ Hosts \cap Idents = {} /\ (Hosts \cup Idents) \cap Profiles = {}
  /\ Provisioned \subseteq Hosts \cup Idents

VARIABLES
  row,      \* "none" before the insert, "live", "gone" after the delete
  host_id,  \* of a profile
  ident_id,
  disabled, \* profiles whose disabled_at is set
  pins,     \* hosts that have rows in known_host_entries
  sessions, \* profiles that have rows in terminal_sessions, which are never deleted
  audits,   \* the rows whose deleted event was written
  req

rows == << row, host_id, ident_id, disabled, pins, sessions >>
vars == << rows, audits, req >>

\* barred: ever since the request began something committed before forbids it
\* (history).
Idle == [kind |-> None, todo |-> << >>, user |-> None, id |-> None,
         host |-> None, ident |-> None, barred |-> FALSE]
Requests ==
  [kind : Kinds \cup {None}, todo : Seq(Steps), user : Users \cup {None}, id : Ids \cup {None},
   host : Hosts \cup {None}, ident : Idents \cup {None}, barred : BOOLEAN]

TypeOK ==
  /\ row \in [Ids -> {"none", "live", "gone"}]
  /\ host_id \in [Profiles -> Hosts \cup {None}]
  /\ ident_id \in [Profiles -> Idents \cup {None}]
  /\ disabled \subseteq Profiles /\ sessions \subseteq Profiles
  /\ pins \subseteq Hosts
  /\ audits \subseteq Ids
  /\ req \in [Reqs -> Requests]

Init ==
  /\ row = [i \in Ids |-> IF i \in Provisioned THEN "live" ELSE "none"]
  /\ host_id = [p \in Profiles |-> None]
  /\ ident_id = [p \in Profiles |-> None]
  /\ disabled = {} /\ sessions = {} /\ pins = {}
  /\ audits = {}
  /\ req = [r \in Reqs |-> Idle]

-----------------------------------------------------------------------------
(* Requests *)

At(r, step) == req[r].todo # << >> /\ Head(req[r].todo) = step
Writes(r, kind, ids) == At(r, "write") /\ req[r].kind = kind /\ req[r].id \in ids
Done(r) == req' = [req EXCEPT ![r] = Idle]

\* The statement went through: on to the next one, or the answer.  What no later
\* statement uses is forgotten.
Go(r) ==
  LET rest == Tail(req[r].todo)
      uses == req[r].kind \in {"launch", "trust"}
  IN
  IF rest = << >> THEN Done(r)
  ELSE req' = [req EXCEPT
         ![r].todo = rest,
         ![r].host = IF rest = << "audit" >> \/ (req[r].kind = "launch" /\ rest = << "write" >>)
                       THEN None ELSE @,
         ![r].ident = IF rest = << "audit" >> \/ (uses /\ Head(rest) # "ident") THEN None ELSE @]

\* A disabled profile bars launches and trusts; pins and sessions bar deletes.
Bars(kind, id) ==
  \/ kind \in {"launch", "trust"} /\ id \in disabled
  \/ kind = "delete" /\ id \in pins \cup sessions

Request(r, kind, u, id, h, i, todo) ==
  /\ req[r].todo = << >>
  /\ req' = [req EXCEPT ![r] = [kind |-> kind, todo |-> todo, user |-> u, id |-> id,
                                host |-> h, ident |-> i, barred |-> Bars(kind, id)]]
  /\ UNCHANGED << rows, audits >>

\* A new row's id is fresh and its owner is the caller.
Fresh(u, id) ==
  row[id] = "none" /\ u = Owner[id] /\ \A s \in Reqs : ~(req[s].kind = "create" /\ req[s].id = id)

-----------------------------------------------------------------------------
(* The routes *)

CreateHost(r, u, id) == Fresh(u, id) /\ Request(r, "create", u, id, None, None, << "write" >>)
UpdateHost(r, u, id) == Request(r, "update", u, id, None, None, << "get", "write" >>)
DeleteHost(r, u, id) == Request(r, "delete", u, id, None, None, << "get", "dependents", "write" >>)

\* Generated and imported keys take the same steps; the vault's part is in Records.
CreateIdentity(r, u, id) ==
  Fresh(u, id) /\ Request(r, "create", u, id, None, None, << "write", "audit" >>)
RenameIdentity(r, u, id) == Request(r, "update", u, id, None, None, << "get", "write" >>)

\* mutant of DeleteIdentity: nothing is audited before the delete
DeleteIdentitySilent(r, u, id) ==
  Request(r, "delete", u, id, None, None, << "get", "dependents", "write" >>)

DeleteIdentity(r, u, id) ==
  Request(r, "delete", u, id, None, None, << "get", "dependents", "audit", "write" >>)

CreateProfile(r, u, id, h, i) ==
  Fresh(u, id) /\ Request(r, "create", u, id, h, i, << "host", "ident", "write", "audit" >>)
UpdateProfile(r, u, id, h, i) ==
  Request(r, "update", u, id, h, i, << "get", "host", "ident", "write", "audit" >>)
DeleteProfile(r, u, id) ==
  Request(r, "delete", u, id, None, None, << "get", "dependents", "audit", "write" >>)
DisableProfile(r, u, id) == Request(r, "disable", u, id, None, None, << "get", "write", "audit" >>)
EnableProfile(r, u, id) == Request(r, "enable", u, id, None, None, << "get", "write", "audit" >>)

\* The host key exchange between the lookups and the write is in HostKeys, the
\* quota checks of a launch in SessionQuota.
TrustHostKey(r, u, id) ==
  Request(r, "trust", u, id, None, None, << "get", "host", "ident", "write" >>)
LaunchSession(r, u, id) ==
  Request(r, "launch", u, id, None, None, << "get", "host", "ident", "pins", "write" >>)

-----------------------------------------------------------------------------
(* Lookups and checks *)

\* get(id) and the route's filter on owner_id.
Owned(u, id) == row[id] = "live" /\ Owner[id] = u

\* disable and enable return early; launch and trust refuse a disabled profile
\* and go on with the row's references.
Get(r) ==
  LET q == req[r] IN
  /\ At(r, "get")
  /\ IF \/ ~Owned(q.user, q.id)
        \/ q.kind \in {"disable", "launch", "trust"} /\ q.id \in disabled
        \/ q.kind = "enable" /\ q.id \notin disabled
       THEN Done(r)
       ELSE IF q.kind \in {"launch", "trust"}
         THEN req' = [req EXCEPT ![r].todo = Tail(@), ![r].host = host_id[q.id],
                                 ![r].ident = ident_id[q.id]]
         ELSE Go(r)
  /\ UNCHANGED << rows, audits >>

\* mutant of GetHost: anybody's host will do
GetHostAny(r) ==
  /\ At(r, "host")
  /\ IF req[r].host = None \/ row[req[r].host] = "live" THEN Go(r) ELSE Done(r)
  /\ UNCHANGED << rows, audits >>

\* A patch that leaves the reference alone looks nothing up.
GetHost(r) ==
  /\ At(r, "host")
  /\ IF req[r].host = None \/ Owned(req[r].user, req[r].host) THEN Go(r) ELSE Done(r)
  /\ UNCHANGED << rows, audits >>

GetIdentity(r) ==
  /\ At(r, "ident")
  /\ IF req[r].ident = None \/ Owned(req[r].user, req[r].ident) THEN Go(r) ELSE Done(r)
  /\ UNCHANGED << rows, audits >>

\* A launch needs a trusted pin.
ListPins(r) ==
  /\ At(r, "pins")
  /\ IF req[r].host \in pins THEN Go(r) ELSE Done(r)
  /\ UNCHANGED << rows, audits >>

\* any_dependents_for_user of the three repositories.
IdentityDependents(u, id) == \E p \in Profiles : Owned(u, p) /\ ident_id[p] = id
ProfileDependents(u, id) == id \in sessions

\* mutant of HostDependents: a host's pins are not looked at
HostDependentsNoPins(u, id) == \E p \in Profiles : Owned(u, p) /\ host_id[p] = id

HostDependents(u, id) == id \in pins \/ \E p \in Profiles : Owned(u, p) /\ host_id[p] = id

CheckDependents(r) ==
  LET u == req[r].user
      id == req[r].id
  IN
  /\ At(r, "dependents")
  /\ IF \/ id \in Hosts /\ HostDependents(u, id)
        \/ id \in Idents /\ IdentityDependents(u, id)
        \/ id \in Profiles /\ ProfileDependents(u, id)
       THEN Done(r) ELSE Go(r)
  /\ UNCHANGED << rows, audits >>

-----------------------------------------------------------------------------
(* Writes *)

InsertHost(r) ==
  /\ Writes(r, "create", Hosts)
  /\ row' = [row EXCEPT ![req[r].id] = "live"]
  /\ Go(r)
  /\ UNCHANGED << host_id, ident_id, disabled, pins, sessions, audits >>

InsertIdentity(r) ==
  /\ Writes(r, "create", Idents)
  /\ row' = [row EXCEPT ![req[r].id] = "live"]
  /\ Go(r)
  /\ UNCHANGED << host_id, ident_id, disabled, pins, sessions, audits >>

\* The foreign keys of an INSERT or an UPDATE of server_profiles.
RefsExist(h, i) == (h = None \/ row[h] = "live") /\ (i = None \/ row[i] = "live")

InsertProfile(r) ==
  LET q == req[r] IN
  /\ Writes(r, "create", Profiles)
  /\ IF RefsExist(q.host, q.ident)
       THEN /\ row' = [row EXCEPT ![q.id] = "live"]
            /\ host_id' = [host_id EXCEPT ![q.id] = q.host]
            /\ ident_id' = [ident_id EXCEPT ![q.id] = q.ident]
            /\ Go(r)
       ELSE UNCHANGED << row, host_id, ident_id >> /\ Done(r)
  /\ UNCHANGED << disabled, pins, sessions, audits >>

\* UPDATE ... WHERE id AND owner_id: no row, no change (404).
WriteHost(r) ==
  /\ Writes(r, "update", Hosts)
  /\ Go(r)
  /\ UNCHANGED << rows, audits >>

WriteName(r) ==
  /\ Writes(r, "update", Idents)
  /\ Go(r)
  /\ UNCHANGED << rows, audits >>

\* SET host_id = COALESCE($4, host_id)
WriteProfile(r) ==
  LET q == req[r] IN
  /\ Writes(r, "update", Profiles)
  /\ IF row[q.id] = "live" /\ RefsExist(q.host, q.ident)
       THEN /\ host_id' = IF q.host = None THEN host_id ELSE [host_id EXCEPT ![q.id] = q.host]
            /\ ident_id' = IF q.ident = None THEN ident_id ELSE [ident_id EXCEPT ![q.id] = q.ident]
            /\ Go(r)
       ELSE UNCHANGED << host_id, ident_id >> /\ Done(r)
  /\ UNCHANGED << row, disabled, pins, sessions, audits >>

\* set_disabled_at writes unconditionally.
SetDisabledAt(r) ==
  LET q == req[r] IN
  /\ At(r, "write") /\ q.kind \in {"disable", "enable"}
  /\ IF row[q.id] = "live"
       THEN /\ disabled' = IF q.kind = "disable" THEN disabled \cup {q.id} ELSE disabled \ {q.id}
            /\ req' = [s \in Reqs |->
                        IF s = r THEN [q EXCEPT !.todo = Tail(@)]
                        ELSE [req[s] EXCEPT !.barred = @ /\ (q.kind = "enable" => req[s].id # q.id)]]
       ELSE UNCHANGED disabled /\ Done(r)
  /\ UNCHANGED << row, host_id, ident_id, pins, sessions, audits >>

\* DELETE ... WHERE id AND owner_id, unless a row that refers to it restricts.
Delete(id, referenced) ==
  row' = IF row[id] = "live" /\ ~referenced THEN [row EXCEPT ![id] = "gone"] ELSE row

\* known_host_entries go with their host: ON DELETE CASCADE.
DeleteHostRow(r) ==
  LET id == req[r].id IN
  /\ Writes(r, "delete", Hosts)
  /\ Delete(id, \E p \in Profiles : row[p] = "live" /\ host_id[p] = id)
  /\ pins' = IF row'[id] = "live" THEN pins ELSE pins \ {id}
  /\ Go(r)
  /\ UNCHANGED << host_id, ident_id, disabled, sessions, audits >>

DeleteIdentityRow(r) ==
  LET id == req[r].id IN
  /\ Writes(r, "delete", Idents)
  /\ Delete(id, \E p \in Profiles : row[p] = "live" /\ ident_id[p] = id)
  /\ Go(r)
  /\ UNCHANGED << host_id, ident_id, disabled, pins, sessions, audits >>

DeleteProfileRow(r) ==
  /\ Writes(r, "delete", Profiles)
  /\ Delete(req[r].id, req[r].id \in sessions)
  /\ Go(r)
  /\ UNCHANGED << host_id, ident_id, disabled, pins, sessions, audits >>

\* record_trusted: known_host_entries.host_id must exist.
RecordTrusted(r) ==
  LET h == req[r].host IN
  /\ Writes(r, "trust", Profiles)
  /\ IF row[h] = "live" THEN pins' = pins \cup {h} ELSE UNCHANGED pins
  /\ Done(r)
  /\ UNCHANGED << row, host_id, ident_id, disabled, sessions, audits >>

\* create_session's INSERT: terminal_sessions.server_profile_id must exist.
InsertSession(r) ==
  /\ Writes(r, "launch", Profiles)
  /\ sessions' = IF row[req[r].id] = "live" THEN sessions \cup {req[r].id} ELSE sessions
  /\ Done(r)
  /\ UNCHANGED << row, host_id, ident_id, disabled, pins, audits >>

\* The audit inserts; of the feed the model keeps the deleted events.
WriteLifecycleAudit(r) ==
  /\ At(r, "audit") /\ req[r].id \in Profiles
  /\ audits' = IF req[r].kind = "delete" THEN audits \cup {req[r].id} ELSE audits
  /\ Go(r)
  /\ UNCHANGED rows

WriteCreateAudit(r) ==
  /\ At(r, "audit") /\ req[r].id \in Idents /\ req[r].kind = "create"
  /\ Go(r)
  /\ UNCHANGED << rows, audits >>

WriteDeleteAudit(r) ==
  /\ At(r, "audit") /\ req[r].id \in Idents /\ req[r].kind = "delete"
  /\ audits' = audits \cup {req[r].id}
  /\ Go(r)
  /\ UNCHANGED rows

\* A statement fails and the route answers 500, or its future is dropped.
Fail(r) ==
  /\ req[r].todo # << >>
  /\ Done(r)
  /\ UNCHANGED << rows, audits >>

Step(r) ==
  \/ Get(r) \/ GetHost(r) \/ GetIdentity(r) \/ ListPins(r) \/ CheckDependents(r)
  \/ InsertHost(r) \/ InsertIdentity(r) \/ InsertProfile(r)
  \/ WriteHost(r) \/ WriteName(r) \/ WriteProfile(r) \/ SetDisabledAt(r)
  \/ DeleteHostRow(r) \/ DeleteIdentityRow(r) \/ DeleteProfileRow(r)
  \/ RecordTrusted(r) \/ InsertSession(r)
  \/ WriteLifecycleAudit(r) \/ WriteCreateAudit(r) \/ WriteDeleteAudit(r)

Begin(r, u) ==
  \/ \E id \in Hosts : CreateHost(r, u, id) \/ UpdateHost(r, u, id) \/ DeleteHost(r, u, id)
  \/ \E id \in Idents :
       CreateIdentity(r, u, id) \/ RenameIdentity(r, u, id) \/ DeleteIdentity(r, u, id)
  \/ \E id \in Profiles :
       DeleteProfile(r, u, id) \/ DisableProfile(r, u, id) \/ EnableProfile(r, u, id)
         \/ TrustHostKey(r, u, id) \/ LaunchSession(r, u, id)
  \/ \E id \in Profiles, h \in Hosts, i \in Idents : CreateProfile(r, u, id, h, i)
  \/ \E id \in Profiles, h \in Hosts \cup {None}, i \in Idents \cup {None} :
       UpdateProfile(r, u, id, h, i)

Next == \E r \in Reqs : Step(r) \/ Fail(r) \/ \E u \in Users : Begin(r, u)

Spec == Init /\ [][Next]_vars

-----------------------------------------------------------------------------
(* Properties *)

\* Every profile names a host and an identity that exist and belong to the
\* profile's own owner, every session's profile and every pin's host exist,
\* however creates, updates and deletes of the four rows interleave.
ReferencesOwned ==
  /\ \A p \in Profiles :
       /\ row[p] = "live" => /\ host_id[p] \in Hosts /\ Owned(Owner[p], host_id[p])
                             /\ ident_id[p] \in Idents /\ Owned(Owner[p], ident_id[p])
       /\ p \in sessions => row[p] = "live"
  /\ \A h \in pins : row[h] = "live"

\* The order in which a route runs its statements: a delete is audited before
\* the write, everything else after it.
Rank(kind, step) ==
  CASE step = "get" -> 1 [] step = "host" -> 2 [] step = "ident" -> 3
    [] step = "pins" -> 4 [] step = "dependents" -> 5
    [] step = "audit" -> IF kind = "delete" THEN 6 ELSE 7
    [] step = "write" -> IF kind = "delete" THEN 7 ELSE 6
InOrder(q) == \A i, j \in DOMAIN q.todo : i < j => Rank(q.kind, q.todo[i]) < Rank(q.kind, q.todo[j])
Has(q, step) == \E i \in DOMAIN q.todo : q.todo[i] = step
PastStep(q, step) == q.todo # << >> /\ ~Has(q, step)

\* What a request knows once a lookup is behind it, and still knows whatever
\* the others write since: whose rows it names.
RefsHold(q) ==
  /\ InOrder(q)
  /\ q.todo # << >> => q.kind \in Kinds
  /\ q.kind \in Kinds => q.id \in IF q.kind \in {"create", "update", "delete"} THEN Ids ELSE Profiles
  /\ PastStep(q, "get") => q.user = Owner[q.id]
  /\ PastStep(q, "host") => q.host = None \/ Owner[q.host] = q.user
  /\ PastStep(q, "ident") => q.ident = None \/ Owner[q.ident] = q.user
  /\ q.kind = "trust" => ~Has(q, "audit") /\ (PastStep(q, "get") => q.host \in Hosts)
  /\ q.kind = "create" /\ Has(q, "write") /\ q.id \in Profiles => q.host \in Hosts /\ q.ident \in Idents

\* What it relies on in the tables: the id that is still its own to insert, the
\* event before the delete, what its check of dependents or of disabled_at found.
RowsHold(q) ==
  /\ q.kind = "create" /\ Has(q, "write") => row[q.id] = "none"
  /\ q.kind = "delete" /\ q.id \notin Hosts /\ PastStep(q, "audit") => q.id \in audits
  /\ q.barred =>
       \/ q.kind \in {"launch", "trust"} /\ q.id \in disabled /\ Has(q, "get")
       \/ q.kind = "delete" /\ row[q.id] = "gone"
       \/ q.kind = "delete" /\ q.id \in pins \cup sessions /\ Has(q, "dependents")

CreatesApart ==
  \A r, s \in Reqs : r # s /\ req[r].kind = "create" /\ req[s].kind = "create" => req[r].id # req[s].id

\* The rows stay well formed and owned under every interleaving of the routes:
\* the owner checks of the routes and the foreign keys cover each other's gaps.
InventoryInv ==
  TypeOK /\ ReferencesOwned /\ CreatesApart /\ \A r \in Reqs : RefsHold(req[r]) /\ RowsHold(req[r])

\* A profile or an identity is never deleted without its deleted event, also
\* when a statement fails half way or two deletes race.
DeletionAudited == \A id \in Idents \cup Profiles : row[id] = "gone" => id \in audits

\* What was committed before a request began is never overlooked: a disabled
\* profile is not used, and a host with pins or a profile with sessions not
\* deleted, by a request that began later.
BarredNeverWrites ==
  \A r \in Reqs : req[r].barred /\ row[req[r].id] = "live" => ~At(r, "audit") /\ ~At(r, "write")

\* "Do not hard-delete known_host_entries": the comment on DELETE
\* /api/v1/hosts/:id calls its check the enforcement of that rule.
PinHistoryKept == [][pins \subseteq pins']_vars
=============================================================================
