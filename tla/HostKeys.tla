------------------------------ MODULE HostKeys ------------------------------
(***************************************************************************)
(* Host key trust for one host: the pins in known_host_entries, the routes *)
(* that probe, trust and replace them, and the two users of a pin, the     *)
(* auth check and the SSH PTY bridge of a session launch.                  *)
(*                                                                         *)
(* routes/v1/server_profiles.rs (host_key_preflight, trust_host_key,       *)
(* replace_host_key, auth_check), relayterm-ssh (preflight.rs,             *)
(* auth_check.rs, russh_probe.rs, russh_auth.rs), the repository           *)
(* known_host_entry.rs, and the pin check of terminal_sessions.rs create.  *)
(*                                                                         *)
(* A request reads the pins, then talks to the SSH server for seconds,     *)
(* then acts on what it read: every wait is a point where other requests   *)
(* and the server's administrator, who may change the host key, take       *)
(* steps.  A fingerprint stands for the key it digests.                    *)
(***************************************************************************)
EXTENDS Naturals, FiniteSets

CONSTANTS
  Keys,        \* the host keys the server may present
  TypeOf,      \* [Keys -> key types]
  Reqs,        \* request tasks
  None,
  MaxPermits   \* max_concurrent of SshAuthCheckService

Kinds == {"preflight", "trust", "replace", "check", "launch"}

ASSUME KeysAssumption ==
  /\ None \notin Keys \cup Reqs \cup Kinds
  /\ DOMAIN TypeOf = Keys
  /\ MaxPermits \in Nat \ {0}
  /\ IsFiniteSet(Reqs)

VARIABLES
  pins,         \* the row of a key: "none", "trusted", "revoked"
  replaced_by,  \* known_host_entries.replaced_by_id, None when NULL
  locked,       \* the task whose transaction holds the row's lock
  server,       \* the key the server presents now
  disabled,     \* server_profiles.disabled_at is set
  permits,      \* free permits of the auth check's semaphore
  req

vars == << pins, replaced_by, locked, server, disabled, permits, req >>

Steps == {"idle", "read", "probe", "trust", "lock", "commit", "acquire", "connect", "auth"}
\* known: the rows list_for_host returned.  gone: the keys that were already
\* revoked when the request began (history).
Request == [kind : Kinds \cup {None}, pc : Steps, known : [Keys -> {"none", "trusted", "revoked"}],
            old : Keys \cup {None}, new : Keys \cup {None}, captured : Keys \cup {None},
            gone : SUBSET Keys]
NoRows == [k \in Keys |-> "none"]
Idle == [kind |-> None, pc |-> "idle", known |-> NoRows, old |-> None, new |-> None,
         captured |-> None, gone |-> {}]

TypeOK ==
  /\ pins \in [Keys -> {"none", "trusted", "revoked"}]
  /\ replaced_by \in [Keys -> Keys \cup {None}]
  /\ locked \in [Keys -> Reqs \cup {None}]
  /\ server \in Keys
  /\ disabled \in BOOLEAN
  /\ permits \in 0 .. MaxPermits
  /\ req \in [Reqs -> Request]

Init ==
  /\ pins = NoRows
  /\ replaced_by = [k \in Keys |-> None]
  /\ locked = [k \in Keys |-> None]
  /\ server \in Keys
  /\ disabled = FALSE
  /\ permits = MaxPermits
  /\ req = [r \in Reqs |-> Idle]

At(r, kind, step) == req[r].pc = step /\ req[r].kind = kind
Go(r, step) == req' = [req EXCEPT ![r].pc = step]
Done(r) == req' = [req EXCEPT ![r] = Idle]

-----------------------------------------------------------------------------
(* Classification *)

Active(rows) == {k \in Keys : rows[k] = "trusted"}
Revoked(rows) == {k \in Keys : rows[k] = "revoked"}

\* Every row is written with trusted_at set, so an active match is Trusted.
classify_host_key(captured, rows) ==
  IF captured \in Active(rows) THEN "Trusted"
  ELSE IF \E k \in Active(rows) : TypeOf[k] = TypeOf[captured] THEN "Changed"
  ELSE "Unknown"

\* mutant of AcceptPins: revoked pins count
AcceptPinsRevoked(rows) == {k \in Keys : rows[k] # "none"}

\* accept_pins of the auth check and of create.
AcceptPins(rows) == Active(rows)

-----------------------------------------------------------------------------
(* The requests, up to the SSH connection *)

\* old and new are the fingerprints the operator's form names.
Start(r, kind, old, new) ==
  /\ req[r].pc = "idle"
  /\ req' = [req EXCEPT ![r] = [Idle EXCEPT !.kind = kind, !.pc = "read", !.old = old,
                                            !.new = new,
                          !.gone = IF kind \in {"check", "launch"} THEN Revoked(pins) ELSE {}]]
  /\ UNCHANGED << pins, replaced_by, locked, server, disabled, permits >>

\* resolve_owned_profile, the disabled check and list_for_host.  A launch
\* without a trusted pin is refused.
ReadPins(r) ==
  /\ req[r].pc = "read"
  /\ IF disabled \/ (req[r].kind = "launch" /\ AcceptPins(pins) = {})
       THEN Done(r)
       ELSE req' = [req EXCEPT ![r].known = pins,
                               ![r].pc = CASE req[r].kind = "check" -> "acquire"
                                           [] req[r].kind = "launch" -> "connect"
                                           [] OTHER -> "probe"]
  /\ UNCHANGED << pins, replaced_by, locked, server, disabled, permits >>

\* capture_host_key: the probe accepts any key and never authenticates.
Captured == server

\* preflight only reports what it found.
ProbePreflight(r) ==
  /\ At(r, "preflight", "probe")
  /\ Done(r)
  /\ UNCHANGED << pins, replaced_by, locked, server, disabled, permits >>

ProbeTrust(r) ==
  /\ At(r, "trust", "probe")
  /\ IF \/ classify_host_key(Captured, req[r].known) = "Changed"
        \/ Captured # req[r].new
        \/ Captured \in Revoked(req[r].known)
       THEN Done(r)
       ELSE req' = [req EXCEPT ![r].pc = "trust", ![r].captured = Captured, ![r].known = NoRows]
  /\ UNCHANGED << pins, replaced_by, locked, server, disabled, permits >>

ProbeReplace(r) ==
  /\ At(r, "replace", "probe")
  /\ IF Captured = req[r].old \/ Captured # req[r].new \/ Captured \in Revoked(req[r].known)
       THEN Done(r)
       ELSE req' = [req EXCEPT ![r].pc = "lock", ![r].captured = Captured, ![r].known = NoRows]
  /\ UNCHANGED << pins, replaced_by, locked, server, disabled, permits >>

-----------------------------------------------------------------------------
(* record_trusted and replace_active_pin *)

\* The upsert waits for a transaction that holds the row, then inserts it,
\* keeps a trusted row, or returns no row for a revoked one (a conflict).
RecordTrusted(r) ==
  LET k == req[r].captured IN
  /\ At(r, "trust", "trust")
  /\ locked[k] = None
  /\ pins' = [pins EXCEPT ![k] = IF @ = "none" THEN "trusted" ELSE @]
  /\ Done(r)
  /\ UNCHANGED << replaced_by, locked, server, disabled, permits >>

\* mutant of ReplaceLock: the row need not be active
ReplaceLockAny(r) ==
  LET k == req[r].old IN
  /\ At(r, "replace", "lock")
  /\ locked[k] = None
  /\ IF pins[k] # "none"
       THEN locked' = [locked EXCEPT ![k] = r] /\ Go(r, "commit")
       ELSE UNCHANGED locked /\ Done(r)
  /\ UNCHANGED << pins, replaced_by, server, disabled, permits >>

\* SELECT ... FOR UPDATE of the active row: it waits for another holder, and
\* then finds no row if that one revoked it (active_pin_mismatch).
ReplaceLock(r) ==
  LET k == req[r].old IN
  /\ At(r, "replace", "lock")
  /\ locked[k] = None
  /\ IF pins[k] = "trusted"
       THEN locked' = [locked EXCEPT ![k] = r] /\ Go(r, "commit")
       ELSE UNCHANGED locked /\ Done(r)
  /\ UNCHANGED << pins, replaced_by, server, disabled, permits >>

\* The rest of the transaction, visible to others at its commit: a row for
\* the new key refuses the replacement, else the new row is inserted, the old
\* one revoked and both audit events appended.
ReplaceCommit(r) ==
  LET old == req[r].old
      new == req[r].captured
  IN
  /\ At(r, "replace", "commit")
  /\ locked' = [locked EXCEPT ![old] = None]
  /\ IF pins[new] = "none"
       THEN /\ pins' = [pins EXCEPT ![new] = "trusted", ![old] = "revoked"]
            /\ replaced_by' = [replaced_by EXCEPT ![old] = new]
       ELSE UNCHANGED << pins, replaced_by >>
  /\ Done(r)
  /\ UNCHANGED << server, disabled, permits >>

-----------------------------------------------------------------------------
(* SshAuthCheckService::auth_check and the PTY bridge *)

Acquire(r) ==
  /\ At(r, "check", "acquire")
  /\ IF permits = 0
       THEN Done(r) /\ UNCHANGED permits
       ELSE Go(r, "connect") /\ permits' = permits - 1
  /\ UNCHANGED << pins, replaced_by, locked, server, disabled >>

\* mutant of Released: a mismatch keeps the permit
ReleasedLate(r) == permits' = IF req[r].kind = "check" /\ req[r].pc = "auth"
                                THEN permits + 1 ELSE permits

\* The permit is dropped with the request.
Released(r) == permits' = IF req[r].kind = "check" /\ req[r].pc \in {"connect", "auth"}
                            THEN permits + 1 ELSE permits

\* check_server_key compares the presented key with the pins that were read:
\* only a match goes on to authenticate with the private key.
CheckServerKey(r) == server \in AcceptPins(req[r].known)

Handshake(r) ==
  /\ IF CheckServerKey(r)
       THEN req' = [req EXCEPT ![r].pc = "auth", ![r].captured = server, ![r].known = NoRows]
            /\ UNCHANGED permits
       ELSE Done(r) /\ Released(r)
  /\ UNCHANGED << pins, replaced_by, locked, server, disabled >>

ConnectCheck(r) == At(r, "check", "connect") /\ Handshake(r)
ConnectPty(r) == At(r, "launch", "connect") /\ Handshake(r)

Authenticate(r) ==
  /\ req[r].pc = "auth"
  /\ Done(r) /\ Released(r)
  /\ UNCHANGED << pins, replaced_by, locked, server, disabled >>

\* A connection fails, a timeout elapses, a statement fails or the client
\* goes away: the request's guards are dropped, its transaction rolled back.
Drop(r) ==
  /\ req[r].pc # "idle"
  /\ Done(r) /\ Released(r)
  /\ locked' = [k \in Keys |-> IF locked[k] = r THEN None ELSE locked[k]]
  /\ UNCHANGED << pins, replaced_by, server, disabled >>

-----------------------------------------------------------------------------
(* The environment *)

Rekey(k) ==
  /\ server' = k
  /\ UNCHANGED << pins, replaced_by, locked, disabled, permits, req >>

\* set_disabled_at through the disable and enable routes.
SetDisabled(b) ==
  /\ disabled' = b
  /\ UNCHANGED << pins, replaced_by, locked, server, permits, req >>

Step(r) ==
  \/ ReadPins(r) \/ ProbePreflight(r) \/ ProbeTrust(r) \/ ProbeReplace(r)
  \/ RecordTrusted(r) \/ ReplaceLock(r) \/ ReplaceCommit(r)
  \/ Acquire(r) \/ ConnectCheck(r) \/ ConnectPty(r) \/ Authenticate(r)

\* The routes: a form names the fingerprints its operator saw.
HostKeyPreflight(r) == Start(r, "preflight", None, None)
TrustHostKey(r) == \E k \in Keys : Start(r, "trust", None, k)
ReplaceHostKey(r) == \E old, new \in Keys : old # new /\ Start(r, "replace", old, new)
AuthCheck(r) == Start(r, "check", None, None)
Launch(r) == Start(r, "launch", None, None)

Next ==
  \/ \E r \in Reqs : HostKeyPreflight(r) \/ TrustHostKey(r) \/ ReplaceHostKey(r)
                      \/ AuthCheck(r) \/ Launch(r) \/ Step(r) \/ Drop(r)
  \/ \E k \in Keys : Rekey(k)
  \/ \E b \in BOOLEAN : SetDisabled(b)

Spec == Init /\ [][Next]_vars

-----------------------------------------------------------------------------
(* Properties *)

\* A private key is offered to a server only over a key that was pinned when
\* the request read the pins: never over one whose revocation was already
\* committed when the request began, however long the request waited.
OfferedOnlyToPinned ==
  \A r \in Reqs : req[r].pc = "auth" =>
    pins[req[r].captured] # "none" /\ req[r].captured \notin req[r].gone

\* A revoked pin stays revoked and keeps its replacement, even when a trust
\* or a replacement that read the rows before the revocation finishes after it.
RevokedForever ==
  [][\A k \in Keys : pins[k] = "revoked" =>
       pins'[k] = "revoked" /\ replaced_by'[k] = replaced_by[k]]_vars

\* Every revoked pin was replaced by exactly one key that has a row, and no
\* key replaces two pins: of two racing replacements of one pin, or with one
\* key, only one commits.
ReplacementsPair ==
  /\ \A k \in Keys : pins[k] = "revoked" <=> replaced_by[k] # None
  /\ \A k \in Keys : replaced_by[k] # None => pins[replaced_by[k]] # "none"
  /\ \A j, k \in Keys : replaced_by[j] = replaced_by[k] /\ replaced_by[j] # None => j = k

\* The semaphore's permits are exactly those no running auth check holds,
\* after refusals, timeouts and dropped requests alike.
Holders == {r \in Reqs : req[r].kind = "check" /\ req[r].pc \in {"connect", "auth"}}
PermitsAccounted == permits = MaxPermits - Cardinality(Holders)

\* What a request carries from one step to the next is still worth acting on:
\* the transaction's row is locked by it and active, every pin it will accept
\* has a row and was not revoked when the request began.
ReqInv(r) ==
  /\ req[r].kind = "replace" => req[r].old \in Keys
  /\ req[r].pc \in {"lock", "commit"} => req[r].kind = "replace"
  /\ req[r].pc \in {"trust", "lock", "commit", "auth"} => req[r].captured \in Keys
  /\ req[r].pc = "commit" => locked[req[r].old] = r /\ pins[req[r].old] = "trusted"
  /\ req[r].gone \subseteq Revoked(pins)
  /\ \A k \in Keys : req[r].known[k] = "trusted" => pins[k] # "none" /\ k \notin req[r].gone
  /\ req[r].pc = "auth" => pins[req[r].captured] # "none" /\ req[r].captured \notin req[r].gone

\* The pins, their replacement links, what the requests hold of them and the
\* auth check's permits stay consistent under racing trusts, replacements,
\* checks and timeouts (replace_active_pin's transaction, the semaphore of
\* SshAuthCheckService).  This is inductive.
PinsInv ==
  /\ TypeOK
  /\ ReplacementsPair
  /\ PermitsAccounted
  /\ \A r \in Reqs : ReqInv(r)

\* A test of replace_active_pin says of the real flows that "every trust path
\* enforces one active pin per host".
OneActivePin == Cardinality(Active(pins)) <= 1
=============================================================================
