------------------------------ MODULE Records -------------------------------
(***************************************************************************)
(* How a value gets from a request body into a row and back: the DTOs'     *)
(* validation (relayterm-api/src/dto), the domain validators               *)
(* (relayterm-core/src/validation.rs), the columns' CHECK constraints, and *)
(* the conversion of a row that is read (relayterm-db/src/rows.rs), which  *)
(* trusts the text columns and refuses anything else it does not know.     *)
(*                                                                         *)
(* A text is what the validators look at: its length in characters and     *)
(* bytes, the classes of its characters, the first one's, and whether it   *)
(* starts or ends with whitespace.  An optional value is a sequence of     *)
(* length at most one.  One row of each table is enough.                   *)
(***************************************************************************)
EXTENDS Integers, Sequences, SequencesExt, FiniteSets, ApiErrors

CONSTANTS
  HostBodies, HostPatches, ProfileBodies, ProfilePatches,   \* request bodies
  Names, KeyTags, Pems, Dims,
  MasterKeys, PrivateKeys,
  Disabled,        \* in place of a master key: the vault is not configured
  MaxTags, NoRow

\* CreateServerProfileRequest is a struct: serde gives it all of its fields.
ASSUME ProfileBodiesAssumption ==
  \A b \in ProfileBodies : DOMAIN b = {"name", "username_override", "tags"}

ASSUME VaultAssumption == Disabled \notin MasterKeys

VARIABLES
  host, profile, identity, session,   \* a row, or NoRow
  master_key,                         \* of the running process, or Disabled
  answer,                             \* what the last request got
  cause                               \* whose doing it is: "none", the "body", the
                                      \* "caller", a "row" in the way, the "peer"'s
                                      \* refusal, the "vault" or a "dependency"

recordVars == << host, profile, identity, session, master_key, answer, cause >>

-----------------------------------------------------------------------------
(* Domain validation.                                                      *)

Text(first, classes, chars, bytes, padded) ==
  [first |-> first, classes |-> classes, chars |-> chars, bytes |-> bytes, padded |-> padded]

Alnum == {"letter", "digit"}

\* validate_host_display_name and, with their own limits, validate_profile_name and
\* validate_identity_name.
DisplayText(t, max) ==
  /\ t.chars \in 1 .. max /\ ~t.padded /\ "control" \notin t.classes

ValidHostDisplayName(t) == DisplayText(t, 128)
ValidProfileName(t) == DisplayText(t, 64)
ValidIdentityName(t) == DisplayText(t, 64)

ValidHostname(t) == t.bytes \in 1 .. 253 /\ t.classes \subseteq Alnum \cup {"-", ".", ":", "[", "]", "_"}

U16Max == 65535
ValidSshPort(port) == port \in 1 .. U16Max

ValidSshUsername(t) ==
  /\ t.bytes \in 1 .. 64
  /\ t.first \in {"letter", "_"}
  /\ t.classes \subseteq Alnum \cup {"-", "_", "."}

ValidTag(t) == t.bytes \in 1 .. 32 /\ t.classes \subseteq Alnum \cup {"-", "_"}

ValidTags(tags) ==
  /\ Len(tags) <= MaxTags
  /\ \A i \in DOMAIN tags : ValidTag(tags[i])
  /\ \A i, j \in DOMAIN tags : tags[i] = tags[j] => i = j

\* validate_dim of the session manager: MIN_DIM ..= MAX_DIM.
ValidDim(d) == d \in 1 .. 4096

OptionalIs(opt, P(_)) == opt # << >> => P(opt[1])
Given(opt, old) == IF opt # << >> THEN opt[1] ELSE old

\* Vault.
KeyTypes == {"ed25519", "rsa", "ecdsa_p256", "ecdsa_p384", "ecdsa_p521"}

Encrypt(key, plaintext) == [magic |-> "RTV1", version |-> 1, under |-> key, plain |-> plaintext]

Decrypt(key, blob) ==
  IF blob.magic # "RTV1" \/ blob.version # 1 THEN << "BlobFormat" >>
    ELSE IF blob.under # key THEN << "Decrypt" >> ELSE << "ok", blob.plain >>

\* generate_ssh_identity makes a fresh pair and seals it; only ed25519 is supported.
Sealed(key, private, key_type, name) ==
  [name |-> name, key_type |-> key_type, public_key |-> private, fingerprint |-> private,
   encrypted_private_key |-> Encrypt(key, private)]

-----------------------------------------------------------------------------
(* Storage.                                                                *)

\* The CHECK constraints of the tables.
HostChecks(r) == r.port \in 1 .. U16Max
IdentityChecks(r) == r.key_type \in KeyTypes
SessionChecks(r) ==
  r.cols \in 1 .. 4096 /\ r.rows \in 1 .. 4096
    /\ r.status \in {"starting", "active", "detached", "closed"}

\* try_into_domain: i32 to u16, zero refused for a port, known tags only.
HostReads(r) == r.port \in 0 .. U16Max /\ r.port # 0
IdentityReads(r) == r.key_type \in KeyTypes
SessionReads(r) == /\ r.status \in {"starting", "active", "detached", "closed"}
                   /\ r.cols \in 0 .. U16Max /\ r.rows \in 0 .. U16Max

Success(s) == [status |-> s, code |-> "none", detail |-> FALSE]
Replied(s) == answer' = Success(s) /\ cause' = "none"
Failed(kind, why) == /\ answer' = Envelope(kind) /\ cause' = why
                     /\ UNCHANGED << host, profile, identity, session >>
Refused(kind) == Failed(kind, "body")

\* The row is stored; the audit event after it may fail, and the caller hears of it.
Audited(s) ==
  \/ Replied(s)
  \/ answer' = Envelope(FromRepository("Database")) /\ cause' = "dependency"

\* The insert or update of row r, with the CHECKs of its table.
CheckFailed == Refused(FromRepository(MapSqlxError("check")))

-----------------------------------------------------------------------------
(* Requests.                                                               *)

RecordsInit ==
  /\ host = NoRow /\ profile = NoRow /\ identity = NoRow /\ session = NoRow
  /\ master_key \in MasterKeys \cup {Disabled}
  /\ answer = Success(0) /\ cause = "none"

\* CreateHostRequest::into_create; the port defaults to 22.
HostBodyValid(b) ==
  /\ ValidHostDisplayName(b.display_name) /\ ValidHostname(b.hostname)
  /\ ValidSshPort(Given(b.port, 22)) /\ ValidSshUsername(b.default_username)

StoreHost(r, status) ==
  IF ~HostChecks(r) THEN CheckFailed
    ELSE host' = r /\ Replied(status) /\ UNCHANGED << profile, identity, session >>

CreateHost(b) ==
  /\ host = NoRow
  /\ IF ~HostBodyValid(b) THEN Refused("Validation")
       ELSE StoreHost([display_name |-> b.display_name, hostname |-> b.hostname,
                       port |-> Given(b.port, 22), default_username |-> b.default_username], 201)
  /\ UNCHANGED master_key

\* mutant of HostPatchValid: a patched username is not checked
HostPatchValidNoUser(b) ==
  /\ OptionalIs(b.display_name, ValidHostDisplayName) /\ OptionalIs(b.hostname, ValidHostname)
  /\ OptionalIs(b.port, ValidSshPort)
  /\ \E f \in DOMAIN b : b[f] # << >>

\* UpdateHostRequest::into_update; an empty patch is refused.
HostPatchValid(b) ==
  /\ OptionalIs(b.display_name, ValidHostDisplayName) /\ OptionalIs(b.hostname, ValidHostname)
  /\ OptionalIs(b.port, ValidSshPort) /\ OptionalIs(b.default_username, ValidSshUsername)
  /\ \E f \in DOMAIN b : b[f] # << >>

\* The repository's COALESCE keeps what the patch leaves out.
UpdateHost(b) ==
  /\ host # NoRow
  /\ IF ~HostPatchValid(b) THEN Refused("Validation")
       ELSE StoreHost([f \in DOMAIN host |-> Given(b[f], host[f])], 200)
  /\ UNCHANGED master_key

\* CreateServerProfileRequest::into_create.
ProfileBodyValid(b) ==
  /\ ValidProfileName(b.name) /\ OptionalIs(b.username_override, ValidSshUsername)
  /\ ValidTags(b.tags)

CreateProfile(b) ==
  /\ profile = NoRow
  /\ IF ~ProfileBodyValid(b) THEN Refused("Validation")
       ELSE profile' = b /\ Audited(201) /\ UNCHANGED << host, identity, session >>
  /\ UNCHANGED master_key

\* UpdateServerProfileRequest::into_update.  username_override is absent (<< >>), null
\* (<< << >> >>) or a value (<< << t >> >>): deserialize_some_present.
ProfilePatchValid(b) ==
  /\ OptionalIs(b.name, ValidProfileName)
  /\ b.username_override # << >> => OptionalIs(b.username_override[1], ValidSshUsername)
  /\ OptionalIs(b.tags, ValidTags)
  /\ \E f \in DOMAIN b : b[f] # << >>

PatchedProfile(row, b) ==
  [row EXCEPT !.name = Given(b.name, @), !.tags = Given(b.tags, @),
              !.username_override = Given(b.username_override, @)]

UpdateProfile(b) ==
  /\ profile # NoRow
  /\ IF ~ProfilePatchValid(b) THEN Refused("Validation")
       ELSE profile' = PatchedProfile(profile, b) /\ Audited(200)
              /\ UNCHANGED << host, identity, session >>
  /\ UNCHANGED master_key

\* The insert with map_create_repository_error, and the audit event after it.  A
\* second identity of the same key is a duplicate_fingerprint.
StoreIdentity(r) ==
  IF ~IdentityChecks(r) THEN CheckFailed
    ELSE IF identity # NoRow THEN Failed("Conflict", "row")
    ELSE identity' = r /\ Audited(201) /\ UNCHANGED << host, profile, session >>

\* One row is enough: a second identity is only created to collide with it.
MayAdd(private) == identity = NoRow \/ (identity # NoRow /\ identity.fingerprint = private)

\* vault_or_503.
VaultDisabled == Failed("ServiceUnavailable", "vault")

\* CreateSshIdentityRequest::validate with parse_supported_key_type, then the vault.
CreateIdentity(name, tag, private) ==
  /\ MayAdd(private)
  /\ IF ~ValidIdentityName(name) \/ Given(tag, "ed25519") # "ed25519"
       THEN Refused("Validation")
       ELSE IF master_key = Disabled THEN VaultDisabled
       ELSE StoreIdentity(Sealed(master_key, private, "ed25519", name))
  /\ UNCHANGED master_key

\* ImportSshIdentityRequest::validate.
PemShape(pem) == pem.bytes \in 1 .. 8 * 1024 /\ pem.ascii /\ pem.header

\* import_ssh_identity: parse, refuse a passphrase, accept ed25519 only.
ImportError(pem) ==
  CASE ~pem.parses \/ pem.encrypted -> "UnsupportedFormat"
    [] pem.parses /\ ~pem.encrypted /\ pem.algorithm # "ed25519" -> "UnsupportedKeyType"
    [] OTHER -> "none"

ImportIdentity(name, pem) ==
  /\ MayAdd(pem.private)
  /\ IF ~ValidIdentityName(name) \/ ~PemShape(pem) THEN Refused("Validation")
       ELSE IF master_key = Disabled THEN VaultDisabled
       ELSE IF ImportError(pem) # "none" THEN Refused(FromVault(ImportError(pem)))
       ELSE StoreIdentity(Sealed(master_key, pem.private, pem.algorithm, name))
  /\ UNCHANGED master_key

\* UpdateSshIdentityRequest::validated_name.
RenameIdentity(name) ==
  /\ identity # NoRow
  /\ IF ~ValidIdentityName(name) THEN Refused("Validation")
       ELSE identity' = [identity EXCEPT !.name = name] /\ Replied(200)
              /\ UNCHANGED << host, profile, session >>
  /\ UNCHANGED master_key

\* Using the identity opens its key: a disabled vault is a 503, a key sealed under
\* another master key a 500.
Opened == Decrypt(master_key, identity.encrypted_private_key)
KeyUnusable ==
  \/ master_key = Disabled /\ VaultDisabled
  \/ /\ master_key # Disabled /\ Opened[1] # "ok"
     /\ Failed(FromVault(Opened[1]), "vault")
KeyUsable == master_key # Disabled /\ Opened[1] = "ok"

\* decrypt_identity, for a preflight or an auth check.
UseIdentity ==
  /\ identity # NoRow
  /\ \/ KeyUnusable
     \/ KeyUsable /\ Replied(200) /\ UNCHANGED << host, profile, identity, session >>
  /\ UNCHANGED master_key

\* The SSH server was reached, and said no or showed another key.
PeerRefusals == {"HostKeyNotTrusted", "AuthenticationFailed"}

\* POST /terminal-sessions once the profile is found and its host trusted: the key
\* is opened before create_session validates the dimensions and inserts the row;
\* a start that fails closes the row again.
CreateSessionRow(cols, rows, err) ==
  /\ session = NoRow /\ identity # NoRow
  /\ LET r == [status |-> "starting", cols |-> cols, rows |-> rows]
     IN  \/ KeyUnusable
         \/ /\ KeyUsable
            /\ IF ~ValidDim(cols) \/ ~ValidDim(rows)
                 THEN Refused(FromManager("InvalidDimensions"))
                 ELSE IF ~SessionChecks(r) THEN CheckFailed
                 ELSE /\ session' = [r EXCEPT !.status = IF err = "none" THEN "active" ELSE "closed"]
                      /\ IF err = "none" THEN Replied(201)
                           ELSE /\ answer' = Envelope(MapPtyStartError(err))
                                /\ cause' = IF err \in PeerRefusals THEN "peer" ELSE "dependency"
                      /\ UNCHANGED << host, profile, identity >>
  /\ UNCHANGED master_key

\* The operator restarts the backend with another master key, or with none.
RotateMasterKey ==
  /\ \E k \in (MasterKeys \cup {Disabled}) \ {master_key} : master_key' = k
  /\ answer' = Success(0) /\ cause' = "none"
  /\ UNCHANGED << host, profile, identity, session >>

\* What the layers below a route fail with through no fault of the request.
DependencyErrors ==
  {FromRepository(e) : e \in {"Validation", "Database"}}
    \cup {FromManager(e) : e \in {"PtyStart", "Validation", "Database"}}
    \cup {FromPreflight(e) : e \in {"InvalidIdentity", "Probe"}}
    \cup {FromAuthCheck(e) : e \in {"InvalidIdentity", "Saturated"}}
    \cup {FromAuthService(e) : e \in {"Repository", "Crypto"}}
    \cup {FromVault(e) : e \in {"MasterKey", "KeyGeneration", "Encrypt", "BlobFormat"}}

DependencyFails(kind) ==
  Failed(kind, "dependency") /\ UNCHANGED master_key

\* What they refuse because of the rows that are there, or are not.
RowErrors ==
  {FromRepository(e) : e \in {"NotFound", "Conflict"}}
    \cup {FromManager(e) : e \in {"NotFound", "SessionClosed", "PtyNotLive", "Conflict"}}

RowRefuses(kind) ==
  Failed(kind, "row") /\ UNCHANGED master_key

\* The extractor and login refuse a caller.
AuthRefusals == {"InvalidCredentials", "SessionInvalid", "SessionExpired", "SessionRevoked"}

CallerRefused(err) ==
  Failed(FromAuthService(err), "caller") /\ UNCHANGED master_key

RecordsNext ==
  \/ \E b \in HostBodies : CreateHost(b)
  \/ \E b \in HostPatches : UpdateHost(b)
  \/ \E b \in ProfileBodies : CreateProfile(b)
  \/ \E b \in ProfilePatches : UpdateProfile(b)
  \/ \E n \in Names, t \in KeyTags, k \in PrivateKeys : CreateIdentity(n, t, k)
  \/ \E n \in Names, p \in Pems : ImportIdentity(n, p)
  \/ \E n \in Names : RenameIdentity(n)
  \/ \E c, r \in Dims, err \in SshPtyErrors \cup {"none"} : CreateSessionRow(c, r, err)
  \/ UseIdentity
  \/ RotateMasterKey
  \/ \E kind \in DependencyErrors : DependencyFails(kind)
  \/ \E kind \in RowErrors : RowRefuses(kind)
  \/ \E err \in AuthRefusals : CallerRefused(err)

RecordsSpec == RecordsInit /\ [][RecordsNext]_recordVars

-----------------------------------------------------------------------------
(* Properties.                                                             *)

RecordsTypeOK ==
  /\ answer \in {Success(s) : s \in {0, 200, 201}} \cup {Envelope(k) : k \in ApiErrorKinds}
  /\ host # NoRow => DOMAIN host = {"display_name", "hostname", "port", "default_username"}
  /\ profile # NoRow => DOMAIN profile = {"name", "username_override", "tags"}

\* rows.rs rebuilds hosts and profiles with from_validated, without looking: so
\* whatever creates and patches led to a row, its columns still pass the domain's
\* validators, the username a session would log in with included.
StoredRowsValid ==
  /\ host # NoRow => /\ ValidHostDisplayName(host.display_name)
                     /\ ValidHostname(host.hostname)
                     /\ ValidSshPort(host.port)
                     /\ ValidSshUsername(host.default_username)
  /\ profile # NoRow => /\ ValidProfileName(profile.name)
                        /\ ValidTags(profile.tags)
  /\ host # NoRow /\ profile # NoRow =>
       ValidSshUsername(Given(profile.username_override, host.default_username))

\* A row the API stored can be read again: try_into_domain refuses none of them.
RowsReadable ==
  /\ host # NoRow => HostReads(host)
  /\ identity # NoRow => IdentityReads(identity)
  /\ session # NoRow => SessionReads(session)

\* Blame is put where it belongs: a 5xx is a failing dependency or a vault that is
\* disabled or holds another master key than the identity was sealed under, and
\* each of these is a 5xx; what the body, the caller, the rows or the SSH server's
\* refusal decide is a 4xx.  So no CHECK constraint ever fires (error.rs' From
\* impls, map_pty_start_error, vault_or_503, the DTOs' checks).
BlameIsRight ==
  /\ answer.status >= 500 <=> cause \in {"dependency", "vault"}
  /\ cause = "vault" =>
       \/ master_key = Disabled
       \/ identity # NoRow /\ identity.encrypted_private_key.under # master_key
  /\ cause = "peer" => answer.status = 409

\* A failure tells the client nothing of the server's inside, and the reasons for which
\* a caller is turned away cannot be told apart (IntoResponse, From<AuthServiceError>).
FailuresOpaque ==
  /\ answer.status >= 500 => ~answer.detail
  /\ cause = "caller" => answer = Envelope("Unauthorized") /\ ~answer.detail

\* From body to row and back, and what the caller hears of it, after any sequence of
\* creates, patches, key rotations and failures: stored rows pass the validators that
\* reading them skips, all of them can be read, and errors blame the right side and
\* tell nothing of the server (the DTOs, rows.rs, error.rs).
RowsInv == RecordsTypeOK /\ StoredRowsValid /\ RowsReadable /\ BlameIsRight /\ FailuresOpaque
=============================================================================
