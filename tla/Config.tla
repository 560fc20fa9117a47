------------------------------- MODULE Config -------------------------------
(***************************************************************************)
(* The backend's configuration (apps/backend/src/config.rs): built-in      *)
(* defaults, overridden by an optional TOML file, overridden by the        *)
(* environment, and the five checks of the boot.                           *)
(*                                                                         *)
(* A configuration is a function on the settings; a layer is a partial     *)
(* one.  Sizes are in KiB (the code's limits are whole KiB), a secret is   *)
(* "none" or an opaque string, and whether a string contains CHANGE_ME, is *)
(* a usable key or does not parse is all that is kept of it.               *)
(***************************************************************************)
EXTENDS Naturals, Sequences, SequencesExt

CONSTANTS
  Placeholders,   \* strings that contain CHANGE_ME
  GoodKeys        \* what VaultMasterKey::from_base64 / from_file accept

AuthModes == {"dev", "production"}
EncryptionModes == {"disabled", "required"}
CompressionModes == {"none"}

ServerSettings == {"bind", "url", "max_connections"}
AuthSettings == {"mode", "signing_key_b64", "signing_key_file", "bootstrap_token",
                 "cookie_secure", "cookie_domain", "allowed_origins"}
VaultSettings == {"vault_enabled", "vault_key_b64", "vault_key_file"}
RecordingSettings ==
  {"rec_enabled", "retention_days", "max_bytes_per_session", "chunk_target_bytes",
   "chunk_hard_cap_bytes", "enc_mode", "enc_key_b64", "enc_key_file", "compression_mode"}
CleanupSettings == {"cleanup_enabled", "startup_sweep_enabled", "periodic_sweep_enabled",
                    "sweep_interval_seconds", "batch_size"}
SessionSettings == {"detached_live_pty_ttl_seconds", "max_live_per_user",
                    "max_starting_per_user", "max_live_per_deployment"}
Settings == ServerSettings \cup AuthSettings \cup VaultSettings \cup RecordingSettings
              \cup CleanupSettings \cup SessionSettings

RecordingLimits ==
  [retention_days_max |-> 3650, max_bytes_max |-> 1024 * 1024 * 1024,
   hard_cap_min |-> 1024 + 64,
   interval_min |-> 60, interval_max |-> 7 * 24 * 60 * 60,
   batch_min |-> 1, batch_max |-> 10000]

SessionLimits ==
  [ttl_min |-> 5, ttl_max |-> 24 * 60 * 60,
   live_user_min |-> 1, live_user_max |-> 256,
   starting_min |-> 1, starting_max |-> 32,
   deployment_min |-> 1, deployment_max |-> 4096]

Defaults ==
  [bind |-> "127.0.0.1:8080", url |-> "postgres", max_connections |-> 10,
   mode |-> "dev", signing_key_b64 |-> "none", signing_key_file |-> "none",
   bootstrap_token |-> "none", cookie_secure |-> TRUE, cookie_domain |-> "none",
   allowed_origins |-> << >>,
   vault_enabled |-> TRUE, vault_key_b64 |-> "none", vault_key_file |-> "none",
   rec_enabled |-> FALSE, retention_days |-> 30, max_bytes_per_session |-> 64 * 1024,
   chunk_target_bytes |-> 64, chunk_hard_cap_bytes |-> 2 * 1024,
   enc_mode |-> "disabled", enc_key_b64 |-> "none", enc_key_file |-> "none",
   compression_mode |-> "none",
   cleanup_enabled |-> TRUE, startup_sweep_enabled |-> TRUE,
   periodic_sweep_enabled |-> FALSE, sweep_interval_seconds |-> 0, batch_size |-> 100,
   detached_live_pty_ttl_seconds |-> 30, max_live_per_user |-> 8,
   max_starting_per_user |-> 4, max_live_per_deployment |-> 64]

IsSet(v) == v # "none"

-----------------------------------------------------------------------------
(* Loading.  A source is where the operator put things: `file` is the      *)
(* content of a TOML file that is at the path RELAYTERM_CONFIG names or at *)
(* the default path, `env` the variables that parse, `garbled` those that  *)
(* do not.                                                                 *)

\* A layer sets some of the settings; serde rejects a file with a value of the
\* wrong type as a whole, and a variable of the wrong type does not parse.
IsLayer(l) ==
  /\ DOMAIN l \subseteq Settings
  /\ "mode" \in DOMAIN l => l.mode \in AuthModes
  /\ "enc_mode" \in DOMAIN l => l.enc_mode \in EncryptionModes
  /\ "compression_mode" \in DOMAIN l => l.compression_mode \in CompressionModes
  /\ "allowed_origins" \in DOMAIN l => l.allowed_origins \in Seq(STRING)

IsSource(src) ==
  /\ src.explicit \in BOOLEAN /\ IsLayer(src.file)
  /\ IsLayer([s \in DOMAIN src.env \ {"DATABASE_URL"} |-> src.env[s]])

\* An explicit path that is not a file is ignored, and so is the default one then.
ResolveFile(src) ==
  IF src.explicit THEN src.file_at = "explicit" ELSE src.file_at = "default"

MergeInto(cfg, file) == [s \in Settings |-> IF s \in DOMAIN file THEN file[s] ELSE cfg[s]]

\* A variable that must parse and does not leaves the lower layer in place for
\* these settings ...
LenientVariables == {"bind", "max_connections", "cookie_secure", "vault_enabled"}

\* ... any string will do for these ...
TextVariables == {"url", "DATABASE_URL", "signing_key_b64", "signing_key_file",
                  "bootstrap_token", "cookie_domain", "allowed_origins", "vault_key_b64",
                  "vault_key_file", "enc_key_b64", "enc_key_file"}

\* ... and stops the boot for all others.
StrictVariables ==
  (Settings \cup {"DATABASE_URL"}) \ (LenientVariables \cup TextVariables)

\* ALLOWED_ORIGINS is one string: split at commas, trimmed, blanks dropped.
NotBlank(origin) == origin # ""
SplitOrigins(segments) ==
  LET kept[n \in 0 .. Len(segments)] ==
        IF n = 0 THEN << >>
        ELSE IF NotBlank(segments[n]) THEN Append(kept[n - 1], segments[n])
        ELSE kept[n - 1]
  IN kept[Len(segments)]

\* DATABASE_URL is applied after RELAYTERM_DATABASE__URL.
ApplyEnv(cfg, env) ==
  [s \in Settings |->
     CASE s = "url" /\ "DATABASE_URL" \in DOMAIN env -> env["DATABASE_URL"]
       [] s = "allowed_origins" /\ s \in DOMAIN env -> SplitOrigins(env[s])
       [] s \notin {"url", "allowed_origins"} /\ s \in DOMAIN env -> env[s]
       [] s = "url" /\ s \in DOMAIN env /\ "DATABASE_URL" \notin DOMAIN env -> env[s]
       [] OTHER -> cfg[s]]

LoadFails(src) ==
  \/ ResolveFile(src) /\ ~src.well_formed
  \/ src.garbled \cap StrictVariables # {}

\* Config::load, when it does not fail.
Load(src) ==
  ApplyEnv(IF ResolveFile(src) THEN MergeInto(Defaults, src.file) ELSE Defaults, src.env)

-----------------------------------------------------------------------------
(* Validation.                                                             *)

ExactlyOne(a, b) == IsSet(a) # IsSet(b)

\* mutant of ValidateAuth: two sources of the signing key pass
ValidateAuthAmbiguous(c) ==
  c.mode = "dev" \/ /\ IsSet(c.signing_key_b64) \/ IsSet(c.signing_key_file)
                    /\ c.allowed_origins # << >>
                    /\ c.cookie_secure

ValidateAuth(c) ==
  c.mode = "dev" \/ /\ ExactlyOne(c.signing_key_b64, c.signing_key_file)
                    /\ c.allowed_origins # << >>
                    /\ c.cookie_secure

ContainsPlaceholder(v) == v \in Placeholders

SecretShaped == {"signing_key_b64", "bootstrap_token", "url", "vault_key_b64", "enc_key_b64"}

ValidateProductionSecrets(c) ==
  c.mode = "dev" \/ \A s \in SecretShaped : ~ContainsPlaceholder(c[s])

RecordingSizesValid(c) ==
  /\ c.retention_days \in 1 .. RecordingLimits.retention_days_max
  /\ c.max_bytes_per_session \in 1 .. RecordingLimits.max_bytes_max
  /\ c.chunk_hard_cap_bytes >= RecordingLimits.hard_cap_min
  /\ c.chunk_target_bytes \in 1 .. c.chunk_hard_cap_bytes
  /\ c.max_bytes_per_session >= c.chunk_hard_cap_bytes

ValidateCleanup(c) ==
  /\ c.batch_size \in RecordingLimits.batch_min .. RecordingLimits.batch_max
  /\ c.sweep_interval_seconds = 0 \/ c.sweep_interval_seconds >= RecordingLimits.interval_min
  /\ c.sweep_interval_seconds <= RecordingLimits.interval_max
  /\ c.periodic_sweep_enabled => c.sweep_interval_seconds # 0

\* Checked only when recording is enabled.  The keys are compared source by
\* source, as text.
RecordingKeysValid(c) ==
  /\ \/ /\ c.enc_mode = "disabled" /\ c.mode # "production"
        /\ ~IsSet(c.enc_key_b64) /\ ~IsSet(c.enc_key_file)
     \/ c.enc_mode = "required" /\ ExactlyOne(c.enc_key_b64, c.enc_key_file)
  /\ IsSet(c.enc_key_b64) => c.enc_key_b64 # c.vault_key_b64
  /\ IsSet(c.enc_key_file) => c.enc_key_file # c.vault_key_file

ValidateTerminalRecording(c) ==
  /\ RecordingSizesValid(c)
  /\ ValidateCleanup(c)
  /\ c.rec_enabled => RecordingKeysValid(c)

ValidateTerminalSessions(c) ==
  /\ c.detached_live_pty_ttl_seconds \in SessionLimits.ttl_min .. SessionLimits.ttl_max
  /\ c.max_live_per_user \in SessionLimits.live_user_min .. SessionLimits.live_user_max
  /\ c.max_starting_per_user \in SessionLimits.starting_min .. SessionLimits.starting_max
  /\ c.max_live_per_deployment
       \in SessionLimits.deployment_min .. SessionLimits.deployment_max
  /\ c.max_live_per_deployment >= c.max_live_per_user
  /\ c.max_live_per_deployment >= c.max_starting_per_user

Validated(c) == /\ ValidateAuth(c) /\ ValidateProductionSecrets(c)
                /\ ValidateTerminalRecording(c) /\ ValidateTerminalSessions(c)

\* vault_master_key: the vault's key, "none" for a vault that is off, or "refused".
VaultMasterKey(c) ==
  CASE ~c.vault_enabled -> "none"
    [] c.vault_enabled /\ ~ExactlyOne(c.vault_key_b64, c.vault_key_file) -> "refused"
    [] OTHER -> LET key == IF IsSet(c.vault_key_b64) THEN c.vault_key_b64 ELSE c.vault_key_file
                IN  IF key \in GoodKeys THEN key ELSE "refused"
=============================================================================
