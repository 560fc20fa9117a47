------------------------------ MODULE Startup -------------------------------
(***************************************************************************)
(* One run of the backend process (apps/backend/src/main.rs): load the     *)
(* configuration, validate it, connect, reconcile and sweep the database,  *)
(* resolve the vault key, build the recording runtime, spawn the retention *)
(* worker, bind, serve, and shut down on a signal.  Every step may end the *)
(* process: main returns an error at `?` and `bail!`, panics at `expect`,  *)
(* and is killed by a signal that arrives before the handlers are          *)
(* installed.                                                              *)
(***************************************************************************)
EXTENDS Config, FiniteSets

VARIABLES
  boot,        \* main's program counter
  src,         \* the operator's files and environment
  cfg,         \* what Config::load made of them
  wrote,       \* what this process did to the database
  users,       \* whether a password credential exists
  worker,      \* the retention worker's task
  recorder,    \* whether the session manager got a recording runtime
  signalled,   \* a shutdown signal reached the installed handlers
  inflight     \* the request being served: "none", "busy", or "opening" a channel

bootVars == << boot, src, cfg, wrote, users, worker, recorder, signalled, inflight >>

BootStages == {"load", "auth", "secrets", "recording", "sessions", "connect", "reconcile",
               "sweep", "first_user", "vault", "runtime", "manager", "worker", "bind",
               "serving", "joining", "exited", "failed", "panicked"}

BootTypeOK ==
  /\ boot \in BootStages
  /\ IsSource(src) /\ DOMAIN cfg = Settings
  /\ cfg.mode \in AuthModes /\ cfg.enc_mode \in EncryptionModes
  /\ cfg.compression_mode \in CompressionModes
  /\ wrote \subseteq {"reconciled", "purged"}
  /\ users \in BOOLEAN /\ recorder \in BOOLEAN
  /\ signalled \in BOOLEAN /\ inflight \in {"none", "busy", "opening"}
  /\ worker \in {"none", "waiting", "ticking", "stopped"}

\* A new process on a database that may already hold a user.
StartWith(source, has_user) ==
  /\ boot = "load" /\ src = source /\ cfg = Defaults
  /\ wrote = {} /\ users = has_user
  /\ worker = "none" /\ recorder = FALSE
  /\ signalled = FALSE /\ inflight = "none"

BootInit == IsSource(src) /\ users \in BOOLEAN /\ StartWith(src, users)

\* The process ends, and every task of its runtime with it.
Ends(how) == boot' = how /\ worker' = (IF worker = "none" THEN "none" ELSE "stopped")

\* At stage `from`, go on to `to` or return an error.
Gate(from, ok, to) ==
  /\ boot = from
  /\ IF ok THEN boot' = to /\ UNCHANGED worker ELSE Ends("failed")

LoadConfig ==
  /\ boot = "load"
  /\ IF LoadFails(src) THEN Ends("failed") /\ UNCHANGED cfg
                       ELSE boot' = "auth" /\ cfg' = Load(src) /\ UNCHANGED worker
  /\ UNCHANGED << src, wrote, users, recorder, signalled, inflight >>

CheckAuth == /\ Gate("auth", ValidateAuth(cfg), "secrets")
             /\ UNCHANGED << src, cfg, wrote, users, recorder, signalled, inflight >>

CheckSecrets == /\ Gate("secrets", ValidateProductionSecrets(cfg), "recording")
                /\ UNCHANGED << src, cfg, wrote, users, recorder, signalled, inflight >>

CheckRecording == /\ Gate("recording", ValidateTerminalRecording(cfg), "sessions")
                  /\ UNCHANGED << src, cfg, wrote, users, recorder, signalled, inflight >>

CheckSessions == /\ Gate("sessions", ValidateTerminalSessions(cfg), "connect")
                 /\ UNCHANGED << src, cfg, wrote, users, recorder, signalled, inflight >>

\* The pool opens a first connection, within its five-second timeout or not at all.
Connect == /\ \E reachable \in BOOLEAN : Gate("connect", reachable, "reconcile")
           /\ UNCHANGED << src, cfg, wrote, users, recorder, signalled, inflight >>

\* Every session row a previous process left open is closed; an error ends the boot.
Reconcile ==
  /\ \E ok \in BOOLEAN : /\ Gate("reconcile", ok, "sweep")
                         /\ wrote' = wrote \cup (IF ok THEN {"reconciled"} ELSE {})
  /\ UNCHANGED << src, cfg, users, recorder, signalled, inflight >>

\* The sweep never fails the boot, and what it purges stays purged whatever follows.
StartupSweep ==
  /\ boot = "sweep" /\ boot' = "first_user"
  /\ wrote' = wrote \cup (IF cfg.cleanup_enabled /\ cfg.startup_sweep_enabled
                            THEN {"purged"} ELSE {})
  /\ UNCHANGED << src, cfg, users, worker, recorder, signalled, inflight >>

FirstUserCheck ==
  /\ Gate("first_user",
          cfg.mode = "production" /\ ~IsSet(cfg.bootstrap_token) => users, "vault")
  /\ UNCHANGED << src, cfg, wrote, users, recorder, signalled, inflight >>

ResolveVaultKey == /\ Gate("vault", VaultMasterKey(cfg) # "refused", "runtime")
                   /\ UNCHANGED << src, cfg, wrote, users, recorder, signalled, inflight >>

\* There is no writer that encrypts, so "required" cannot be served.
BuildRecordingRuntime ==
  /\ Gate("runtime", cfg.rec_enabled => cfg.enc_mode = "disabled", "manager")
  /\ recorder' = (cfg.rec_enabled /\ cfg.enc_mode = "disabled")
  /\ UNCHANGED << src, cfg, wrote, users, signalled, inflight >>

\* NonZeroU32::new(...).expect("validate_terminal_sessions rejects 0"), three times.
BuildManager ==
  /\ boot = "manager"
  /\ IF 0 \in {cfg.max_live_per_user, cfg.max_starting_per_user, cfg.max_live_per_deployment}
       THEN Ends("panicked") ELSE boot' = "worker" /\ UNCHANGED worker
  /\ UNCHANGED << src, cfg, wrote, users, recorder, signalled, inflight >>

WorkerConfigured == /\ cfg.cleanup_enabled /\ cfg.periodic_sweep_enabled
                    /\ cfg.sweep_interval_seconds # 0

SpawnWorker ==
  /\ boot = "worker" /\ boot' = "bind"
  /\ worker' = IF WorkerConfigured THEN "waiting" ELSE "none"
  /\ UNCHANGED << src, cfg, wrote, users, recorder, signalled, inflight >>

Bind == /\ \E free \in BOOLEAN : Gate("bind", free, "serving")
        /\ UNCHANGED << src, cfg, wrote, users, recorder, signalled, inflight >>

-----------------------------------------------------------------------------
(* Serving.                                                                *)

\* Requests come in until the listener stops accepting; one may create a user.
RequestArrives ==
  /\ boot = "serving" /\ ~signalled /\ inflight = "none"
  /\ inflight' = "busy"
  /\ UNCHANGED << boot, src, cfg, wrote, users, worker, recorder, signalled >>

\* A create request waits for the SSH server to open a channel, with no timeout.
RequestOpens ==
  /\ boot = "serving" /\ inflight = "busy" /\ cfg.vault_enabled
  /\ inflight' = "opening"
  /\ UNCHANGED << boot, src, cfg, wrote, users, worker, recorder, signalled >>

RequestDone ==
  /\ boot = "serving" /\ inflight # "none"
  /\ inflight' = "none"
  /\ users' \in {users, TRUE}
  /\ UNCHANGED << boot, src, cfg, wrote, worker, recorder, signalled >>

\* The handlers are installed when axum first polls the shutdown future.
Signal ==
  /\ boot = "serving" /\ ~signalled
  /\ signalled' = TRUE
  /\ UNCHANGED << boot, src, cfg, wrote, users, worker, recorder, inflight >>

\* axum::serve returns once the signal came and the requests in flight are done.
ServeReturns ==
  /\ boot = "serving" /\ signalled /\ inflight = "none"
  /\ boot' = "joining"
  /\ UNCHANGED << src, cfg, wrote, users, worker, recorder, signalled, inflight >>

WorkerTick ==
  /\ worker = "waiting" /\ ~signalled /\ boot \notin {"exited", "failed", "panicked"}
  /\ worker' = "ticking"
  /\ UNCHANGED << boot, src, cfg, wrote, users, recorder, signalled, inflight >>

WorkerTickDone ==
  /\ worker = "ticking"
  /\ worker' = "waiting"
  /\ wrote' \in {wrote, wrote \cup {"purged"}}
  /\ UNCHANGED << boot, src, cfg, users, recorder, signalled, inflight >>

\* mutant of WorkerStops: the worker does not look at the shutdown channel
WorkerStopsNever == FALSE /\ UNCHANGED bootVars

\* `select! { biased; ...}`: the shutdown flag wins over a tick that is due.
WorkerStops ==
  /\ worker = "waiting" /\ signalled
  /\ worker' = "stopped"
  /\ UNCHANGED << boot, src, cfg, wrote, users, recorder, signalled, inflight >>

\* main joins the worker, if there is one, and returns.
JoinWorker ==
  /\ boot = "joining" /\ worker \in {"none", "stopped"}
  /\ Ends("exited")
  /\ UNCHANGED << src, cfg, wrote, users, recorder, signalled, inflight >>

\* A signal with no handler installed, or a crash.
Killed ==
  /\ boot \notin {"exited", "failed", "panicked", "joining"} /\ ~signalled
  /\ Ends("failed")
  /\ UNCHANGED << src, cfg, wrote, users, recorder, signalled, inflight >>

BootNext ==
  \/ LoadConfig \/ CheckAuth \/ CheckSecrets \/ CheckRecording \/ CheckSessions
  \/ Connect \/ Reconcile \/ StartupSweep \/ FirstUserCheck \/ ResolveVaultKey
  \/ BuildRecordingRuntime \/ BuildManager \/ SpawnWorker \/ Bind
  \/ RequestArrives \/ RequestOpens \/ RequestDone \/ Signal \/ ServeReturns
  \/ WorkerTick \/ WorkerTickDone \/ WorkerStops \/ JoinWorker \/ Killed

BootSpec == BootInit /\ [][BootNext]_bootVars

\* With a database that answers, a sweep, the awaits of main's shutdown and every request
\* finish, but for the one whose SSH server does not answer the channel open.
BootFairness ==
  WF_bootVars(\/ inflight = "busy" /\ RequestDone
              \/ ServeReturns \/ JoinWorker \/ WorkerTickDone \/ WorkerStops)

-----------------------------------------------------------------------------
(* Properties.                                                             *)

\* Four validators run before the first connection: a process that reconciled
\* or purged anything has passed them all (main.rs checks configuration before
\* it touches the database).
NothingWrittenUnvalidated == wrote # {} => Validated(cfg)

\* What production mode promises of a process that serves: one signing key, an
\* origin, secure cookies, no example placeholder in a secret, no plaintext
\* recording, a usable vault key, and a user or a token to create one.
ProductionServesSafely ==
  boot = "serving" /\ cfg.mode = "production" =>
    /\ Cardinality({k \in {"signing_key_b64", "signing_key_file"} : IsSet(cfg[k])}) = 1
    /\ Len(cfg.allowed_origins) > 0 /\ cfg.cookie_secure
    /\ \A s \in SecretShaped : cfg[s] \notin Placeholders
    /\ ~recorder
    /\ cfg.vault_enabled => VaultMasterKey(cfg) \in GoodKeys
    /\ users \/ IsSet(cfg.bootstrap_token)

\* The limits the running parts rely on: caps that are not zero (the expect calls
\* never panic) and fit the deployment's, a plaintext recorder only where the
\* operator asked for one, whose chunks fit the cap and the session's budget, and
\* a worker with a cadence of at least a minute.
LimitsUsable ==
  /\ boot # "panicked"
  /\ boot = "serving" =>
       /\ cfg.max_live_per_deployment >= cfg.max_live_per_user
       /\ cfg.max_live_per_deployment >= cfg.max_starting_per_user
       /\ recorder => /\ cfg.enc_mode = "disabled"
                      /\ cfg.chunk_target_bytes <= cfg.chunk_hard_cap_bytes
                      /\ cfg.chunk_hard_cap_bytes <= cfg.max_bytes_per_session
       /\ worker # "none" => cfg.sweep_interval_seconds >= RecordingLimits.interval_min

\* Whatever the file and the environment say, a boot touches the database only
\* with a validated configuration and serves only with one whose promises the
\* running parts may rely on (main.rs, the validators of config.rs).
BootInv == BootTypeOK /\ NothingWrittenUnvalidated /\ ProductionServesSafely /\ LimitsUsable

\* A signal that reaches a serving process ends it, after the requests in flight and
\* the worker's current sweep, or finds it waiting for the one await of a request that
\* has no timeout, the channel open of a create (main.rs' graceful shutdown,
\* russh_pty.rs' start).
ShutdownEnds == signalled ~> (boot = "exited" \/ inflight = "opening")
=============================================================================
