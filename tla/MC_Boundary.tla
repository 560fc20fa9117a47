---------------------------- MODULE MC_Boundary -----------------------------
(***************************************************************************)
(* The parts between the operator or a client and the session core, in one *)
(* run: a boot (Startup, Config), the records' way through the API         *)
(* (Records, ApiErrors), playing a recording back (RecordingReplay) and    *)
(* the attached sockets (Socket).  They share no state here: a behaviour   *)
(* is one of one part, with the others at rest.                            *)
(***************************************************************************)
EXTENDS Startup, Records, RecordingReplay, Socket

CONSTANTS c1, c2

VARIABLE part

allVars == << part, bootVars, recordVars, replayVars, socketVars >>

-----------------------------------------------------------------------------
(* Boots: a complete set-up of one of three kinds, disturbed by one value  *)
(* in the file and one in the environment.                                 *)

SetUps ==
  [dev |-> [vault_key_b64 |-> "key1"],
   recording |-> [vault_key_b64 |-> "key1", rec_enabled |-> TRUE,
                  periodic_sweep_enabled |-> TRUE, sweep_interval_seconds |-> 60],
   production |-> [mode |-> "production", signing_key_b64 |-> "sig", bootstrap_token |-> "tok",
                   allowed_origins |-> << "https://a", "" >>, vault_key_b64 |-> "key1"]]

Samples ==
  [s \in Settings |->
     CASE s \in {"signing_key_b64", "signing_key_file", "bootstrap_token", "cookie_domain"} ->
            {"sig", "CHANGE_ME", "none"}
       [] s \in {"vault_key_b64", "vault_key_file", "enc_key_b64", "enc_key_file"} ->
            {"key1", "bad", "none"}
       [] s = "url" -> {"pg", "CHANGE_ME"}
       [] s = "bind" -> {"0.0.0.0:1"}
       [] s = "mode" -> AuthModes
       [] s = "enc_mode" -> EncryptionModes
       [] s = "compression_mode" -> CompressionModes
       [] s = "allowed_origins" -> {<< "" >>, << "https://a" >>}
       [] s \in {"cookie_secure", "vault_enabled", "rec_enabled", "cleanup_enabled",
                 "startup_sweep_enabled", "periodic_sweep_enabled"} -> BOOLEAN
       [] s = "sweep_interval_seconds" -> {0, 59, 60}
       [] s \in {"chunk_target_bytes", "chunk_hard_cap_bytes", "max_bytes_per_session"} ->
            {0, 1087, 1088, 3000}
       [] s \in {"max_live_per_user", "max_starting_per_user", "max_live_per_deployment"} ->
            {0, 1, 32, 257}
       [] OTHER -> {0, 1, 100000}]

\* Settings that constrain each other.
Groups ==
  {{"signing_key_b64", "signing_key_file"}, {"vault_key_b64", "vault_key_file", "vault_enabled"},
   {"mode", "rec_enabled", "enc_mode", "enc_key_b64", "enc_key_file"},
   {"mode", "cookie_secure", "allowed_origins", "bootstrap_token"},
   {"chunk_target_bytes", "chunk_hard_cap_bytes", "max_bytes_per_session"},
   {"cleanup_enabled", "periodic_sweep_enabled", "sweep_interval_seconds"},
   {"max_live_per_user", "max_starting_per_user", "max_live_per_deployment"}}

Overlay(top, bottom) ==
  [s \in DOMAIN top \cup DOMAIN bottom |-> IF s \in DOMAIN top THEN top[s] ELSE bottom[s]]
Empty == [s \in {} |-> 0]

BootSamples ==
  \E k \in DOMAIN SetUps :
    \* one value of any setting, from the file or the environment
    \/ \E s \in Settings : \E v \in Samples[s] : \E has_user \in BOOLEAN :
         \/ StartWith([explicit |-> FALSE, file_at |-> "default", file |-> [x \in {s} |-> v],
                       well_formed |-> TRUE, env |-> SetUps[k], garbled |-> {}], has_user)
         \/ StartWith([explicit |-> FALSE, file_at |-> "nowhere", file |-> Empty,
                       well_formed |-> TRUE, env |-> Overlay([x \in {s} |-> v], SetUps[k]),
                       garbled |-> {}], has_user)
    \* two values of related settings
    \/ \E g \in Groups : \E s, t \in g : \E v \in Samples[s] : \E w \in Samples[t] :
         StartWith([explicit |-> TRUE, file_at |-> "explicit",
                    file |-> Overlay([x \in {s} |-> v], SetUps[k]), well_formed |-> TRUE,
                    env |-> [x \in {t} |-> w], garbled |-> {}], TRUE)
    \* a file in the wrong place or of the wrong shape, a variable that does not parse
    \/ \E explicit, well_formed \in BOOLEAN, at \in {"explicit", "default"},
          g \in SUBSET {"bind", "max_live_per_user"} :
         StartWith([explicit |-> explicit, file_at |-> at, file |-> SetUps[k],
                    well_formed |-> well_formed,
                    env |-> [x \in {"DATABASE_URL"} |-> "pg"], garbled |-> g], FALSE)

-----------------------------------------------------------------------------
(* Records: texts around the limits of the validators.                     *)

Good == Text("letter", {"letter"}, 4, 4, FALSE)
Odd == Text("digit", {"digit", "-"}, 5, 5, FALSE)           \* no username
Wide == Text("letter", {"letter"}, 65, 65, FALSE)           \* over 64
Spaced == Text("letter", {"letter", "space"}, 6, 6, TRUE)
Opt(S) == {<< >>} \cup {<< x >> : x \in S}

MCHostBodies ==
  [display_name : {Good, Spaced}, hostname : {Odd, Spaced},
   port : Opt({0, 65535, 65536}), default_username : {Good, Wide}]
MCHostPatches ==
  [display_name : Opt({Wide}), hostname : Opt({Spaced}), port : Opt({1, 65536}),
   default_username : Opt({Odd})]
MCProfileBodies ==
  [name : {Good, Wide}, username_override : Opt({Good, Odd}),
   tags : {<< >>, << Good, Good >>, << Good, Odd, Wide >>}]
MCProfilePatches ==
  [name : Opt({Wide}), username_override : Opt(Opt({Good, Odd})), tags : Opt({<< Odd >>, << Spaced >>})]
MCNames == {Good, Spaced}
MCKeyTags == Opt({"ed25519", "rsa"})
MCPems ==
  {[bytes |-> n, ascii |-> TRUE, header |-> TRUE, parses |-> p, encrypted |-> e,
    algorithm |-> a, private |-> "p1"] :
     n \in {400, 8193}, p \in BOOLEAN, e \in BOOLEAN, a \in {"ed25519", "rsa"}}

-----------------------------------------------------------------------------
(* Sockets: frames that decode, and frames one byte off.                   *)

Bytes == {Encode([kind |-> k, seq |-> 2, payload |-> << 1 >>]) : k \in {"Input", "Output"}}
OneOff(buf) == {[buf EXCEPT ![i] = (@ + 1) % Base] : i \in 1 .. Len(buf)}
                 \cup {SubSeq(buf, 1, Len(buf) - 1), Append(buf, 0)}
MCOutputData == {<< 0 >>, << 1, 1 >>}
MCClientFrames ==
  {[type |-> t] : t \in {"garbage", "Ping", "Attach", "Detach", "Close"}}
    \cup {[type |-> "Input", data |-> d] : d \in {<< 2 >>}}
    \cup {[type |-> "Resize", dim |-> d] : d \in {2, 3}}
    \cup {[type |-> "Binary", buf |-> b] : b \in Bytes \cup OneOff(CHOOSE x \in Bytes : Decoded(x).kind = "Input")}

-----------------------------------------------------------------------------
RecordsIdle == RecordsInit /\ master_key = "mk1"
ReplayIdle == ReplayInit /\ viewer = Owner
SocketIdle == SocketInit /\ pty = "bound"
BootIdle == StartWith([explicit |-> FALSE, file_at |-> "nowhere", file |-> Empty,
                       well_formed |-> TRUE, env |-> Empty, garbled |-> {}], FALSE)

Init ==
  \/ part = "boot" /\ BootSamples /\ RecordsIdle /\ ReplayIdle /\ SocketIdle
  \/ part = "records" /\ BootIdle /\ RecordsInit /\ ReplayIdle /\ SocketIdle
  \/ part = "replay" /\ BootIdle /\ RecordsIdle /\ ReplayInit /\ SocketIdle
  \/ part = "socket" /\ BootIdle /\ RecordsIdle /\ ReplayIdle /\ SocketInit

Next ==
  /\ UNCHANGED part
  /\ \/ part = "boot" /\ BootNext /\ UNCHANGED << recordVars, replayVars, socketVars >>
     \/ part = "records" /\ RecordsNext /\ UNCHANGED << bootVars, replayVars, socketVars >>
     \/ part = "replay" /\ ReplayNext /\ UNCHANGED << bootVars, recordVars, socketVars >>
     \/ part = "socket" /\ SocketNext /\ UNCHANGED << bootVars, recordVars, replayVars >>

Spec == Init /\ [][Next]_allVars /\ BootFairness
=============================================================================
