--------------------------- MODULE LicensifyClient ---------------------------
(***************************************************************************)
(* The Rust client core (client/src/lib.rs): activate, check, deactivate   *)
(* and the two setters, for a set of handles that share one cache path.    *)
(*                                                                         *)
(* A handle is one LicensifyClient value in one process.  Its methods take *)
(* &mut self, so a handle runs one call at a time, but two handles         *)
(* interleave at every file operation and every server answer, and a       *)
(* process may die between any two steps.  fs::write is two steps: open    *)
(* with truncation, then write.                                            *)
(*                                                                         *)
(* The server is outside this module: an answer is any value a server of   *)
(* this project can send, and any request may fail or run into its 4 s     *)
(* timeout.  The client's clock may be set to any time at any moment.      *)
(***************************************************************************)
EXTENDS LicenseToken

CONSTANTS
  Handles,       \* LicensifyClient values on this machine, sharing cache_path
  LicenseKeys,   \* non-empty license keys a user may enter
  Configs,       \* ClientConfig values a process may be started with
  Default,       \* default_entitlements(), never signed by a server
  None           \* absence: Option::None, the all-zero key, no usable file

\* `<cache>.seen` when it is missing or does not parse: read_rollback_marker
\* returns None, which write_rollback_marker turns into i64::MIN.
Unseen == -1

ClientConfig ==
  [server_url: BOOLEAN,                     \* FALSE: the URL is empty
   server_public_key: SigningKeys \cup {None},
   binary_matches: BOOLEAN]                 \* FALSE: another digest is pinned

ASSUME ClientAssumption ==
  /\ Configs \subseteq ClientConfig
  /\ None \notin SigningKeys \cup Machines \cup Grants \cup LicenseKeys
  /\ None # Default /\ Default \notin Grants

\* A cache blob: the token and the fingerprint whose key sealed it.
Sealed == [token: Token, sealed_for: Machines]

ASSUME NoneIsNoRecord == None \notin Sealed /\ None \notin Token /\ None \notin Leaf

VARIABLES
  now,                 \* the machine's wall clock
  machine,             \* hardware::machine_id_bytes()
  cache_file,          \* config.cache_path: a Sealed blob, or None
  seen_file,           \* the rollback marker, or Unseen
  config,              \* config[h]: self.config
  license_key,         \* license_key[h]: self.license_key
  entitlements_cache,  \* entitlements_cache[h]: self.entitlements_cache
  last_online_error,   \* last_online_error[h]: whether it is Some
  call,                \* call[h]: the call in progress and its locals
  result,              \* result[h]: what the last call returned, "none" during one
  honoured,            \* history: newest issued_at accepted since the marker was removed
  torn                 \* history: the marker was lost half-way through a rewrite

environment == <<now, machine>>
files == <<cache_file, seen_file>>
memory == <<license_key, entitlements_cache, last_online_error>>
history == <<honoured, torn>>
vars == <<environment, files, config, memory, call, result, history>>

-----------------------------------------------------------------------------
\* Control of a call in progress.

RequestPhases == {"token_key", "activate", "ca", "validate"}
MarkerPhases == {"marker_read", "marker_truncate", "marker_write"}
Phases == {"idle", "seal", "cache_truncate", "cache_write", "rollback",
           "remove_cache", "remove_marker"} \cup RequestPhases \cup MarkerPhases

Results == {"none", "inactive", "local", "online",
            "valid", "expired", "invalid", "error", "deactivated"}

Idle == [op |-> "none", phase |-> "idle", machine |-> None, leaf |-> None,
         token |-> None, seen |-> Unseen]

IsIdle(h) == call[h].phase = "idle"
At(h, phase) == call[h].phase = phase

\* The call of h goes on in `phase`.
Goto(h, phase) == call' = [call EXCEPT ![h].phase = phase]

Begin(h, op, phase) ==
  /\ call' = [call EXCEPT ![h] = [Idle EXCEPT !.op = op, !.phase = phase]]
  /\ result' = [result EXCEPT ![h] = "none"]

Return(h, r) ==
  /\ call' = [call EXCEPT ![h] = Idle]
  /\ result' = [result EXCEPT ![h] = r]

\* try_online_activation returned Err: not fatal, activate goes on with the
\* default entitlements and keeps the error for last_online_error().
ActivateLocally(h) ==
  /\ last_online_error' = [last_online_error EXCEPT ![h] = TRUE]
  /\ entitlements_cache' = [entitlements_cache EXCEPT ![h] = Default]
  /\ Return(h, "local")
  /\ UNCHANGED license_key

Newer(a, b) == IF a >= b THEN a ELSE b

-----------------------------------------------------------------------------
\* activate, up to the first request.

\* The empty key is refused before anything changes.
ActivateEmptyKey(h) ==
  /\ IsIdle(h)
  /\ Return(h, "inactive")
  /\ UNCHANGED <<environment, files, config, memory, history>>

\* No server URL: there is nothing to try, and no error to report.
ActivateWithoutServer(h, key) ==
  /\ IsIdle(h) /\ ~config[h].server_url
  /\ license_key' = [license_key EXCEPT ![h] = key]
  /\ last_online_error' = [last_online_error EXCEPT ![h] = FALSE]
  /\ entitlements_cache' = [entitlements_cache EXCEPT ![h] = Default]
  /\ Return(h, "local")
  /\ UNCHANGED <<environment, files, config, history>>

Activate(h, key) ==
  /\ IsIdle(h) /\ config[h].server_url
  /\ license_key' = [license_key EXCEPT ![h] = key]
  /\ last_online_error' = [last_online_error EXCEPT ![h] = FALSE]
  /\ Begin(h, "activate", "token_key")
  /\ UNCHANGED <<environment, files, config, entitlements_cache, history>>

-----------------------------------------------------------------------------
\* try_online_activation: requests and answers.

\* Seeded fault: the CA root is fetched without a timeout.
FaultyRequestFails(h) ==
  /\ call[h].phase \in RequestPhases \ {"ca"}
  /\ ActivateLocally(h)
  /\ UNCHANGED <<environment, files, config, history>>

\* A transport error, an error status, a body that does not decode, or the
\* timeout.
RequestFails(h) ==
  /\ call[h].phase \in RequestPhases
  /\ ActivateLocally(h)
  /\ UNCHANGED <<environment, files, config, history>>

\* The published token key replaces the configured one at once.
TokenKeyAnswered(h, key) ==
  /\ At(h, "token_key")
  /\ config' = [config EXCEPT ![h].server_public_key = key]
  /\ call' = [call EXCEPT ![h].phase = "activate", ![h].machine = machine]
  /\ UNCHANGED <<environment, files, memory, result, history>>

\* Seeded fault: a chain is expected whether or not a leaf came.
FaultyActivateAnswered(h, leaf) ==
  /\ At(h, "activate")
  /\ call' = [call EXCEPT ![h].phase = "ca", ![h].leaf = leaf]
  /\ UNCHANGED <<environment, files, config, memory, result, history>>

\* /v1/activate answered; without a leaf there is no chain to verify.
ActivateAnswered(h, leaf) ==
  /\ At(h, "activate")
  /\ call' = [call EXCEPT ![h].phase = IF leaf = None THEN "validate" ELSE "ca",
                          ![h].leaf = leaf]
  /\ UNCHANGED <<environment, files, config, memory, result, history>>

CaRootAnswered(h, root) ==
  /\ At(h, "ca")
  /\ IF VerifyChain(call[h].leaf, root, now)
     THEN /\ call' = [call EXCEPT ![h].phase = "validate", ![h].leaf = None]
          /\ UNCHANGED <<memory, result>>
     ELSE ActivateLocally(h)
  /\ UNCHANGED <<environment, files, config, history>>

\* Seeded fault: the binding is left to the key that seals the cache.
FaultyBoundHere(token) == TRUE

\* The token names this machine, by the fingerprint of the moment.
BoundHere(token) == token.machine = machine

\* Seeded fault: the signature is verified, the dates are left to check().
FaultyAcceptable(h, token) ==
  token.key = config[h].server_public_key /\ BoundHere(token)

\* The token must verify under the key learned above and be bound to this
\* machine before anything is written.
Acceptable(h, token) ==
  /\ Verify(token, config[h].server_public_key, now) = "ok"
  /\ BoundHere(token)

ValidateAnswered(h, token) ==
  /\ At(h, "validate")
  /\ IF Acceptable(h, token)
     THEN /\ call' = [call EXCEPT ![h].phase = "seal", ![h].token = token]
          /\ UNCHANGED <<memory, result>>
     ELSE ActivateLocally(h)
  /\ UNCHANGED <<environment, files, config, history>>

\* encrypt_token takes the fingerprint anew: it may not be the one the token
\* was just compared with.
Seal(h) ==
  /\ At(h, "seal")
  /\ call' = [call EXCEPT ![h].phase = "cache_truncate", ![h].machine = machine]
  /\ UNCHANGED <<environment, files, config, memory, result, history>>

\* fs::write(cache_path): the open truncates, or fails and changes nothing.
CacheTruncate(h) ==
  /\ At(h, "cache_truncate")
  /\ \/ /\ cache_file' = None
        /\ Goto(h, "cache_write")
        /\ UNCHANGED <<memory, result>>
     \/ /\ ActivateLocally(h)
        /\ UNCHANGED cache_file
  /\ UNCHANGED <<environment, seen_file, config, history>>

\* Seeded fault: the error of fs::write is dropped.
FaultyCacheWrite(h) ==
  /\ At(h, "cache_write")
  /\ cache_file' \in {cache_file, [token |-> call[h].token, sealed_for |-> call[h].machine]}
  /\ call' = [call EXCEPT ![h].phase = "marker_read", ![h].machine = None]
  /\ UNCHANGED <<environment, seen_file, config, memory, result, history>>

CacheWrite(h) ==
  /\ At(h, "cache_write")
  /\ \/ /\ cache_file' = [token |-> call[h].token, sealed_for |-> call[h].machine]
        /\ call' = [call EXCEPT ![h].phase = "marker_read", ![h].machine = None]
        /\ UNCHANGED <<memory, result>>
     \/ /\ ActivateLocally(h)
        /\ UNCHANGED cache_file
  /\ UNCHANGED <<environment, seen_file, config, history>>

-----------------------------------------------------------------------------
\* write_rollback_marker, called by activate and by check.

\* Its error ends a check with Err, and an activation like any online error.
MarkerError(h) ==
  IF call[h].op = "activate"
  THEN ActivateLocally(h)
  ELSE Return(h, "error") /\ UNCHANGED memory

\* Seeded fault: the marker is overwritten without a look at the old one.
FaultyMarkerRead(h) ==
  /\ At(h, "marker_read")
  /\ Goto(h, "marker_truncate")
  /\ UNCHANGED <<environment, files, config, memory, result, history>>

MarkerRead(h) ==
  /\ At(h, "marker_read")
  /\ call' = [call EXCEPT ![h].phase = "marker_truncate", ![h].seen = seen_file]
  /\ UNCHANGED <<environment, files, config, memory, result, history>>

MarkerTruncate(h) ==
  /\ At(h, "marker_truncate")
  /\ \/ /\ seen_file' = Unseen
        /\ Goto(h, "marker_write")
        /\ UNCHANGED <<memory, result>>
     \/ /\ MarkerError(h)
        /\ UNCHANGED seen_file
  /\ UNCHANGED <<environment, cache_file, config, history>>

\* Seeded fault: the marker records the time of the check.
FaultyMarkerWrite(h) ==
  /\ At(h, "marker_write")
  /\ \/ /\ seen_file' = Newer(now, call[h].seen)
        /\ entitlements_cache' =
             [entitlements_cache EXCEPT ![h] = call[h].token.entitlements]
        /\ Return(h, IF call[h].op = "activate" THEN "online" ELSE "valid")
        /\ honoured' = Newer(honoured, call[h].token.issued_at)
        /\ UNCHANGED <<torn, license_key, last_online_error>>
     \/ /\ MarkerError(h)
        /\ torn' = TRUE
        /\ UNCHANGED <<seen_file, honoured>>
  /\ UNCHANGED <<environment, cache_file, config>>

\* The write succeeds, and the caller surfaces the signed entitlements and
\* returns; or the disk is full and the marker stays empty.
MarkerWrite(h) ==
  /\ At(h, "marker_write")
  /\ \/ /\ seen_file' = Newer(call[h].token.issued_at, call[h].seen)
        /\ entitlements_cache' =
             [entitlements_cache EXCEPT ![h] = call[h].token.entitlements]
        /\ Return(h, IF call[h].op = "activate" THEN "online" ELSE "valid")
        /\ honoured' = Newer(honoured, call[h].token.issued_at)
        /\ UNCHANGED <<torn, license_key, last_online_error>>
     \/ /\ MarkerError(h)
        /\ torn' = TRUE
        /\ UNCHANGED <<seen_file, honoured>>
  /\ UNCHANGED <<environment, cache_file, config>>

-----------------------------------------------------------------------------
\* check.

\* decrypt_token: the blob is whole and this machine's fingerprint sealed it.
Opens(blob) == blob # None /\ blob.sealed_for = machine

\* Seeded fault: a cache that opens is taken for genuine.
FaultyCacheVerdict(h) ==
  IF ~Opens(cache_file) THEN "invalid"
  ELSE Verify(cache_file.token, cache_file.token.key, now)

\* What check decides from the cache file alone.
CacheVerdict(h) ==
  IF ~Opens(cache_file) THEN "invalid"
  ELSE LET verdict == Verify(cache_file.token, config[h].server_public_key, now)
       IN  IF verdict # "ok" THEN verdict
           ELSE IF ~BoundHere(cache_file.token) THEN "invalid" ELSE "ok"

\* The executable is read and digested at every check; it may have become
\* unreadable, or stand for another digest, since the pin was set.
GateErrors(h) == IF config[h].binary_matches THEN BOOLEAN ELSE {TRUE}

\* The integrity gate, the clock, the cache file, the token.
Check(h) ==
  /\ IsIdle(h)
  /\ \E gateError \in GateErrors(h) :
       IF gateError THEN Return(h, "error")
       ELSE IF CacheVerdict(h) # "ok" THEN Return(h, CacheVerdict(h))
       ELSE /\ call' = [call EXCEPT ![h] = [Idle EXCEPT !.op = "check",
                          !.phase = "rollback", !.machine = machine,
                          !.token = cache_file.token]]
            /\ result' = [result EXCEPT ![h] = "none"]
  /\ UNCHANGED <<environment, files, config, memory, history>>

\* Seeded fault: the end of the token's window is compared.
FaultyTooOld(token, seen) == seen # Unseen /\ token.expires_at < seen - ClockSkew

\* Older than the newest one honoured, by more than the skew tolerance.
TooOld(token, seen) == seen # Unseen /\ token.issued_at < seen - ClockSkew

\* Seeded fault: the entitlements are surfaced ahead of the verdict.
FaultyCheckRollback(h) ==
  /\ At(h, "rollback")
  /\ entitlements_cache' = [entitlements_cache EXCEPT ![h] = call[h].token.entitlements]
  /\ IF TooOld(call[h].token, seen_file)
     THEN Return(h, "invalid")
     ELSE Goto(h, "marker_read") /\ UNCHANGED result
  /\ UNCHANGED <<environment, files, config, license_key, last_online_error, history>>

CheckRollback(h) ==
  /\ At(h, "rollback")
  /\ IF TooOld(call[h].token, seen_file)
     THEN Return(h, "invalid")
     ELSE Goto(h, "marker_read") /\ UNCHANGED result
  /\ UNCHANGED <<environment, files, config, memory, history>>

-----------------------------------------------------------------------------
\* deactivate: forgets the key, then removes both files, ignoring errors.

Deactivate(h) ==
  /\ IsIdle(h)
  /\ license_key' = [license_key EXCEPT ![h] = None]
  /\ entitlements_cache' = [entitlements_cache EXCEPT ![h] = None]
  /\ Begin(h, "deactivate", "remove_cache")
  /\ UNCHANGED <<environment, files, config, last_online_error, history>>

RemoveCache(h) ==
  /\ At(h, "remove_cache")
  /\ cache_file' \in {cache_file, None}
  /\ Goto(h, "remove_marker")
  /\ UNCHANGED <<environment, seen_file, config, memory, result, history>>

RemoveMarker(h) ==
  /\ At(h, "remove_marker")
  /\ \/ seen_file' = Unseen /\ honoured' = Unseen /\ torn' = FALSE
     \/ UNCHANGED <<seen_file, history>>
  /\ Return(h, "deactivated")
  /\ UNCHANGED <<environment, cache_file, config, memory>>

-----------------------------------------------------------------------------
\* Setters, process exits, the machine.

SetServerKey(h, key) ==
  /\ IsIdle(h)
  /\ config' = [config EXCEPT ![h].server_public_key = key]
  /\ result' = [result EXCEPT ![h] = "none"]
  /\ UNCHANGED <<environment, files, memory, call, history>>

\* A pin that the running executable meets (or no pin), or one it does not.
SetExpectedDigest(h, matches) ==
  /\ IsIdle(h)
  /\ config' = [config EXCEPT ![h].binary_matches = matches]
  /\ result' = [result EXCEPT ![h] = "none"]
  /\ UNCHANGED <<environment, files, memory, call, history>>

\* A new handle: with_integrity_check, over the files as they are.
NewClient(h, c) ==
  /\ config' = [config EXCEPT ![h] = c]
  /\ license_key' = [license_key EXCEPT ![h] = None]
  /\ entitlements_cache' = [entitlements_cache EXCEPT ![h] = None]
  /\ last_online_error' = [last_online_error EXCEPT ![h] = FALSE]

\* The process ends, wherever its call was, and is started again.
Restart(h) ==
  /\ \E c \in Configs : NewClient(h, c)
  /\ Return(h, "none")
  /\ torn' = (torn \/ At(h, "marker_write"))
  /\ UNCHANGED <<environment, files, honoured>>

ClockMoves ==
  /\ now' \in Times \ {now}
  /\ UNCHANGED <<machine, files, config, memory, call, result, history>>

\* The fingerprint is computed anew each time: cores, disk, MAC or TPM change.
MachineChanges ==
  /\ machine' \in Machines \ {machine}
  /\ UNCHANGED <<now, files, config, memory, call, result, history>>

-----------------------------------------------------------------------------
Init ==
  /\ now \in Times
  /\ machine \in Machines
  /\ cache_file = None
  /\ seen_file = Unseen
  /\ config \in [Handles -> Configs]
  /\ license_key = [h \in Handles |-> None]
  /\ entitlements_cache = [h \in Handles |-> None]
  /\ last_online_error = [h \in Handles |-> FALSE]
  /\ call = [h \in Handles |-> Idle]
  /\ result = [h \in Handles |-> "none"]
  /\ honoured = Unseen
  /\ torn = FALSE

\* The answers a server can give to the request h has outstanding.
ServerAnswers(h) ==
  \/ \E key \in SigningKeys : TokenKeyAnswered(h, key)
  \/ \E leaf \in Leaf \cup {None} : ActivateAnswered(h, leaf)
  \/ \E root \in Authorities : CaRootAnswered(h, root)
  \/ \E key \in SigningKeys, at \in Times, grant \in Grants :
       /\ At(h, "validate")
       /\ ValidateAnswered(h, BuildToken(key, call[h].machine, at, grant))

\* The steps of a call that need nobody else.
LocalStep(h) ==
  \/ RequestFails(h)
  \/ Seal(h) \/ CacheTruncate(h) \/ CacheWrite(h)
  \/ CheckRollback(h)
  \/ MarkerRead(h) \/ MarkerTruncate(h) \/ MarkerWrite(h)
  \/ RemoveCache(h) \/ RemoveMarker(h)

Starts(h) ==
  \/ ActivateEmptyKey(h)
  \/ \E key \in LicenseKeys : ActivateWithoutServer(h, key) \/ Activate(h, key)
  \/ Check(h)
  \/ Deactivate(h)
  \/ \E key \in SigningKeys : SetServerKey(h, key)
  \/ \E matches \in BOOLEAN : SetExpectedDigest(h, matches)

Next ==
  \/ \E h \in Handles : Starts(h) \/ ServerAnswers(h) \/ LocalStep(h) \/ Restart(h)
  \/ ClockMoves
  \/ MachineChanges

\* A process that keeps running takes its next step; a request that gets no
\* answer runs into its timeout.  Nobody has to answer, call or restart.
Fairness == \A h \in Handles : WF_vars(LocalStep(h))

\* What is true without fairness.
Safety == Init /\ [][Next]_vars

Spec == Safety /\ Fairness

-----------------------------------------------------------------------------
Call ==
  [op: {"none", "activate", "check", "deactivate"}, phase: Phases,
   machine: Machines \cup {None}, leaf: Leaf \cup {None},
   token: Token \cup {None}, seen: Times \cup {Unseen}]

\* Every variable keeps to its domain; a call that is about to write holds the
\* token it is about.
TypeOK ==
  /\ now \in Times
  /\ machine \in Machines
  /\ cache_file \in Sealed \cup {None}
  /\ seen_file \in Times \cup {Unseen}
  /\ config \in [Handles -> ClientConfig]
  /\ license_key \in [Handles -> LicenseKeys \cup {None}]
  /\ entitlements_cache \in [Handles -> Grants \cup {Default, None}]
  /\ last_online_error \in [Handles -> BOOLEAN]
  /\ call \in [Handles -> Call]
  /\ \A h \in Handles :
       /\ At(h, "ca") => call[h].leaf \in Leaf
       /\ call[h].phase \in {"activate", "ca", "validate", "cache_truncate", "cache_write"}
            => call[h].machine \in Machines
       /\ call[h].phase \in MarkerPhases \cup {"rollback", "seal", "cache_truncate", "cache_write"}
            => call[h].token \in Token
  /\ result \in [Handles -> Results]
  /\ honoured \in Times \cup {Unseen}
  /\ torn \in BOOLEAN
=============================================================================
