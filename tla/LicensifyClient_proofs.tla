------------------------ MODULE LicensifyClient_proofs ------------------------
(***************************************************************************)
(* Theorems about LicensifyClient, for every value of its constants: any   *)
(* keys, machines, clocks, tolerances and, where not said otherwise, any   *)
(* number of handles on one cache path.                                    *)
(***************************************************************************)
EXTENDS LicensifyClientProperties, TLAPS

\* TypeOK in two halves: the calls, and everything else.
CallOK(c) ==
  /\ c \in Call
  /\ c.phase = "ca" => c.leaf \in Leaf
  /\ c.phase \in {"activate", "ca", "validate", "cache_truncate", "cache_write"}
       => c.machine \in Machines
  /\ c.phase \in MarkerPhases \cup {"rollback", "seal", "cache_truncate", "cache_write"}
       => c.token \in Token

CallsOK == call \in [Handles -> Call] /\ \A h \in Handles : CallOK(call[h])

RestOK ==
  /\ now \in Times
  /\ machine \in Machines
  /\ cache_file \in Sealed \cup {None}
  /\ seen_file \in Times \cup {Unseen}
  /\ config \in [Handles -> ClientConfig]
  /\ license_key \in [Handles -> LicenseKeys \cup {None}]
  /\ entitlements_cache \in [Handles -> Grants \cup {Default, None}]
  /\ last_online_error \in [Handles -> BOOLEAN]
  /\ result \in [Handles -> Results]
  /\ honoured \in Times \cup {Unseen}
  /\ torn \in BOOLEAN

\* The halves are TypeOK.
LEMMA TypeInHalves == TypeOK <=> RestOK /\ CallsOK
  BY DEF TypeOK, RestOK, CallsOK, CallOK, At

-----------------------------------------------------------------------------
\* A handle between calls is well-typed.
LEMMA IdleIsACall == CallOK(Idle)
  BY DEF CallOK, Call, Idle, Phases, MarkerPhases, RequestPhases

\* What a server signs is a token (token.go:71-92).
LEMMA BuildTokenIsAToken ==
  ASSUME NEW key \in SigningKeys, NEW m \in Machines, NEW at \in Times, NEW grant \in Grants
  PROVE  BuildToken(key, m, at, grant) \in Token
  BY TokenAssumption DEF BuildToken, Token, Times

\* The newer of two records is a record (lib.rs:430-431).
LEMMA NewerIsATime ==
  ASSUME NEW a \in Times \cup {Unseen}, NEW b \in Times \cup {Unseen}
  PROVE  /\ Newer(a, b) \in Times \cup {Unseen}
         /\ Newer(a, b) >= a /\ Newer(a, b) >= b
         /\ Newer(a, b) \in {a, b}
  BY TokenAssumption DEF Newer, Times, Unseen

\* One handle's call changes and the new one is well-typed.
LEMMA CallChanges ==
  ASSUME CallsOK, NEW h \in Handles, NEW c, CallOK(c), call' = [call EXCEPT ![h] = c]
  PROVE  CallsOK'
  BY DEF CallsOK, CallOK

\* A call goes on in a phase whose demands it meets.
LEMMA PhaseChanges ==
  ASSUME CallsOK, NEW h \in Handles, NEW p \in Phases, Goto(h, p),
         p # "ca",
         p \in {"activate", "validate", "cache_truncate", "cache_write"}
           => call[h].machine \in Machines,
         p \in MarkerPhases \cup {"rollback", "seal", "cache_truncate", "cache_write"}
           => call[h].token \in Token
  PROVE  CallsOK'
<1> DEFINE c == [call[h] EXCEPT !.phase = p]
<1>1. call[h] \in Call
  BY DEF CallsOK
<1>2. CallOK(c)
  BY <1>1 DEF CallOK, Call
<1>3. call' = [call EXCEPT ![h] = c]
  BY DEF Goto
<1> QED BY <1>2, <1>3, CallChanges

\* A call returns.
LEMMA CallReturns ==
  ASSUME RestOK, CallsOK, NEW h \in Handles, NEW r \in Results, Return(h, r)
  PROVE  CallsOK' /\ result' \in [Handles -> Results]
  BY IdleIsACall, CallChanges DEF Return, RestOK

\* An activation falls back to the defaults (lib.rs:152-160).
LEMMA FallsBack ==
  ASSUME RestOK, CallsOK, NEW h \in Handles, ActivateLocally(h)
  PROVE  /\ CallsOK'
         /\ result' \in [Handles -> Results]
         /\ license_key' \in [Handles -> LicenseKeys \cup {None}]
         /\ entitlements_cache' \in [Handles -> Grants \cup {Default, None}]
         /\ last_online_error' \in [Handles -> BOOLEAN]
  BY CallReturns DEF ActivateLocally, RestOK, Results

\* A call begins in a phase that demands nothing.
LEMMA CallBegins ==
  ASSUME RestOK, CallsOK, NEW h \in Handles, NEW op \in {"activate", "check", "deactivate"},
         NEW p \in {"token_key", "remove_cache"}, Begin(h, op, p)
  PROVE  CallsOK' /\ result' \in [Handles -> Results]
<1> DEFINE c == [Idle EXCEPT !.op = op, !.phase = p]
<1>1. CallOK(c)
  BY DEF CallOK, Call, Idle, Phases, MarkerPhases, RequestPhases
<1>2. call' = [call EXCEPT ![h] = c] /\ result' = [result EXCEPT ![h] = "none"]
  BY DEF Begin
<1> QED BY <1>1, <1>2, CallChanges DEF RestOK, Results

-----------------------------------------------------------------------------
\* Type correctness, action by action.

\* The calls and setters an embedder makes on an idle handle, but for check.
LEMMA StartsKeepType ==
  ASSUME RestOK, CallsOK, NEW h \in Handles, Starts(h), ~Check(h)
  PROVE  RestOK' /\ CallsOK'
<1>1. CASE ActivateEmptyKey(h)
  BY <1>1, CallReturns DEF ActivateEmptyKey, RestOK, Results, environment, files, memory, history
<1>2. ASSUME NEW key \in LicenseKeys, ActivateWithoutServer(h, key) PROVE RestOK' /\ CallsOK'
  BY <1>2, CallReturns DEF ActivateWithoutServer, RestOK, Results, environment, files, history
<1>3. ASSUME NEW key \in LicenseKeys, Activate(h, key) PROVE RestOK' /\ CallsOK'
  BY <1>3, CallBegins DEF Activate, RestOK, environment, files, history
<1>4. CASE Deactivate(h)
  BY <1>4, CallBegins DEF Deactivate, RestOK, environment, files, history
<1>5. ASSUME NEW key \in SigningKeys, SetServerKey(h, key) PROVE RestOK' /\ CallsOK'
  <2>1. config' \in [Handles -> ClientConfig]
    BY <1>5 DEF SetServerKey, RestOK, ClientConfig
  <2>2. CallsOK'
    BY <1>5 DEF SetServerKey, CallsOK
  <2> QED BY <1>5, <2>1, <2>2
            DEF SetServerKey, RestOK, Results, environment, files, memory, history
<1>6. ASSUME NEW matches \in BOOLEAN, SetExpectedDigest(h, matches) PROVE RestOK' /\ CallsOK'
  <2>1. config' \in [Handles -> ClientConfig]
    BY <1>6 DEF SetExpectedDigest, RestOK, ClientConfig
  <2>2. CallsOK'
    BY <1>6 DEF SetExpectedDigest, CallsOK
  <2> QED BY <1>6, <2>1, <2>2
            DEF SetExpectedDigest, RestOK, Results, environment, files, memory, history
<1> QED BY <1>1, <1>2, <1>3, <1>4, <1>5, <1>6 DEF Starts

\* What check decides is one of its results, and a check that goes on holds
\* the token of the cache file (lib.rs:259-286).
LEMMA CheckKeepsType ==
  ASSUME RestOK, CallsOK, NEW h \in Handles, Check(h)
  PROVE  RestOK' /\ CallsOK'
<1>1. CacheVerdict(h) \in {"ok", "expired", "invalid"}
  BY DEF CacheVerdict, Opens, Verify
<1>2. UNCHANGED <<now, machine, cache_file, seen_file, config, license_key,
                  entitlements_cache, last_online_error, honoured, torn>>
  BY DEF Check, environment, files, memory, history
<1>3. ASSUME NEW r \in Results, Return(h, r) PROVE RestOK' /\ CallsOK'
  BY <1>2, <1>3, CallReturns DEF RestOK
<1>4. CASE Return(h, "error") \/ (CacheVerdict(h) # "ok" /\ Return(h, CacheVerdict(h)))
  BY <1>1, <1>3, <1>4 DEF Results
<1>5. CASE ~(Return(h, "error") \/ (CacheVerdict(h) # "ok" /\ Return(h, CacheVerdict(h))))
  <2> DEFINE c == [Idle EXCEPT !.op = "check", !.phase = "rollback", !.machine = machine,
                               !.token = cache_file.token]
  <2>1. /\ CacheVerdict(h) = "ok"
        /\ call' = [call EXCEPT ![h] = c] /\ result' = [result EXCEPT ![h] = "none"]
    BY <1>5 DEF Check, GateErrors
  <2>2. cache_file.token \in Token
    BY <2>1 DEF CacheVerdict, Opens, RestOK, Sealed
  <2>3. CallOK(c)
    BY <2>2 DEF RestOK, CallOK, Call, Idle, Phases, MarkerPhases, RequestPhases
  <2> QED BY <1>2, <2>1, <2>3, CallChanges DEF RestOK, Results
<1> QED BY <1>4, <1>5

\* An answer moves the call on with what it brought, or ends it locally
\* (lib.rs:174-253).
LEMMA AnswersKeepType ==
  ASSUME RestOK, CallsOK, NEW h \in Handles, ServerAnswers(h)
  PROVE  RestOK' /\ CallsOK'
<1>1. call[h] \in Call /\ CallOK(call[h])
  BY DEF CallsOK
<1>2. ASSUME NEW key \in SigningKeys, TokenKeyAnswered(h, key) PROVE RestOK' /\ CallsOK'
  <2> DEFINE c == [call[h] EXCEPT !.phase = "activate", !.machine = machine]
  <2>1. CallOK(c)
    BY <1>1 DEF CallOK, Call, Phases, MarkerPhases, RequestPhases, RestOK
  <2>2. call' = [call EXCEPT ![h] = c]
    BY <1>2 DEF TokenKeyAnswered
  <2>3. config' \in [Handles -> ClientConfig]
    BY <1>2 DEF TokenKeyAnswered, RestOK, ClientConfig
  <2> QED BY <1>2, <2>1, <2>2, <2>3, CallChanges
          DEF TokenKeyAnswered, RestOK, environment, files, memory, history
<1>3. ASSUME NEW leaf \in Leaf \cup {None}, ActivateAnswered(h, leaf) PROVE RestOK' /\ CallsOK'
  <2> DEFINE c == [call[h] EXCEPT !.phase = IF leaf = None THEN "validate" ELSE "ca",
                                  !.leaf = leaf]
  <2>1. CallOK(c)
    BY <1>1, <1>3 DEF ActivateAnswered, At, CallOK, Call, Phases, MarkerPhases, RequestPhases
  <2>2. call' = [call EXCEPT ![h] = c]
    BY <1>3 DEF ActivateAnswered
  <2> QED BY <1>3, <2>1, <2>2, CallChanges
          DEF ActivateAnswered, RestOK, environment, files, memory, history
<1>4. ASSUME NEW root \in Authorities, CaRootAnswered(h, root) PROVE RestOK' /\ CallsOK'
  <2>1. CASE ActivateLocally(h)
    BY <1>4, <2>1, FallsBack DEF CaRootAnswered, RestOK, environment, files, history
  <2>2. CASE /\ call' = [call EXCEPT ![h].phase = "validate", ![h].leaf = None]
             /\ UNCHANGED <<memory, result>>
    <3> DEFINE c == [call[h] EXCEPT !.phase = "validate", !.leaf = None]
    <3>1. CallOK(c)
      BY <1>1, <1>4 DEF CaRootAnswered, At, CallOK, Call, Phases, MarkerPhases, RequestPhases
    <3>2. call' = [call EXCEPT ![h] = c]
      BY <2>2
    <3> QED BY <1>4, <2>2, <3>1, <3>2, CallChanges
            DEF CaRootAnswered, RestOK, environment, files, memory, history
  <2> QED BY <1>4, <2>1, <2>2 DEF CaRootAnswered
<1>5. ASSUME NEW key \in SigningKeys, NEW at \in Times, NEW grant \in Grants,
             At(h, "validate"),
             ValidateAnswered(h, BuildToken(key, call[h].machine, at, grant))
      PROVE  RestOK' /\ CallsOK'
  <2> DEFINE token == BuildToken(key, call[h].machine, at, grant)
  <2>1. token \in Token
    BY <1>1, <1>5, BuildTokenIsAToken DEF CallOK, At
  <2> HIDE DEF token
  <2>2. ValidateAnswered(h, token)
    BY <1>5 DEF token
  <2>3. CASE ActivateLocally(h)
    BY <2>2, <2>3, FallsBack DEF ValidateAnswered, RestOK, environment, files, history
  <2>4. CASE /\ call' = [call EXCEPT ![h].phase = "seal", ![h].token = token]
             /\ UNCHANGED <<memory, result>>
    <3> DEFINE c == [call[h] EXCEPT !.phase = "seal", !.token = token]
    <3>1. CallOK(c)
      BY <1>1, <2>1 DEF RestOK, CallOK, Call, Phases, MarkerPhases, RequestPhases
    <3>2. call' = [call EXCEPT ![h] = c]
      BY <2>4
    <3> QED BY <2>2, <2>4, <3>1, <3>2, CallChanges
            DEF ValidateAnswered, RestOK, environment, files, memory, history
  <2> QED BY <2>2, <2>3, <2>4 DEF ValidateAnswered
<1> QED BY <1>2, <1>3, <1>4, <1>5 DEF ServerAnswers

\* An error of write_rollback_marker ends the call (lib.rs:254, 296).
LEMMA MarkerFails ==
  ASSUME RestOK, CallsOK, NEW h \in Handles, MarkerError(h)
  PROVE  /\ CallsOK'
         /\ result' \in [Handles -> Results]
         /\ license_key' \in [Handles -> LicenseKeys \cup {None}]
         /\ entitlements_cache' \in [Handles -> Grants \cup {Default, None}]
         /\ last_online_error' \in [Handles -> BOOLEAN]
  BY FallsBack, CallReturns DEF MarkerError, RestOK, Results, memory

\* The steps of a call that need nobody else keep to the domains.
LEMMA LocalKeepsType ==
  ASSUME RestOK, CallsOK, NEW h \in Handles, LocalStep(h)
  PROVE  RestOK' /\ CallsOK'
<1>1. call[h] \in Call /\ CallOK(call[h])
  BY DEF CallsOK
<1>2. CASE RequestFails(h)
  BY <1>2, FallsBack DEF RequestFails, RestOK, environment, files, history
<1>3. CASE CacheTruncate(h)
  <2>1. CASE ActivateLocally(h) /\ UNCHANGED cache_file
    BY <1>3, <2>1, FallsBack DEF CacheTruncate, RestOK, environment, history
  <2>2. CASE cache_file' = None /\ Goto(h, "cache_write") /\ UNCHANGED <<memory, result>>
    <3>1. call[h].machine \in Machines /\ call[h].token \in Token
      BY <1>1, <1>3 DEF CacheTruncate, At, CallOK
    <3>2. CallsOK'
      BY <2>2, <3>1, PhaseChanges DEF Phases
    <3> QED BY <1>3, <2>2, <3>2 DEF CacheTruncate, RestOK, environment, memory, history
  <2> QED BY <1>3, <2>1, <2>2 DEF CacheTruncate
<1>4. CASE CacheWrite(h)
  <2>1. CASE ActivateLocally(h) /\ UNCHANGED cache_file
    BY <1>4, <2>1, FallsBack DEF CacheWrite, RestOK, environment, history
  <2>2. CASE /\ cache_file' = [token |-> call[h].token, sealed_for |-> call[h].machine]
             /\ call' = [call EXCEPT ![h].phase = "marker_read", ![h].machine = None]
             /\ UNCHANGED <<memory, result>>
    <3> DEFINE c == [call[h] EXCEPT !.phase = "marker_read", !.machine = None]
    <3>1. CallOK(c)
      BY <1>1, <1>4 DEF CacheWrite, At, CallOK, Call, Phases, MarkerPhases, RequestPhases
    <3>2. call' = [call EXCEPT ![h] = c]
      BY <2>2
    <3>3. cache_file' \in Sealed
      BY <1>1, <1>4, <2>2 DEF CacheWrite, At, CallOK, Sealed
    <3> QED BY <1>4, <2>2, <3>1, <3>2, <3>3, CallChanges
            DEF CacheWrite, RestOK, environment, memory, history
  <2> QED BY <1>4, <2>1, <2>2 DEF CacheWrite
<1>5. CASE CheckRollback(h)
  <2>1. CASE Return(h, "invalid")
    BY <1>5, <2>1, CallReturns
       DEF CheckRollback, RestOK, Results, environment, files, memory, history
  <2>2. CASE Goto(h, "marker_read") /\ UNCHANGED result
    <3>1. call[h].token \in Token
      BY <1>1, <1>5 DEF CheckRollback, At, CallOK
    <3>2. CallsOK'
      BY <2>2, <3>1, PhaseChanges DEF Phases, MarkerPhases
    <3> QED BY <1>5, <2>2, <3>2
            DEF CheckRollback, RestOK, environment, files, memory, history
  <2> QED BY <1>5, <2>1, <2>2 DEF CheckRollback
<1>6. CASE MarkerRead(h)
  <2> DEFINE c == [call[h] EXCEPT !.phase = "marker_truncate", !.seen = seen_file]
  <2>1. CallOK(c)
    BY <1>1, <1>6
       DEF MarkerRead, At, RestOK, CallOK, Call, Phases, MarkerPhases, RequestPhases
  <2>2. call' = [call EXCEPT ![h] = c]
    BY <1>6 DEF MarkerRead
  <2> QED BY <1>6, <2>1, <2>2, CallChanges
          DEF MarkerRead, RestOK, environment, files, memory, history
<1>7. CASE MarkerTruncate(h)
  <2>1. CASE MarkerError(h) /\ UNCHANGED seen_file
    BY <1>7, <2>1, MarkerFails DEF MarkerTruncate, RestOK, environment, history
  <2>2. CASE seen_file' = Unseen /\ Goto(h, "marker_write") /\ UNCHANGED <<memory, result>>
    <3>1. call[h].token \in Token
      BY <1>1, <1>7 DEF MarkerTruncate, At, CallOK, MarkerPhases
    <3>2. CallsOK'
      BY <2>2, <3>1, PhaseChanges DEF Phases, MarkerPhases
    <3> QED BY <1>7, <2>2, <3>2 DEF MarkerTruncate, RestOK, environment, memory, history
  <2> QED BY <1>7, <2>1, <2>2 DEF MarkerTruncate
<1>8. CASE MarkerWrite(h)
  <2>1. CASE MarkerError(h) /\ torn' = TRUE /\ UNCHANGED <<seen_file, honoured>>
    BY <1>8, <2>1, MarkerFails DEF MarkerWrite, RestOK, environment
  <2>2. CASE /\ seen_file' = Newer(call[h].token.issued_at, call[h].seen)
             /\ entitlements_cache' =
                  [entitlements_cache EXCEPT ![h] = call[h].token.entitlements]
             /\ Return(h, IF call[h].op = "activate" THEN "online" ELSE "valid")
             /\ honoured' = Newer(honoured, call[h].token.issued_at)
             /\ UNCHANGED <<torn, license_key, last_online_error>>
    <3>1. /\ call[h].token.issued_at \in Times \cup {Unseen}
          /\ call[h].token.entitlements \in Grants
          /\ call[h].seen \in Times \cup {Unseen}
      BY <1>1, <1>8 DEF MarkerWrite, At, CallOK, MarkerPhases, Token, Call
    <3>2. seen_file' \in Times \cup {Unseen} /\ honoured' \in Times \cup {Unseen}
      BY <2>2, <3>1, NewerIsATime DEF RestOK
    <3>3. CallsOK' /\ result' \in [Handles -> Results]
      BY <2>2, CallReturns DEF Results
    <3>4. entitlements_cache' \in [Handles -> Grants \cup {Default, None}]
      BY <2>2, <3>1 DEF RestOK
    <3> QED BY <1>8, <2>2, <3>2, <3>3, <3>4 DEF MarkerWrite, RestOK, environment
  <2> QED BY <1>8, <2>1, <2>2 DEF MarkerWrite
<1>9. CASE RemoveCache(h)
  <2>1. CallsOK'
    BY <1>9, PhaseChanges DEF RemoveCache, Phases, MarkerPhases
  <2> QED BY <1>9, <2>1 DEF RemoveCache, RestOK, environment, memory, history
<1>10. CASE RemoveMarker(h)
  BY <1>10, CallReturns DEF RemoveMarker, RestOK, Results, environment, memory, history
<1>11. CASE Seal(h)
  <2> DEFINE c == [call[h] EXCEPT !.phase = "cache_truncate", !.machine = machine]
  <2>1. CallOK(c)
    BY <1>1, <1>11
       DEF Seal, At, RestOK, CallOK, Call, Phases, MarkerPhases, RequestPhases
  <2>2. call' = [call EXCEPT ![h] = c]
    BY <1>11 DEF Seal
  <2> QED BY <1>11, <2>1, <2>2, CallChanges
          DEF Seal, RestOK, environment, files, memory, history
<1> QED BY <1>2, <1>3, <1>4, <1>5, <1>6, <1>7, <1>8, <1>9, <1>10, <1>11 DEF LocalStep

\* A process exit forgets what was in memory, and a new process is configured
\* (lib.rs:100-119).
LEMMA RestartKeepsType ==
  ASSUME RestOK, CallsOK, NEW h \in Handles, Restart(h)
  PROVE  RestOK' /\ CallsOK'
<1>1. PICK c \in Configs : NewClient(h, c)
  BY DEF Restart
<1>2. c \in ClientConfig
  BY ClientAssumption
<1>3. CallsOK' /\ result' \in [Handles -> Results]
  BY CallReturns DEF Restart, Results
<1> QED BY <1>1, <1>2, <1>3 DEF Restart, NewClient, RestOK, environment, files

\* Every step keeps to the domains.
LEMMA NextKeepsType == TypeOK /\ [Next]_vars => TypeOK'
<1> SUFFICES ASSUME RestOK, CallsOK, [Next]_vars PROVE RestOK' /\ CallsOK'
  BY TypeInHalves DEF TypeOK, RestOK, CallsOK, CallOK, At
<1>1. ASSUME NEW h \in Handles, Starts(h) \/ ServerAnswers(h) \/ LocalStep(h) \/ Restart(h)
      PROVE  RestOK' /\ CallsOK'
  BY <1>1, StartsKeepType, CheckKeepsType, AnswersKeepType, LocalKeepsType, RestartKeepsType
<1>2. CASE ClockMoves \/ MachineChanges
  BY <1>2 DEF ClockMoves, MachineChanges, RestOK, CallsOK, files, memory, history
<1>3. CASE UNCHANGED vars
  BY <1>3 DEF vars, environment, files, memory, history, RestOK, CallsOK
<1> QED BY <1>1, <1>2, <1>3 DEF Next

\* A handle starts idle, with the configuration it was given.
LEMMA InitIsTyped == Init => TypeOK
<1> SUFFICES ASSUME Init PROVE RestOK /\ CallsOK
  BY TypeInHalves
<1>1. CallsOK
  BY IdleIsACall DEF Init, CallsOK, CallOK
<1>2. config \in [Handles -> ClientConfig]
  BY ClientAssumption DEF Init
<1>3. seen_file \in Times \cup {Unseen} /\ honoured \in Times \cup {Unseen}
  BY DEF Init
<1>4. result \in [Handles -> Results]
  BY DEF Init, Results
<1> QED BY <1>1, <1>2, <1>3, <1>4 DEF Init, RestOK

\* Every variable of the client keeps to its domain, and a call that is about
\* to write holds the token it is about.
THEOREM ClientTypeCorrect == Safety => []TypeOK
  BY InitIsTyped, NextKeepsType, PTL DEF Safety

-----------------------------------------------------------------------------
\* Valid answers, for any number of handles.

Acts(h) == Starts(h) \/ ServerAnswers(h) \/ LocalStep(h) \/ Restart(h)

\* What a handle has in memory is changed by its own steps only.
LEMMA OthersStay ==
  ASSUME TypeOK, NEW h \in Handles, Acts(h), NEW g \in Handles \ {h}
  PROVE  /\ call'[g] = call[g] /\ result'[g] = result[g]
         /\ config'[g] = config[g] /\ entitlements_cache'[g] = entitlements_cache[g]
         /\ license_key'[g] = license_key[g]
<1>1. /\ call \in [Handles -> Call] /\ result \in [Handles -> Results]
      /\ config \in [Handles -> ClientConfig]
      /\ entitlements_cache \in [Handles -> Grants \cup {Default, None}]
      /\ license_key \in [Handles -> LicenseKeys \cup {None}]
  BY DEF TypeOK
<1>2. CASE Starts(h)
  BY <1>1, <1>2
     DEF Starts, ActivateEmptyKey, ActivateWithoutServer, Activate, Check, Deactivate,
         SetServerKey, SetExpectedDigest, Begin, Return, memory
<1>3. CASE ServerAnswers(h)
  BY <1>1, <1>3
     DEF ServerAnswers, TokenKeyAnswered, ActivateAnswered, CaRootAnswered, ValidateAnswered,
         ActivateLocally, Return, memory
<1>4. CASE LocalStep(h)
  BY <1>1, <1>4
     DEF LocalStep, RequestFails, Seal, CacheTruncate, CacheWrite, CheckRollback, MarkerRead,
         MarkerTruncate, MarkerWrite, RemoveCache, RemoveMarker, MarkerError, ActivateLocally,
         Return, Goto, memory
<1>5. CASE Restart(h)
  BY <1>1, <1>5 DEF Restart, NewClient, Return
<1> QED BY <1>2, <1>3, <1>4, <1>5 DEF Acts

\* A step in which no handle acts leaves the memory of all of them alone.
LEMMA NobodyActs ==
  ASSUME ClockMoves \/ MachineChanges \/ UNCHANGED vars
  PROVE  UNCHANGED <<files, config, memory, call, result, history>>
  BY DEF ClockMoves, MachineChanges, vars, environment, files, memory, history

\* A check past its verdict on the cache is about a token of the trusted key
\* and of this machine, with the integrity gate passed (lib.rs:261-286).
GenuineCheck(h) ==
  /\ call[h].phase \in RequestPhases \cup {"seal", "cache_truncate", "cache_write"}
       => call[h].op = "activate"
  /\ call[h].phase \in MarkerPhases \cup {"rollback"} /\ call[h].op # "activate" =>
       /\ config[h].binary_matches
       /\ call[h].token.key = config[h].server_public_key
       /\ call[h].token.machine = call[h].machine

\* A genuine token is signed by the key it is checked against (token.rs:84-87).
LEMMA OkIsSigned ==
  ASSUME NEW token, NEW key, Verify(token, key, now) = "ok"
  PROVE  token.key = key
  BY DEF Verify

\* The acting handle's check stays genuine.
LEMMA ActsKeepsGenuine ==
  ASSUME TypeOK, NEW h \in Handles, Acts(h), GenuineCheck(h)
  PROVE  GenuineCheck(h)'
<1> USE DEF GenuineCheck, RequestPhases, MarkerPhases
<1>1. call \in [Handles -> Call] /\ call[h] \in Call
  BY DEF TypeOK
<1>2. CASE call' = [call EXCEPT ![h] = Idle]
  BY <1>1, <1>2 DEF Idle
<1>3. CASE Starts(h)
  <2>1. ASSUME NEW op, NEW p \in {"remove_cache"}, Begin(h, op, p) PROVE GenuineCheck(h)'
    BY <1>1, <2>1 DEF Begin, Idle
  <2>2. CASE Begin(h, "activate", "token_key")
    BY <1>1, <2>2 DEF Begin, Idle
  <2>3. CASE UNCHANGED call
    BY <1>3, <2>3 DEF Starts, IsIdle, ActivateEmptyKey, ActivateWithoutServer, Activate, Check,
                      Deactivate, SetServerKey, SetExpectedDigest
  <2>4. CASE Check(h)
    <3>1. CASE ~Return(h, "error") /\ ~Return(h, CacheVerdict(h))
      <4>1. /\ config[h].binary_matches /\ CacheVerdict(h) = "ok" /\ config' = config
            /\ call' = [call EXCEPT ![h] = [Idle EXCEPT !.op = "check",
                        !.phase = "rollback", !.machine = machine, !.token = cache_file.token]]
        BY <2>4, <3>1 DEF Check, GateErrors
      <4>2. /\ cache_file.token.key = config[h].server_public_key
            /\ cache_file.token.machine = machine
        BY <4>1, OkIsSigned DEF CacheVerdict, Opens, BoundHere
      <4>3. /\ call'[h].phase = "rollback" /\ call'[h].token = cache_file.token
            /\ call'[h].machine = machine
        BY <1>1, <4>1 DEF Idle
      <4> QED BY <4>1, <4>2, <4>3
    <3> QED BY <1>2, <3>1 DEF Return
  <2> QED BY <1>2, <1>3, <2>1, <2>2, <2>3, <2>4
          DEF Starts, ActivateEmptyKey, ActivateWithoutServer, Activate, Deactivate,
              SetServerKey, SetExpectedDigest, Return
<1>4. CASE ServerAnswers(h)
  <2>1. ASSUME NEW key \in SigningKeys, TokenKeyAnswered(h, key) PROVE GenuineCheck(h)'
    BY <1>1, <2>1 DEF TokenKeyAnswered, At, Call
  <2>2. ASSUME NEW leaf, ActivateAnswered(h, leaf) PROVE GenuineCheck(h)'
    BY <1>1, <2>2 DEF ActivateAnswered, At, Call
  <2>3. ASSUME NEW root, CaRootAnswered(h, root) PROVE GenuineCheck(h)'
    BY <1>1, <1>2, <2>3 DEF CaRootAnswered, At, Call, ActivateLocally, Return
  <2>4. ASSUME NEW token, ValidateAnswered(h, token) PROVE GenuineCheck(h)'
    BY <1>1, <1>2, <2>4 DEF ValidateAnswered, At, Call, ActivateLocally, Return
  <2> QED BY <1>4, <2>1, <2>2, <2>3, <2>4 DEF ServerAnswers
<1>5. CASE LocalStep(h)
  <2>1. CASE CacheTruncate(h)
    BY <1>1, <1>2, <2>1 DEF CacheTruncate, Goto, At, Call, ActivateLocally, Return
  <2>2. CASE CacheWrite(h)
    BY <1>1, <1>2, <2>2 DEF CacheWrite, At, Call, ActivateLocally, Return
  <2>3. CASE CheckRollback(h)
    BY <1>1, <1>2, <2>3 DEF CheckRollback, Goto, At, Call, Return
  <2>4. CASE MarkerRead(h)
    BY <1>1, <2>4 DEF MarkerRead, At, Call
  <2>5. CASE MarkerTruncate(h)
    BY <1>1, <1>2, <2>5 DEF MarkerTruncate, MarkerError, Goto, At, Call, ActivateLocally, Return
  <2>6. CASE RemoveCache(h)
    BY <1>1, <2>6 DEF RemoveCache, Goto, Call
  <2>7. CASE Seal(h)
    BY <1>1, <2>7 DEF Seal, At, Call
  <2> QED BY <1>2, <1>5, <2>1, <2>2, <2>3, <2>4, <2>5, <2>6, <2>7
          DEF LocalStep, RequestFails, MarkerWrite, RemoveMarker, MarkerError, ActivateLocally,
              Return
<1>6. CASE Restart(h)
  BY <1>2, <1>6 DEF Restart, Return
<1> QED BY <1>3, <1>4, <1>5, <1>6 DEF Acts

\* In every reachable state every check is genuine.
LEMMA ChecksAreGenuine == Safety => [](\A h \in Handles : GenuineCheck(h))
<1> DEFINE Genuine == \A h \in Handles : GenuineCheck(h)
<1>1. Init => Genuine
  BY DEF Init, GenuineCheck, Idle, RequestPhases, MarkerPhases
<1>2. TypeOK /\ Genuine /\ [Next]_vars => Genuine'
  <2> SUFFICES ASSUME TypeOK, Genuine, [Next]_vars, NEW g \in Handles
               PROVE  GenuineCheck(g)'
    OBVIOUS
  <2>1. ASSUME NEW h \in Handles, Acts(h) PROVE GenuineCheck(g)'
    BY <2>1, ActsKeepsGenuine, OthersStay DEF GenuineCheck
  <2>2. CASE ClockMoves \/ MachineChanges \/ UNCHANGED vars
    BY <2>2, NobodyActs DEF GenuineCheck
  <2> QED BY <2>1, <2>2 DEF Next, Acts
<1> QED BY <1>1, <1>2, ClientTypeCorrect, PTL DEF Safety

\* The only step whose outcome depends on the token a call holds is the last
\* write of the marker: everywhere else a call returns with nothing shown.
LEMMA SuccessIsMarkerWrite ==
  ASSUME TypeOK, NEW h \in Handles, Acts(h),
         Returns(h, "valid") \/ Returns(h, "online")
           \/ entitlements_cache'[h] \notin {entitlements_cache[h], Default, None}
  PROVE  /\ MarkerWrite(h) /\ ~MarkerError(h)
         /\ entitlements_cache' = [entitlements_cache EXCEPT ![h] = call[h].token.entitlements]
         /\ seen_file' = Newer(call[h].token.issued_at, call[h].seen)
         /\ honoured' = Newer(honoured, call[h].token.issued_at)
         /\ torn' = torn /\ Return(h, IF call[h].op = "activate" THEN "online" ELSE "valid")
<1>1. /\ call \in [Handles -> Call] /\ result \in [Handles -> Results]
      /\ entitlements_cache \in [Handles -> Grants \cup {Default, None}]
  BY DEF TypeOK
<1> DEFINE Success == Returns(h, "valid") \/ Returns(h, "online")
                        \/ entitlements_cache'[h] \notin {entitlements_cache[h], Default, None}
<1>2. ASSUME ActivateLocally(h) PROVE ~Success
  BY <1>1, <1>2 DEF ActivateLocally, Return, Returns
<1>3. ASSUME NEW r \in Results \ {"valid", "online"}, Return(h, r), UNCHANGED memory
      PROVE  ~Success
  BY <1>1, <1>3 DEF Return, Returns, memory
<1>4. ASSUME UNCHANGED <<memory, result>>, call'[h].phase # "idle" PROVE ~Success
  BY <1>4 DEF Returns, IsIdle, memory
<1>5. CASE Starts(h) \/ Restart(h)
  <2>1. CASE ~IsIdle(h)
    BY <1>1, <1>5, <2>1
       DEF Starts, ActivateEmptyKey, ActivateWithoutServer, Activate, Check, Deactivate,
           SetServerKey, SetExpectedDigest, Restart, NewClient, Return, Returns
  <2>2. CASE IsIdle(h)
    BY <1>1, <1>5, <2>2
       DEF Starts, ActivateEmptyKey, ActivateWithoutServer, Activate, Check, Deactivate,
           SetServerKey, SetExpectedDigest, Restart, NewClient, Returns, memory
  <2> QED BY <2>1, <2>2
<1>6. CASE ServerAnswers(h)
  <2>1. ASSUME NEW key \in SigningKeys, TokenKeyAnswered(h, key) PROVE FALSE
    BY <1>1, <1>4, <2>1 DEF TokenKeyAnswered, Call
  <2>2. ASSUME NEW leaf, ActivateAnswered(h, leaf) PROVE FALSE
    BY <1>1, <1>4, <2>2 DEF ActivateAnswered, Call
  <2>3. ASSUME NEW root, CaRootAnswered(h, root) PROVE FALSE
    BY <1>1, <1>2, <1>4, <2>3 DEF CaRootAnswered, Call
  <2>4. ASSUME NEW token, ValidateAnswered(h, token) PROVE FALSE
    BY <1>1, <1>2, <1>4, <2>4 DEF ValidateAnswered, Call
  <2> QED BY <1>6, <2>1, <2>2, <2>3, <2>4 DEF ServerAnswers
<1>7. ASSUME MarkerError(h) PROVE ~Success
  BY <1>2, <1>3, <1>7 DEF MarkerError, Results
<1>8. CASE LocalStep(h) /\ ~MarkerWrite(h)
  <2>1. CASE CacheTruncate(h)
    BY <1>1, <1>2, <1>4, <2>1 DEF CacheTruncate, Goto, Call
  <2>2. CASE CacheWrite(h)
    BY <1>1, <1>2, <1>4, <2>2 DEF CacheWrite, Call
  <2>3. CASE CheckRollback(h)
    BY <1>1, <1>3, <1>4, <2>3 DEF CheckRollback, Goto, Call, Results
  <2>4. CASE MarkerRead(h)
    BY <1>1, <1>4, <2>4 DEF MarkerRead, Call
  <2>5. CASE MarkerTruncate(h)
    BY <1>1, <1>4, <1>7, <2>5 DEF MarkerTruncate, Goto, Call
  <2>6. CASE RemoveCache(h)
    BY <1>1, <1>4, <2>6 DEF RemoveCache, Goto, Call
  <2>7. CASE RequestFails(h) \/ RemoveMarker(h)
    BY <1>2, <1>3, <2>7 DEF RequestFails, RemoveMarker, Results
  <2>8. CASE Seal(h)
    BY <1>1, <1>4, <2>8 DEF Seal, Call
  <2> QED BY <1>8, <2>1, <2>2, <2>3, <2>4, <2>5, <2>6, <2>7, <2>8 DEF LocalStep
<1>9. CASE MarkerWrite(h)
  BY <1>7, <1>9 DEF MarkerWrite
<1> QED BY <1>5, <1>6, <1>8, <1>9 DEF Acts

\* check() says Valid only about a token signed by the key the handle trusts,
\* with the integrity gate passed, and shows its entitlements, whatever other
\* handles wrote meanwhile (lib.rs:259-309).
THEOREM ValidIsGenuine == Safety => ValidMeansGenuine
<1> DEFINE Genuine == \A h \in Handles : GenuineCheck(h)
           Claim(h) == Returns(h, "valid") =>
             /\ config[h].binary_matches
             /\ call[h].token.key = config[h].server_public_key
             /\ entitlements_cache'[h] = call[h].token.entitlements
<1>1. TypeOK /\ Genuine /\ [Next]_vars => [\A h \in Handles : Claim(h)]_vars
  <2> SUFFICES ASSUME TypeOK, Genuine, Next, NEW g \in Handles, Returns(g, "valid")
               PROVE  Claim(g)
    OBVIOUS
  <2>1. PICK h \in Handles : Acts(h)
    BY NobodyActs DEF Next, Acts, Returns, IsIdle
  <2>2. g = h
    BY <2>1, OthersStay DEF Returns, IsIdle
  <2>3. /\ MarkerWrite(g)
        /\ Return(g, IF call[g].op = "activate" THEN "online" ELSE "valid")
        /\ entitlements_cache' = [entitlements_cache EXCEPT ![g] = call[g].token.entitlements]
    BY <2>1, <2>2, SuccessIsMarkerWrite
  <2>4. call[g].phase = "marker_write" /\ call[g].op # "activate"
    BY <2>3 DEF MarkerWrite, At, Return, Returns, TypeOK
  <2> QED BY <2>3, <2>4 DEF GenuineCheck, MarkerPhases, TypeOK
<1> QED BY <1>1, ClientTypeCorrect, ChecksAreGenuine, PTL DEF Safety, ValidMeansGenuine

\* check() says Valid only about a token bound to the fingerprint it computed
\* itself (lib.rs:281-286).
THEOREM ValidIsBound == Safety => ValidMeansBound
<1> DEFINE Genuine == \A h \in Handles : GenuineCheck(h)
<1>1. TypeOK /\ Genuine /\ [Next]_vars =>
        [\A h \in Handles : Returns(h, "valid") => call[h].token.machine = call[h].machine]_vars
  <2> SUFFICES ASSUME TypeOK, Genuine, Next, NEW g \in Handles, Returns(g, "valid")
               PROVE  call[g].token.machine = call[g].machine
    OBVIOUS
  <2>1. PICK h \in Handles : Acts(h)
    BY NobodyActs DEF Next, Acts, Returns, IsIdle
  <2>2. g = h
    BY <2>1, OthersStay DEF Returns, IsIdle
  <2>3. MarkerWrite(g) /\ Return(g, IF call[g].op = "activate" THEN "online" ELSE "valid")
    BY <2>1, <2>2, SuccessIsMarkerWrite
  <2>4. call[g].phase = "marker_write" /\ call[g].op # "activate"
    BY <2>3 DEF MarkerWrite, At, Return, Returns, TypeOK
  <2> QED BY <2>4 DEF GenuineCheck, MarkerPhases
<1> QED BY <1>1, ClientTypeCorrect, ChecksAreGenuine, PTL DEF Safety, ValidMeansBound

\* Signed entitlements become visible only with the answer that earned them
\* (lib.rs:256, 298-303).
THEOREM SignedAreEarned == Safety => SignedOnlyOnSuccess
<1>1. TypeOK /\ [Next]_vars =>
        [\A h \in Handles :
           entitlements_cache'[h] # entitlements_cache[h] /\ entitlements_cache'[h] \in Grants
             => Returns(h, "online") \/ Returns(h, "valid")]_vars
  <2> SUFFICES ASSUME TypeOK, Next, NEW g \in Handles,
                      entitlements_cache'[g] # entitlements_cache[g],
                      entitlements_cache'[g] \in Grants
               PROVE  Returns(g, "online") \/ Returns(g, "valid")
    OBVIOUS
  <2>1. PICK h \in Handles : Acts(h)
    BY NobodyActs DEF Next, Acts, memory
  <2>2. g = h
    BY <2>1, OthersStay
  <2>3. MarkerWrite(g) /\ Return(g, IF call[g].op = "activate" THEN "online" ELSE "valid")
    BY <2>1, <2>2, SuccessIsMarkerWrite, ClientAssumption
  <2> QED BY <2>3 DEF MarkerWrite, At, Return, Returns, IsIdle, Idle, TypeOK
<1> QED BY <1>1, ClientTypeCorrect, PTL DEF Safety, SignedOnlyOnSuccess

\* "Expired" is said of genuine tokens of this machine only (token.rs:84-95,
\* lib.rs:265-279).
THEOREM ExpiredIsGenuine == Safety => ExpiredMeansGenuine
<1>1. TypeOK /\ [Next]_vars =>
        [\A h \in Handles : result[h] # "expired" /\ result'[h] = "expired" =>
           /\ cache_file # None
           /\ cache_file.sealed_for = machine
           /\ cache_file.token.key = config[h].server_public_key
           /\ cache_file.token.expires_at < now - ClockSkew]_vars
  <2> SUFFICES ASSUME TypeOK, Next, NEW g \in Handles,
                      result[g] # "expired", result'[g] = "expired"
               PROVE  /\ cache_file # None
                      /\ cache_file.sealed_for = machine
                      /\ cache_file.token.key = config[g].server_public_key
                      /\ cache_file.token.expires_at < now - ClockSkew
    OBVIOUS
  <2>1. PICK h \in Handles : Acts(h)
    BY NobodyActs DEF Next, Acts
  <2>2. g = h
    BY <2>1, OthersStay
  <2>3. Check(g) /\ Return(g, CacheVerdict(g)) /\ CacheVerdict(g) = "expired"
    <3>1. result \in [Handles -> Results]
      BY DEF TypeOK
    <3> QED BY <2>1, <2>2, <3>1
       DEF Acts, Starts, ActivateEmptyKey, ActivateWithoutServer, Activate, Check, Deactivate,
           SetServerKey, SetExpectedDigest, Begin, Return, ServerAnswers, TokenKeyAnswered,
           ActivateAnswered, CaRootAnswered, ValidateAnswered, LocalStep, RequestFails,
           Seal, CacheTruncate, CacheWrite, CheckRollback, MarkerRead, MarkerTruncate, MarkerWrite,
           RemoveCache, RemoveMarker, MarkerError, ActivateLocally, Restart
  <2>4. /\ cache_file # None /\ cache_file.sealed_for = machine
        /\ Verify(cache_file.token, config[g].server_public_key, now) = "expired"
    BY <2>3 DEF CacheVerdict, Opens
  <2>5. cache_file.token.expires_at \in Int /\ now \in Int
    BY <2>4 DEF TypeOK, Sealed, Token, Times
  <2> QED BY <2>4, <2>5, TokenAssumption DEF Verify
<1> QED BY <1>1, ClientTypeCorrect, PTL DEF Safety, ExpiredMeansGenuine

-----------------------------------------------------------------------------
\* The rollback marker, for any number of handles whose calls do not overlap,
\* such as processes that run one after another.  Two calls that do overlap
\* lose records: the run doc_record_of_handles shows how.

OneHandle == \E h \in Handles : Handles = {h}

OneCallAtATime == \A g, h \in Handles : g = h \/ IsIdle(g) \/ IsIdle(h)
OthersIdle(h) == \A g \in Handles \ {h} : IsIdle(g)

\* Where the record of the newest accepted token is: in the marker, or, while
\* the marker is being rewritten, in the locals of the call that rewrites it.
Recorded(h) ==
  /\ At(h, "marker_truncate") => call[h].seen = seen_file
  /\ At(h, "marker_write") => seen_file = Unseen
  /\ ~torn => honoured <= IF At(h, "marker_write") THEN call[h].seen ELSE seen_file

\* A check past its rollback test is about a token that passes it still.
RecentCheck(h) ==
  /\ At(h, "rollback") => call[h].op = "check"
  /\ At(h, "remove_cache") => call[h].op = "deactivate"
  /\ call[h].op # "activate" =>
       /\ call[h].phase \in MarkerPhases \cup {"rollback"} =>
            cache_file # None /\ call[h].token = cache_file.token
       /\ At(h, "marker_read") => ~TooOld(call[h].token, seen_file)
       /\ call[h].phase \in {"marker_truncate", "marker_write"} =>
            ~TooOld(call[h].token, call[h].seen)
       /\ call[h].phase \in MarkerPhases =>
            torn \/ call[h].token.issued_at >= honoured - ClockSkew

\* A step that leaves marker and history alone, from outside marker_write.
LEMMA RecordUntouched ==
  ASSUME NEW h \in Handles, Recorded(h), ~At(h, "marker_write"),
         UNCHANGED <<seen_file, honoured, torn>>,
         call'[h].phase \notin {"marker_truncate", "marker_write"}
  PROVE  Recorded(h)'
  BY DEF Recorded, At

\* What a call goes through before it comes to the marker.
LEMMA StartsAndAnswersAvoidMarker ==
  ASSUME TypeOK, NEW h \in Handles, Starts(h) \/ ServerAnswers(h)
  PROVE  /\ UNCHANGED <<seen_file, cache_file, honoured, torn>>
         /\ call[h].phase \notin MarkerPhases \cup {"rollback", "remove_cache", "remove_marker"}
         /\ call'[h].phase \notin MarkerPhases \cup {"remove_marker"}
<1>1. call \in [Handles -> Call]
  BY DEF TypeOK
<1>2. CASE Starts(h)
  <2>1. UNCHANGED <<seen_file, cache_file, honoured, torn>> /\ IsIdle(h)
    BY <1>2 DEF Starts, ActivateEmptyKey, ActivateWithoutServer, Activate, Check, Deactivate,
                SetServerKey, SetExpectedDigest, files, history
  <2>2. call'[h].phase \in {"idle", "token_key", "rollback", "remove_cache"}
    <3>1. ASSUME NEW op, NEW p \in {"token_key", "remove_cache"}, Begin(h, op, p)
          PROVE  call'[h].phase = p
      BY <1>1, <3>1 DEF Begin, Idle
    <3>2. ASSUME NEW r, Return(h, r) PROVE call'[h].phase = "idle"
      BY <1>1, <3>2 DEF Return, Idle
    <3>3. ASSUME Check(h), ~Return(h, "error"), ~Return(h, CacheVerdict(h))
          PROVE  call'[h].phase = "rollback"
      BY <1>1, <3>3 DEF Check, Idle
    <3> QED BY <1>2, <3>1, <3>2, <3>3
            DEF Starts, IsIdle, ActivateEmptyKey, ActivateWithoutServer, Activate, Check,
                Deactivate, SetServerKey, SetExpectedDigest
  <2> QED BY <2>1, <2>2 DEF IsIdle, MarkerPhases
<1>3. CASE ServerAnswers(h)
  <2>1. UNCHANGED <<seen_file, cache_file, honoured, torn>> /\ call[h].phase \in RequestPhases
    BY <1>3 DEF ServerAnswers, TokenKeyAnswered, ActivateAnswered, CaRootAnswered,
                ValidateAnswered, files, history, At, RequestPhases
  <2>2. CASE ActivateLocally(h)
    BY <1>1, <2>1, <2>2 DEF ActivateLocally, Return, Idle, MarkerPhases, RequestPhases
  <2>3. ASSUME NEW token, ValidateAnswered(h, token), ~ActivateLocally(h)
        PROVE  call'[h].phase = "seal"
    BY <1>1, <2>3 DEF ValidateAnswered, Call
  <2>4. CASE ~ActivateLocally(h)
    <3>1. ASSUME NEW key \in SigningKeys, TokenKeyAnswered(h, key)
          PROVE  call'[h].phase = "activate"
      BY <1>1, <3>1 DEF TokenKeyAnswered, Call
    <3>2. ASSUME NEW leaf, ActivateAnswered(h, leaf)
          PROVE  call'[h].phase \in {"ca", "validate"}
      BY <1>1, <3>2 DEF ActivateAnswered, Call
    <3>3. ASSUME NEW root, CaRootAnswered(h, root)
          PROVE  call'[h].phase = "validate"
      BY <1>1, <2>4, <3>3 DEF CaRootAnswered, Call
    <3>4. call'[h].phase \in {"activate", "ca", "validate", "seal"}
      BY <1>3, <2>3, <2>4, <3>1, <3>2, <3>3 DEF ServerAnswers
    <3> QED BY <2>1, <3>4 DEF MarkerPhases, RequestPhases
  <2> QED BY <2>2, <2>4
<1> QED BY <1>2, <1>3

\* Every ending of a call leaves it idle.
LEMMA EndingsAreIdle ==
  ASSUME TypeOK, NEW h \in Handles, ActivateLocally(h) \/ MarkerError(h) \/ (\E r : Return(h, r))
  PROVE  call'[h] = Idle
  BY DEF TypeOK, ActivateLocally, MarkerError, Return

\* Each step of the handle keeps the record (lib.rs:428-433).
LEMMA ActsKeepsRecord ==
  ASSUME TypeOK, NEW h \in Handles, Acts(h), Recorded(h)
  PROVE  Recorded(h)'
<1>1. call \in [Handles -> Call] /\ call[h] \in Call
  BY DEF TypeOK
<1>2. CASE Starts(h) \/ ServerAnswers(h)
  BY <1>2, StartsAndAnswersAvoidMarker, RecordUntouched DEF At, MarkerPhases
<1>3. CASE RequestFails(h)
  BY <1>3, EndingsAreIdle, RecordUntouched DEF RequestFails, RequestPhases, files, history, At, Idle
<1>4. CASE Seal(h) \/ CacheTruncate(h)
  BY <1>1, <1>4, EndingsAreIdle, RecordUntouched
     DEF Seal, CacheTruncate, Goto, files, history, At, Idle, Call
<1>5. CASE CacheWrite(h)
  BY <1>1, <1>5, EndingsAreIdle, RecordUntouched DEF CacheWrite, history, At, Idle, Call
<1>6. CASE CheckRollback(h)
  BY <1>1, <1>6, EndingsAreIdle, RecordUntouched
     DEF CheckRollback, Goto, files, history, At, Idle, Call
<1>7. CASE MarkerRead(h)
  BY <1>1, <1>7 DEF MarkerRead, Recorded, files, history, At, Call
<1>8. CASE MarkerTruncate(h)
  <2>1. CASE MarkerError(h) /\ UNCHANGED seen_file
    BY <1>8, <2>1, EndingsAreIdle, RecordUntouched DEF MarkerTruncate, history, At, Idle
  <2>2. CASE seen_file' = Unseen /\ Goto(h, "marker_write")
    BY <1>1, <1>8, <2>2 DEF MarkerTruncate, Recorded, Goto, history, At, Call
  <2> QED BY <1>8, <2>1, <2>2 DEF MarkerTruncate
<1>9. CASE MarkerWrite(h)
  <2>1. call'[h] = Idle
    BY <1>9, EndingsAreIdle DEF MarkerWrite
  <2>2. CASE torn' = TRUE
    BY <2>1, <2>2 DEF Recorded, At, Idle
  <2>3. CASE /\ seen_file' = Newer(call[h].token.issued_at, call[h].seen)
             /\ honoured' = Newer(honoured, call[h].token.issued_at)
             /\ torn' = torn
    <3>1. /\ call[h].token.issued_at \in Times /\ call[h].seen \in Times \cup {Unseen}
          /\ honoured \in Times \cup {Unseen} /\ seen_file \in Times \cup {Unseen}
      BY <1>9 DEF MarkerWrite, TypeOK, At, Call, MarkerPhases, Token
    <3>2. ~torn => honoured <= call[h].seen
      BY <1>9 DEF Recorded, MarkerWrite
    <3>3. ~torn' => honoured' <= seen_file'
      BY <2>3, <3>1, <3>2, TokenAssumption DEF Newer, Times, Unseen
    <3> QED BY <2>1, <3>3 DEF Recorded, At, Idle
  <2> QED BY <1>9, <2>2, <2>3 DEF MarkerWrite
<1>10. CASE RemoveCache(h)
  BY <1>1, <1>10, RecordUntouched DEF RemoveCache, Goto, history, At, Call
<1>11. CASE RemoveMarker(h)
  <2>1. call'[h] = Idle /\ ~At(h, "marker_write")
    BY <1>11, EndingsAreIdle DEF RemoveMarker, At
  <2>2. CASE seen_file' = Unseen /\ honoured' = Unseen
    BY <2>1, <2>2 DEF Recorded, At, Idle, Unseen
  <2>3. CASE UNCHANGED <<seen_file, history>>
    BY <2>1, <2>3, RecordUntouched DEF history, Idle
  <2> QED BY <1>11, <2>2, <2>3 DEF RemoveMarker
<1>12. CASE Restart(h)
  <2>1. call'[h] = Idle
    BY <1>12, EndingsAreIdle DEF Restart
  <2>2. CASE At(h, "marker_write")
    <3>1. torn'
      BY <1>12, <2>2 DEF Restart
    <3> QED BY <2>1, <3>1 DEF Recorded, At, Idle
  <2>3. CASE ~At(h, "marker_write")
    <3>1. ~torn' => ~torn
      BY <1>12 DEF Restart
    <3>2. UNCHANGED <<seen_file, honoured>>
      BY <1>12 DEF Restart, files
    <3> QED BY <2>1, <2>3, <3>1, <3>2 DEF Recorded, At, Idle
  <2> QED BY <2>2, <2>3
<1> QED BY <1>2, <1>3, <1>4, <1>5, <1>6, <1>7, <1>8, <1>9, <1>10, <1>11, <1>12
        DEF Acts, LocalStep

\* A token that is not too old stays so when the marker takes its time.
LEMMA NotTooOldLater ==
  ASSUME NEW token \in Token, NEW seen \in Times \cup {Unseen}, ~TooOld(token, seen)
  PROVE  ~TooOld(token, Newer(token.issued_at, seen))
<1>1. token.issued_at \in Times
  BY DEF Token
<1> QED BY <1>1, TokenAssumption DEF TooOld, Newer, Times, Unseen

\* Each step of the handle keeps its check recent (lib.rs:288-296).
LEMMA ActsKeepsRecent ==
  ASSUME TypeOK, NEW h \in Handles, Acts(h), Recorded(h), GenuineCheck(h), RecentCheck(h)
  PROVE  RecentCheck(h)'
<1> USE DEF RecentCheck
<1>1. call \in [Handles -> Call] /\ call[h] \in Call
  BY DEF TypeOK
<1>2. ASSUME call'[h] = Idle PROVE RecentCheck(h)'
  BY <1>2 DEF Idle, At, MarkerPhases
<1>3. ASSUME call'[h].phase \notin MarkerPhases \cup {"rollback", "remove_cache"}
      PROVE  RecentCheck(h)'
  BY <1>3 DEF At, MarkerPhases
<1>4. CASE ServerAnswers(h)
  <2>1. CASE call'[h].phase \in {"rollback", "remove_cache"}
    <3>1. ASSUME NEW key \in SigningKeys, TokenKeyAnswered(h, key) PROVE FALSE
      BY <1>1, <2>1, <3>1 DEF TokenKeyAnswered, Call
    <3>2. ASSUME NEW leaf, ActivateAnswered(h, leaf) PROVE FALSE
      BY <1>1, <2>1, <3>2 DEF ActivateAnswered, Call
    <3>3. ASSUME NEW root, CaRootAnswered(h, root) PROVE FALSE
      BY <1>1, <2>1, <3>3 DEF CaRootAnswered, ActivateLocally, Return, Idle, Call
    <3>4. ASSUME NEW token, ValidateAnswered(h, token) PROVE FALSE
      BY <1>1, <2>1, <3>4 DEF ValidateAnswered, ActivateLocally, Return, Idle, Call
    <3> QED BY <1>4, <3>1, <3>2, <3>3, <3>4 DEF ServerAnswers
  <2> QED BY <1>3, <1>4, <2>1, StartsAndAnswersAvoidMarker
<1>5. CASE Starts(h)
  <2>1. CASE Check(h) /\ call'[h] # Idle
    <3>1. /\ CacheVerdict(h) = "ok" /\ UNCHANGED <<cache_file, torn>>
          /\ call' = [call EXCEPT ![h] = [Idle EXCEPT !.op = "check",
                        !.phase = "rollback", !.machine = machine, !.token = cache_file.token]]
      BY <1>1, <2>1 DEF Check, Return, files, history
    <3>2. cache_file # None
      BY <3>1 DEF CacheVerdict, Opens
    <3>3. /\ call'[h].phase = "rollback" /\ call'[h].op = "check"
          /\ call'[h].token = cache_file.token
      BY <1>1, <3>1 DEF Idle
    <3> QED BY <3>1, <3>2, <3>3 DEF At, MarkerPhases
  <2>2. ASSUME NEW op, NEW p \in {"token_key", "remove_cache"}, Begin(h, op, p),
               p = "remove_cache" => op = "deactivate"
        PROVE  RecentCheck(h)'
    <3>1. call'[h].phase = p /\ call'[h].op = op
      BY <1>1, <2>2 DEF Begin, Idle
    <3> QED BY <2>2, <3>1 DEF At, MarkerPhases
  <2>3. CASE UNCHANGED call
    BY <1>2, <1>3, <1>5, <2>3, StartsAndAnswersAvoidMarker DEF At
  <2> QED BY <1>1, <1>2, <1>5, <2>1, <2>2, <2>3
          DEF Starts, ActivateEmptyKey, ActivateWithoutServer, Activate, Deactivate,
              SetServerKey, SetExpectedDigest, Return
<1>6. CASE Seal(h) \/ CacheTruncate(h) \/ RemoveCache(h)
  <2>1. CASE call'[h] = Idle
    BY <1>2, <2>1
  <2>2. CASE Goto(h, "cache_write") \/ Goto(h, "remove_marker")
    BY <1>1, <1>3, <2>2 DEF Goto, Call, MarkerPhases
  <2>3. CASE Seal(h)
    BY <1>1, <1>3, <2>3 DEF Seal, Call, MarkerPhases
  <2> QED BY <1>6, <2>1, <2>2, <2>3, EndingsAreIdle DEF CacheTruncate, RemoveCache
<1>7. CASE CacheWrite(h)
  <2>1. call[h].op = "activate"
    BY <1>7 DEF CacheWrite, At, GenuineCheck
  <2>2. CASE call' = [call EXCEPT ![h].phase = "marker_read", ![h].machine = None]
    BY <1>1, <2>1, <2>2 DEF Call, At
  <2> QED BY <1>2, <1>7, <2>2, EndingsAreIdle DEF CacheWrite
<1>8. CASE CheckRollback(h)
  <2>1. CASE ~TooOld(call[h].token, seen_file) /\ Goto(h, "marker_read")
    <3>1. /\ call'[h].phase = "marker_read" /\ call'[h].op = call[h].op
          /\ call'[h].token = call[h].token
      BY <1>1, <2>1 DEF Goto, Call
    <3>2. /\ cache_file # None /\ call[h].token = cache_file.token /\ call[h].op = "check"
          /\ UNCHANGED <<cache_file, seen_file, honoured, torn>>
      BY <1>8 DEF CheckRollback, At, files, history
    <3>3. torn \/ call[h].token.issued_at >= honoured - ClockSkew
      <4>1. call[h].token \in Token
        BY <1>8 DEF CheckRollback, At, TypeOK
      <4>2. /\ call[h].token.issued_at \in Times /\ seen_file \in Times \cup {Unseen}
            /\ honoured \in Times \cup {Unseen}
        BY <4>1 DEF TypeOK, Token
      <4>3. ~torn => honoured <= seen_file
        BY <1>8 DEF Recorded, CheckRollback, At
      <4> QED BY <2>1, <4>2, <4>3, TokenAssumption DEF TooOld, Times, Unseen
    <3> QED BY <2>1, <3>1, <3>2, <3>3 DEF At
  <2> QED BY <1>2, <1>8, <2>1, EndingsAreIdle DEF CheckRollback
<1>9. CASE MarkerRead(h)
  <2>1. /\ call'[h].phase = "marker_truncate" /\ call'[h].op = call[h].op
        /\ call'[h].token = call[h].token /\ call'[h].seen = seen_file
        /\ At(h, "marker_read") /\ UNCHANGED <<cache_file, honoured, torn>>
    BY <1>1, <1>9 DEF MarkerRead, Call, files, history
  <2> QED BY <2>1 DEF At, MarkerPhases
<1>10. CASE MarkerTruncate(h)
  <2>1. CASE Goto(h, "marker_write")
    <3>1. /\ call'[h].phase = "marker_write" /\ call'[h].op = call[h].op
          /\ call'[h].token = call[h].token /\ call'[h].seen = call[h].seen
          /\ At(h, "marker_truncate") /\ UNCHANGED <<cache_file, honoured, torn>>
      BY <1>1, <1>10, <2>1 DEF MarkerTruncate, Goto, Call, history
    <3> QED BY <3>1 DEF At, MarkerPhases
  <2> QED BY <1>2, <1>10, <2>1, EndingsAreIdle DEF MarkerTruncate
<1>11. CASE RequestFails(h) \/ MarkerWrite(h) \/ RemoveMarker(h) \/ Restart(h)
  BY <1>2, <1>11, EndingsAreIdle DEF RequestFails, MarkerWrite, RemoveMarker, Restart
<1> QED BY <1>4, <1>5, <1>6, <1>7, <1>8, <1>9, <1>10, <1>11 DEF Acts, LocalStep

\* What holds of every call that is alone.
AloneInv == \A h \in Handles : OthersIdle(h) => Recorded(h) /\ RecentCheck(h)

\* A handle that has nothing under way before its step and after it leaves the
\* record as it was.
LEMMA BetweenCalls ==
  ASSUME TypeOK, NEW h \in Handles, Acts(h), IsIdle(h)
  PROVE  UNCHANGED <<files, history>>
<1>1. CASE Starts(h)
  BY <1>1, StartsAndAnswersAvoidMarker DEF files, history
<1>2. CASE Restart(h)
  BY <1>2 DEF Restart, IsIdle, At, TypeOK, history
<1>3. ~ServerAnswers(h) /\ ~LocalStep(h)
  BY DEF IsIdle, ServerAnswers, TokenKeyAnswered, ActivateAnswered, CaRootAnswered, ValidateAnswered,
         LocalStep, RequestFails, Seal, CacheTruncate, CacheWrite, CheckRollback, MarkerRead,
         MarkerTruncate, MarkerWrite, RemoveCache, RemoveMarker, At, RequestPhases
<1> QED BY <1>1, <1>2, <1>3 DEF Acts

\* A call that is alone keeps its record and its check; one that was not is not
\* touched by the others, who have nothing under way.
LEMMA AloneStays ==
  ASSUME TypeOK, \A h \in Handles : GenuineCheck(h), OneCallAtATime, AloneInv, HonouredIsRecorded,
         [Next]_vars
  PROVE  AloneInv' /\ HonouredIsRecorded'
<1>1. ASSUME NEW h \in Handles, Acts(h), OthersIdle(h) PROVE AloneInv' /\ HonouredIsRecorded'
  <2>1. Recorded(h)' /\ RecentCheck(h)'
    BY <1>1, ActsKeepsRecord, ActsKeepsRecent DEF AloneInv
  <2>2. \A g \in Handles \ {h} : IsIdle(g)'
    BY <1>1, OthersStay DEF OthersIdle, IsIdle
  <2>3. ASSUME NEW g \in Handles \ {h}, OthersIdle(g)' PROVE Recorded(g)' /\ RecentCheck(g)'
    BY <2>1, <2>2, <2>3 DEF OthersIdle, IsIdle, Recorded, RecentCheck, At, MarkerPhases
  <2>4. HonouredIsRecorded'
    BY <2>1 DEF HonouredIsRecorded, AllIdle, IsIdle, Recorded, At
  <2> QED BY <2>1, <2>3, <2>4 DEF AloneInv
<1>2. ASSUME NEW h \in Handles, Acts(h), ~OthersIdle(h) PROVE AloneInv' /\ HonouredIsRecorded'
  <2>1. PICK k \in Handles \ {h} : ~IsIdle(k)
    BY <1>2 DEF OthersIdle
  <2>2. IsIdle(h) /\ OthersIdle(k)
    BY <2>1 DEF OneCallAtATime, OthersIdle
  <2>3. UNCHANGED <<files, history, call[k]>>
    BY <1>2, <2>1, <2>2, BetweenCalls, OthersStay
  <2>4. \A g \in Handles \ {k} : ~OthersIdle(g)'
    BY <2>1, <2>3 DEF OthersIdle, IsIdle
  <2>5. Recorded(k)' /\ RecentCheck(k)'
    BY <2>1, <2>2, <2>3 DEF AloneInv, Recorded, RecentCheck, At, files, history
  <2>6. ~AllIdle'
    BY <2>1, <2>3 DEF AllIdle, IsIdle
  <2> QED BY <2>4, <2>5, <2>6 DEF AloneInv, HonouredIsRecorded
<1>3. CASE ClockMoves \/ MachineChanges \/ UNCHANGED vars
  BY <1>3, NobodyActs
     DEF AloneInv, OthersIdle, IsIdle, Recorded, RecentCheck, At, HonouredIsRecorded, AllIdle, files,
         history
<1> QED BY <1>1, <1>2, <1>3 DEF Next, Acts

\* It holds whatever the handles, the server, the clock and the machine do.
LEMMA AloneInvariant == Safety /\ []OneCallAtATime => [](AloneInv /\ HonouredIsRecorded)
<1> DEFINE Genuine == \A h \in Handles : GenuineCheck(h)
<1>1. Init => AloneInv /\ HonouredIsRecorded
  BY DEF Init, AloneInv, Recorded, RecentCheck, HonouredIsRecorded, At, Idle, Unseen, MarkerPhases
<1>2. /\ TypeOK /\ Genuine /\ OneCallAtATime /\ AloneInv /\ HonouredIsRecorded
      /\ [Next]_vars
      => (AloneInv /\ HonouredIsRecorded)'
  BY AloneStays
<1> QED BY <1>1, <1>2, ClientTypeCorrect, ChecksAreGenuine, PTL DEF Safety

\* Between calls the marker covers every token any handle accepted since it was
\* last removed, unless a rewrite was cut short, as long as calls do not overlap
\* (lib.rs:428-433).
THEOREM HonouredAreRecorded == Safety /\ []OneCallAtATime => []HonouredIsRecorded
  BY AloneInvariant, PTL

\* As long as calls do not overlap, check() is never Valid for a token older than
\* the newest one any handle accepted by more than CLOCK_SKEW_SECS, unless a
\* rewrite of the marker was cut short (lib.rs:288-296).
THEOREM RollbackIsBounded == Safety /\ []OneCallAtATime => RollbackBound
<1>1. TypeOK /\ OneCallAtATime /\ AloneInv /\ [Next]_vars =>
        [\A h \in Handles : Returns(h, "valid") =>
           torn \/ call[h].token.issued_at >= honoured - ClockSkew]_vars
  <2> SUFFICES ASSUME TypeOK, OneCallAtATime, AloneInv, Next, NEW h \in Handles, Returns(h, "valid")
               PROVE  torn \/ call[h].token.issued_at >= honoured - ClockSkew
    OBVIOUS
  <2>1. PICK g \in Handles : Acts(g)
    BY NobodyActs DEF Next, Acts, Returns, IsIdle
  <2>2. g = h
    BY <2>1, OthersStay DEF Returns, IsIdle
  <2>3. MarkerWrite(h) /\ Return(h, IF call[h].op = "activate" THEN "online" ELSE "valid")
    BY <2>1, <2>2, SuccessIsMarkerWrite
  <2>4. call[h].phase = "marker_write" /\ call[h].op # "activate"
    BY <2>3 DEF MarkerWrite, At, Return, Returns, TypeOK
  <2>5. RecentCheck(h)
    BY DEF AloneInv, OneCallAtATime, OthersIdle, Returns
  <2> QED BY <2>4, <2>5 DEF RecentCheck, MarkerPhases
<1> QED BY <1>1, ClientTypeCorrect, AloneInvariant, PTL DEF Safety, RollbackBound

\* What holds of a handle that has the files to itself.
SoloInv == \A h \in Handles : Recorded(h) /\ GenuineCheck(h) /\ RecentCheck(h)

LEMMA SoloInvariant == OneHandle => (Safety => []SoloInv)
<1> SUFFICES ASSUME OneHandle PROVE Safety => []SoloInv
  OBVIOUS
<1>1. OneCallAtATime
  BY DEF OneCallAtATime, OneHandle
<1>2. AloneInv /\ (\A h \in Handles : GenuineCheck(h)) => SoloInv
  BY DEF AloneInv, OthersIdle, SoloInv, OneHandle
<1> QED BY <1>1, <1>2, AloneInvariant, ChecksAreGenuine, PTL

-----------------------------------------------------------------------------
\* Online activations of one handle, and checks that fail half-way.

\* An activation that has accepted a token has it in the file by the time it
\* comes to the marker, and from "online" on the file and the marker agree.
Durable(h) ==
  /\ ~IsIdle(h) => result[h] = "none"
  /\ call[h].phase \in {"seal", "cache_truncate", "cache_write"} =>
       call[h].token.key = config[h].server_public_key
  /\ call[h].phase \in MarkerPhases /\ call[h].op = "activate" =>
       /\ cache_file # None
       /\ cache_file.token = call[h].token
       /\ call[h].token.key = config[h].server_public_key
  /\ result[h] = "online" =>
       /\ cache_file # None
       /\ cache_file.token.key = config[h].server_public_key
       /\ cache_file.token.entitlements = entitlements_cache[h]
       /\ cache_file.token.issued_at <= seen_file

\* A call that starts takes back what the last one returned.
LEMMA StartsResetResult ==
  ASSUME TypeOK, NEW h \in Handles, Starts(h)
  PROVE  /\ result'[h] # "online"
         /\ call'[h].phase # "idle" => result'[h] = "none"
         /\ call'[h].phase \notin {"seal", "cache_truncate", "cache_write"}
<1>1. call \in [Handles -> Call] /\ result \in [Handles -> Results]
  BY DEF TypeOK
<1>2. CacheVerdict(h) # "online"
  BY DEF CacheVerdict, Opens, Verify
<1>3. ASSUME NEW op, NEW p \in {"token_key", "remove_cache"}, Begin(h, op, p)
      PROVE  call'[h].phase = p /\ result'[h] = "none"
  BY <1>1, <1>3 DEF Begin, Idle
<1>4. ASSUME NEW r, Return(h, r) PROVE call'[h].phase = "idle" /\ result'[h] = r
  BY <1>1, <1>4 DEF Return, Idle
<1>5. ASSUME Check(h), ~Return(h, "error"), ~Return(h, CacheVerdict(h))
      PROVE  call'[h].phase = "rollback" /\ result'[h] = "none"
  BY <1>1, <1>5 DEF Check, Idle
<1>6. ASSUME UNCHANGED call, IsIdle(h), result' = [result EXCEPT ![h] = "none"]
      PROVE  call'[h].phase = "idle" /\ result'[h] = "none"
  BY <1>1, <1>6 DEF IsIdle
<1> QED BY <1>2, <1>3, <1>4, <1>5, <1>6
        DEF Starts, ActivateEmptyKey, ActivateWithoutServer, Activate, Check, Deactivate,
            SetServerKey, SetExpectedDigest

\* Each step of the handle keeps its activation durable (lib.rs:244-256).
LEMMA ActsKeepsDurable ==
  ASSUME TypeOK, NEW h \in Handles, Acts(h), RecentCheck(h), Durable(h)
  PROVE  Durable(h)'
<1> USE DEF Durable
<1>1. /\ call \in [Handles -> Call] /\ call[h] \in Call /\ result \in [Handles -> Results]
      /\ config \in [Handles -> ClientConfig]
  BY DEF TypeOK
<1>2. ASSUME call'[h] = Idle, result'[h] # "online" PROVE Durable(h)'
  BY <1>2 DEF Idle, IsIdle, MarkerPhases
<1>3. ASSUME NEW r \in Results \ {"online"}, Return(h, r) PROVE Durable(h)'
  BY <1>1, <1>2, <1>3 DEF Return
<1>4. ASSUME ActivateLocally(h) PROVE Durable(h)'
  BY <1>3, <1>4 DEF ActivateLocally, Results
<1>5. ASSUME MarkerError(h) PROVE Durable(h)'
  BY <1>3, <1>4, <1>5 DEF MarkerError, Results
<1>6. ASSUME UNCHANGED result, ~IsIdle(h),
             call'[h].phase \notin MarkerPhases \cup {"seal", "cache_truncate", "cache_write"}
      PROVE  Durable(h)'
  BY <1>6
<1>7. CASE Starts(h)
  BY <1>7, StartsResetResult, StartsAndAnswersAvoidMarker DEF IsIdle
<1>8. CASE ServerAnswers(h)
  <2>1. ASSUME NEW key \in SigningKeys, TokenKeyAnswered(h, key) PROVE Durable(h)'
    BY <1>1, <1>6, <2>1 DEF TokenKeyAnswered, At, IsIdle, Call, MarkerPhases
  <2>2. ASSUME NEW leaf, ActivateAnswered(h, leaf) PROVE Durable(h)'
    BY <1>1, <1>6, <2>2 DEF ActivateAnswered, At, IsIdle, Call, MarkerPhases
  <2>3. ASSUME NEW root, CaRootAnswered(h, root) PROVE Durable(h)'
    BY <1>1, <1>4, <1>6, <2>3 DEF CaRootAnswered, At, IsIdle, Call, MarkerPhases
  <2>4. ASSUME NEW token, ValidateAnswered(h, token) PROVE Durable(h)'
    <3>1. CASE ~ActivateLocally(h)
      <4>1. token.key = config[h].server_public_key
        BY <2>4, <3>1, OkIsSigned DEF ValidateAnswered, Acceptable
      <4>2. /\ call'[h].phase = "seal" /\ call'[h].token = token
            /\ UNCHANGED <<config, result>> /\ At(h, "validate")
        BY <1>1, <2>4, <3>1 DEF ValidateAnswered, Call
      <4> QED BY <4>1, <4>2 DEF At, IsIdle, MarkerPhases
    <3> QED BY <1>4, <3>1
  <2> QED BY <1>8, <2>1, <2>2, <2>3, <2>4 DEF ServerAnswers
<1>9. CASE CacheTruncate(h)
  <2>1. CASE Goto(h, "cache_write") /\ UNCHANGED result
    <3>1. /\ call'[h].phase = "cache_write" /\ call'[h].token = call[h].token
          /\ UNCHANGED config /\ At(h, "cache_truncate")
      BY <1>1, <1>9, <2>1 DEF CacheTruncate, Goto, Call
    <3> QED BY <2>1, <3>1 DEF At, IsIdle, MarkerPhases
  <2> QED BY <1>4, <1>9, <2>1 DEF CacheTruncate
<1>10. CASE CacheWrite(h)
  <2>1. CASE ~ActivateLocally(h)
    <3>1. /\ call'[h].phase = "marker_read" /\ call'[h].token = call[h].token
          /\ cache_file' = [token |-> call[h].token, sealed_for |-> call[h].machine]
          /\ UNCHANGED <<config, result>> /\ At(h, "cache_write")
      BY <1>1, <1>10, <2>1 DEF CacheWrite, Call
    <3>2. cache_file' # None
      BY <1>10, <3>1, NoneIsNoRecord DEF TypeOK, Sealed, CacheWrite, At
    <3> QED BY <3>1, <3>2 DEF At, IsIdle, MarkerPhases
  <2> QED BY <1>4, <1>10, <2>1 DEF CacheWrite
<1>11. CASE CheckRollback(h)
  <2>1. CASE Goto(h, "marker_read") /\ UNCHANGED result
    <3>1. /\ call'[h].phase = "marker_read" /\ call'[h].op = call[h].op
          /\ At(h, "rollback") /\ result'[h] = "none"
      BY <1>1, <1>11, <2>1 DEF CheckRollback, Goto, Call, At, IsIdle
    <3>2. call[h].op = "check"
      BY <3>1 DEF RecentCheck
    <3> QED BY <3>1, <3>2 DEF At, IsIdle, MarkerPhases
  <2> QED BY <1>3, <1>11, <2>1 DEF CheckRollback, Results
<1>12. CASE MarkerRead(h)
  <2>1. /\ call'[h].phase = "marker_truncate" /\ call'[h].op = call[h].op
        /\ call'[h].token = call[h].token /\ At(h, "marker_read")
        /\ UNCHANGED <<cache_file, config, result>>
    BY <1>1, <1>12 DEF MarkerRead, Call, files
  <2> QED BY <2>1 DEF At, IsIdle, MarkerPhases
<1>13. CASE MarkerTruncate(h)
  <2>1. CASE Goto(h, "marker_write") /\ UNCHANGED result
    <3>1. /\ call'[h].phase = "marker_write" /\ call'[h].op = call[h].op
          /\ call'[h].token = call[h].token /\ At(h, "marker_truncate")
          /\ UNCHANGED <<cache_file, config>>
      BY <1>1, <1>13, <2>1 DEF MarkerTruncate, Goto, Call
    <3> QED BY <2>1, <3>1 DEF At, IsIdle, MarkerPhases
  <2> QED BY <1>5, <1>13, <2>1 DEF MarkerTruncate
<1>14. CASE MarkerWrite(h)
  <2>1. CASE ~MarkerError(h) /\ call[h].op = "activate"
    <3>1. /\ seen_file' = Newer(call[h].token.issued_at, call[h].seen)
          /\ entitlements_cache' =
               [entitlements_cache EXCEPT ![h] = call[h].token.entitlements]
          /\ Return(h, "online") /\ At(h, "marker_write")
          /\ UNCHANGED <<cache_file, config>>
      BY <1>14, <2>1 DEF MarkerWrite
    <3>2. call[h].token.issued_at \in Times /\ call[h].seen \in Times \cup {Unseen}
      BY <3>1 DEF TypeOK, At, MarkerPhases, Token, Call
    <3>3. call[h].token.issued_at <= seen_file'
      BY <3>1, <3>2, NewerIsATime
    <3>4. entitlements_cache'[h] = call[h].token.entitlements /\ call'[h] = Idle
      BY <1>1, <3>1 DEF TypeOK, Return
    <3> QED BY <2>1, <3>1, <3>3, <3>4 DEF At, Idle, IsIdle, MarkerPhases
  <2> QED BY <1>3, <1>5, <1>14, <2>1 DEF MarkerWrite, Results
<1>15. CASE RemoveCache(h)
  BY <1>1, <1>6, <1>15 DEF RemoveCache, Goto, At, IsIdle, Call, MarkerPhases
<1>16. CASE RequestFails(h) \/ RemoveMarker(h) \/ Restart(h)
  BY <1>3, <1>4, <1>16 DEF RequestFails, RemoveMarker, Restart, Results
<1>17. CASE Seal(h)
  <2>1. /\ call'[h].phase = "cache_truncate" /\ call'[h].token = call[h].token
        /\ UNCHANGED <<config, result>> /\ At(h, "seal")
    BY <1>1, <1>17 DEF Seal, Call
  <2> QED BY <2>1 DEF At, IsIdle, MarkerPhases
<1> QED BY <1>7, <1>8, <1>9, <1>10, <1>11, <1>12, <1>13, <1>14, <1>15, <1>16, <1>17
        DEF Acts, LocalStep

\* An activation that reports signed entitlements has left a later check() all
\* it needs: a verifiable token in the cache and a marker that covers it
\* (lib.rs:247-256).
THEOREM OnlineIsDurable == OneHandle => (Safety => []OnlineActivationIsDurable)
<1> SUFFICES ASSUME OneHandle PROVE Safety => []OnlineActivationIsDurable
  OBVIOUS
<1> DEFINE Inv == \A h \in Handles : Durable(h)
<1>1. Init => Inv
  BY DEF Init, Durable, IsIdle, Idle, MarkerPhases
<1>2. TypeOK /\ SoloInv /\ Inv /\ [Next]_vars => Inv'
  <2> SUFFICES ASSUME TypeOK, SoloInv, Inv, [Next]_vars, NEW h \in Handles PROVE Durable(h)'
    OBVIOUS
  <2>1. CASE Acts(h)
    BY <2>1, ActsKeepsDurable DEF SoloInv
  <2>2. CASE ClockMoves \/ MachineChanges \/ UNCHANGED vars
    BY <2>2, NobodyActs DEF Durable, IsIdle, files, memory, history
  <2> QED BY <2>1, <2>2 DEF Next, Acts, OneHandle
<1>3. Inv => OnlineActivationIsDurable
  BY DEF OnlineActivationIsDurable, Durable
<1> QED BY <1>1, <1>2, <1>3, ClientTypeCorrect, SoloInvariant, PTL DEF Safety

\* Whether check() passes depends on no more than this.
LEMMA PassesDependsOn ==
  ASSUME NEW h \in Handles, CheckPasses(h), UNCHANGED <<environment, cache_file, config[h]>>,
         ~TooOld(cache_file.token, seen_file')
  PROVE  CheckPasses(h)'
  BY DEF CheckPasses, CacheVerdict, Opens, BoundHere, Verify, TooOld, environment

\* As long as calls do not overlap, no check() takes a license away, from its own
\* handle or from another, whichever of its steps fails and wherever the process
\* dies in it (lib.rs:288-298, 428-433).
THEOREM ChecksKeepLicense == Safety /\ []OneCallAtATime => ChecksNeverRevoke
<1> DEFINE Claim(h) == CheckPasses(h) /\ ~CheckPasses(h)' =>
             \/ environment' # environment
             \/ config'[h] # config[h]
             \/ \E g \in Handles : call[g].op \in {"activate", "deactivate"}
           Genuine == \A h \in Handles : GenuineCheck(h)
<1>1. TypeOK /\ Genuine /\ OneCallAtATime /\ AloneInv /\ [Next]_vars =>
        [\A h \in Handles : Claim(h)]_vars
  <2> SUFFICES ASSUME TypeOK, Genuine, OneCallAtATime, AloneInv, Next,
                      NEW h \in Handles, CheckPasses(h), UNCHANGED <<environment, config[h]>>,
                      \A g \in Handles : call[g].op \notin {"activate", "deactivate"}
               PROVE  CheckPasses(h)'
    OBVIOUS
  <2>1. CASE UNCHANGED files
    BY <2>1, PassesDependsOn DEF files, CheckPasses
  <2>2. CASE seen_file' = Unseen /\ UNCHANGED cache_file
    BY <2>2, PassesDependsOn DEF TooOld
  <2>3. ASSUME NEW g \in Handles, ~IsIdle(g) PROVE RecentCheck(g) /\ GenuineCheck(g)
    BY <2>3 DEF AloneInv, OneCallAtATime, OthersIdle
  <2>4. ASSUME NEW g \in Handles, MarkerWrite(g) PROVE CheckPasses(h)'
    <3>1. /\ call[g].token = cache_file.token /\ ~TooOld(call[g].token, call[g].seen)
      BY <2>3, <2>4 DEF MarkerWrite, At, IsIdle, RecentCheck, MarkerPhases
    <3>2. call[g].token \in Token /\ call[g].seen \in Times \cup {Unseen}
      BY <2>4 DEF MarkerWrite, At, TypeOK, MarkerPhases, Call
    <3>3. CASE seen_file' = seen_file
      BY <2>1, <2>4, <3>3 DEF MarkerWrite, files
    <3>4. CASE seen_file' = Newer(call[g].token.issued_at, call[g].seen)
      BY <2>4, <3>1, <3>2, <3>4, NotTooOldLater, PassesDependsOn DEF MarkerWrite
    <3> QED BY <2>4, <3>3, <3>4 DEF MarkerWrite
  <2>5. ASSUME NEW g \in Handles PROVE ~CacheTruncate(g) /\ ~CacheWrite(g) /\ ~RemoveCache(g)
    BY <2>3 DEF CacheTruncate, CacheWrite, RemoveCache, GenuineCheck, RecentCheck, At, IsIdle
  <2>6. ASSUME NEW g \in Handles, Acts(g) PROVE CheckPasses(h)'
    <3>1. CASE Starts(g) \/ ServerAnswers(g)
      BY <2>1, <3>1, StartsAndAnswersAvoidMarker DEF files
    <3>2. CASE MarkerTruncate(g) \/ RemoveMarker(g)
      BY <2>1, <2>2, <3>2 DEF MarkerTruncate, RemoveMarker, files
    <3> QED BY <2>1, <2>4, <2>5, <2>6, <3>1, <3>2
            DEF Acts, LocalStep, RequestFails, Seal, CheckRollback, MarkerRead, Restart
  <2>7. CASE ClockMoves \/ MachineChanges
    BY <2>1, <2>7, NobodyActs
  <2> QED BY <2>6, <2>7 DEF Next, Acts
<1> QED BY <1>1, ClientTypeCorrect, ChecksAreGenuine, AloneInvariant, PTL
        DEF Safety, ChecksNeverRevoke

-----------------------------------------------------------------------------
\* Results and calls.

\* A call that has not returned has no result.
Silent(h) == ~IsIdle(h) => result[h] = "none"

\* Each step of the handle keeps it silent until it returns (lib.rs:138-333).
LEMMA ActsKeepsSilent ==
  ASSUME TypeOK, NEW h \in Handles, Acts(h), Silent(h)
  PROVE  Silent(h)'
<1>1. call \in [Handles -> Call]
  BY DEF TypeOK
<1>2. ASSUME call'[h] = Idle PROVE Silent(h)'
  BY <1>2 DEF Silent, IsIdle, Idle
<1>3. CASE Starts(h)
  BY <1>3, StartsResetResult DEF Silent, IsIdle
<1>4. ASSUME UNCHANGED result, ~IsIdle(h) PROVE Silent(h)'
  BY <1>4 DEF Silent
<1>5. CASE ServerAnswers(h)
  BY <1>2, <1>4, <1>5, EndingsAreIdle
     DEF ServerAnswers, TokenKeyAnswered, ActivateAnswered, CaRootAnswered, ValidateAnswered,
         At, IsIdle
<1>6. CASE LocalStep(h)
  BY <1>2, <1>4, <1>6, EndingsAreIdle
     DEF LocalStep, RequestFails, Seal, CacheTruncate, CacheWrite, CheckRollback, MarkerRead,
         MarkerTruncate, MarkerWrite, RemoveCache, RemoveMarker, At, IsIdle
<1>7. CASE Restart(h)
  BY <1>2, <1>7, EndingsAreIdle DEF Restart
<1> QED BY <1>3, <1>5, <1>6, <1>7 DEF Acts

\* In every reachable state of the client only calls that returned have results.
LEMMA ClientIsSilent == Safety => [](\A h \in Handles : Silent(h))
<1> DEFINE Inv == \A h \in Handles : Silent(h)
<1>1. Init => Inv
  BY DEF Init, Silent, IsIdle, Idle
<1>2. TypeOK /\ Inv /\ [Next]_vars => Inv'
  <2> SUFFICES ASSUME TypeOK, Inv, [Next]_vars, NEW g \in Handles PROVE Silent(g)'
    OBVIOUS
  <2>1. ASSUME NEW h \in Handles, Acts(h) PROVE Silent(g)'
    BY <2>1, ActsKeepsSilent, OthersStay DEF Silent, IsIdle
  <2>2. CASE ClockMoves \/ MachineChanges \/ UNCHANGED vars
    BY <2>2, NobodyActs DEF Silent, IsIdle
  <2> QED BY <2>1, <2>2 DEF Next, Acts
<1> QED BY <1>1, <1>2, ClientTypeCorrect, PTL DEF Safety
=============================================================================
