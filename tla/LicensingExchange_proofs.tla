----------------------- MODULE LicensingExchange_proofs -----------------------
(***************************************************************************)
(* Whole exchanges: what an activation can fail for when nothing befalls   *)
(* it, and what it can cost when it fails.  Both need an account of what   *)
(* every phase of a call has in hand.                                      *)
(***************************************************************************)
EXTENDS LicensingSystem_proofs

-----------------------------------------------------------------------------
\* Entries of the two histories.

\* A change of one entry leaves the others.
LEMMA OneFlagChanges ==
  ASSUME NEW f \in [Handles -> BOOLEAN], NEW h \in Handles, NEW b \in BOOLEAN
  PROVE  /\ [f EXCEPT ![h] = b][h] = b
         /\ \A g \in Handles \ {h} : [f EXCEPT ![h] = b][g] = f[g]
  BY Zenon

\* An activation that falls back does so in a step of its own, and not in its
\* first (lib.rs:149-160).
LEMMA FallsBackInOwnStep ==
  ASSUME TypeOK, [Next]_vars, NEW g \in Handles, Silent(g), ~IsIdle(g), result'[g] = "local"
  PROVE  ActivateLocally(g) /\ (ServerAnswers(g) \/ LocalStep(g))
<1>1. call \in [Handles -> Call] /\ result \in [Handles -> Results] /\ result[g] = "none"
  BY DEF TypeOK, Silent
<1>2. PICK h \in Handles : Acts(h)
  BY <1>1, NobodyActs DEF Next, Acts
<1>3. g = h
  BY <1>1, <1>2, OthersStay
<1>4. ~UNCHANGED result /\ ~UNCHANGED result[g]
  BY <1>1
<1>5. ASSUME NEW r, Return(g, r) PROVE r = "local"
  BY <1>1, <1>5 DEF Return
<1>6. CASE Starts(g)
  BY <1>6
     DEF Starts, ActivateEmptyKey, ActivateWithoutServer, Activate, Check, Deactivate,
         SetServerKey, SetExpectedDigest
<1>7. CASE ServerAnswers(g)
  BY <1>4, <1>7
     DEF ServerAnswers, TokenKeyAnswered, ActivateAnswered, CaRootAnswered, ValidateAnswered
<1>8. CASE LocalStep(g)
  BY <1>4, <1>5, <1>8
     DEF LocalStep, RequestFails, Seal, CacheTruncate, CacheWrite, CheckRollback, MarkerRead,
         MarkerTruncate, MarkerWrite, RemoveCache, RemoveMarker, MarkerError
<1>9. CASE Restart(g)
  BY <1>5, <1>9 DEF Restart
<1> QED BY <1>2, <1>3, <1>6, <1>7, <1>8, <1>9 DEF Acts

-----------------------------------------------------------------------------
\* What an undisturbed exchange with one process has in hand.
OneProcess == \A i, j \in Instances : i = j

\* The handle trusts the process it talks to, and asks for the machine it is on.
Current(h) ==
  /\ call[h].machine = machine
  /\ \A i \in Instances : config[h].server_public_key = token_key[i]

FreshLeaf(leaf) ==
  leaf \in Leaf /\ leaf.issued_at = server_now /\ \E i \in Instances : leaf.ca = authority[i]

FreshToken(h, token) ==
  /\ token.key = config[h].server_public_key
  /\ token.machine = machine
  /\ token.issued_at = server_now /\ token.expires_at = server_now + TokenTTL

\* The answer under way is what the process has to say now.
FreshAnswer(h) ==
  IF answer[h].ok
  THEN /\ At(h, "token_key") => \A i \in Instances : answer[h].body = token_key[i]
       /\ At(h, "activate") => FreshLeaf(answer[h].body) /\ license_key[h] \in registered
       /\ At(h, "ca") => answer[h].body = call[h].leaf.ca
       /\ At(h, "validate") => FreshToken(h, answer[h].body)
  ELSE licenses[license_key[h]] = None

Smooth(h) ==
  /\ answer[h] # None => FreshAnswer(h)
  /\ ~At(h, "token_key") => Current(h)
  /\ At(h, "ca") => FreshLeaf(call[h].leaf)
  /\ call[h].phase \in {"ca", "validate"} => license_key[h] \in registered

Undisturbed(h) == call[h].phase \in RequestPhases /\ ~disturbed[h]

ExchangeInv == \A h \in Handles : Undisturbed(h) => Smooth(h)

\* An exchange stays smooth while nothing changes that it depends on.
LEMMA SmoothDependsOn ==
  ASSUME NEW h \in Handles, Smooth(h), UNCHANGED <<machine, server_now, token_key, authority>>,
         call'[h] = call[h], config'[h] = config[h], license_key'[h] = license_key[h],
         answer'[h] = answer[h], registered \subseteq registered',
         licenses[license_key[h]] = None => licenses'[license_key[h]] = None
  PROVE  Smooth(h)'
  BY DEF Smooth, FreshAnswer, FreshLeaf, FreshToken, Current, At

\* The same for the exchanges of others while h's is taken further.
LEMMA OthersStaySmooth ==
  ASSUME SystemInv, SystemTypeOK, ExchangeInv, NEW h \in Handles, NEW g \in Handles \ {h},
         Receive(h) \/ RequestLost(h) \/ ClientAlone(h) \/ ClientRestart(h)
  PROVE  Undisturbed(g)' => Smooth(g)'
<1>1. Acts(h) /\ TypeOK
  BY ReceiveIsAnswer DEF RequestLost, ClientAlone, ClientRestart, Acts, LocalStep, SystemInv
<1>2. /\ call'[g] = call[g] /\ config'[g] = config[g] /\ license_key'[g] = license_key[g]
  BY <1>1, OthersStay
<1>3. answer'[g] = answer[g]
  BY AnswerTaken DEF SystemInv, NetworkOK
<1>4. UNCHANGED servers /\ machine' = machine
  <2>1. UNCHANGED servers
    BY DEF Receive, RequestLost, ClientAlone, ClientRestart
  <2>2. UNCHANGED environment
    BY <1>1 DEF Acts, Starts, ActivateEmptyKey, ActivateWithoutServer, Activate, Check, Deactivate,
         SetServerKey, SetExpectedDigest, ServerAnswers, TokenKeyAnswered, ActivateAnswered,
         CaRootAnswered, ValidateAnswered, LocalStep, RequestFails, Seal, CacheTruncate,
         CacheWrite, CheckRollback, MarkerRead, MarkerTruncate, MarkerWrite, RemoveCache,
         RemoveMarker, Restart
  <2> QED BY <2>1, <2>2 DEF environment
<1>5. disturbed' \in {disturbed, [disturbed EXCEPT ![h] = TRUE], [disturbed EXCEPT ![h] = FALSE]}
  BY DEF Receive, RequestLost, ClientAlone, ClientRestart
<1>6. disturbed'[g] = disturbed[g]
  BY <1>5, OneFlagChanges DEF SystemTypeOK
<1> QED BY <1>2, <1>3, <1>4, <1>6, SmoothDependsOn DEF ExchangeInv, Undisturbed, servers

\* Only the start of an activation brings a call to its first request, and
\* nothing but an answer takes it from one to the next (lib.rs:165-240).
LEMMA AloneBegins ==
  ASSUME SystemInv, NEW h \in Handles, ClientAlone(h), call'[h].phase \in RequestPhases
  PROVE  At(h, "token_key")' /\ answer'[h] = None
<1>1. TypeOK /\ call \in [Handles -> Call] /\ Acts(h)
  BY DEF SystemInv, TypeOK, Acts, ClientAlone
<1>2. answer'[h] = None
  BY AnswerTaken DEF SystemInv, NetworkOK
<1>3. call[h].phase \notin RequestPhases
  BY DEF ClientAlone
<1>4. CASE Starts(h)
  <2>1. ASSUME NEW op, NEW p \in {"remove_cache"}, Begin(h, op, p) PROVE FALSE
    BY <1>1, <2>1 DEF Begin, Idle, RequestPhases
  <2>2. ASSUME NEW r, Return(h, r) PROVE FALSE
    BY <1>1, <2>2 DEF Return, Idle, RequestPhases
  <2>3. ASSUME Check(h), ~Return(h, "error"), ~Return(h, CacheVerdict(h)) PROVE FALSE
    BY <1>1, <2>3 DEF Check, Idle, RequestPhases
  <2>4. CASE Begin(h, "activate", "token_key")
    BY <1>1, <1>2, <2>4 DEF Begin, Idle, At
  <2>5. CASE UNCHANGED call
    BY <1>3, <2>5
  <2> QED BY <1>2, <1>4, <2>1, <2>2, <2>3, <2>4, <2>5
          DEF Starts, ActivateEmptyKey, ActivateWithoutServer, Activate, Check, Deactivate,
              SetServerKey, SetExpectedDigest
<1>5. CASE LocalStep(h)
  <2>1. call'[h] # Idle
    BY DEF Idle, RequestPhases
  <2> QED BY <1>1, <1>3, <1>5, <2>1, EndingsAreIdle
          DEF LocalStep, RequestFails, Seal, CacheTruncate, CacheWrite, CheckRollback, MarkerRead,
              MarkerTruncate, MarkerWrite, RemoveCache, RemoveMarker, Goto, Call, RequestPhases
<1> QED BY <1>2, <1>4, <1>5 DEF ClientAlone

\* A handle that gets a fresh answer asks the next thing, of the same process,
\* with what it was answered (lib.rs:174-240).
LEMMA ReceivedIsSmooth ==
  ASSUME OneProcess, SystemInv, SystemTypeOK, NEW h \in Handles, Smooth(h), Receive(h)
  PROVE  Undisturbed(h)' => Smooth(h)'
<1> SUFFICES ASSUME call'[h].phase \in RequestPhases PROVE Smooth(h)'
  BY DEF Undisturbed
<1>1. /\ call \in [Handles -> Call] /\ call[h] \in Call /\ config \in [Handles -> ClientConfig]
      /\ TypeOK
  BY DEF SystemInv, TypeOK
<1>2. answer'[h] = None
  BY AnswerTaken DEF SystemInv, NetworkOK
<1>3. ~ActivateLocally(h)
  BY EndingsAreIdle, <1>1 DEF Idle, RequestPhases
<1>4. answer[h].ok /\ FreshAnswer(h) /\ UNCHANGED <<server_now, token_key, authority, registered>>
  BY <1>3 DEF Receive, RequestFails, Smooth, servers
<1>5. CASE TokenKeyAnswered(h, answer[h].body)
  <2>1. /\ call'[h].phase = "activate" /\ call'[h].machine = machine /\ machine' = machine
        /\ config'[h].server_public_key = answer[h].body
    BY <1>1, <1>5 DEF TokenKeyAnswered, Call, ClientConfig, environment
  <2>2. \A i \in Instances : answer[h].body = token_key[i]
    BY <1>4, <1>5 DEF FreshAnswer, TokenKeyAnswered
  <2> QED BY <1>2, <1>4, <2>1, <2>2 DEF Smooth, Current, At
<1>6. CASE ActivateAnswered(h, answer[h].body)
  <2> DEFINE leaf == answer[h].body
  <2>1. FreshLeaf(leaf) /\ license_key[h] \in registered /\ Current(h)
    BY <1>4, <1>6 DEF FreshAnswer, ActivateAnswered, Smooth, At
  <2>2. leaf # None
    BY <2>1, NoneIsNoRecord DEF FreshLeaf
  <2>3. /\ call'[h].phase = "ca" /\ call'[h].leaf = leaf /\ call'[h].machine = call[h].machine
        /\ UNCHANGED <<machine, config, license_key>>
    BY <1>1, <1>6, <2>2 DEF ActivateAnswered, Call, environment, memory
  <2> HIDE DEF leaf
  <2> QED BY <1>2, <1>4, <2>1, <2>3 DEF Smooth, Current, FreshLeaf, At
<1>7. CASE CaRootAnswered(h, answer[h].body)
  <2>1. /\ call'[h].phase = "validate" /\ call'[h].machine = call[h].machine
        /\ UNCHANGED <<machine, config, license_key>>
    BY <1>1, <1>3, <1>7 DEF CaRootAnswered, Call, environment, memory
  <2>2. license_key[h] \in registered /\ Current(h)
    BY <1>7 DEF CaRootAnswered, Smooth, At
  <2> QED BY <1>2, <1>4, <2>1, <2>2 DEF Smooth, Current, At
<1>8. CASE ValidateAnswered(h, answer[h].body)
  <2>1. call'[h].phase = "seal"
    BY <1>1, <1>3, <1>8 DEF ValidateAnswered, Call
  <2> QED BY <2>1 DEF RequestPhases
<1> QED BY <1>3, <1>5, <1>6, <1>7, <1>8 DEF Receive, RequestFails

\* The process refuses only a key without a license, and otherwise says what a
\* later request of the exchange will be held to (server.go:80-216).
LEMMA ServedIsSmooth ==
  ASSUME OneProcess, SystemInv, SystemTypeOK, ExchangeInv, NEW h \in Handles, NEW i \in Instances,
         \/ ServeTokenKey(i, h) \/ ServeActivate(i, h) \/ ServeCaRoot(i, h) \/ ServeValidate(i, h)
         \/ ServeFails(h)
  PROVE  ExchangeInv'
<1>1. /\ UNCHANGED <<call, config, license_key, machine, server_now, token_key, authority, licenses>>
      /\ registered \subseteq registered'
      /\ disturbed' \in {disturbed, [disturbed EXCEPT ![h] = TRUE]}
  BY DEF ServeTokenKey, ServeActivate, ServeCaRoot, ServeValidate, ServeFails, vars, environment,
         memory, servers, Register
<1>2. \A g \in Handles \ {h} : answer'[g] = answer[g] /\ disturbed'[g] = disturbed[g]
  <2>1. \A g \in Handles \ {h} : answer'[g] = answer[g]
    BY DEF ServeTokenKey, ServeActivate, ServeCaRoot, ServeValidate, ServeFails, Reply, SystemInv,
           NetworkOK
  <2>2. \A g \in Handles \ {h} : disturbed'[g] = disturbed[g]
    BY <1>1, OneFlagChanges DEF SystemTypeOK
  <2> QED BY <2>1, <2>2
<1>3. ASSUME NEW g \in Handles \ {h} PROVE Undisturbed(g)' => Smooth(g)'
  BY <1>1, <1>2, SmoothDependsOn DEF ExchangeInv, Undisturbed
<1>4. ASSUME disturbed' = [disturbed EXCEPT ![h] = TRUE] PROVE Undisturbed(h)' => Smooth(h)'
  BY <1>4, OneFlagChanges DEF SystemTypeOK, Undisturbed
<1>5. ASSUME disturbed' = disturbed, FreshAnswer(h)' PROVE Undisturbed(h)' => Smooth(h)'
  <2> SUFFICES ASSUME Undisturbed(h) PROVE Smooth(h)'
    BY <1>1, <1>5 DEF Undisturbed
  <2>1. Smooth(h)
    BY DEF ExchangeInv
  <2> QED BY <1>1, <1>5, <2>1 DEF Smooth, Current, FreshLeaf, At
<1>6. ASSUME disturbed' = disturbed, Undisturbed(h), NEW a, Reply(h, a),
             \/ a = Refused /\ licenses[license_key[h]] = None
             \/ \E body : a = Answered(body) /\
                  /\ At(h, "token_key") => \A j \in Instances : body = token_key[j]
                  /\ At(h, "activate") => FreshLeaf(body) /\ license_key[h] \in registered'
                  /\ At(h, "ca") => body = call[h].leaf.ca
                  /\ At(h, "validate") => FreshToken(h, body)
      PROVE  FreshAnswer(h)'
  <2>1. answer'[h] = a
    BY <1>6 DEF Reply, SystemInv, NetworkOK
  <2>2. CASE a = Refused /\ licenses[license_key[h]] = None
    BY <1>1, <2>1, <2>2 DEF FreshAnswer, Refused
  <2>3. ASSUME NEW body, a = Answered(body),
               At(h, "token_key") => \A j \in Instances : body = token_key[j],
               At(h, "activate") => FreshLeaf(body) /\ license_key[h] \in registered',
               At(h, "ca") => body = call[h].leaf.ca,
               At(h, "validate") => FreshToken(h, body)
        PROVE  FreshAnswer(h)'
    BY <1>1, <2>1, <2>3 DEF FreshAnswer, Answered, FreshLeaf, FreshToken, At
  <2> QED BY <1>6, <2>2, <2>3
<1>7. ASSUME disturbed' = disturbed, Undisturbed(h) PROVE FreshAnswer(h)'
  <2>1. Smooth(h)
    BY <1>7 DEF ExchangeInv
  <2>2. CASE ServeTokenKey(i, h)
    <3>1. At(h, "token_key") /\ Reply(h, Answered(token_key[i]))
      BY <2>2 DEF ServeTokenKey, Asks
    <3>2. \A j \in Instances : token_key[i] = token_key[j]
      BY DEF OneProcess
    <3> QED BY <1>6, <1>7, <3>1, <3>2 DEF At
  <2>3. CASE ServeActivate(i, h)
    <3> DEFINE leaf == [ca |-> authority[i], issued_at |-> server_now]
    <3>1. At(h, "activate")
      BY <2>3 DEF ServeActivate, Asks
    <3>2. CASE licenses[license_key[h]] = None /\ Reply(h, Refused)
      BY <1>6, <1>7, <3>2
    <3>3. CASE Register(license_key[h]) /\ Reply(h, Answered(leaf))
      <4>1. FreshLeaf(leaf)
        BY DEF FreshLeaf, Leaf, SystemTypeOK
      <4>2. license_key[h] \in registered'
        BY <3>3 DEF Register
      <4> HIDE DEF leaf
      <4> QED BY <1>6, <1>7, <3>1, <3>3, <4>1, <4>2 DEF At
    <3>4. ASSUME disturbed' = [disturbed EXCEPT ![h] = TRUE] PROVE FALSE
      BY <1>7, <3>4, OneFlagChanges DEF Undisturbed, SystemTypeOK
    <3> QED BY <2>3, <3>2, <3>3, <3>4 DEF ServeActivate
  <2>4. CASE ServeCaRoot(i, h)
    <3>1. At(h, "ca") /\ Reply(h, Answered(authority[i]))
      BY <2>4 DEF ServeCaRoot, Asks
    <3>2. authority[i] = call[h].leaf.ca
      BY <2>1, <3>1 DEF Smooth, FreshLeaf, OneProcess
    <3> QED BY <1>6, <1>7, <3>1, <3>2 DEF At
  <2>5. CASE ServeValidate(i, h)
    <3> DEFINE token == BuildToken(token_key[i], call[h].machine, server_now,
                                   licenses[license_key[h]])
    <3>1. At(h, "validate")
      BY <2>5 DEF ServeValidate, Asks
    <3>2. license_key[h] \in registered /\ Current(h)
      BY <2>1, <3>1 DEF Smooth, At
    <3>3. CASE licenses[license_key[h]] = None
      BY <1>6, <1>7, <2>5, <3>3 DEF ServeValidate
    <3>4. CASE licenses[license_key[h]] # None
      <4>1. Reply(h, Answered(token))
        BY <2>5, <3>2, <3>4 DEF ServeValidate
      <4>2. FreshToken(h, token)
        BY <3>2 DEF FreshToken, BuildToken, Current
      <4> HIDE DEF token
      <4> QED BY <1>6, <1>7, <3>1, <4>1, <4>2 DEF At
    <3> QED BY <3>3, <3>4
  <2>6. CASE ServeFails(h)
    BY <1>7, <2>6, OneFlagChanges DEF ServeFails, Undisturbed, SystemTypeOK
  <2> QED BY <2>2, <2>3, <2>4, <2>5, <2>6
<1>8. Undisturbed(h)' => Smooth(h)'
  BY <1>1, <1>4, <1>5, <1>7 DEF Undisturbed
<1> QED BY <1>3, <1>8 DEF ExchangeInv

\* Every other step leaves an undisturbed exchange as it is, or disturbs it.
LEMMA ExchangesStaySmooth ==
  ASSUME OneProcess, SystemInv, SystemTypeOK, ExchangeInv, [SystemNext]_system_vars
  PROVE  ExchangeInv'
<1>1. ASSUME disturbed' = [h \in Handles |-> TRUE] PROVE ExchangeInv'
  BY <1>1 DEF ExchangeInv, Undisturbed
<1>2. ASSUME UNCHANGED <<machine, server_now, token_key, authority, call, config, license_key,
                         answer, disturbed>>,
             registered \subseteq registered',
             \A key \in LicenseKeys : licenses[key] = None => licenses'[key] = None
      PROVE  ExchangeInv'
  <2> SUFFICES ASSUME NEW h \in Handles, Undisturbed(h) PROVE Smooth(h)'
    BY <1>2 DEF ExchangeInv, Undisturbed
  <2>1. license_key[h] \in LicenseKeys
    BY DEF Undisturbed, SystemInv, NetworkOK, AsksAboutKey
  <2> QED BY <1>2, <2>1, SmoothDependsOn DEF ExchangeInv
<1>3. ASSUME NEW h \in Handles, NEW i \in Instances,
             ServeTokenKey(i, h) \/ ServeActivate(i, h) \/ ServeCaRoot(i, h) \/ ServeValidate(i, h)
      PROVE  ExchangeInv'
  BY <1>3, ServedIsSmooth
<1>4. ASSUME NEW h \in Handles, ServeFails(h) PROVE ExchangeInv'
  <2>1. disturbed' = [disturbed EXCEPT ![h] = TRUE] /\ answer' = [answer EXCEPT ![h] = Refused]
        /\ UNCHANGED <<machine, server_now, token_key, authority, call, config, license_key,
                       licenses, registered>>
    BY <1>4 DEF ServeFails, Reply, vars, environment, memory, servers
  <2>2. ~Undisturbed(h)'
    BY <2>1, OneFlagChanges DEF SystemTypeOK, Undisturbed
  <2>3. ASSUME NEW g \in Handles \ {h} PROVE Undisturbed(g)' => Smooth(g)'
    <3>1. answer'[g] = answer[g] /\ disturbed'[g] = disturbed[g]
      BY <2>1, OneFlagChanges DEF SystemInv, NetworkOK, SystemTypeOK
    <3> QED BY <2>1, <3>1, SmoothDependsOn DEF ExchangeInv, Undisturbed
  <2> QED BY <2>2, <2>3 DEF ExchangeInv
<1>5. ASSUME NEW key \in LicenseKeys, ServeLate(key) PROVE ExchangeInv'
  BY <1>2, <1>5 DEF ServeLate, Register, vars, environment, memory
<1>6. ASSUME NEW key \in LicenseKeys, NEW grant \in Grants, UpdateLicense(key, grant)
      PROVE  ExchangeInv'
  <2>1. \A other \in LicenseKeys : licenses[other] = None => licenses'[other] = None
    BY <1>6 DEF UpdateLicense, SystemTypeOK
  <2> QED BY <1>2, <1>6, <2>1 DEF UpdateLicense, vars, environment, memory, network
<1>7. CASE \/ \E key \in LicenseKeys, grant \in Grants : CreateLicense(key, grant)
           \/ \E i \in Instances : ServerRestart(i)
           \/ ServerClockMoves \/ ClientClockMoves \/ ClientMachineChanges
  BY <1>1, <1>7
     DEF CreateLicense, ServerRestart, ServerClockMoves, ClientClockMoves, ClientMachineChanges,
         Disturb
<1>8. ASSUME NEW h \in Handles,
             Receive(h) \/ RequestLost(h) \/ ClientAlone(h) \/ ClientRestart(h)
      PROVE  ExchangeInv'
  <2>1. CASE Receive(h)
    <3>1. disturbed' = disturbed
      BY <2>1 DEF Receive
    <3>2. call[h].phase \in RequestPhases
      BY <2>1 DEF Receive, SystemInv, NetworkOK, AnswerOK
    <3>3. Undisturbed(h)' => Smooth(h)'
      BY <2>1, <3>1, <3>2, ReceivedIsSmooth DEF ExchangeInv, Undisturbed
    <3> QED BY <1>8, <3>3, OthersStaySmooth DEF ExchangeInv
  <2>2. CASE RequestLost(h)
    <3>1. ~Undisturbed(h)'
      BY <2>2, OneFlagChanges DEF RequestLost, SystemTypeOK, Undisturbed
    <3> QED BY <1>8, <3>1, OthersStaySmooth DEF ExchangeInv
  <2>3. CASE ClientAlone(h)
    <3>1. Undisturbed(h)' => Smooth(h)'
      BY <2>3, AloneBegins DEF Undisturbed, Smooth, At
    <3> QED BY <1>8, <3>1, OthersStaySmooth DEF ExchangeInv
  <2>4. CASE ClientRestart(h)
    <3>1. call'[h] = Idle
      BY <2>4, EndingsAreIdle DEF ClientRestart, Restart, SystemInv
    <3>2. ~Undisturbed(h)'
      BY <3>1 DEF Idle, Undisturbed, RequestPhases
    <3> QED BY <1>8, <3>2, OthersStaySmooth DEF ExchangeInv
  <2> QED BY <1>8, <2>1, <2>2, <2>3, <2>4
<1>9. CASE UNCHANGED system_vars
  BY <1>2, <1>9 DEF system_vars, vars, environment, memory, servers, network
<1> QED BY <1>3, <1>4, <1>5, <1>6, <1>7, <1>8, <1>9 DEF SystemNext, ServerNext, ClientNext

\* A fresh leaf and a fresh token are accepted when the clocks agree and the
\* authority is in force: no side of any window can be missed (token.rs:78-96,
\* cert.rs:51-53).
LEMMA FreshIsAccepted ==
  ASSUME SystemInv, ClocksAgree, AuthoritiesInForce, NEW h \in Handles
  PROVE  /\ \A leaf : FreshLeaf(leaf) => VerifyChain(leaf, leaf.ca, now)
         /\ \A token : FreshToken(h, token) => Acceptable(h, token)
<1>1. now \in Int /\ server_now \in Int
  BY DEF SystemInv, TypeOK, ServersOK, Times
<1> QED BY <1>1, TokenAssumption
        DEF ClocksAgree, AuthoritiesInForce, FreshLeaf, FreshToken, VerifyChain, Acceptable, Verify, BoundHere

\* The four requests of an activation fit together (lib.rs:175-251;
\* server.go:165-216), for one process and any number of handles, licenses and
\* earlier exchanges: what is asked undisturbed for a key with a license is
\* refused by neither side, unless it is for a date that one of the three
\* certificates or the token does not cover.  Two processes do not fit:
\* doc_stateless_instances.
THEOREM ExchangesFit == OneProcess => (SystemSpec => FailsOnlyIfDisturbed)
<1> SUFFICES ASSUME OneProcess PROVE SystemSpec => FailsOnlyIfDisturbed
  OBVIOUS
<1> DEFINE Quiet == \A h \in Handles : Silent(h)
           Claim(h) == call[h].phase \in RequestPhases /\ result'[h] = "local" /\ ~disturbed'[h] =>
                         licenses[license_key[h]] = None \/ ~ClocksAgree \/ ~AuthoritiesInForce
<1>1. SystemInit => ExchangeInv
  BY DEF SystemInit, Init, Idle, ExchangeInv, Undisturbed, RequestPhases
<1>2. SystemInv /\ SystemTypeOK /\ ExchangeInv /\ [SystemNext]_system_vars => ExchangeInv'
  BY ExchangesStaySmooth
<1>3. SystemInv /\ SystemTypeOK /\ ExchangeInv /\ Quiet /\ [SystemNext]_system_vars =>
        [\A h \in Handles : Claim(h)]_system_vars
  <2> SUFFICES ASSUME SystemInv, SystemTypeOK, ExchangeInv, Quiet, SystemNext, NEW h \in Handles,
                      call[h].phase \in RequestPhases, result'[h] = "local", ~disturbed'[h],
                      licenses[license_key[h]] # None, ClocksAgree, AuthoritiesInForce
               PROVE  FALSE
    OBVIOUS
  <2>1. ActivateLocally(h)
    BY StepsAreClientSteps, FallsBackInOwnStep DEF SystemInv, IsIdle, RequestPhases
  <2>2. call'[h] = Idle /\ result[h] = "none"
    BY <2>1, EndingsAreIdle DEF SystemInv, Silent, IsIdle, RequestPhases
  <2>3. PICK g \in Handles : Receive(g) \/ RequestLost(g) \/ ClientAlone(g) \/ ClientRestart(g)
    <3>1. ~UNCHANGED result
      BY <2>2
    <3> QED BY <3>1
            DEF SystemNext, ServerNext, ClientNext, ServeTokenKey, ServeActivate, ServeCaRoot,
                ServeValidate, ServeFails, ServeLate, CreateLicense, UpdateLicense, ServerRestart,
                ServerClockMoves, ClientClockMoves, ClientMachineChanges, ClockMoves,
                MachineChanges, vars
  <2>4. g = h
    <3>1. Acts(g)
      BY <2>3, ReceiveIsAnswer DEF RequestLost, ClientAlone, ClientRestart, Acts, LocalStep
    <3> QED BY <2>2, <3>1, OthersStay DEF SystemInv
  <2>5. ~RequestLost(h) /\ ~ClientAlone(h) /\ ~ClientRestart(h)
    <3>1. ASSUME RequestLost(h) PROVE FALSE
      BY <3>1, OneFlagChanges DEF RequestLost, SystemTypeOK
    <3>2. ASSUME ClientRestart(h) PROVE FALSE
      BY <3>2 DEF ClientRestart, Restart, Return, SystemInv, TypeOK
    <3> QED BY <3>1, <3>2 DEF ClientAlone
  <2>6. Receive(h) /\ Smooth(h) /\ disturbed' = disturbed
    BY <2>3, <2>4, <2>5 DEF Receive, ExchangeInv, Undisturbed
  <2>7. answer[h].ok /\ FreshAnswer(h)
    BY <2>6 DEF Receive, Smooth, FreshAnswer
  <2>8. CASE CaRootAnswered(h, answer[h].body)
    <3>1. FreshLeaf(call[h].leaf) /\ answer[h].body = call[h].leaf.ca
      BY <2>6, <2>7, <2>8 DEF Smooth, FreshAnswer, CaRootAnswered
    <3>2. VerifyChain(call[h].leaf, answer[h].body, now)
      BY <3>1, FreshIsAccepted
    <3> QED BY <2>2, <2>8, <3>2 DEF CaRootAnswered, Idle
  <2>9. CASE ValidateAnswered(h, answer[h].body)
    <3>1. Acceptable(h, answer[h].body)
      BY <2>7, <2>9, FreshIsAccepted DEF FreshAnswer, ValidateAnswered
    <3> QED BY <2>2, <2>9, <3>1 DEF ValidateAnswered, Idle
  <2>10. CASE TokenKeyAnswered(h, answer[h].body) \/ ActivateAnswered(h, answer[h].body)
    BY <2>2, <2>10 DEF TokenKeyAnswered, ActivateAnswered
  <2> QED BY <2>6, <2>7, <2>8, <2>9, <2>10 DEF Receive
<1>4. SystemSpec => []Quiet
  BY SystemKeepsClient, ClientIsSilent, PTL DEF ClientSafety
<1> QED BY <1>1, <1>2, <1>3, <1>4, SystemIsInvariant, SystemTypeCorrect, PTL
        DEF SystemSpec, FailsOnlyIfDisturbed

-----------------------------------------------------------------------------
\* What an activation under way leaves of a license that check() accepted.

OtherKey(h) == cache_file # None /\ cache_file.token.key # config[h].server_public_key

\* The cache is as good as it was, but for the key; gone, while it is written;
\* or it holds what was just accepted, sealed for this machine.
Kept(h) ==
  /\ config[h].binary_matches
  /\ ~At(h, "rollback")
  /\ At(h, "token_key") => CheckPasses(h)
  /\ call[h].phase \in {"activate", "ca", "validate", "seal", "cache_truncate"} =>
       CheckPasses(h) \/ OtherKey(h)
  /\ call[h].phase \in {"seal", "cache_truncate", "cache_write"} => Acceptable(h, call[h].token)
  /\ call[h].phase \in {"cache_truncate", "cache_write"} => call[h].machine = machine
  /\ At(h, "cache_write") => cache_file = None
  /\ call[h].phase \in MarkerPhases => CacheVerdict(h) = "ok"

HeldInv ==
  \A h \in Handles : held[h] /\ call[h].op = "activate" /\ ~IsIdle(h) => Kept(h)

\* What all that is said of the cache depends on.
LEMMA KeptDependsOn ==
  ASSUME NEW h \in Handles, UNCHANGED <<environment, config[h]>>
  PROVE  /\ UNCHANGED cache_file => CacheVerdict(h)' = CacheVerdict(h) /\ OtherKey(h)' = OtherKey(h)
         /\ UNCHANGED files => CheckPasses(h)' = CheckPasses(h)
         /\ \A token : Acceptable(h, token)' = Acceptable(h, token)
  BY DEF environment, files, CacheVerdict, OtherKey, CheckPasses, Acceptable, Opens, BoundHere,
         TooOld, Verify

\* The answers to an activation (lib.rs:174-248).
LEMMA AnswersKeep ==
  ASSUME TypeOK, NEW h \in Handles, ServerAnswers(h), Kept(h), call'[h].op = "activate"
  PROVE  Kept(h)'
<1>1. /\ call \in [Handles -> Call] /\ call[h] \in Call /\ config \in [Handles -> ClientConfig]
      /\ config[h] \in ClientConfig
  BY DEF TypeOK
<1>2. ~ActivateLocally(h)
  BY EndingsAreIdle DEF Idle
<1>3. UNCHANGED <<environment, files>>
  BY DEF ServerAnswers, TokenKeyAnswered, ActivateAnswered, CaRootAnswered, ValidateAnswered
<1>4. ASSUME NEW key \in SigningKeys, TokenKeyAnswered(h, key) PROVE Kept(h)'
  <2>1. /\ call'[h].phase = "activate" /\ config'[h].server_public_key = key
        /\ config'[h].binary_matches = config[h].binary_matches
    BY <1>1, <1>4 DEF TokenKeyAnswered, Call, ClientConfig
  <2>2. CheckPasses(h) /\ config[h].binary_matches
    BY <1>4 DEF Kept, TokenKeyAnswered
  <2>3. cache_file # None /\ cache_file.token.key = config[h].server_public_key
    BY <2>2, OkIsSigned DEF CheckPasses, CacheVerdict, Opens
  <2>4. CheckPasses(h)' \/ OtherKey(h)'
    <3>1. CASE key = config[h].server_public_key
      BY <1>3, <2>1, <2>2, <3>1
         DEF CheckPasses, CacheVerdict, Opens, BoundHere, TooOld, Verify, environment, files
    <3>2. CASE key # config[h].server_public_key
      BY <1>3, <2>1, <2>3, <3>2 DEF OtherKey, files
    <3> QED BY <3>1, <3>2
  <2> QED BY <2>1, <2>2, <2>4 DEF Kept, At, MarkerPhases
<1>5. ASSUME NEW leaf, ActivateAnswered(h, leaf) PROVE Kept(h)'
  <2>1. call'[h].phase \in {"ca", "validate"} /\ UNCHANGED config /\ At(h, "activate")
    BY <1>1, <1>5 DEF ActivateAnswered, Call
  <2> QED BY <1>3, <2>1, KeptDependsOn DEF Kept, At, MarkerPhases, files
<1>6. ASSUME NEW root, CaRootAnswered(h, root) PROVE Kept(h)'
  <2>1. call'[h].phase = "validate" /\ UNCHANGED config /\ At(h, "ca")
    BY <1>1, <1>2, <1>6 DEF CaRootAnswered, Call
  <2> QED BY <1>3, <2>1, KeptDependsOn DEF Kept, At, MarkerPhases, files
<1>7. ASSUME NEW token, ValidateAnswered(h, token) PROVE Kept(h)'
  <2>1. /\ call'[h].phase = "seal" /\ call'[h].token = token /\ UNCHANGED config
        /\ At(h, "validate") /\ Acceptable(h, token)
    BY <1>1, <1>2, <1>7 DEF ValidateAnswered, Call
  <2> QED BY <1>3, <2>1, KeptDependsOn DEF Kept, At, MarkerPhases, files
<1> QED BY <1>4, <1>5, <1>6, <1>7 DEF ServerAnswers

\* The files of an activation (lib.rs:249-256).
LEMMA LocalStepsKeep ==
  ASSUME TypeOK, NEW h \in Handles, LocalStep(h), Kept(h), call'[h].op = "activate"
  PROVE  Kept(h)'
<1>1. call \in [Handles -> Call] /\ call[h] \in Call /\ call'[h] # Idle
  BY DEF TypeOK, Idle
<1>2. UNCHANGED <<environment, config>>
  BY DEF LocalStep, RequestFails, Seal, CacheTruncate, CacheWrite, CheckRollback, MarkerRead,
         MarkerTruncate, MarkerWrite, RemoveCache, RemoveMarker
<1>3. ~ActivateLocally(h) /\ ~MarkerError(h) /\ \A r : ~Return(h, r)
  BY <1>1, EndingsAreIdle
<1>4. CASE Seal(h)
  <2>1. /\ call'[h].phase = "cache_truncate" /\ call'[h].token = call[h].token
        /\ call'[h].machine = machine /\ UNCHANGED files /\ At(h, "seal")
    BY <1>1, <1>4 DEF Seal, Call
  <2> QED BY <1>2, <2>1, KeptDependsOn DEF Kept, At, MarkerPhases, files, environment
<1>5. CASE CacheTruncate(h)
  <2>1. /\ call'[h].phase = "cache_write" /\ call'[h].token = call[h].token
        /\ call'[h].machine = call[h].machine /\ cache_file' = None /\ At(h, "cache_truncate")
    BY <1>1, <1>3, <1>5 DEF CacheTruncate, Goto, Call
  <2> QED BY <1>2, <2>1, KeptDependsOn DEF Kept, At, MarkerPhases, environment
<1>6. CASE CacheWrite(h)
  <2> DEFINE blob == [token |-> call[h].token, sealed_for |-> call[h].machine]
  <2>1. call'[h].phase = "marker_read" /\ cache_file' = blob /\ At(h, "cache_write")
    BY <1>1, <1>3, <1>6 DEF CacheWrite, Call
  <2>2. blob # None
    BY <2>1, NoneIsNoRecord DEF TypeOK, Sealed, At
  <2>3. Acceptable(h, call[h].token) /\ call[h].machine = machine
    BY <2>1 DEF Kept, At
  <2>4. CacheVerdict(h)' = "ok"
    BY <1>2, <2>1, <2>2, <2>3
       DEF CacheVerdict, Opens, Acceptable, BoundHere, Verify, environment
  <2> QED BY <1>2, <2>1, <2>4 DEF Kept, At, MarkerPhases
<1>7. CASE MarkerRead(h) \/ MarkerTruncate(h) \/ MarkerWrite(h)
  <2>1. /\ call'[h].phase \in MarkerPhases /\ call[h].phase \in MarkerPhases
        /\ UNCHANGED cache_file
    BY <1>1, <1>3, <1>7
       DEF MarkerRead, MarkerTruncate, MarkerWrite, Goto, At, MarkerPhases, Call, files
  <2> QED BY <1>2, <2>1, KeptDependsOn DEF Kept, At, MarkerPhases
<1>8. CASE RemoveCache(h)
  <2>1. call'[h].phase = "remove_marker"
    BY <1>1, <1>8 DEF RemoveCache, Goto, Call
  <2> QED BY <1>2, <2>1 DEF Kept, At, MarkerPhases
<1> QED BY <1>3, <1>4, <1>5, <1>6, <1>7, <1>8
        DEF LocalStep, RequestFails, RemoveMarker, CheckRollback, Kept

\* An activation begins with the license check() accepts (lib.rs:138-147).
LEMMA StartsKeep ==
  ASSUME TypeOK, NEW h \in Handles, Starts(h), CheckPasses(h), call'[h].op = "activate", ~IsIdle(h)'
  PROVE  Kept(h)'
<1>1. call \in [Handles -> Call] /\ IsIdle(h)
  BY DEF TypeOK, Starts, ActivateEmptyKey, ActivateWithoutServer, Activate, Check, Deactivate,
         SetServerKey, SetExpectedDigest
<1>2. ~UNCHANGED call /\ \A r : ~Return(h, r)
  BY <1>1, EndingsAreIdle DEF IsIdle, Idle
<1>3. ASSUME NEW op, NEW p, Begin(h, op, p) PROVE call'[h].op = op /\ call'[h].phase = p
  BY <1>1, <1>3 DEF Begin, Idle
<1>4. CASE \E key \in LicenseKeys : Activate(h, key)
  <2>1. At(h, "token_key")' /\ UNCHANGED <<environment, files, config>>
    BY <1>3, <1>4 DEF Activate, At
  <2>2. CheckPasses(h)' /\ config'[h].binary_matches
    BY <2>1, KeptDependsOn DEF CheckPasses
  <2> QED BY <2>1, <2>2 DEF Kept, At, MarkerPhases
<1>5. CASE Check(h)
  <2>1. call'[h].op = "check"
    BY <1>1, <1>2, <1>5 DEF Check, Idle
  <2> QED BY <2>1
<1>6. CASE Deactivate(h)
  BY <1>3, <1>6 DEF Deactivate
<1> QED BY <1>2, <1>4, <1>5, <1>6
        DEF Starts, ActivateEmptyKey, ActivateWithoutServer, SetServerKey, SetExpectedDigest

\* A call stays what it is until it returns.
LEMMA OpStays ==
  ASSUME TypeOK, NEW h \in Handles, ServerAnswers(h) \/ LocalStep(h)
  PROVE  call'[h] = Idle \/ call'[h].op = call[h].op
<1>1. call \in [Handles -> Call] /\ call[h] \in Call
  BY DEF TypeOK
<1>2. SUFFICES ASSUME call'[h] # Idle PROVE call'[h].op = call[h].op
  OBVIOUS
<1>3. ~ActivateLocally(h) /\ ~MarkerError(h) /\ \A r : ~Return(h, r)
  BY <1>2, EndingsAreIdle
<1>4. CASE ServerAnswers(h)
  <2>1. ASSUME NEW key, TokenKeyAnswered(h, key) PROVE call'[h].op = call[h].op
    BY <1>1, <2>1 DEF TokenKeyAnswered, Call
  <2>2. ASSUME NEW leaf, ActivateAnswered(h, leaf) PROVE call'[h].op = call[h].op
    BY <1>1, <2>2 DEF ActivateAnswered, Call
  <2>3. ASSUME NEW root, CaRootAnswered(h, root) PROVE call'[h].op = call[h].op
    BY <1>1, <1>3, <2>3 DEF CaRootAnswered, Call
  <2>4. ASSUME NEW token, ValidateAnswered(h, token) PROVE call'[h].op = call[h].op
    BY <1>1, <1>3, <2>4 DEF ValidateAnswered, Call
  <2> QED BY <1>4, <2>1, <2>2, <2>3, <2>4 DEF ServerAnswers
<1>5. CASE LocalStep(h)
  BY <1>1, <1>3, <1>5
     DEF LocalStep, RequestFails, Seal, CacheTruncate, CacheWrite, CheckRollback, MarkerRead,
         MarkerTruncate, MarkerWrite, RemoveCache, RemoveMarker, Goto, Call
<1> QED BY <1>4, <1>5

\* While a call stays idle or under way, with the files and the machine as they
\* were, so does what it leaves.
LEMMA UntouchedKeeps ==
  ASSUME NEW h \in Handles, UNCHANGED <<environment, files, config[h], call[h], held[h]>>,
         held[h] /\ call[h].op = "activate" /\ ~IsIdle(h) => Kept(h)
  PROVE  held'[h] /\ call'[h].op = "activate" /\ ~IsIdle(h)' => Kept(h)'
<1> SUFFICES ASSUME Kept(h) PROVE Kept(h)'
  BY DEF IsIdle
<1>1. /\ CacheVerdict(h)' = CacheVerdict(h) /\ OtherKey(h)' = OtherKey(h)
      /\ CheckPasses(h)' = CheckPasses(h) /\ \A token : Acceptable(h, token)' = Acceptable(h, token)
      /\ UNCHANGED <<cache_file, machine>>
  BY KeptDependsOn DEF files, environment
<1> QED BY <1>1 DEF Kept, At

\* Nobody else is held back from losing: a step of h ends what the others hold.
LEMMA AloneHolds ==
  ASSUME SystemTypeOK, NEW h \in Handles, ClientAlone(h)
  PROVE  /\ \A g \in Handles \ {h} : ~held'[g]
         /\ IsIdle(h) => held'[h] = CheckPasses(h)
         /\ ~IsIdle(h) => held'[h] = held[h]
<1>1. held \in [Handles -> BOOLEAN]
  BY DEF SystemTypeOK
<1>2. held' = [g \in Handles |-> IF g = h /\ IsIdle(h) THEN CheckPasses(h) ELSE held[g] /\ g = h]
  BY DEF ClientAlone
<1> QED BY <1>1, <1>2, Zenon

\* No step spoils what an activation leaves of the license it held all along.
LEMMA HeldIsKept ==
  ASSUME SystemInv, SystemTypeOK, HeldInv, [SystemNext]_system_vars
  PROVE  HeldInv'
<1>1. TypeOK /\ held \in [Handles -> BOOLEAN]
  BY DEF SystemInv, SystemTypeOK
<1>2. ASSUME held' = [h \in Handles |-> FALSE] PROVE HeldInv'
  BY <1>2 DEF HeldInv
<1>3. ASSUME UNCHANGED <<vars, held>> PROVE HeldInv'
  <2> SUFFICES ASSUME NEW g \in Handles
               PROVE  held'[g] /\ call'[g].op = "activate" /\ ~IsIdle(g)' => Kept(g)'
    BY DEF HeldInv
  <2> QED BY <1>3, UntouchedKeeps DEF HeldInv, vars
<1>4. CASE ServerNext
  BY <1>3, <1>4
     DEF ServerNext, ServeTokenKey, ServeActivate, ServeCaRoot, ServeValidate, ServeFails, ServeLate,
         CreateLicense, UpdateLicense, ServerRestart, ServerClockMoves
<1>5. CASE \/ ClientClockMoves \/ ClientMachineChanges
           \/ \E h \in Handles : ClientRestart(h)
  BY <1>2, <1>5 DEF ClientClockMoves, ClientMachineChanges, ClientRestart, LetGo
<1>6. ASSUME NEW h \in Handles, Receive(h) \/ RequestLost(h) PROVE HeldInv'
  <2> SUFFICES ASSUME NEW g \in Handles
               PROVE  held'[g] /\ call'[g].op = "activate" /\ ~IsIdle(g)' => Kept(g)'
    BY DEF HeldInv
  <2>1. ServerAnswers(h) \/ RequestFails(h)
    BY <1>6, ReceiveIsAnswer DEF RequestLost
  <2>2. UNCHANGED <<environment, files, held>>
    BY <1>6, <2>1
       DEF Receive, RequestLost, RequestFails, ServerAnswers, TokenKeyAnswered, ActivateAnswered,
           CaRootAnswered, ValidateAnswered
  <2>3. CASE g # h
    <3>1. UNCHANGED <<config[g], call[g]>>
      BY <1>1, <2>1, <2>3, OthersStay DEF Acts, LocalStep
    <3> QED BY <2>2, <3>1, UntouchedKeeps DEF HeldInv
  <2>4. CASE g = h
    <3> SUFFICES ASSUME held[h], call'[h].op = "activate" PROVE Kept(h)'
      BY <2>2, <2>4
    <3>1. call'[h] # Idle /\ ~RequestFails(h)
      BY <1>1, EndingsAreIdle DEF Idle, RequestFails
    <3>2. call[h].op = "activate" /\ ~IsIdle(h)
      BY <1>1, <2>1, <3>1, OpStays
         DEF ServerAnswers, TokenKeyAnswered, ActivateAnswered, CaRootAnswered, ValidateAnswered,
             At, IsIdle
    <3> QED BY <1>1, <2>1, <3>1, <3>2, AnswersKeep DEF HeldInv
  <2> QED BY <2>3, <2>4
<1>7. ASSUME NEW h \in Handles, ClientAlone(h) PROVE HeldInv'
  <2> SUFFICES ASSUME held'[h], call'[h].op = "activate", ~IsIdle(h)' PROVE Kept(h)'
    BY <1>7, AloneHolds DEF HeldInv
  <2>1. call'[h] # Idle
    BY DEF IsIdle, Idle
  <2>2. CASE Starts(h)
    <3>1. IsIdle(h)
      BY <2>2 DEF Starts, ActivateEmptyKey, ActivateWithoutServer, Activate, Check, Deactivate,
                  SetServerKey, SetExpectedDigest
    <3> QED BY <1>1, <1>7, <2>2, <3>1, AloneHolds, StartsKeep
  <2>3. CASE LocalStep(h)
    <3>1. ~IsIdle(h)
      BY <2>3 DEF LocalStep, RequestFails, Seal, CacheTruncate, CacheWrite, CheckRollback, MarkerRead,
                  MarkerTruncate, MarkerWrite, RemoveCache, RemoveMarker, At, IsIdle, RequestPhases
    <3>2. call[h].op = "activate" /\ held[h]
      BY <1>1, <1>7, <2>1, <2>3, <3>1, OpStays, AloneHolds
    <3> QED BY <1>1, <2>3, <3>1, <3>2, LocalStepsKeep DEF HeldInv
  <2> QED BY <1>7, <2>2, <2>3 DEF ClientAlone
<1>8. CASE UNCHANGED system_vars
  BY <1>3, <1>8 DEF system_vars
<1> QED BY <1>4, <1>5, <1>6, <1>7, <1>8 DEF SystemNext, ClientNext

\* What an activation costs that falls back in this step (lib.rs:149-162).
LEMMA FallingBackCosts ==
  ASSUME TypeOK, NEW h \in Handles, ActivateLocally(h), ServerAnswers(h) \/ LocalStep(h), Kept(h)
  PROVE  \/ CheckPasses(h)'
         \/ cache_file' = None
         \/ cache_file'.token.key # config'[h].server_public_key
         \/ TooOld(cache_file'.token, seen_file')
<1>1. call'[h] = Idle
  BY EndingsAreIdle
<1>2. call \in [Handles -> Call] /\ call[h] \in Call /\ result'[h] = "local"
  BY DEF TypeOK, ActivateLocally, Return
<1>3. \A r : Return(h, r) => r = "local"
  BY <1>2 DEF Return, TypeOK
<1>4. /\ UNCHANGED <<environment, files, config>>
      /\ call[h].phase \in RequestPhases \cup {"cache_truncate", "cache_write"} \cup MarkerPhases
  <2>1. CASE ServerAnswers(h)
    <3>1. ASSUME NEW key, TokenKeyAnswered(h, key) PROVE FALSE
      BY <1>1, <1>2, <3>1 DEF TokenKeyAnswered, Call, Idle
    <3>2. ASSUME NEW leaf, ActivateAnswered(h, leaf) PROVE FALSE
      BY <1>1, <1>2, <3>2 DEF ActivateAnswered, Call, Idle
    <3> QED BY <2>1, <3>1, <3>2
            DEF ServerAnswers, CaRootAnswered, ValidateAnswered, At, RequestPhases
  <2>2. CASE Seal(h) \/ MarkerRead(h) \/ RemoveCache(h)
    <3>1. call'[h].phase # "idle"
      <4>1. CASE Seal(h)
        BY <1>2, <4>1 DEF Seal, Call
      <4>2. CASE MarkerRead(h)
        BY <1>2, <4>2 DEF MarkerRead, Call
      <4>3. CASE RemoveCache(h)
        BY <1>2, <4>3 DEF RemoveCache, Goto, Call
      <4> QED BY <2>2, <4>1, <4>2, <4>3
    <3> QED BY <1>1, <3>1 DEF Idle
  <2>3. CASE CheckRollback(h)
    BY <2>3 DEF CheckRollback, Kept
  <2>4. CASE RemoveMarker(h)
    BY <1>3, <2>4 DEF RemoveMarker
  <2>5. CASE RequestFails(h)
    BY <2>5 DEF RequestFails
  <2>6. CASE CacheTruncate(h) \/ CacheWrite(h)
    <3>1. ~Goto(h, "cache_write") /\ call' # [call EXCEPT ![h].phase = "marker_read", ![h].machine = None]
      BY <1>1, <1>2 DEF Goto, Call, Idle
    <3> QED BY <2>6, <3>1 DEF CacheTruncate, CacheWrite, At, files
  <2>7. CASE MarkerTruncate(h)
    <3>1. ~Goto(h, "marker_write")
      BY <1>1, <1>2 DEF Goto, Call, Idle
    <3> QED BY <2>7, <3>1 DEF MarkerTruncate, At, files, MarkerPhases
  <2>8. CASE MarkerWrite(h)
    <3>1. ~Return(h, IF call[h].op = "activate" THEN "online" ELSE "valid")
      BY <1>3
    <3> QED BY <2>8, <3>1 DEF MarkerWrite, At, files, MarkerPhases
  <2> QED BY <2>1, <2>2, <2>3, <2>4, <2>5, <2>6, <2>7, <2>8 DEF LocalStep
<1>5. /\ CheckPasses(h) => CheckPasses(h)'
      /\ OtherKey(h) => cache_file'.token.key # config'[h].server_public_key
      /\ cache_file = None => cache_file' = None
      /\ CacheVerdict(h) = "ok" => CheckPasses(h)' \/ TooOld(cache_file'.token, seen_file')
  <2>1. CacheVerdict(h)' = CacheVerdict(h) /\ CheckPasses(h)' = CheckPasses(h)
    BY <1>4, KeptDependsOn DEF files
  <2>2. OtherKey(h) => cache_file'.token.key # config'[h].server_public_key
    BY <1>4 DEF OtherKey, files
  <2>3. config'[h].binary_matches
    BY <1>4 DEF Kept
  <2> QED BY <1>4, <2>1, <2>2, <2>3 DEF CheckPasses, TooOld, files
<1> QED BY <1>4, <1>5 DEF Kept, At, RequestPhases

\* An activation that falls back costs the user no more than this (lib.rs:149-162,
\* 187, 253-254), with any number of handles on the files and any number of
\* processes behind the URL, whichever of its requests or writes failed.
THEOREM FallingBackLosesOnlySo == SystemSpec => ReactivationLosesOnlyBy
<1> DEFINE Genuine == \A h \in Handles : GenuineCheck(h)
           Quiet == \A h \in Handles : Silent(h)
           Claim(h) == ~IsIdle(h) /\ result'[h] = "local" /\ held[h] =>
                         \/ CheckPasses(h)'
                         \/ cache_file' = None
                         \/ cache_file'.token.key # config'[h].server_public_key
                         \/ TooOld(cache_file'.token, seen_file')
<1>1. SystemInit => HeldInv
  BY DEF SystemInit, HeldInv
<1>2. SystemInv /\ SystemTypeOK /\ HeldInv /\ [SystemNext]_system_vars => HeldInv'
  BY HeldIsKept
<1>3. SystemInv /\ HeldInv /\ Genuine /\ Quiet /\ [SystemNext]_system_vars =>
        [\A h \in Handles : Claim(h)]_system_vars
  <2> SUFFICES ASSUME SystemInv, HeldInv, Genuine, Quiet, [SystemNext]_system_vars,
                      NEW h \in Handles, ~IsIdle(h), result'[h] = "local", held[h]
               PROVE  Claim(h)
    OBVIOUS
  <2>1. TypeOK
    BY DEF SystemInv
  <2>2. ActivateLocally(h) /\ (ServerAnswers(h) \/ LocalStep(h))
    BY <2>1, StepsAreClientSteps, FallsBackInOwnStep
  <2>3. call[h].op = "activate"
    <3>1. CASE call[h].phase \in RequestPhases \cup {"seal", "cache_truncate", "cache_write"}
      BY <3>1 DEF GenuineCheck
    <3>2. CASE call[h].phase \notin RequestPhases \cup {"seal", "cache_truncate", "cache_write"}
      <4>1. \A r : Return(h, r) => r = "local"
        BY <2>1 DEF Return, TypeOK
      <4>2. call'[h] = Idle /\ call \in [Handles -> Call] /\ call[h] \in Call
        BY <2>1, <2>2, EndingsAreIdle DEF TypeOK
      <4>3. ASSUME MarkerError(h) PROVE call[h].op = "activate"
        BY <4>1, <4>3 DEF MarkerError
      <4>4. ASSUME NEW p \in Phases \ {"idle"}, Goto(h, p) PROVE FALSE
        BY <4>2, <4>4 DEF Goto, Call, Idle
      <4>5. ~ServerAnswers(h) /\ ~RequestFails(h) /\ ~Seal(h) /\ ~CacheTruncate(h) /\ ~CacheWrite(h)
        BY <3>2 DEF ServerAnswers, TokenKeyAnswered, ActivateAnswered, CaRootAnswered,
                    ValidateAnswered, RequestFails, Seal, CacheTruncate, CacheWrite, At,
                    RequestPhases
      <4>6. ~MarkerRead(h)
        BY <4>2 DEF MarkerRead, Call, Idle
      <4>7. ~CheckRollback(h) /\ ~RemoveCache(h) /\ ~RemoveMarker(h)
        <5>1. ~Return(h, "invalid") /\ ~Return(h, "deactivated")
          BY <4>1
        <5>2. ~Goto(h, "marker_read") /\ ~Goto(h, "remove_marker")
          BY <4>4 DEF Phases, MarkerPhases
        <5> QED BY <5>1, <5>2 DEF CheckRollback, RemoveCache, RemoveMarker
      <4>8. CASE MarkerTruncate(h)
        BY <4>3, <4>4, <4>8 DEF MarkerTruncate, Phases, MarkerPhases
      <4>9. CASE MarkerWrite(h)
        <5>1. ~Return(h, IF call[h].op = "activate" THEN "online" ELSE "valid")
          BY <4>1
        <5> QED BY <4>3, <4>9, <5>1 DEF MarkerWrite
      <4> QED BY <2>2, <4>5, <4>6, <4>7, <4>8, <4>9 DEF LocalStep
    <3> QED BY <3>1, <3>2
  <2> QED BY <2>1, <2>2, <2>3, FallingBackCosts DEF HeldInv
<1>4. SystemSpec => []Genuine /\ []Quiet
  BY SystemKeepsClient, ClientIsSilent, ChecksAreGenuine, PTL DEF ClientSafety
<1> QED BY <1>1, <1>2, <1>3, <1>4, SystemIsInvariant, SystemTypeCorrect, PTL
        DEF SystemSpec, ReactivationLosesOnlyBy
=============================================================================
