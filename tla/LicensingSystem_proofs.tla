------------------------ MODULE LicensingSystem_proofs ------------------------
(***************************************************************************)
(* The server keeps the client within LicensifyClient, for every number of *)
(* processes, handles, licenses and keys, with and without a Postgres.     *)
(***************************************************************************)
EXTENDS LicensingSystem, LicensifyClient_proofs

\* What the processes of the server are made of.
ServersOK ==
  /\ server_now \in Times
  /\ token_key \in [Instances -> SigningKeys]
  /\ authority \in [Instances -> Authorities]
  /\ licenses \in [LicenseKeys -> Grants \cup {None}]

SignedFor(h, token) ==
  \E key \in SigningKeys, at \in Times, grant \in Grants :
    token = BuildToken(key, call[h].machine, at, grant)

\* What is on its way to h answers what h asks now.
AnswerOK(h) ==
  /\ call[h].phase \notin RequestPhases => answer[h] = None
  /\ answer[h] # None /\ answer[h].ok =>
       /\ At(h, "token_key") => answer[h].body \in SigningKeys
       /\ At(h, "activate") => answer[h].body \in Leaf
       /\ At(h, "ca") => answer[h].body \in Authorities
       /\ At(h, "validate") => SignedFor(h, answer[h].body)

\* A call that asks the server anything is about a license key.
AsksAboutKey(h) == call[h].phase \in RequestPhases => license_key[h] \in LicenseKeys

NetworkOK ==
  /\ answer = [h \in Handles |-> answer[h]]
  /\ \A h \in Handles : AnswerOK(h) /\ AsksAboutKey(h)

SystemInv == TypeOK /\ ServersOK /\ NetworkOK

-----------------------------------------------------------------------------
\* A process is started with a token key and an authority of its own.
LEMMA SystemInitInv == SystemInit => SystemInv
<1> SUFFICES ASSUME SystemInit PROVE SystemInv
  OBVIOUS
<1>1. TypeOK
  BY InitIsTyped DEF SystemInit
<1>2. ServersOK
  <2>1. token_key \in [Instances -> SigningKeys]
    BY SystemAssumption DEF SystemInit
  <2> QED BY <2>1 DEF SystemInit, ServersOK
<1>3. NetworkOK
  BY DEF SystemInit, NetworkOK, AnswerOK, AsksAboutKey, Init, Idle, RequestPhases
<1> QED BY <1>1, <1>2, <1>3 DEF SystemInv

\* An answer of this server is one the client's module provides for
\* (lib.rs:174-245; server.go:80-216).
LEMMA ReceiveIsAnswer ==
  ASSUME SystemInv, NEW h \in Handles, Receive(h)
  PROVE  ServerAnswers(h) \/ RequestFails(h)
<1>1. AnswerOK(h) /\ answer[h] # None
  BY DEF SystemInv, NetworkOK, Receive
<1>2. CASE TokenKeyAnswered(h, answer[h].body) /\ answer[h].ok
  BY <1>1, <1>2 DEF AnswerOK, ServerAnswers, TokenKeyAnswered
<1>3. CASE ActivateAnswered(h, answer[h].body) /\ answer[h].ok
  BY <1>1, <1>3 DEF AnswerOK, ServerAnswers, ActivateAnswered
<1>4. CASE CaRootAnswered(h, answer[h].body) /\ answer[h].ok
  BY <1>1, <1>4 DEF AnswerOK, ServerAnswers, CaRootAnswered
<1>5. CASE ValidateAnswered(h, answer[h].body) /\ answer[h].ok
  <2>1. At(h, "validate") /\ SignedFor(h, answer[h].body)
    BY <1>1, <1>5 DEF AnswerOK, ValidateAnswered
  <2>2. PICK key \in SigningKeys, at \in Times, grant \in Grants :
          answer[h].body = BuildToken(key, call[h].machine, at, grant)
    BY <2>1 DEF SignedFor
  <2> QED BY <1>5, <2>1, <2>2 DEF ServerAnswers
<1> QED BY <1>2, <1>3, <1>4, <1>5 DEF Receive

\* Every step of the whole is a step of the client or none.
LEMMA StepsAreClientSteps ==
  ASSUME SystemInv, [SystemNext]_system_vars
  PROVE  [Next]_vars
<1>1. CASE ServerNext
  BY <1>1
     DEF ServerNext, ServeTokenKey, ServeActivate, ServeCaRoot, ServeValidate, ServeFails, ServeLate,
         CreateLicense, UpdateLicense, ServerRestart, ServerClockMoves
<1>2. CASE \E h \in Handles : Receive(h)
  BY <1>2, ReceiveIsAnswer DEF Next, LocalStep
<1>3. CASE \E h \in Handles : RequestLost(h) \/ ClientAlone(h) \/ ClientRestart(h)
  BY <1>3 DEF RequestLost, ClientAlone, ClientRestart, Next, LocalStep
<1>4. CASE ClientClockMoves \/ ClientMachineChanges
  BY <1>4 DEF ClientClockMoves, ClientMachineChanges, Next
<1>5. CASE UNCHANGED system_vars
  BY <1>5 DEF system_vars
<1> QED BY <1>1, <1>2, <1>3, <1>4, <1>5 DEF SystemNext, ClientNext

-----------------------------------------------------------------------------
\* Only processes change what processes are made of.
LEMMA ServersStayOK ==
  ASSUME ServersOK, [SystemNext]_system_vars
  PROVE  ServersOK'
<1>1. CASE \E i \in Instances : ServerRestart(i)
  <2> PICK i \in Instances : ServerRestart(i)
    BY <1>1
  <2>1. FreshKeys \subseteq SigningKeys /\ FreshAuthorities \subseteq Authorities
    BY SystemAssumption DEF FreshKeys, FreshAuthorities
  <2>2. token_key' \in [Instances -> SigningKeys] /\ authority' \in [Instances -> Authorities]
    BY <2>1 DEF ServerRestart, ServersOK
  <2>3. licenses' \in [LicenseKeys -> Grants \cup {None}] /\ server_now' = server_now
    BY DEF ServerRestart, ServersOK
  <2> QED BY <2>2, <2>3 DEF ServersOK
<1>2. CASE \E key \in LicenseKeys, grant \in Grants :
             CreateLicense(key, grant) \/ UpdateLicense(key, grant)
  BY <1>2 DEF CreateLicense, UpdateLicense, ServersOK
<1>3. CASE ServerClockMoves
  BY <1>3 DEF ServerClockMoves, ServersOK
<1>4. CASE UNCHANGED <<server_now, token_key, authority, licenses>>
  BY <1>4 DEF ServersOK
<1>5. ASSUME NEW h \in Handles, NEW i \in Instances,
             ServeTokenKey(i, h) \/ ServeActivate(i, h) \/ ServeCaRoot(i, h)
               \/ ServeValidate(i, h) \/ ServeFails(h)
      PROVE  UNCHANGED <<server_now, token_key, authority, licenses>>
  BY <1>5
     DEF ServeTokenKey, ServeActivate, ServeCaRoot, ServeValidate, ServeFails, servers
<1>6. ASSUME NEW h \in Handles, ServeFails(h)
      PROVE  UNCHANGED <<server_now, token_key, authority, licenses>>
  BY <1>6 DEF ServeFails, servers
<1>7. ASSUME NEW key \in LicenseKeys, ServeLate(key)
      PROVE  UNCHANGED <<server_now, token_key, authority, licenses>>
  BY <1>7 DEF ServeLate
<1>8. CASE ClientNext
  BY <1>8
     DEF ClientNext, Receive, RequestLost, ClientAlone, ClientRestart, ClientClockMoves,
         ClientMachineChanges, servers, ServersOK
<1>9. CASE UNCHANGED system_vars
  BY <1>9 DEF system_vars, servers, ServersOK
<1> QED BY <1>1, <1>2, <1>3, <1>4, <1>5, <1>6, <1>7, <1>8, <1>9 DEF SystemNext, ServerNext

-----------------------------------------------------------------------------
\* No step gives a call that asks the server something another license key
\* (lib.rs:138-148, 165-240).
LEMMA KeyStays ==
  ASSUME TypeOK, NEW h \in Handles, Acts(h), NEW g \in Handles, AsksAboutKey(g)
  PROVE  AsksAboutKey(g)'
<1> USE DEF AsksAboutKey
<1>1. license_key \in [Handles -> LicenseKeys \cup {None}] /\ call \in [Handles -> Call]
  BY DEF TypeOK
<1>2. CASE ServerAnswers(h) \/ LocalStep(h)
  <2>1. UNCHANGED license_key /\ (call'[g].phase \in RequestPhases => call[g].phase \in RequestPhases)
    <3>1. CASE ServerAnswers(h)
      BY <1>1, <3>1
         DEF ServerAnswers, TokenKeyAnswered, ActivateAnswered, CaRootAnswered, ValidateAnswered,
             memory, ActivateLocally, Return, Idle, At, RequestPhases, Call
    <3>2. CASE LocalStep(h)
      BY <1>1, <3>2
         DEF LocalStep, RequestFails, Seal, CacheTruncate, CacheWrite, CheckRollback, MarkerRead,
             MarkerTruncate, MarkerWrite, MarkerError, RemoveCache, RemoveMarker, memory,
             ActivateLocally, Return, Goto, Idle, At, RequestPhases, Call
    <3> QED BY <1>2, <3>1, <3>2
  <2> QED BY <2>1
<1>3. CASE Starts(h)
  <2>1. ASSUME NEW key \in LicenseKeys, ActivateWithoutServer(h, key) \/ Activate(h, key)
        PROVE  AsksAboutKey(g)'
    BY <1>1, <2>1
       DEF ActivateWithoutServer, Activate, Return, Begin, Idle, RequestPhases
  <2>2. CASE ActivateEmptyKey(h) \/ Check(h)
    <3> DEFINE rollback == [Idle EXCEPT !.op = "check", !.phase = "rollback",
                              !.machine = machine, !.token = cache_file.token]
    <3>0. Idle.phase = "idle" /\ rollback.phase = "rollback"
      BY DEF Idle
    <3>1. \E c : call' = [call EXCEPT ![h] = c] /\ c.phase \in {"idle", "rollback"}
      <4> HIDE DEF rollback
      <4>1. CASE call' = [call EXCEPT ![h] = Idle]
        BY <3>0, <4>1
      <4>2. CASE call' = [call EXCEPT ![h] = rollback]
        BY <3>0, <4>2
      <4> QED BY <2>2, <4>1, <4>2 DEF ActivateEmptyKey, Check, Return, rollback
    <3>2. UNCHANGED license_key
      BY <2>2 DEF ActivateEmptyKey, Check, memory
    <3> QED BY <1>1, <3>1, <3>2 DEF RequestPhases
  <2>3. CASE Deactivate(h)
    BY <1>1, <2>3 DEF Deactivate, Begin, Idle, RequestPhases
  <2>4. ASSUME NEW key \in SigningKeys, SetServerKey(h, key) PROVE AsksAboutKey(g)'
    BY <2>4 DEF SetServerKey, memory
  <2>5. ASSUME NEW m \in BOOLEAN, SetExpectedDigest(h, m) PROVE AsksAboutKey(g)'
    BY <2>5 DEF SetExpectedDigest, memory
  <2> QED BY <1>3, <2>1, <2>2, <2>3, <2>4, <2>5 DEF Starts
<1>4. CASE Restart(h)
  BY <1>1, <1>4 DEF Restart, NewClient, Return, Idle, RequestPhases
<1> QED BY <1>2, <1>3, <1>4 DEF Acts

\* A process answers what it was asked, for the machine that asks, and with
\* entitlements the license of that key has (server.go:80-216).
LEMMA RepliesAreOK ==
  ASSUME SystemInv, NEW h \in Handles, NEW i \in Instances,
         \/ ServeTokenKey(i, h) \/ ServeActivate(i, h) \/ ServeCaRoot(i, h)
         \/ ServeValidate(i, h) \/ ServeFails(h)
  PROVE  NetworkOK'
<1>1. UNCHANGED vars
  BY DEF ServeTokenKey, ServeActivate, ServeCaRoot, ServeValidate, ServeFails
<1>2. UNCHANGED <<call, license_key>>
  BY <1>1 DEF vars, memory
<1>3. token_key[i] \in SigningKeys /\ authority[i] \in Authorities /\ server_now \in Times
  BY DEF SystemInv, ServersOK
<1>4. ASSUME NEW a, Reply(h, a), AnswerOK(h)' PROVE NetworkOK'
  BY <1>2, <1>4 DEF SystemInv, NetworkOK, Reply, AnswerOK, AsksAboutKey, At, SignedFor
<1>5. ASSUME Reply(h, Refused), call[h].phase \in RequestPhases PROVE AnswerOK(h)'
  BY <1>2, <1>5 DEF SystemInv, NetworkOK, Reply, AnswerOK, Refused
<1>6. CASE ServeTokenKey(i, h)
  <2>1. AnswerOK(h)'
    BY <1>2, <1>3, <1>6
       DEF SystemInv, NetworkOK, ServeTokenKey, Asks, At, Reply, Answered, AnswerOK, RequestPhases
  <2> QED BY <1>4, <1>6, <2>1 DEF ServeTokenKey
<1>7. CASE ServeActivate(i, h)
  <2> DEFINE leaf == [ca |-> authority[i], issued_at |-> server_now]
  <2>1. leaf \in Leaf
    BY <1>3 DEF Leaf
  <2>2. CASE Reply(h, Answered(leaf))
    <3>1. AnswerOK(h)'
      BY <1>2, <1>7, <2>1, <2>2
         DEF SystemInv, NetworkOK, ServeActivate, Asks, At, Reply, Answered, AnswerOK, RequestPhases
    <3> QED BY <1>4, <2>2, <3>1
  <2>3. CASE Reply(h, Refused)
    BY <1>4, <1>5, <1>7, <2>3 DEF ServeActivate, Asks, At, RequestPhases
  <2> QED BY <1>7, <2>2, <2>3 DEF ServeActivate
<1>8. CASE ServeCaRoot(i, h)
  <2>1. AnswerOK(h)'
    BY <1>2, <1>3, <1>8
       DEF SystemInv, NetworkOK, ServeCaRoot, Asks, At, Reply, Answered, AnswerOK, RequestPhases
  <2> QED BY <1>4, <1>8, <2>1 DEF ServeCaRoot
<1>9. CASE ServeValidate(i, h)
  <2> DEFINE grant == licenses[license_key[h]]
             token == BuildToken(token_key[i], call[h].machine, server_now, grant)
  <2>1. At(h, "validate") /\ license_key[h] \in LicenseKeys
    BY <1>9 DEF ServeValidate, Asks, At, RequestPhases, SystemInv, NetworkOK, AsksAboutKey
  <2>2. CASE Reply(h, Answered(token)) /\ grant # None
    <3>1. grant \in Grants
      BY <2>1, <2>2 DEF SystemInv, ServersOK
    <3>2. \E key \in SigningKeys, at \in Times, g \in Grants :
            token = BuildToken(key, call'[h].machine, at, g)
      BY <1>2, <1>3, <3>1
    <3>3. answer'[h] = Answered(token)
      BY <2>2 DEF SystemInv, NetworkOK, Reply
    <3>4. AnswerOK(h)'
      BY <1>2, <2>1, <3>2, <3>3 DEF At, Answered, AnswerOK, RequestPhases, SignedFor
    <3> QED BY <1>4, <2>2, <3>4
  <2>3. CASE Reply(h, Refused)
    BY <1>4, <1>5, <2>1, <2>3 DEF At, RequestPhases
  <2> QED BY <1>9, <2>2, <2>3 DEF ServeValidate
<1>10. CASE ServeFails(h)
  BY <1>4, <1>5, <1>10 DEF ServeFails
<1> QED BY <1>6, <1>7, <1>8, <1>9, <1>10

\* A step of a client leaves no answer to it under way.
LEMMA AnswerTaken ==
  ASSUME SystemInv, NEW h \in Handles,
         Receive(h) \/ RequestLost(h) \/ ClientAlone(h) \/ ClientRestart(h)
  PROVE  answer' = [answer EXCEPT ![h] = None]
<1>1. CASE ClientAlone(h)
  BY <1>1 DEF ClientAlone, network, SystemInv, NetworkOK, AnswerOK
<1> QED BY <1>1 DEF Receive, RequestLost, ClientRestart, Reply

\* The answer to a call ends with the request, and no other is touched.
LEMMA ClientKeepsNetwork ==
  ASSUME SystemInv, NEW h \in Handles,
         Receive(h) \/ RequestLost(h) \/ ClientAlone(h) \/ ClientRestart(h)
  PROVE  NetworkOK'
<1>1. Acts(h)
  BY ReceiveIsAnswer DEF RequestLost, ClientAlone, ClientRestart, Acts, LocalStep
<1>2. TypeOK /\ \A g \in Handles : AsksAboutKey(g)
  BY DEF SystemInv, NetworkOK
<1>3. \A g \in Handles : AsksAboutKey(g)'
  BY <1>1, <1>2, KeyStays
<1>4. answer' = [answer EXCEPT ![h] = None]
  BY AnswerTaken
<1>5. \A g \in Handles : AnswerOK(g)'
  <2>1. AnswerOK(h)'
    BY <1>4 DEF SystemInv, NetworkOK, AnswerOK
  <2>2. ASSUME NEW g \in Handles \ {h} PROVE AnswerOK(g)'
    <3>1. call'[g] = call[g] /\ answer'[g] = answer[g]
      BY <1>1, <1>2, <1>4, OthersStay DEF SystemInv, NetworkOK
    <3> QED BY <3>1 DEF SystemInv, NetworkOK, AnswerOK, At, SignedFor
  <2> QED BY <2>1, <2>2
<1> QED BY <1>3, <1>4, <1>5 DEF SystemInv, NetworkOK

LEMMA NetworkStaysOK ==
  ASSUME SystemInv, [SystemNext]_system_vars
  PROVE  NetworkOK'
<1>1. CASE UNCHANGED <<answer, call, license_key>>
  BY <1>1 DEF SystemInv, NetworkOK, AnswerOK, AsksAboutKey, At, SignedFor
<1>2. CASE \/ \E key \in LicenseKeys : ServeLate(key)
           \/ \E key \in LicenseKeys, grant \in Grants :
                CreateLicense(key, grant) \/ UpdateLicense(key, grant)
           \/ \E i \in Instances : ServerRestart(i)
           \/ ServerClockMoves \/ ClientClockMoves \/ ClientMachineChanges
  <2>1. UNCHANGED <<answer, call, license_key>>
    BY <1>2
       DEF ServeLate, CreateLicense, UpdateLicense, ServerRestart, ServerClockMoves,
           ClientClockMoves, ClientMachineChanges, ClockMoves, MachineChanges, network, vars, memory
  <2> QED BY <1>1, <2>1
<1>3. CASE \E h \in Handles, i \in Instances :
             ServeTokenKey(i, h) \/ ServeActivate(i, h) \/ ServeCaRoot(i, h) \/ ServeValidate(i, h)
  BY <1>3, RepliesAreOK
<1>4. ASSUME NEW h \in Handles, ServeFails(h) PROVE NetworkOK'
  <2>1. UNCHANGED <<call, license_key>> /\ Reply(h, Refused) /\ call[h].phase \in RequestPhases
    BY <1>4 DEF ServeFails, vars, memory
  <2> QED BY <2>1 DEF SystemInv, NetworkOK, Reply, Refused, AnswerOK, AsksAboutKey, At, SignedFor
<1>5. CASE \E h \in Handles : Receive(h) \/ RequestLost(h) \/ ClientAlone(h) \/ ClientRestart(h)
  BY <1>5, ClientKeepsNetwork
<1>6. CASE UNCHANGED system_vars
  BY <1>1, <1>6 DEF system_vars, vars, memory, network
<1> QED BY <1>2, <1>3, <1>4, <1>5, <1>6 DEF SystemNext, ServerNext, ClientNext

\* In every reachable state the answers on their way are of the right sort.
LEMMA SystemIsInvariant == SystemSpec => []SystemInv
<1>1. ASSUME SystemInv, [SystemNext]_system_vars PROVE SystemInv'
  BY <1>1, StepsAreClientSteps, NextKeepsType, ServersStayOK, NetworkStaysOK DEF SystemInv
<1> QED BY SystemInitInv, <1>1, PTL DEF SystemSpec

-----------------------------------------------------------------------------
\* The server keeps the client within its module (server.go:80-216): with any
\* number of processes that restart with new keys and authorities, that lose
\* requests and answers and serve them late, every behaviour of the whole is
\* one of LicensifyClient, and every theorem about that module holds in it.
THEOREM SystemKeepsClient == SystemSpec => ClientSafety
<1>1. SystemInit => Init
  BY DEF SystemInit
<1>2. SystemInv /\ [SystemNext]_system_vars => [Next]_vars
  BY StepsAreClientSteps
<1> QED BY <1>1, <1>2, SystemIsInvariant, PTL DEF SystemSpec, ClientSafety, Safety

\* What check() accepts against this server was signed by the key the handle
\* trusts, within its window (lib.rs:261-303).
THEOREM SystemValidIsGenuine == SystemSpec => ValidMeansGenuine
  BY SystemKeepsClient, ValidIsGenuine, PTL DEF ClientSafety

-----------------------------------------------------------------------------
\* Type correctness of the whole.  SystemInv lacks what no client step depends
\* on: the sets of keys, the history, and the shape of a refusal.
BookkeepingOK ==
  /\ registered \subseteq LicenseKeys
  /\ late \subseteq LicenseKeys
  /\ granted \subseteq LicenseKeys \X Grants
  /\ disturbed \in [Handles -> BOOLEAN]
  /\ held \in [Handles -> BOOLEAN]

Shaped(a) == a \in {None, Refused} \/ a = Answered(a.body)

ShapesOK == \A h \in Handles : Shaped(answer[h])

\* A change of one entry to a truth value leaves a function of truth values.
LEMMA FlagsStayFlags ==
  ASSUME NEW f \in [Handles -> BOOLEAN], NEW h, NEW b \in BOOLEAN
  PROVE  [f EXCEPT ![h] = b] \in [Handles -> BOOLEAN]
  BY Zenon

\* Whether an exchange was disturbed, and whether a license was held, is true
\* or false whatever the step.
LEMMA FlagsKeepType ==
  ASSUME BookkeepingOK, [SystemNext]_system_vars
  PROVE  disturbed' \in [Handles -> BOOLEAN] /\ held' \in [Handles -> BOOLEAN]
<1>1. disturbed \in [Handles -> BOOLEAN] /\ held \in [Handles -> BOOLEAN]
  BY DEF BookkeepingOK
<1>2. /\ [h \in Handles |-> TRUE] \in [Handles -> BOOLEAN]
      /\ [h \in Handles |-> FALSE] \in [Handles -> BOOLEAN]
  OBVIOUS
<1>3. ASSUME NEW h \in Handles
      PROVE  /\ [disturbed EXCEPT ![h] = TRUE] \in [Handles -> BOOLEAN]
             /\ [disturbed EXCEPT ![h] = FALSE] \in [Handles -> BOOLEAN]
  BY <1>1, FlagsStayFlags
<1>4. ASSUME NEW h \in Handles, NEW i \in Instances,
             ServeTokenKey(i, h) \/ ServeActivate(i, h) \/ ServeCaRoot(i, h) \/ ServeValidate(i, h)
      PROVE  disturbed' \in {disturbed, [disturbed EXCEPT ![h] = TRUE]} /\ held' = held
  BY <1>4 DEF ServeTokenKey, ServeActivate, ServeCaRoot, ServeValidate
<1>5. ASSUME NEW h \in Handles, ServeFails(h) \/ RequestLost(h)
      PROVE  disturbed' = [disturbed EXCEPT ![h] = TRUE] /\ held' = held
  BY <1>5 DEF ServeFails, RequestLost
<1>6. ASSUME NEW h \in Handles, ClientAlone(h)
      PROVE  disturbed' \in [Handles -> BOOLEAN] /\ held' \in [Handles -> BOOLEAN]
  <2>1. disturbed' \in {disturbed, [disturbed EXCEPT ![h] = FALSE]}
    BY <1>6 DEF ClientAlone
  <2>2. CheckPasses(h) \in BOOLEAN
    BY DEF CheckPasses
  <2>3. held' = [g \in Handles |-> IF g = h /\ IsIdle(h) THEN CheckPasses(h) ELSE held[g] /\ g = h]
    BY <1>6 DEF ClientAlone
  <2>4. held' \in [Handles -> BOOLEAN]
    BY <2>2, <2>3, Zenon
  <2> QED BY <1>1, <1>3, <2>1, <2>4
<1>7. CASE \/ \E key \in LicenseKeys : ServeLate(key)
           \/ \E key \in LicenseKeys, grant \in Grants :
                CreateLicense(key, grant) \/ UpdateLicense(key, grant)
           \/ \E i \in Instances : ServerRestart(i)
           \/ \E h \in Handles : Receive(h) \/ ClientRestart(h)
           \/ ServerClockMoves \/ ClientClockMoves \/ ClientMachineChanges
  <2>1. /\ disturbed' \in {disturbed, [h \in Handles |-> TRUE]}
        /\ held' \in {held, [h \in Handles |-> FALSE]}
    BY <1>7
       DEF ServeLate, CreateLicense, UpdateLicense, ServerRestart, Receive, ClientRestart,
           ServerClockMoves, ClientClockMoves, ClientMachineChanges, Disturb, LetGo
  <2> QED BY <1>1, <1>2, <2>1
<1>8. CASE UNCHANGED system_vars
  BY <1>1, <1>8 DEF system_vars
<1> QED BY <1>1, <1>3, <1>4, <1>5, <1>6, <1>7, <1>8 DEF SystemNext, ServerNext, ClientNext

\* Only keys that are asked about are registered, given up on or granted
\* (server.go:165-216).
LEMMA KeysKeepType ==
  ASSUME SystemInv, BookkeepingOK, [SystemNext]_system_vars
  PROVE  /\ registered' \subseteq LicenseKeys
         /\ late' \subseteq LicenseKeys
         /\ granted' \subseteq LicenseKeys \X Grants
<1> USE DEF BookkeepingOK
<1>1. ASSUME NEW h \in Handles, call[h].phase \in RequestPhases PROVE license_key[h] \in LicenseKeys
  BY <1>1 DEF SystemInv, NetworkOK, AsksAboutKey
<1>2. ASSUME NEW h \in Handles, NEW i \in Instances,
             ServeTokenKey(i, h) \/ ServeActivate(i, h) \/ ServeCaRoot(i, h) \/ ServeValidate(i, h)
      PROVE  /\ registered' \subseteq registered \cup LicenseKeys
             /\ late' = late /\ granted' = granted
  BY <1>1, <1>2
     DEF ServeTokenKey, ServeActivate, ServeCaRoot, ServeValidate, Register, Asks, At,
         RequestPhases, servers
<1>3. ASSUME NEW h \in Handles, ServeFails(h)
      PROVE  UNCHANGED <<registered, late, granted>>
  BY <1>3 DEF ServeFails, servers
<1>4. ASSUME NEW key \in LicenseKeys, ServeLate(key)
      PROVE  /\ registered' \subseteq registered \cup LicenseKeys
             /\ late' \subseteq late /\ granted' = granted
  BY <1>4 DEF ServeLate, Register
<1>5. ASSUME NEW key \in LicenseKeys, NEW grant \in Grants,
             CreateLicense(key, grant) \/ UpdateLicense(key, grant)
      PROVE  /\ granted' \subseteq granted \cup (LicenseKeys \X Grants)
             /\ UNCHANGED <<registered, late>>
  BY <1>5 DEF CreateLicense, UpdateLicense, network
<1>6. ASSUME NEW i \in Instances, ServerRestart(i)
      PROVE  registered' \subseteq registered /\ UNCHANGED <<late, granted>>
  BY <1>6 DEF ServerRestart, network
<1>7. ASSUME NEW h \in Handles, Receive(h) \/ RequestLost(h) \/ ClientAlone(h) \/ ClientRestart(h)
      PROVE  late' \subseteq late \cup LicenseKeys /\ UNCHANGED <<registered, granted>>
  <2>1. CASE Receive(h) \/ ClientAlone(h)
    BY <2>1 DEF Receive, ClientAlone, servers, network
  <2>2. CASE RequestLost(h) \/ ClientRestart(h)
    BY <1>1, <2>2 DEF RequestLost, ClientRestart, GivenUp, Asks, At, RequestPhases, servers
  <2> QED BY <1>7, <2>1, <2>2
<1>8. CASE ServerClockMoves \/ ClientClockMoves \/ ClientMachineChanges \/ UNCHANGED system_vars
  BY <1>8
     DEF ServerClockMoves, ClientClockMoves, ClientMachineChanges, system_vars, servers, network
<1> QED BY <1>2, <1>3, <1>4, <1>5, <1>6, <1>7, <1>8 DEF SystemNext, ServerNext, ClientNext

\* A response is a refusal or carries a body (lib.rs:174-245).
LEMMA ShapesStayOK ==
  ASSUME SystemInv, ShapesOK, [SystemNext]_system_vars
  PROVE  ShapesOK'
<1>1. answer = [h \in Handles |-> answer[h]]
  BY DEF SystemInv, NetworkOK
<1>2. ASSUME NEW h \in Handles, NEW a, Reply(h, a), Shaped(a) PROVE ShapesOK'
  BY <1>1, <1>2 DEF Reply, ShapesOK
<1>3. Shaped(None) /\ Shaped(Refused) /\ \A body : Shaped(Answered(body))
  BY DEF Shaped, Answered
<1>4. ASSUME NEW h \in Handles, NEW i \in Instances,
             \/ ServeTokenKey(i, h) \/ ServeActivate(i, h) \/ ServeCaRoot(i, h)
             \/ ServeValidate(i, h) \/ ServeFails(h)
      PROVE  \E a : Reply(h, a) /\ Shaped(a)
  BY <1>3, <1>4 DEF ServeTokenKey, ServeActivate, ServeCaRoot, ServeValidate, ServeFails
<1>5. ASSUME NEW h \in Handles, ServeFails(h) PROVE Reply(h, Refused)
  BY <1>5 DEF ServeFails
<1>6. ASSUME NEW h \in Handles, Receive(h) \/ RequestLost(h) \/ ClientAlone(h) \/ ClientRestart(h)
      PROVE  Reply(h, None) \/ UNCHANGED answer
  BY <1>6 DEF Receive, RequestLost, ClientAlone, ClientRestart, network
<1>7. CASE \/ \E key \in LicenseKeys : ServeLate(key)
           \/ \E key \in LicenseKeys, grant \in Grants :
                CreateLicense(key, grant) \/ UpdateLicense(key, grant)
           \/ \E i \in Instances : ServerRestart(i)
           \/ ServerClockMoves \/ ClientClockMoves \/ ClientMachineChanges
           \/ UNCHANGED system_vars
  BY <1>7
     DEF ServeLate, CreateLicense, UpdateLicense, ServerRestart, ServerClockMoves,
         ClientClockMoves, ClientMachineChanges, network, system_vars, ShapesOK
<1>8. UNCHANGED answer => ShapesOK'
  BY DEF ShapesOK
<1> QED BY <1>2, <1>3, <1>4, <1>5, <1>6, <1>7, <1>8 DEF SystemNext, ServerNext, ClientNext

\* Together they are the type invariant.
LEMMA PartsAreTyped == SystemInv /\ BookkeepingOK /\ ShapesOK => SystemTypeOK
<1> SUFFICES ASSUME SystemInv, BookkeepingOK, ShapesOK, NEW h \in Handles
             PROVE  answer[h] \in Answers(h)
  BY DEF SystemInv, ServersOK, BookkeepingOK, SystemTypeOK
<1>1. AnswerOK(h) /\ call[h] \in Call
  BY DEF SystemInv, NetworkOK, TypeOK
<1>2. CASE answer[h] \in {None, Refused}
  BY <1>2 DEF Answers
<1>3. CASE answer[h] \notin {None, Refused}
  <2> DEFINE body == answer[h].body
  <2>1. answer[h] = Answered(body)
    BY <1>3 DEF ShapesOK, Shaped
  <2>2. answer[h].ok /\ call[h].phase \in RequestPhases
    BY <1>1, <1>3, <2>1 DEF Answered, AnswerOK
  <2> DEFINE bodies == CASE At(h, "token_key") -> SigningKeys
                         [] At(h, "activate") -> Leaf
                         [] At(h, "ca") -> Authorities
                         [] At(h, "validate") -> {t \in Token : t.machine = call[h].machine}
                         [] OTHER -> {}
  <2>3. ASSUME At(h, "validate") PROVE body \in {t \in Token : t.machine = call[h].machine}
    <3>1. PICK key \in SigningKeys, at \in Times, grant \in Grants :
            body = BuildToken(key, call[h].machine, at, grant)
      BY <1>1, <1>3, <2>2, <2>3 DEF AnswerOK, SignedFor
    <3>2. call[h].machine \in Machines
      BY <2>3 DEF SystemInv, TypeOK, At
    <3>3. body \in Token /\ body.machine = call[h].machine
      BY <3>1, <3>2, BuildTokenIsAToken DEF BuildToken
    <3> QED BY <3>3
  <2>4. body \in bodies
    BY <1>1, <1>3, <2>2, <2>3 DEF AnswerOK, RequestPhases, At
  <2> HIDE DEF body, bodies
  <2>5. Answered(body) \in [ok: {TRUE}, body: bodies]
    BY <2>4 DEF Answered
  <2> QED BY <2>1, <2>5 DEF Answers, bodies
<1> QED BY <1>2, <1>3

\* Every variable of the whole keeps to its domain, and no answer outlives the
\* request it answers (lib.rs:170-240), for any number of processes, handles
\* and keys.
THEOREM SystemTypeCorrect == SystemSpec => []SystemTypeOK
<1> DEFINE Inv == BookkeepingOK /\ ShapesOK
<1>1. SystemInit => Inv
  BY DEF SystemInit, BookkeepingOK, ShapesOK, Shaped
<1>2. SystemInv /\ Inv /\ [SystemNext]_system_vars => Inv'
  BY FlagsKeepType, KeysKeepType, ShapesStayOK DEF BookkeepingOK
<1>3. SystemInv /\ Inv => SystemTypeOK
  BY PartsAreTyped
<1> QED BY <1>1, <1>2, <1>3, SystemIsInvariant, PTL DEF SystemSpec

-----------------------------------------------------------------------------
\* Entitlements stay with the key they were granted to: along the request, the
\* token a call holds, the cache file and what the handle shows.

Granted(key, entitlements) == <<key, entitlements>> \in granted
EverGranted(entitlements) == \E key \in LicenseKeys : Granted(key, entitlements)

AnswerIsGranted(h) ==
  At(h, "validate") /\ answer[h] # None /\ answer[h].ok
    => Granted(license_key[h], answer[h].body.entitlements)

TokenIsGranted(h) ==
  call[h].phase \in HoldingPhases =>
    /\ EverGranted(call[h].token.entitlements)
    /\ call[h].op = "activate" => Granted(license_key[h], call[h].token.entitlements)

ShownIsGranted(h) ==
  /\ result[h] = "online" => Granted(license_key[h], entitlements_cache[h])
  /\ entitlements_cache[h] \in Grants => EverGranted(entitlements_cache[h])

CacheIsGranted == cache_file # None => EverGranted(cache_file.token.entitlements)

LicensesAreGranted ==
  \A key \in LicenseKeys : licenses[key] # None => Granted(key, licenses[key])

GrantsOK ==
  /\ LicensesAreGranted
  /\ CacheIsGranted
  /\ \A h \in Handles : AnswerIsGranted(h) /\ TokenIsGranted(h) /\ ShownIsGranted(h)

\* A call holds the token it was answered with, or the one in the cache file,
\* and its license key does not change meanwhile (lib.rs:226-256, 268-286).
LEMMA TokenComesFrom ==
  ASSUME TypeOK, NEW h \in Handles, Acts(h), call'[h].phase \in HoldingPhases
  PROVE  /\ license_key'[h] = license_key[h]
         /\ \/ /\ call[h].phase \in HoldingPhases
               /\ call'[h].token = call[h].token /\ call'[h].op = call[h].op
            \/ /\ cache_file # None
               /\ call'[h].token = cache_file.token /\ call'[h].op = "check"
            \/ At(h, "validate")
<1> USE DEF HoldingPhases, MarkerPhases
<1>1. call \in [Handles -> Call] /\ license_key \in [Handles -> LicenseKeys \cup {None}]
  BY DEF TypeOK
<1>2. ASSUME NEW r, Return(h, r) PROVE FALSE
  BY <1>1, <1>2 DEF Return, Idle
<1>3. ASSUME NEW op, NEW p \in {"token_key", "remove_cache"}, Begin(h, op, p) PROVE FALSE
  BY <1>1, <1>3 DEF Begin, Idle
<1>4. CASE Starts(h)
  <2>1. CASE Check(h)
    <3>1. /\ call' = [call EXCEPT ![h] = [Idle EXCEPT !.op = "check", !.phase = "rollback",
                        !.machine = machine, !.token = cache_file.token]]
          /\ CacheVerdict(h) = "ok" /\ UNCHANGED memory
      BY <1>2, <2>1 DEF Check
    <3>2. cache_file # None
      BY <3>1 DEF CacheVerdict, Opens
    <3> QED BY <1>1, <3>1, <3>2 DEF memory, Idle
  <2>2. ASSUME NEW key \in LicenseKeys, ActivateWithoutServer(h, key) \/ Activate(h, key)
        PROVE FALSE
    BY <1>2, <1>3, <2>2 DEF ActivateWithoutServer, Activate
  <2>3. CASE ActivateEmptyKey(h) \/ Deactivate(h)
    BY <1>2, <1>3, <2>3 DEF ActivateEmptyKey, Deactivate
  <2>4. ASSUME NEW x, SetServerKey(h, x) \/ SetExpectedDigest(h, x) PROVE FALSE
    BY <2>4 DEF SetServerKey, SetExpectedDigest, IsIdle
  <2> QED BY <1>4, <2>1, <2>2, <2>3, <2>4 DEF Starts
<1>5. CASE ServerAnswers(h)
  <2>1. ASSUME ActivateLocally(h) PROVE FALSE
    BY <1>2, <2>1 DEF ActivateLocally
  <2>2. ASSUME NEW key, TokenKeyAnswered(h, key) PROVE FALSE
    BY <1>1, <2>2 DEF TokenKeyAnswered, Call
  <2>3. ASSUME NEW leaf, ActivateAnswered(h, leaf) PROVE FALSE
    BY <1>1, <2>3 DEF ActivateAnswered, Call
  <2>4. ASSUME NEW root, CaRootAnswered(h, root) PROVE FALSE
    BY <1>1, <2>1, <2>4 DEF CaRootAnswered, Call
  <2>5. ASSUME NEW token, ValidateAnswered(h, token)
        PROVE  At(h, "validate") /\ license_key'[h] = license_key[h]
    BY <2>1, <2>5 DEF ValidateAnswered, memory
  <2> QED BY <1>5, <2>2, <2>3, <2>4, <2>5 DEF ServerAnswers
<1>6. CASE LocalStep(h)
  BY <1>1, <1>2, <1>6
     DEF LocalStep, RequestFails, Seal, CacheTruncate, CacheWrite, CheckRollback, MarkerRead,
         MarkerTruncate, MarkerWrite, RemoveCache, RemoveMarker, MarkerError, ActivateLocally,
         Goto, At, memory, Call
<1>7. CASE Restart(h)
  BY <1>2, <1>7 DEF Restart
<1> QED BY <1>4, <1>5, <1>6, <1>7 DEF Acts

\* The cache file is removed, emptied, or gets the token of the call that
\* writes it (lib.rs:252-253, 325).
LEMMA CacheComesFrom ==
  ASSUME TypeOK, NEW h \in Handles, Acts(h)
  PROVE  \/ cache_file' \in {cache_file, None}
         \/ At(h, "cache_write") /\ cache_file'.token = call[h].token
<1>1. CASE Starts(h)
  BY <1>1
     DEF Starts, ActivateEmptyKey, ActivateWithoutServer, Activate, Check, Deactivate,
         SetServerKey, SetExpectedDigest, files
<1>2. CASE ServerAnswers(h)
  BY <1>2
     DEF ServerAnswers, TokenKeyAnswered, ActivateAnswered, CaRootAnswered, ValidateAnswered, files
<1>3. CASE LocalStep(h)
  BY <1>3
     DEF LocalStep, RequestFails, Seal, CacheTruncate, CacheWrite, CheckRollback, MarkerRead,
         MarkerTruncate, MarkerWrite, RemoveCache, RemoveMarker, files
<1>4. CASE Restart(h)
  BY <1>4 DEF Restart, files
<1> QED BY <1>1, <1>2, <1>3, <1>4 DEF Acts

\* "online" is the result of the last write of an activation, or stays one
\* while nothing else changes (lib.rs:152-162).
LEMMA OnlineComesFrom ==
  ASSUME TypeOK, NEW h \in Handles, Acts(h), result'[h] = "online"
  PROVE  \/ MarkerWrite(h) /\ call[h].op = "activate" /\ Returns(h, "online")
         \/ /\ result[h] = "online" /\ entitlements_cache'[h] = entitlements_cache[h]
            /\ license_key'[h] = license_key[h]
<1>1. /\ call \in [Handles -> Call] /\ result \in [Handles -> Results]
      /\ entitlements_cache \in [Handles -> Grants \cup {Default, None}]
      /\ license_key \in [Handles -> LicenseKeys \cup {None}]
  BY DEF TypeOK
<1>2. CASE Returns(h, "online")
  <2>1. MarkerWrite(h) /\ Return(h, IF call[h].op = "activate" THEN "online" ELSE "valid")
    BY <1>2, SuccessIsMarkerWrite
  <2>2. call[h].op = "activate"
    BY <1>1, <2>1 DEF Return
  <2> QED BY <1>2, <2>1, <2>2
<1>3. CASE UNCHANGED <<memory, result>>
  BY <1>3 DEF memory
<1>4. ASSUME ActivateLocally(h) PROVE FALSE
  BY <1>1, <1>4 DEF ActivateLocally, Return
<1>5. ASSUME NEW r \in Results \ {"online"}, Return(h, r) PROVE FALSE
  BY <1>1, <1>5 DEF Return
<1>6. CASE Starts(h)
  BY <1>6, StartsResetResult
<1>7. CASE ServerAnswers(h)
  BY <1>3, <1>4, <1>7
     DEF ServerAnswers, TokenKeyAnswered, ActivateAnswered, CaRootAnswered, ValidateAnswered
<1>8. ASSUME MarkerError(h) PROVE FALSE
  BY <1>4, <1>5, <1>8 DEF MarkerError, Results
<1>9. CASE LocalStep(h) /\ ~MarkerWrite(h)
  BY <1>3, <1>4, <1>5, <1>8, <1>9
     DEF LocalStep, RequestFails, Seal, CacheTruncate, CacheWrite, CheckRollback, MarkerRead,
         MarkerTruncate, RemoveCache, RemoveMarker, Results
<1>10. CASE MarkerWrite(h)
  <2>1. Return(h, IF call[h].op = "activate" THEN "online" ELSE "valid")
    BY <1>8, <1>10 DEF MarkerWrite
  <2>2. Returns(h, "online")
    BY <1>1, <1>10, <2>1 DEF Returns, Return, MarkerWrite, At, IsIdle, Idle
  <2> QED BY <1>2, <2>2
<1>11. CASE Restart(h)
  BY <1>5, <1>11 DEF Restart, Results
<1> QED BY <1>6, <1>7, <1>9, <1>10, <1>11 DEF Acts

\* A client's step shows, writes and holds what was granted to its key.
LEMMA ClientKeepsGrants ==
  ASSUME SystemInv, GrantsOK, NEW h \in Handles,
         Receive(h) \/ RequestLost(h) \/ ClientAlone(h) \/ ClientRestart(h)
  PROVE  GrantsOK'
<1>1. Acts(h) /\ TypeOK
  BY ReceiveIsAnswer DEF RequestLost, ClientAlone, ClientRestart, Acts, LocalStep, SystemInv
<1>2. UNCHANGED <<granted, licenses>>
  BY DEF Receive, RequestLost, ClientAlone, ClientRestart, servers
<1>3. LicensesAreGranted'
  BY <1>2 DEF GrantsOK, LicensesAreGranted, Granted
<1>4. CacheIsGranted'
  BY <1>1, <1>2, CacheComesFrom
     DEF GrantsOK, CacheIsGranted, TokenIsGranted, EverGranted, Granted, HoldingPhases, At
<1>5. AnswerIsGranted(h)'
  BY AnswerTaken DEF SystemInv, NetworkOK, AnswerIsGranted
<1>6. TokenIsGranted(h)'
  <2> SUFFICES ASSUME call'[h].phase \in HoldingPhases
               PROVE  /\ EverGranted(call'[h].token.entitlements)
                      /\ call'[h].op = "activate" =>
                           Granted(license_key[h], call'[h].token.entitlements)
    BY <1>1, <1>2, TokenComesFrom DEF TokenIsGranted, EverGranted, Granted
  <2>1. CASE call[h].phase \in HoldingPhases /\ call'[h].token = call[h].token
               /\ call'[h].op = call[h].op
    BY <2>1 DEF GrantsOK, TokenIsGranted
  <2>2. CASE cache_file # None /\ call'[h].token = cache_file.token /\ call'[h].op = "check"
    BY <2>2 DEF GrantsOK, CacheIsGranted
  <2>3. CASE At(h, "validate")
    <3>1. call \in [Handles -> Call]
      BY <1>1 DEF TypeOK
    <3>2. ~Return(h, "local") /\ ~Return(h, "none")
      BY <3>1 DEF Return, Idle, HoldingPhases, MarkerPhases
    <3>3. Receive(h)
      BY <2>3, <3>2
         DEF RequestLost, RequestFails, ActivateLocally, ClientAlone, ClientRestart, Restart,
             At, RequestPhases
    <3>4. answer[h] # None /\ answer[h].ok /\ ValidateAnswered(h, answer[h].body)
      BY <2>3, <3>2, <3>3
         DEF Receive, RequestFails, ActivateLocally, TokenKeyAnswered, ActivateAnswered,
             CaRootAnswered, At
    <3>5. call'[h].token = answer[h].body
      BY <3>1, <3>2, <3>4 DEF ValidateAnswered, ActivateLocally, Call
    <3>6. license_key[h] \in LicenseKeys
      BY <2>3 DEF SystemInv, NetworkOK, AsksAboutKey, At, RequestPhases
    <3>7. Granted(license_key[h], answer[h].body.entitlements)
      BY <2>3, <3>4 DEF GrantsOK, AnswerIsGranted
    <3> QED BY <3>5, <3>6, <3>7 DEF EverGranted
  <2> QED BY <1>1, <2>1, <2>2, <2>3, TokenComesFrom
<1>7. ShownIsGranted(h)'
  <2>1. ASSUME MarkerWrite(h)
        PROVE  /\ EverGranted(call[h].token.entitlements)
               /\ call[h].op = "activate" => Granted(license_key[h], call[h].token.entitlements)
    BY <2>1 DEF MarkerWrite, GrantsOK, TokenIsGranted, HoldingPhases, MarkerPhases, At
  <2>2. ASSUME result'[h] = "online" PROVE Granted(license_key'[h], entitlements_cache'[h])
    <3>1. CASE MarkerWrite(h) /\ call[h].op = "activate" /\ Returns(h, "online")
      <4>1. ~MarkerError(h)
            /\ entitlements_cache' = [entitlements_cache EXCEPT ![h] = call[h].token.entitlements]
        BY <1>1, <3>1, SuccessIsMarkerWrite
      <4>2. license_key' = license_key
        BY <3>1, <4>1 DEF MarkerWrite
      <4>3. entitlements_cache'[h] = call[h].token.entitlements
        BY <1>1, <4>1 DEF TypeOK
      <4> QED BY <2>1, <3>1, <4>2, <4>3
    <3>2. CASE /\ result[h] = "online" /\ entitlements_cache'[h] = entitlements_cache[h]
               /\ license_key'[h] = license_key[h]
      BY <3>2 DEF GrantsOK, ShownIsGranted
    <3> QED BY <1>1, <2>2, <3>1, <3>2, OnlineComesFrom
  <2>3. ASSUME entitlements_cache'[h] \in Grants PROVE EverGranted(entitlements_cache'[h])
    <3>1. CASE entitlements_cache'[h] = entitlements_cache[h]
      BY <2>3, <3>1 DEF GrantsOK, ShownIsGranted
    <3>2. CASE entitlements_cache'[h] # entitlements_cache[h]
      <4>1. entitlements_cache'[h] \notin {entitlements_cache[h], Default, None}
        BY <2>3, <3>2, ClientAssumption
      <4>2. MarkerWrite(h)
            /\ entitlements_cache' = [entitlements_cache EXCEPT ![h] = call[h].token.entitlements]
        BY <1>1, <4>1, SuccessIsMarkerWrite
      <4>3. entitlements_cache'[h] = call[h].token.entitlements
        BY <1>1, <4>2 DEF TypeOK
      <4> QED BY <2>1, <4>2, <4>3
    <3> QED BY <3>1, <3>2
  <2> QED BY <1>2, <2>2, <2>3 DEF ShownIsGranted, EverGranted, Granted
<1>8. ASSUME NEW g \in Handles \ {h}
      PROVE  AnswerIsGranted(g)' /\ TokenIsGranted(g)' /\ ShownIsGranted(g)'
  <2>1. /\ call'[g] = call[g] /\ result'[g] = result[g] /\ license_key'[g] = license_key[g]
        /\ entitlements_cache'[g] = entitlements_cache[g]
    BY <1>1, OthersStay
  <2>2. answer'[g] = answer[g]
    BY AnswerTaken DEF SystemInv, NetworkOK
  <2> QED BY <1>2, <2>1, <2>2
          DEF GrantsOK, AnswerIsGranted, TokenIsGranted, ShownIsGranted, EverGranted, Granted, At
<1> QED BY <1>3, <1>4, <1>5, <1>6, <1>7, <1>8 DEF GrantsOK

\* What was granted stays granted: a step that leaves the clients alone and
\* forgets no grant keeps whatever they hold.
LEMMA GrantsOnlyGrow ==
  ASSUME GrantsOK, granted \subseteq granted', LicensesAreGranted',
         UNCHANGED <<cache_file, license_key, entitlements_cache, call, result>>,
         \A h \in Handles : AnswerIsGranted(h)'
  PROVE  GrantsOK'
<1>1. CacheIsGranted'
  BY DEF GrantsOK, CacheIsGranted, EverGranted, Granted
<1>2. ASSUME NEW h \in Handles PROVE TokenIsGranted(h)' /\ ShownIsGranted(h)'
  BY DEF GrantsOK, TokenIsGranted, ShownIsGranted, EverGranted, Granted
<1> QED BY <1>1, <1>2 DEF GrantsOK

\* A process signs the entitlements the license of the request's key has
\* (server.go:199-211), and those the vendor gave it.
LEMMA GrantsStayOK ==
  ASSUME SystemInv, GrantsOK, [SystemNext]_system_vars
  PROVE  GrantsOK'
<1>1. answer = [h \in Handles |-> answer[h]] /\ licenses \in [LicenseKeys -> Grants \cup {None}]
  BY DEF SystemInv, ServersOK, NetworkOK
<1>2. ASSUME UNCHANGED <<vars, granted, answer>>, LicensesAreGranted' PROVE GrantsOK'
  <2>1. \A h \in Handles : AnswerIsGranted(h)'
    BY <1>2 DEF vars, memory, GrantsOK, AnswerIsGranted, Granted, At
  <2> QED BY <1>2, <2>1, GrantsOnlyGrow DEF vars, files, memory
<1>3. ASSUME UNCHANGED <<licenses, granted>> PROVE LicensesAreGranted'
  BY <1>3 DEF GrantsOK, LicensesAreGranted, Granted
<1>4. ASSUME NEW h \in Handles, NEW a, Reply(h, a), UNCHANGED <<vars, licenses, granted>>,
             At(h, "validate") /\ a # None /\ a.ok
               => Granted(license_key[h], a.body.entitlements)
      PROVE  GrantsOK'
  <2>1. ASSUME NEW g \in Handles PROVE AnswerIsGranted(g)'
    BY <1>1, <1>4 DEF Reply, vars, memory, GrantsOK, AnswerIsGranted, Granted, At
  <2> QED BY <1>3, <1>4, <2>1, GrantsOnlyGrow DEF vars, files, memory
<1>5. ASSUME NEW h \in Handles, NEW i \in Instances,
             ServeTokenKey(i, h) \/ ServeActivate(i, h) \/ ServeCaRoot(i, h)
      PROVE  GrantsOK'
  <2>1. ~At(h, "validate") /\ UNCHANGED <<vars, licenses, granted>> /\ \E a : Reply(h, a)
    BY <1>5 DEF ServeTokenKey, ServeActivate, ServeCaRoot, Asks, At, servers
  <2> QED BY <1>4, <2>1
<1>6. ASSUME NEW h \in Handles, NEW i \in Instances, ServeValidate(i, h) PROVE GrantsOK'
  <2> DEFINE grant == licenses[license_key[h]]
             token == BuildToken(token_key[i], call[h].machine, server_now, grant)
  <2>1. UNCHANGED <<vars, licenses, granted>>
    BY <1>6 DEF ServeValidate, servers
  <2>2. CASE Reply(h, Refused)
    BY <1>4, <2>1, <2>2 DEF Refused
  <2>3. CASE Reply(h, Answered(token)) /\ grant # None
    <3>1. license_key[h] \in LicenseKeys
      BY <1>6 DEF ServeValidate, Asks, At, RequestPhases, SystemInv, NetworkOK, AsksAboutKey
    <3>2. Granted(license_key[h], grant) /\ token.entitlements = grant
      BY <2>3, <3>1 DEF GrantsOK, LicensesAreGranted, BuildToken
    <3>3. Answered(token).body = token
      BY DEF Answered
    <3> HIDE DEF token, grant
    <3> QED BY <1>4, <2>1, <2>3, <3>2, <3>3
  <2> QED BY <1>6, <2>2, <2>3 DEF ServeValidate
<1>7. ASSUME NEW h \in Handles, ServeFails(h) PROVE GrantsOK'
  BY <1>4, <1>7 DEF ServeFails, servers, Refused
<1>8. ASSUME NEW key \in LicenseKeys, NEW grant \in Grants,
             CreateLicense(key, grant) \/ UpdateLicense(key, grant)
      PROVE  GrantsOK'
  <2>1. /\ licenses' = [licenses EXCEPT ![key] = grant]
        /\ granted' = granted \cup {<<key, grant>>}
        /\ UNCHANGED <<vars, answer>>
    BY <1>8 DEF CreateLicense, UpdateLicense, network
  <2>2. LicensesAreGranted'
    BY <1>1, <2>1 DEF GrantsOK, LicensesAreGranted, Granted
  <2>3. ASSUME NEW h \in Handles PROVE AnswerIsGranted(h)'
    BY <2>1 DEF vars, memory, GrantsOK, AnswerIsGranted, Granted, At
  <2> QED BY <2>1, <2>2, <2>3, GrantsOnlyGrow DEF vars, files, memory
<1>9. ASSUME NEW i \in Instances, ServerRestart(i) PROVE GrantsOK'
  <2>1. LicensesAreGranted'
    <3>1. CASE UNCHANGED licenses
      BY <1>3, <1>9, <3>1 DEF ServerRestart
    <3>2. CASE licenses' = [key \in LicenseKeys |-> None]
      BY <3>2 DEF LicensesAreGranted
    <3> QED BY <1>9, <3>1, <3>2 DEF ServerRestart
  <2> QED BY <1>2, <1>9, <2>1 DEF ServerRestart, network
<1>10. CASE \/ \E key \in LicenseKeys : ServeLate(key)
            \/ ServerClockMoves
            \/ UNCHANGED system_vars
  BY <1>2, <1>3, <1>10 DEF ServeLate, ServerClockMoves, system_vars, servers, network
<1>11. CASE ClientClockMoves \/ ClientMachineChanges
  <2>1. UNCHANGED <<files, memory, call, result, licenses, granted, answer>>
    BY <1>11
       DEF ClientClockMoves, ClientMachineChanges, ClockMoves, MachineChanges, servers, network
  <2>2. \A h \in Handles : AnswerIsGranted(h)'
    BY <2>1 DEF memory, GrantsOK, AnswerIsGranted, Granted, At
  <2> QED BY <1>3, <2>1, <2>2, GrantsOnlyGrow DEF files, memory
<1>12. CASE \E h \in Handles : Receive(h) \/ RequestLost(h) \/ ClientAlone(h) \/ ClientRestart(h)
  BY <1>12, ClientKeepsGrants
<1> QED BY <1>5, <1>6, <1>7, <1>8, <1>9, <1>10, <1>11, <1>12
        DEF SystemNext, ServerNext, ClientNext

\* An activation reports the entitlements the vendor gave to the key it was
\* called with, and nothing surfaces that was never given (server.go:199-211;
\* lib.rs:165-257, 298-303): with any number of processes, handles and keys,
\* requests served late, and files that outlive every process.
THEOREM OnlineIsGranted == SystemSpec => []OnlineMeansGranted
<1>1. SystemInit => GrantsOK
  BY ClientAssumption
     DEF SystemInit, Init, Idle, GrantsOK, LicensesAreGranted, CacheIsGranted, AnswerIsGranted,
         TokenIsGranted, ShownIsGranted, HoldingPhases, MarkerPhases
<1>2. SystemInv /\ GrantsOK /\ [SystemNext]_system_vars => GrantsOK'
  BY GrantsStayOK
<1>3. GrantsOK => OnlineMeansGranted
  BY DEF GrantsOK, ShownIsGranted, OnlineMeansGranted, Granted, EverGranted
<1> QED BY <1>1, <1>2, <1>3, SystemIsInvariant, PTL DEF SystemSpec

-----------------------------------------------------------------------------
\* The store behind the handlers is a registry.

\* No registration without a license: nothing is registered that is not there,
\* and licenses only go with the registrations.
LicensedOK == \A key \in registered : licenses[key] # None

\* What the vendor sees of a key is an entry of the registry.
EntriesOK ==
  \A key \in LicenseKeys :
    /\ Entry(key) \in Registry!License \cup {None}
    /\ Entry(key) = None <=> licenses[key] = None
    /\ licenses[key] # None => Entry(key).key_hash = key

LEMMA EntriesAreOK == SystemTypeOK => EntriesOK
<1> SUFFICES ASSUME SystemTypeOK, NEW key \in LicenseKeys
             PROVE  /\ Entry(key) \in Registry!License \cup {None}
                    /\ Entry(key) = None <=> licenses[key] = None
                    /\ licenses[key] # None => Entry(key).key_hash = key
  BY DEF EntriesOK
<1>1. CASE licenses[key] = None
  BY <1>1 DEF Entry
<1>2. CASE licenses[key] # None
  <2> DEFINE e == [key_hash |-> key, content |-> licenses[key],
                   registration |-> IF key \in registered THEN "opaque" ELSE None]
  <2>1. Entry(key) = e
    BY <1>2 DEF Entry
  <2>2. licenses[key] \in Grants
    BY <1>2 DEF SystemTypeOK
  <2>3. e \in Registry!License
    BY <2>2 DEF Registry!License
  <2> QED BY <1>2, <2>1, <2>3, NoneIsNoEntry
<1> QED BY <1>1, <1>2

\* And it still is after a step.
LEMMA EntriesStayOK == SystemTypeOK' => EntriesOK'
  BY EntriesAreOK, PTL

\* A change of one entry that the registry allows is a step of it.
LEMMA EntryChanges ==
  ASSUME SystemTypeOK', NEW id \in LicenseKeys,
         \A other \in LicenseKeys \ {id} : Entry(other)' = Entry(other),
         \/ \E key \in LicenseKeys, content \in Grants : Registry!Create(id, key, content)
         \/ \E content \in Grants : Registry!Update(id, content)
         \/ \E upload \in {"opaque"} : Registry!StoreOpaqueRecord(id, upload)
  PROVE  Registry!Next
<1>1. Registry!OnlyOf(id)
  BY DEF Registry!OnlyOf
<1>2. [key \in LicenseKeys |-> Entry(key)]' \in [LicenseKeys -> Registry!License \cup {None}]
  BY EntriesStayOK DEF EntriesOK
<1> QED BY <1>1, <1>2 DEF Registry!Next

\* A registration for a key that has a license, whenever it is served
\* (server.go:175-181).
LEMMA RegisterIsStore ==
  ASSUME SystemTypeOK, SystemTypeOK', NEW id \in LicenseKeys, licenses[id] # None, Register(id),
         UNCHANGED licenses
  PROVE  Registry!Next
<1>1. \A other \in LicenseKeys \ {id} : Entry(other)' = Entry(other)
  BY DEF Register, Entry
<1>2. /\ Entry(id) # None
      /\ Entry(id) = [key_hash |-> id, content |-> licenses[id],
                      registration |-> IF id \in registered THEN "opaque" ELSE None]
      /\ Entry(id)' = [key_hash |-> id, content |-> licenses[id], registration |-> "opaque"]
  BY EntriesAreOK DEF EntriesOK, Entry, Register
<1>3. Registry!StoreOpaqueRecord(id, "opaque")
  BY <1>2 DEF Registry!StoreOpaqueRecord
<1> QED BY <1>1, <1>3, EntryChanges

\* A license is created without a registration, and with a key no other has
\* (server.go:104-124).
LEMMA CreateIsCreate ==
  ASSUME SystemTypeOK, SystemTypeOK', LicensedOK, NEW id \in LicenseKeys, NEW grant \in Grants,
         CreateLicense(id, grant)
  PROVE  Registry!Next
<1>1. /\ licenses[id] = None /\ licenses' = [licenses EXCEPT ![id] = grant]
      /\ licenses \in [LicenseKeys -> Grants \cup {None}] /\ UNCHANGED registered
  BY DEF CreateLicense, SystemTypeOK
<1>2. \A other \in LicenseKeys \ {id} : Entry(other)' = Entry(other)
  BY <1>1 DEF Entry
<1>3. Entry(id) = None /\ id \notin registered
  BY <1>1 DEF Entry, LicensedOK
<1>4. Entry(id)' = [key_hash |-> id, content |-> grant, registration |-> None]
  BY <1>1, <1>3, ClientAssumption DEF Entry
<1>5. \A other \in LicenseKeys : Entry(other) # None => Entry(other).key_hash # id
  BY <1>3, EntriesAreOK DEF EntriesOK
<1>6. Registry!Create(id, id, grant)
  BY <1>3, <1>4, <1>5 DEF Registry!Create
<1> QED BY <1>2, <1>6, EntryChanges

\* An update changes the entitlements and leaves the registration
\* (server.go:134-148).
LEMMA UpdateIsUpdate ==
  ASSUME SystemTypeOK, SystemTypeOK', NEW id \in LicenseKeys, NEW grant \in Grants,
         UpdateLicense(id, grant)
  PROVE  Registry!Next
<1>1. /\ licenses[id] # None /\ licenses' = [licenses EXCEPT ![id] = grant]
      /\ licenses \in [LicenseKeys -> Grants \cup {None}] /\ UNCHANGED registered
  BY DEF UpdateLicense, SystemTypeOK
<1>2. \A other \in LicenseKeys \ {id} : Entry(other)' = Entry(other)
  BY <1>1 DEF Entry
<1> DEFINE r == IF id \in registered THEN "opaque" ELSE None
<1>3. /\ Entry(id) # None
      /\ Entry(id) = [key_hash |-> id, content |-> licenses[id], registration |-> r]
  BY <1>1, EntriesAreOK DEF EntriesOK, Entry
<1>4. Entry(id)' = [key_hash |-> id, content |-> grant, registration |-> r]
  BY <1>1, ClientAssumption DEF Entry
<1> HIDE DEF r
<1>5. Registry!Update(id, grant)
  BY <1>3, <1>4 DEF Registry!Update
<1> QED BY <1>2, <1>5, EntryChanges

\* What changes the store at all.
LEMMA StoreChanges ==
  ASSUME SystemInv, SystemTypeOK, [SystemNext]_system_vars
  PROVE  \/ UNCHANGED <<licenses, registered>>
         \/ \E id \in LicenseKeys : licenses[id] # None /\ Register(id) /\ UNCHANGED licenses
         \/ \E id \in LicenseKeys, grant \in Grants : CreateLicense(id, grant) \/ UpdateLicense(id, grant)
         \/ /\ ~DurableStore
            /\ licenses' = [key \in LicenseKeys |-> None] /\ registered' = {}
<1>1. ASSUME NEW i \in Instances, NEW h \in Handles, ServeActivate(i, h)
      PROVE  \/ UNCHANGED <<licenses, registered>>
             \/ \E id \in LicenseKeys : licenses[id] # None /\ Register(id) /\ UNCHANGED licenses
  <2>1. license_key[h] \in LicenseKeys
    BY <1>1 DEF ServeActivate, Asks, At, SystemInv, NetworkOK, AsksAboutKey, RequestPhases
  <2> QED BY <1>1, <2>1 DEF ServeActivate
<1>2. ASSUME NEW id \in LicenseKeys, ServeLate(id)
      PROVE  \/ UNCHANGED <<licenses, registered>>
             \/ licenses[id] # None /\ Register(id) /\ UNCHANGED licenses
  BY <1>2 DEF ServeLate
<1>3. ASSUME NEW i \in Instances, ServerRestart(i)
      PROVE  \/ UNCHANGED <<licenses, registered>>
             \/ ~DurableStore /\ licenses' = [key \in LicenseKeys |-> None] /\ registered' = {}
  BY <1>3 DEF ServerRestart
<1>4. ASSUME NEW i \in Instances, NEW h \in Handles,
             ServeTokenKey(i, h) \/ ServeCaRoot(i, h) \/ ServeValidate(i, h)
      PROVE  UNCHANGED <<licenses, registered>>
  BY <1>4 DEF ServeTokenKey, ServeCaRoot, ServeValidate, servers
<1>5. ASSUME ClientNext \/ UNCHANGED system_vars PROVE UNCHANGED <<licenses, registered>>
  BY <1>5 DEF ClientNext, Receive, RequestLost, ClientAlone, ClientRestart, ClientClockMoves,
              ClientMachineChanges, system_vars, servers
<1>6. ASSUME ServerClockMoves \/ \E h \in Handles : ServeFails(h)
      PROVE  UNCHANGED <<licenses, registered>>
  BY <1>6 DEF ServeFails, ServerClockMoves, servers
<1> QED BY <1>1, <1>2, <1>3, <1>4, <1>5, <1>6 DEF SystemNext, ServerNext

\* Registrations are of licenses only.
LEMMA RegisteredAreLicensed == SystemSpec => []LicensedOK
<1>1. SystemInit => LicensedOK
  BY DEF SystemInit, LicensedOK
<1>2. SystemInv /\ SystemTypeOK /\ LicensedOK /\ [SystemNext]_system_vars => LicensedOK'
  BY StoreChanges, ClientAssumption
     DEF LicensedOK, Register, CreateLicense, UpdateLicense, SystemTypeOK
<1> QED BY <1>1, <1>2, SystemIsInvariant, SystemTypeCorrect, PTL DEF SystemSpec

\* Every step of the whole is one of the registry, or changes nothing in it, or
\* empties a store that is not durable.
LEMMA StepsAreRegistrySteps ==
  ASSUME SystemInv, SystemTypeOK, SystemTypeOK', LicensedOK, [SystemNext]_system_vars
  PROVE  Registry!Next \/ Emptied \/ UNCHANGED <<licenses, registered>>
<1>1. ASSUME ~DurableStore, licenses' = [key \in LicenseKeys |-> None] PROVE Emptied
  BY <1>1 DEF Emptied, Entry
<1> QED BY <1>1, StoreChanges, RegisterIsStore, CreateIsCreate, UpdateIsUpdate

\* Any number of processes behind one URL, with late requests and restarts, are
\* to the vendor one registry of licenses, which nothing but the end of a process
\* without Postgres empties (store.go:14-26, server.go:134-197).
THEOREM SystemIsRegistry == SystemSpec => StoreIsRegistry
<1>1. SystemInit => Registry!Init
  BY DEF SystemInit, Registry!Init, Entry
<1>2. SystemInv /\ SystemTypeOK /\ SystemTypeOK' /\ LicensedOK /\ [SystemNext]_system_vars =>
        [Registry!Next \/ Emptied]_<<licenses, registered>>
  BY StepsAreRegistrySteps
<1> QED BY <1>1, <1>2, SystemIsInvariant, SystemTypeCorrect, RegisteredAreLicensed, PTL
        DEF SystemSpec, StoreIsRegistry

\* With a Postgres it is the registry that LicenseStore and PostgresStore
\* implement, for ever.
THEOREM DurableSystemIsRegistry == DurableStore => (SystemSpec => Registry!Spec)
<1> SUFFICES ASSUME DurableStore PROVE SystemSpec => Registry!Spec
  OBVIOUS
<1>1. [Registry!Next \/ Emptied]_<<licenses, registered>> =>
        [Registry!Next]_([key \in LicenseKeys |-> Entry(key)])
  BY DEF Emptied, Entry
<1> QED BY <1>1, SystemIsRegistry, PTL DEF StoreIsRegistry, Registry!Spec
=============================================================================
