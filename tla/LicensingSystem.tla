--------------------------- MODULE LicensingSystem ---------------------------
(***************************************************************************)
(* The client of LicensifyClient and the server it activates against.      *)
(*                                                                         *)
(* A server is one or more processes (server/internal/server/run.go), each *)
(* with the certificate authority it made when it started and a token key  *)
(* that is configured or random; with a DATABASE_URL their licenses and    *)
(* registrations are in Postgres, without one they die with the process.   *)
(* An exchange is a request served by some process and an answer that      *)
(* comes back later, or never.  Each handler is one step here; what goes   *)
(* on between its store calls is the subject of LicenseStore.              *)
(*                                                                         *)
(* The client's own steps are those of LicensifyClient.  ClientSafety says *)
(* that nothing this server does takes the client out of that module.      *)
(***************************************************************************)
EXTENDS LicensifyClientProperties

CONSTANTS
  Instances,      \* server processes behind one URL
  ConfiguredKey,  \* the key of LICENSIFY_TOKEN_SIGNING_KEY, or None when unset
  DurableStore    \* whether DATABASE_URL names a Postgres

ASSUME SystemAssumption ==
  /\ ConfiguredKey \in SigningKeys \cup {None}
  /\ DurableStore \in BOOLEAN
  /\ None \notin Authorities
  \* Processes without Postgres have nothing in common.
  /\ DurableStore \/ \A i, j \in Instances : i = j

VARIABLES
  server_now,  \* the servers' clock
  token_key,   \* token_key[i]: s.tokenKey
  authority,   \* authority[i]: s.ca
  licenses,    \* licenses[key]: the entitlements of the license, or None
  registered,  \* license keys whose license has an opaque record
  answer,      \* answer[h]: the response under way to h, or None
  late,        \* keys of activate requests under way that nobody waits for
  granted,     \* history: every (license key, entitlements) a license ever had
  disturbed,   \* history: disturbed[h]: something befell h's exchange since it began
  held         \* history: held[h]: check() would have passed all the while since h's call began

servers == <<server_now, token_key, authority, licenses, registered, granted>>
network == <<answer, late>>
system_vars == <<vars, servers, network, disturbed, held>>

Refused == [ok |-> FALSE, body |-> None]
Answered(body) == [ok |-> TRUE, body |-> body]

Asks(h, phase) == At(h, phase) /\ answer[h] = None
Reply(h, a) == answer' = [answer EXCEPT ![h] = a]

\* What befalls the exchanges of all handles, and breaks off what they hold.
Disturb == disturbed' = [h \in Handles |-> TRUE]
LetGo == held' = [h \in Handles |-> FALSE]

-----------------------------------------------------------------------------
\* The handlers of one process.

\* Seeded fault: without a configured key the all-zero key is published.
FaultyServeTokenKey(i, h) ==
  /\ Asks(h, "token_key")
  /\ Reply(h, Answered(ConfiguredKey))
  /\ UNCHANGED <<vars, servers, late, disturbed, held>>

ServeTokenKey(i, h) ==
  /\ Asks(h, "token_key")
  /\ Reply(h, Answered(token_key[i]))
  /\ UNCHANGED <<vars, servers, late, disturbed, held>>

Register(key) == registered' = registered \cup {key}

\* The registration comes first and stays even if no leaf can be issued.
ServeActivate(i, h) ==
  /\ Asks(h, "activate")
  /\ IF licenses[license_key[h]] = None
     THEN Reply(h, Refused) /\ UNCHANGED <<registered, disturbed>>
     ELSE /\ Register(license_key[h])
          /\ \/ /\ Reply(h, Answered([ca |-> authority[i], issued_at |-> server_now]))
                /\ UNCHANGED disturbed
             \/ /\ Reply(h, Refused)
                /\ disturbed' = [disturbed EXCEPT ![h] = TRUE]
  /\ UNCHANGED <<vars, server_now, token_key, authority, licenses, granted, late, held>>

\* Seeded fault: the record is stored without a look for the license.
FaultyServeLate(key) ==
  /\ key \in late
  /\ late' = late \ {key}
  /\ Register(key)
  /\ UNCHANGED <<vars, server_now, token_key, authority, licenses, granted,
                 answer, disturbed, held>>

\* A request whose client gave up: only its effect on the store is left.
ServeLate(key) ==
  /\ key \in late
  /\ late' = late \ {key}
  /\ IF licenses[key] = None THEN UNCHANGED registered ELSE Register(key)
  /\ UNCHANGED <<vars, server_now, token_key, authority, licenses, granted,
                 answer, disturbed, held>>

ServeCaRoot(i, h) ==
  /\ Asks(h, "ca")
  /\ Reply(h, Answered(authority[i]))
  /\ UNCHANGED <<vars, servers, late, disturbed, held>>

\* Seeded fault: the license is looked up by the machine's registrations.
FaultyServeValidate(i, h) ==
  /\ Asks(h, "validate")
  /\ \E key \in {k \in registered : licenses[k] # None} :
       Reply(h, Answered(BuildToken(token_key[i], call[h].machine, server_now, licenses[key])))
  /\ UNCHANGED <<vars, servers, late, disturbed, held>>

\* The token is bound to the machine id of this request and signed with the
\* key of the process that happens to serve it.
ServeValidate(i, h) ==
  /\ Asks(h, "validate")
  /\ LET key == license_key[h] IN
       Reply(h, IF licenses[key] = None \/ key \notin registered
                THEN Refused
                ELSE Answered(BuildToken(token_key[i], call[h].machine, server_now, licenses[key])))
  /\ UNCHANGED <<vars, servers, late, disturbed, held>>

\* A store or a random source that fails: an error status, nothing changed.
ServeFails(h) ==
  /\ call[h].phase \in RequestPhases /\ answer[h] = None
  /\ Reply(h, Refused)
  /\ disturbed' = [disturbed EXCEPT ![h] = TRUE]
  /\ UNCHANGED <<vars, servers, late, held>>

-----------------------------------------------------------------------------
\* The admin surface, restarts, clocks.

CreateLicense(key, grant) ==
  /\ licenses[key] = None
  /\ licenses' = [licenses EXCEPT ![key] = grant]
  /\ granted' = granted \cup {<<key, grant>>}
  /\ Disturb
  /\ UNCHANGED <<vars, server_now, token_key, authority, registered, network, held>>

UpdateLicense(key, grant) ==
  /\ licenses[key] \notin {None, grant}
  /\ licenses' = [licenses EXCEPT ![key] = grant]
  /\ granted' = granted \cup {<<key, grant>>}
  /\ UNCHANGED <<vars, server_now, token_key, authority, registered, network,
                 disturbed, held>>

FreshKeys == IF ConfiguredKey # None THEN {ConfiguredKey}
             ELSE SigningKeys \ {token_key[j] : j \in Instances}

FreshAuthorities ==
  {ca \in Authorities : ca.since = server_now /\ \A j \in Instances : ca.root # authority[j].root}

\* Run: a new authority every time, a new key unless one is configured, and an
\* empty store unless there is a Postgres.  Its requests end with it: an answer
\* on its way may still arrive.
ServerRestart(i) ==
  /\ \E key \in FreshKeys : token_key' = [token_key EXCEPT ![i] = key]
  /\ \E ca \in FreshAuthorities : authority' = [authority EXCEPT ![i] = ca]
  /\ IF DurableStore THEN UNCHANGED <<licenses, registered>>
     ELSE licenses' = [key \in LicenseKeys |-> None] /\ registered' = {}
  /\ Disturb
  /\ UNCHANGED <<vars, server_now, granted, network, held>>

ServerClockMoves ==
  /\ server_now' \in Times \ {server_now}
  /\ Disturb
  /\ UNCHANGED <<vars, token_key, authority, licenses, registered, granted, network, held>>

-----------------------------------------------------------------------------
\* The client.

\* The answer arrives, and the client handles it as LicensifyClient says.
Receive(h) ==
  /\ answer[h] # None
  /\ \/ ~answer[h].ok /\ RequestFails(h)
     \/ /\ answer[h].ok
        /\ \/ TokenKeyAnswered(h, answer[h].body)
           \/ ActivateAnswered(h, answer[h].body)
           \/ CaRootAnswered(h, answer[h].body)
           \/ ValidateAnswered(h, answer[h].body)
  /\ Reply(h, None)
  /\ UNCHANGED <<servers, late, disturbed, held>>

\* An activate request given up before it was answered may still be served.
GivenUp(h) ==
  late' \in IF Asks(h, "activate") THEN {late, late \cup {license_key[h]}} ELSE {late}

\* Seeded fault: the connection is used again with the old answer still on it.
FaultyRequestLost(h) ==
  /\ RequestFails(h)
  /\ GivenUp(h)
  /\ disturbed' = [disturbed EXCEPT ![h] = TRUE]
  /\ UNCHANGED <<servers, answer, held>>

\* The 4 s are over or the connection broke: whatever comes is not looked at.
RequestLost(h) ==
  /\ RequestFails(h)
  /\ GivenUp(h)
  /\ Reply(h, None)
  /\ disturbed' = [disturbed EXCEPT ![h] = TRUE]
  /\ UNCHANGED <<servers, held>>

\* Calls begin and files are read and written without the server.
ClientAlone(h) ==
  /\ call[h].phase \notin RequestPhases
  /\ Starts(h) \/ LocalStep(h)
  /\ disturbed' = IF IsIdle(h) THEN [disturbed EXCEPT ![h] = FALSE] ELSE disturbed
  /\ held' = [g \in Handles |-> IF g = h /\ IsIdle(h) THEN CheckPasses(h) ELSE held[g] /\ g = h]
  /\ UNCHANGED <<servers, network>>

ClientRestart(h) ==
  /\ Restart(h)
  /\ GivenUp(h)
  /\ Reply(h, None)
  /\ LetGo
  /\ UNCHANGED <<servers, disturbed>>

ClientClockMoves ==
  /\ ClockMoves
  /\ Disturb /\ LetGo
  /\ UNCHANGED <<servers, network>>

ClientMachineChanges ==
  /\ MachineChanges
  /\ Disturb /\ LetGo
  /\ UNCHANGED <<servers, network>>

-----------------------------------------------------------------------------
SystemInit ==
  /\ Init
  /\ server_now \in Times
  /\ token_key \in [Instances -> IF ConfiguredKey = None THEN SigningKeys ELSE {ConfiguredKey}]
  /\ authority \in [Instances -> {ca \in Authorities : ca.since = server_now}]
  /\ \A i, j \in Instances : i # j =>
       /\ authority[i] # authority[j]
       /\ ConfiguredKey = None => token_key[i] # token_key[j]
  /\ licenses = [key \in LicenseKeys |-> None]
  /\ registered = {}
  /\ answer = [h \in Handles |-> None]
  /\ late = {}
  /\ granted = {}
  /\ disturbed = [h \in Handles |-> FALSE]
  /\ held = [h \in Handles |-> FALSE]

ServerNext ==
  \/ \E h \in Handles, i \in Instances :
       ServeTokenKey(i, h) \/ ServeActivate(i, h) \/ ServeCaRoot(i, h) \/ ServeValidate(i, h)
  \/ \E h \in Handles : ServeFails(h)
  \/ \E key \in LicenseKeys : ServeLate(key)
  \/ \E key \in LicenseKeys, grant \in Grants : CreateLicense(key, grant) \/ UpdateLicense(key, grant)
  \/ \E i \in Instances : ServerRestart(i)
  \/ ServerClockMoves

ClientNext ==
  \/ \E h \in Handles : Receive(h) \/ RequestLost(h) \/ ClientAlone(h) \/ ClientRestart(h)
  \/ ClientClockMoves
  \/ ClientMachineChanges

SystemNext == ServerNext \/ ClientNext

SystemSpec == SystemInit /\ [][SystemNext]_system_vars

-----------------------------------------------------------------------------
\* What may be on its way to h: an answer to what h asks now.
Answers(h) ==
  {None, Refused} \cup
  [ok: {TRUE},
   body: CASE At(h, "token_key") -> SigningKeys
           [] At(h, "activate") -> Leaf
           [] At(h, "ca") -> Authorities
           [] At(h, "validate") -> {t \in Token : t.machine = call[h].machine}
           [] OTHER -> {}]

\* Every variable keeps to its domain, and no answer outlives the request it
\* answers (lib.rs:170-240).
SystemTypeOK ==
  /\ server_now \in Times
  /\ token_key \in [Instances -> SigningKeys]
  /\ authority \in [Instances -> Authorities]
  /\ licenses \in [LicenseKeys -> Grants \cup {None}]
  /\ registered \subseteq LicenseKeys
  /\ \A h \in Handles : answer[h] \in Answers(h)
  /\ late \subseteq LicenseKeys
  /\ granted \subseteq LicenseKeys \X Grants
  /\ disturbed \in [Handles -> BOOLEAN]
  /\ held \in [Handles -> BOOLEAN]

\* The server gives the client no more than LicensifyClient expects of one:
\* whatever its processes do, restart and lose, the client behaves as that
\* module says, and all that is proved there holds here (server.go:80-216).
ClientSafety == Safety

\* An activation that reports signed entitlements reports some the vendor gave
\* to the very key the user entered, and no check() surfaces any that were
\* never given (server.go:199-211; lib.rs:165-257, 298-303).
OnlineMeansGranted ==
  \A h \in Handles :
    /\ result[h] = "online" => <<license_key[h], entitlements_cache[h]>> \in granted
    /\ entitlements_cache[h] \in Grants =>
         \E key \in LicenseKeys : <<key, entitlements_cache[h]>> \in granted

\* Neither the leaf nor the token is refused for its dates.
ClocksAgree ==
  /\ now >= server_now - ClockSkew /\ now >= server_now - LeafBackdate
  /\ now <= server_now + TokenTTL + ClockSkew /\ now <= server_now + LeafTTL

\* Nor are the root and the intermediate of a process, which begin an hour before
\* it started and last ten years (ca.go:47, 72-73).
AuthoritiesInForce == \A i \in Instances : InForce(authority[i], now)

\* The four requests of an activation fit together: if the key has a license
\* and nothing befalls the exchange -- no lost answer, restart, outage or clock
\* change -- then no step of it is refused by either side, as long as the clocks
\* agree and are not set back to before the process was started, whatever
\* happened in earlier exchanges and to other keys (lib.rs:175-251;
\* server.go:165-216; cert.rs:51-53).
FailsOnlyIfDisturbed ==
  [][\A h \in Handles :
       call[h].phase \in RequestPhases /\ result'[h] = "local" /\ ~disturbed'[h] =>
         licenses[license_key[h]] = None \/ ~ClocksAgree \/ ~AuthoritiesInForce]_system_vars

\* What an activation that falls back can cost (lib.rs:149-162): a license that
\* check() accepted all the while is accepted afterwards too, unless the exchange
\* replaced the token key (lib.rs:187), emptied the cache (lib.rs:253), or wrote
\* a token that is too old for the marker it then could not write (lib.rs:254).
\* What it wrote is never too new, expired or another machine's.
ReactivationLosesOnlyBy ==
  [][\A h \in Handles :
       ~IsIdle(h) /\ result'[h] = "local" /\ held[h] =>
         \/ CheckPasses(h)'
         \/ cache_file' = None
         \/ cache_file'.token.key # config'[h].server_public_key
         \/ TooOld(cache_file'.token, seen_file')]_system_vars

-----------------------------------------------------------------------------
\* The Store interface behind the handlers: a license by its key, and whether an
\* activation has registered it.
Entry(key) ==
  IF licenses[key] = None THEN None
  ELSE [key_hash |-> key, content |-> licenses[key],
        registration |-> IF key \in registered THEN "opaque" ELSE None]

Registry == INSTANCE LicenseRegistry
  WITH licenses <- [key \in LicenseKeys |-> Entry(key)],
       Ids <- LicenseKeys, Keys <- LicenseKeys, Contents <- Grants, Uploads <- {"opaque"}

ASSUME NoneIsNoEntry == None \notin Registry!License

\* A store in the memory of a process is gone with it.
Emptied == ~DurableStore /\ \A key \in LicenseKeys : Entry(key)' = None

\* What the vendor administers is one registry (db/store.go:14-26), whichever
\* process serves a request, however late and after however many restarts: no
\* activation registers what has no license, and a registration is neither
\* dropped nor moved to another license by a change of entitlements
\* (server.go:134-197).  Without a Postgres it may be emptied, but a request that
\* outlived it brings nothing back (run.go:61-77).
StoreIsRegistry ==
  Registry!Init /\ [][Registry!Next \/ Emptied]_<<licenses, registered>>
=============================================================================
