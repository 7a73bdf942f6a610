---------------------------- MODULE PostgresStore ----------------------------
(***************************************************************************)
(* The Postgres store (server/internal/db/pgstore.go): the start of server *)
(* processes against one database, and the requests they serve from it.    *)
(*                                                                         *)
(* A process finds the table, or runs the migration.  pgx sends it without *)
(* arguments and so as one simple query, which Postgres runs as one        *)
(* transaction: it holds the new catalog entries until it ends, and any    *)
(* other process that creates the same table waits for it.                 *)
(*                                                                         *)
(* A request is one or two statements, each atomic.  A process or its      *)
(* connection may break at any moment: a statement that was carried out    *)
(* may go unanswered.  Reads alone change nothing and are left out.        *)
(***************************************************************************)
CONSTANTS
  Instances,  \* server processes with one DATABASE_URL
  Requests,   \* requests under way
  Ids,        \* uuids of licenses
  Keys,       \* license keys, standing for their hashes
  Uploads,    \* non-empty registration uploads
  None

ASSUME PostgresAssumption == None \notin Instances \cup Uploads \cup Ids \cup BOOLEAN

VARIABLES
  schema,     \* the tables of 000001_init.sql are there
  migrating,  \* the process whose transaction creates them, or None
  licenses,   \* licenses[id]: the row, or None
  process,    \* process[i]: how far the start of i has come
  request     \* request[r]: the handler r runs, or how it last answered

database == <<schema, migrating, licenses>>
vars == <<database, process, request>>

\* Of what an update may change, a row keeps `revoked` as its content.
License == [key_hash: Keys, content: BOOLEAN, registration: Uploads \cup {None}]

ASSUME NoneIsNoRow == None \notin License

Starting == {"probe", "migrate", "create", "commit"}
Free == {"idle", "created", "activated"}

Stored == {id \in Ids : licenses[id] # None}

NoRequest == [phase |-> "idle", at |-> None, id |-> None, content |-> FALSE,
              got |-> FALSE, said |-> None]

Answer(r, phase, id) == request' = [request EXCEPT ![r] = [NoRequest EXCEPT !.phase = phase, !.id = id]]

\* No answer, or an error.
Fail(r) == request' = [request EXCEPT ![r] = NoRequest]

MayServe(r, i) == request[r].phase \in Free /\ process[i] = "serving"

-----------------------------------------------------------------------------
\* NewPgStore and ensureSchema, up to the listener of Run.

Start(i) ==
  /\ process[i] = "down"
  /\ process' = [process EXCEPT ![i] = "probe"]
  /\ UNCHANGED <<database, request>>

\* Seeded fault: the answer of the probe is not looked at.
FaultyProbe(i) ==
  /\ process[i] = "probe"
  /\ process' = [process EXCEPT ![i] = "serving"]
  /\ UNCHANGED <<database, request>>

\* select to_regclass('public.licenses')
Probe(i) ==
  /\ process[i] = "probe"
  /\ process' = [process EXCEPT ![i] = IF schema THEN "serving" ELSE "migrate"]
  /\ UNCHANGED <<database, request>>

\* CREATE TABLE IF NOT EXISTS looks whether there is a table, ...
CreateIfNotExists(i) ==
  /\ process[i] = "migrate"
  /\ process' = [process EXCEPT ![i] = IF schema THEN "serving" ELSE "create"]
  /\ UNCHANGED <<database, request>>

\* ... and enters a new one, when nobody else has an uncommitted one there.  If
\* that one was committed in between it is a duplicate, and Run returns.
CreateTables(i) ==
  /\ process[i] = "create" /\ migrating = None
  /\ IF schema
     THEN /\ process' = [process EXCEPT ![i] = "down"]
          /\ UNCHANGED migrating
     ELSE /\ process' = [process EXCEPT ![i] = "commit"]
          /\ migrating' = i
  /\ UNCHANGED <<schema, licenses, request>>

\* Seeded fault: the migration runs in a transaction of its own, and nobody
\* commits it.
FaultyMigrationCommits(i) ==
  /\ process[i] = "commit"
  /\ process' = [process EXCEPT ![i] = "serving"]
  /\ UNCHANGED <<database, request>>

MigrationCommits(i) ==
  /\ process[i] = "commit"
  /\ schema' = TRUE
  /\ migrating' = None
  /\ process' = [process EXCEPT ![i] = "serving"]
  /\ UNCHANGED <<licenses, request>>

\* The start fails or the process dies.  Postgres rolls back what it had begun,
\* and its requests are not answered.
Exit(i) ==
  /\ process[i] # "down"
  /\ process' = [process EXCEPT ![i] = "down"]
  /\ migrating' = IF migrating = i THEN None ELSE migrating
  /\ request' = [r \in Requests |-> IF request[r].at = i THEN NoRequest ELSE request[r]]
  /\ UNCHANGED <<schema, licenses>>

-----------------------------------------------------------------------------
\* POST /v1/license.

\* Seeded fault: key_hash is not UNIQUE.
FaultyKeyIsFree(key) == TRUE

KeyIsFree(key) == \A id \in Stored : licenses[id].key_hash # key

\* Seeded fault: the error of the insert is dropped.
FaultyCreateLicense(r, i, key) ==
  /\ MayServe(r, i)
  /\ \E id \in Ids \ Stored :
       /\ IF KeyIsFree(key)
          THEN licenses' \in {licenses, [licenses EXCEPT ![id] =
                 [key_hash |-> key, content |-> FALSE, registration |-> None]]}
          ELSE UNCHANGED licenses
       /\ Answer(r, "created", id)
  /\ UNCHANGED <<schema, migrating, process>>

\* The insert, under a fresh uuid; key_hash is UNIQUE.
CreateLicense(r, i, key) ==
  /\ MayServe(r, i)
  /\ KeyIsFree(key)
  /\ \E id \in Ids \ Stored :
       /\ licenses' = [licenses EXCEPT ![id] =
            [key_hash |-> key, content |-> FALSE, registration |-> None]]
       /\ Answer(r, "created", id) \/ Fail(r)
  /\ UNCHANGED <<schema, migrating, process>>

-----------------------------------------------------------------------------
\* PUT /v1/license/:id: a select, Bind into the copy, an update.

\* Seeded fault: the body is bound to a new License.
FaultyBound(row, said) == said = TRUE

\* A body that does not name the field leaves it as it was read.
Bound(row, said) == IF said = None THEN row.content ELSE said

UpdateGet(r, i, id, said) ==
  /\ MayServe(r, i)
  /\ id \in Stored
  /\ request' = [request EXCEPT ![r] =
       [phase |-> "update", at |-> i, id |-> id, content |-> Bound(licenses[id], said),
        got |-> licenses[id].content, said |-> said]]
  /\ UNCHANGED <<database, process>>

\* The update names the columns that came with the body, and no other.
UpdateStore(r) ==
  /\ request[r].phase = "update"
  /\ licenses' = [licenses EXCEPT ![request[r].id].content = request[r].content]
  /\ Fail(r)
  /\ UNCHANGED <<schema, migrating, process>>

-----------------------------------------------------------------------------
\* POST /v1/activate: a select by key, then the registration.

\* Seeded fault: the error of the select is dropped.
FaultyResolve(r, i, key) ==
  /\ MayServe(r, i)
  /\ \E id \in Ids :
       /\ id \in Stored => licenses[id].key_hash = key
       /\ request' = [request EXCEPT ![r] =
            [NoRequest EXCEPT !.phase = "register", !.at = i, !.id = id]]
  /\ UNCHANGED <<database, process>>

Resolve(r, i, key) ==
  /\ MayServe(r, i)
  /\ \E id \in Stored :
       /\ licenses[id].key_hash = key
       /\ request' = [request EXCEPT ![r] =
            [NoRequest EXCEPT !.phase = "register", !.at = i, !.id = id]]
  /\ UNCHANGED <<database, process>>

\* An update of no row would be answered like any other.
StoreOpaqueRecord(r, upload) ==
  /\ request[r].phase = "register"
  /\ LET id == request[r].id IN
       /\ licenses' = IF id \in Stored THEN [licenses EXCEPT ![id].registration = upload]
                      ELSE licenses
       /\ Answer(r, "activated", id) \/ Fail(r)
  /\ UNCHANGED <<schema, migrating, process>>

\* A statement that is not carried out, a duplicate key, an empty upload.
RequestFails(r) ==
  /\ request[r] # NoRequest
  /\ Fail(r)
  /\ UNCHANGED <<database, process>>

-----------------------------------------------------------------------------
Init ==
  /\ schema = FALSE
  /\ migrating = None
  /\ licenses = [id \in Ids |-> None]
  /\ process = [i \in Instances |-> "down"]
  /\ request = [r \in Requests |-> NoRequest]

\* A start goes on by itself.
Boots(i) == Probe(i) \/ CreateIfNotExists(i) \/ MigrationCommits(i)

Serves(r) ==
  \/ \E i \in Instances, key \in Keys : CreateLicense(r, i, key) \/ Resolve(r, i, key)
  \/ \E i \in Instances, id \in Ids, said \in BOOLEAN \cup {None} : UpdateGet(r, i, id, said)
  \/ UpdateStore(r)
  \/ \E upload \in Uploads : StoreOpaqueRecord(r, upload)
  \/ RequestFails(r)

Next ==
  \/ \E i \in Instances : Start(i) \/ Boots(i) \/ CreateTables(i) \/ Exit(i)
  \/ \E r \in Requests : Serves(r)

Safety == Init /\ [][Next]_vars

\* A process that keeps running goes on with its start, and Postgres lets the
\* sessions that wait for a catalog entry have it in turn.
Fairness == \A i \in Instances : WF_vars(Boots(i)) /\ SF_vars(CreateTables(i))

Spec == Safety /\ Fairness

-----------------------------------------------------------------------------
Request ==
  [phase: Free \cup {"update", "register"}, at: Instances \cup {None}, id: Ids \cup {None},
   content: BOOLEAN, got: BOOLEAN, said: BOOLEAN \cup {None}]

\* Variables keep to their domains; a handler between two statements belongs to
\* a process that serves, and is about a row that is there.
TypeOK ==
  /\ schema \in BOOLEAN
  /\ migrating \in Instances \cup {None}
  /\ licenses \in [Ids -> License \cup {None}]
  /\ process \in [Instances -> Starting \cup {"down", "serving"}]
  /\ request \in [Requests -> Request]
  /\ \A r \in Requests : request[r].phase \in {"update", "register"} =>
       /\ request[r].at \in Instances /\ process[request[r].at] = "serving"
       /\ request[r].id \in Stored

\* However the starts of several processes interleave and fail, one that serves
\* finds its tables, and only one process ever creates them
\* (pgstore.go:44-73, 000001_init.sql).
ServingMeansSchema ==
  /\ \A i \in Instances : process[i] = "serving" => schema
  /\ \A i \in Instances : process[i] = "commit" => migrating = i /\ ~schema

\* What was acknowledged is there from then on, whichever process answered and
\* whatever happened to it since: a created license, and for an activation its
\* registration too (pgstore.go:81-90, 140-144; server.go:120-123, 175-186).
AcknowledgedIsKept ==
  \A r \in Requests :
    /\ request[r].phase = "created" => request[r].id \in Stored
    /\ request[r].phase = "activated" =>
         request[r].id \in Stored /\ licenses[request[r].id].registration # None

\* A revocation is undone only by an update that says so, or by one that read
\* the row before it was revoked, in this process or another: no transaction
\* spans the two statements (server.go:134-148, pgstore.go:126-138).
RevocationUndoneOnlyBy ==
  [][\A id \in Stored : licenses[id].content /\ ~licenses'[id].content =>
       \E r \in Requests :
         /\ request[r].phase = "update" /\ request[r].id = id
         /\ request[r].said = FALSE \/ ~request[r].got]_vars

Registry == INSTANCE LicenseRegistry WITH Contents <- BOOLEAN

\* The second implementation of the Store interface keeps the promises the
\* first keeps, through statements that are carried out and go unanswered, and
\* through the death of any process (store.go:16-25, pgstore.go:81-158).
ImplementsRegistry == Registry!Spec

\* Every start comes to its end, with a server or without one, also when
\* another process holds the migration and dies in it (pgstore.go:57-73).
StartsEnd ==
  \A i \in Instances : process[i] \in Starting ~> process[i] \in {"serving", "down"}
=============================================================================
