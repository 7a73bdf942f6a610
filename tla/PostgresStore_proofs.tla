------------------------- MODULE PostgresStore_proofs -------------------------
(***************************************************************************)
(* Theorems about PostgresStore, for any number of processes, requests and *)
(* licenses.                                                               *)
(***************************************************************************)
EXTENDS PostgresStore, TLAPS

\* What an update is about to write is what the body says, or what was read.
CopiesOK ==
  \A r \in Requests : request[r].phase = "update" =>
    request[r].content = IF request[r].said = None THEN request[r].got ELSE request[r].said

\* No two rows have one key.
KeysOK ==
  \A i, j \in Stored : licenses[i].key_hash = licenses[j].key_hash => i = j

Inv == TypeOK /\ ServingMeansSchema /\ AcknowledgedIsKept /\ CopiesOK

-----------------------------------------------------------------------------
LEMMA NoRequestIsARequest ==
  /\ NoRequest \in Request
  /\ NoRequest.phase = "idle"
  BY DEF NoRequest, Request, Free

\* A row that is there has all its columns.
LEMMA StoredIsTyped ==
  ASSUME TypeOK, NEW id \in Stored
  PROVE  licenses[id] \in License
  BY DEF TypeOK, Stored

\* The start of a process and its end (pgstore.go:44-73).
LEMMA ProcessesKeepInv ==
  ASSUME Inv, NEW i \in Instances, Start(i) \/ Boots(i) \/ CreateTables(i) \/ Exit(i)
  PROVE  Inv'
<1> USE DEF Inv
<1>1. TypeOK'
  <2>1. CASE Exit(i)
    BY <2>1, NoRequestIsARequest DEF Exit, TypeOK, Stored, Free
  <2>2. CASE ~Exit(i)
    BY <2>2 DEF Start, Boots, Probe, CreateIfNotExists, MigrationCommits, CreateTables, TypeOK,
               Starting, Stored, database
  <2> QED BY <2>1, <2>2
<1>2. ServingMeansSchema'
  BY PostgresAssumption
     DEF Start, Boots, Probe, CreateIfNotExists, MigrationCommits, CreateTables, Exit, TypeOK,
         ServingMeansSchema, database
<1>3. AcknowledgedIsKept' /\ CopiesOK'
  <2>1. \A r \in Requests : request'[r] = request[r] \/ request'[r] = NoRequest
    BY DEF Start, Boots, Probe, CreateIfNotExists, MigrationCommits, CreateTables, Exit, TypeOK
  <2>2. UNCHANGED licenses
    BY DEF Start, Boots, Probe, CreateIfNotExists, MigrationCommits, CreateTables, Exit, database
  <2> QED BY <2>1, <2>2, NoRequestIsARequest DEF AcknowledgedIsKept, CopiesOK, Stored
<1> QED BY <1>1, <1>2, <1>3

\* A request that ends, acknowledged or not.
LEMMA AnswersKeepInv ==
  ASSUME Inv, NEW r \in Requests, UNCHANGED <<schema, migrating, process>>,
         licenses' \in [Ids -> License \cup {None}],
         \A id \in Stored : licenses'[id] \in License,
         \A id \in Stored : licenses[id].registration # None => licenses'[id].registration # None,
         \/ Fail(r)
         \/ \E id \in Ids :
              /\ licenses'[id] \in License
              /\ \/ Answer(r, "created", id)
                 \/ Answer(r, "activated", id) /\ licenses'[id].registration # None
  PROVE  Inv'
<1> USE DEF Inv
<1>1. \A id \in Ids : licenses'[id] \in License => id \in Stored'
  BY NoneIsNoRow DEF Stored
<1>2. \A q \in Requests \ {r} : request'[q] = request[q]
  BY DEF Fail, Answer, TypeOK
<1>3. /\ request' \in [Requests -> Request]
      /\ request'[r].phase \in Free
      /\ request'[r].phase = "created" => request'[r].id \in Stored'
      /\ request'[r].phase = "activated" =>
           request'[r].id \in Stored' /\ licenses'[request'[r].id].registration # None
  <2>1. CASE Fail(r)
    BY <2>1, NoRequestIsARequest DEF Fail, TypeOK, Free
  <2>2. ASSUME NEW id \in Ids, NEW p \in {"created", "activated"}, Answer(r, p, id)
        PROVE  /\ request' \in [Requests -> Request]
               /\ request'[r].phase = p /\ request'[r].id = id
    BY <2>2 DEF Answer, NoRequest, Request, TypeOK, Free
  <2> QED BY <1>1, <2>1, <2>2 DEF Free
<1>4. TypeOK'
  BY <1>1, <1>2, <1>3, NoneIsNoRow DEF TypeOK, Free, Stored
<1>5. ServingMeansSchema'
  BY DEF ServingMeansSchema
<1>6. AcknowledgedIsKept'
  BY <1>1, <1>2, <1>3 DEF AcknowledgedIsKept, Stored
<1>7. CopiesOK'
  BY <1>2, <1>3 DEF CopiesOK, Free
<1> QED BY <1>4, <1>5, <1>6, <1>7

\* A handler between its two statements (server.go:134-138, 150-163).
LEMMA ReadsKeepInv ==
  ASSUME Inv, NEW r \in Requests, NEW i \in Instances,
         \/ \E key : Resolve(r, i, key)
         \/ \E id \in Ids, said \in BOOLEAN \cup {None} : UpdateGet(r, i, id, said)
  PROVE  Inv'
<1> USE DEF Inv
<1>1. UNCHANGED <<database, process>> /\ process[i] = "serving"
  BY DEF Resolve, UpdateGet, MayServe
<1>2. \A q \in Requests \ {r} : request'[q] = request[q]
  BY DEF Resolve, UpdateGet, TypeOK
<1>3. /\ request' \in [Requests -> Request]
      /\ request'[r].phase \in {"update", "register"}
      /\ request'[r].at = i /\ request'[r].id \in Stored
      /\ request'[r].phase = "update" =>
           request'[r].content = IF request'[r].said = None THEN request'[r].got
                                 ELSE request'[r].said
  <2>1. CASE \E key : Resolve(r, i, key)
    <3>1. PICK id \in Stored : request' = [request EXCEPT ![r] =
                 [NoRequest EXCEPT !.phase = "register", !.at = i, !.id = id]]
      BY <2>1 DEF Resolve
    <3>2. [NoRequest EXCEPT !.phase = "register", !.at = i, !.id = id] \in Request
      BY DEF NoRequest, Request, Stored
    <3> QED BY <3>1, <3>2 DEF TypeOK, NoRequest
  <2>2. ASSUME NEW id \in Ids, NEW said \in BOOLEAN \cup {None}, UpdateGet(r, i, id, said)
        PROVE  /\ request' \in [Requests -> Request]
               /\ request'[r].phase = "update"
               /\ request'[r].at = i /\ request'[r].id \in Stored
               /\ request'[r].content = IF request'[r].said = None THEN request'[r].got
                                        ELSE request'[r].said
    <3>1. licenses[id].content \in BOOLEAN /\ Bound(licenses[id], said) \in BOOLEAN
      BY <2>2, StoredIsTyped DEF UpdateGet, License, Bound
    <3> QED BY <2>2, <3>1 DEF UpdateGet, TypeOK, Request, Stored, Bound
  <2> QED BY <2>1, <2>2
<1>4. TypeOK'
  BY <1>1, <1>2, <1>3 DEF TypeOK, Stored, database
<1>5. ServingMeansSchema'
  BY <1>1 DEF ServingMeansSchema, database
<1>6. AcknowledgedIsKept' /\ CopiesOK'
  BY <1>1, <1>2, <1>3 DEF AcknowledgedIsKept, CopiesOK, Stored, database
<1> QED BY <1>4, <1>5, <1>6

\* The second statement, or the only one (pgstore.go:81-144).
LEMMA WritesKeepInv ==
  ASSUME Inv, NEW r \in Requests,
         \/ \E i \in Instances, key \in Keys : CreateLicense(r, i, key)
         \/ UpdateStore(r)
         \/ \E upload \in Uploads : StoreOpaqueRecord(r, upload)
         \/ RequestFails(r)
  PROVE  Inv'
<1>1. TypeOK /\ \A id \in Stored : licenses[id] \in License
  BY StoredIsTyped DEF Inv
<1>2. \A id \in Ids : licenses[id] \in License => id \in Stored
  BY NoneIsNoRow DEF Stored
<1>3. ASSUME NEW i \in Instances, NEW key \in Keys, CreateLicense(r, i, key) PROVE Inv'
  <2> DEFINE row == [key_hash |-> key, content |-> FALSE, registration |-> None]
  <2>1. PICK id \in Ids \ Stored :
          /\ licenses' = [licenses EXCEPT ![id] = row]
          /\ Answer(r, "created", id) \/ Fail(r)
    BY <1>3 DEF CreateLicense
  <2>2. row \in License
    BY DEF License
  <2> QED BY <1>1, <1>3, <2>1, <2>2, AnswersKeepInv DEF CreateLicense, TypeOK, Stored
<1>4. CASE UpdateStore(r)
  <2> DEFINE id == request[r].id
             row == [licenses[id] EXCEPT !.content = request[r].content]
  <2>1. id \in Stored /\ request[r].content \in BOOLEAN
    BY <1>1, <1>4 DEF UpdateStore, TypeOK, Request
  <2>2. licenses' = [licenses EXCEPT ![id] = row] /\ Fail(r)
    BY <1>4 DEF UpdateStore
  <2>3. row \in License /\ row.registration = licenses[id].registration
    BY <1>1, <2>1 DEF License
  <2> HIDE DEF id, row
  <2> QED BY <1>1, <1>4, <2>1, <2>2, <2>3, AnswersKeepInv DEF UpdateStore, TypeOK, Stored
<1>5. ASSUME NEW upload \in Uploads, StoreOpaqueRecord(r, upload) PROVE Inv'
  <2> DEFINE id == request[r].id
             row == [licenses[id] EXCEPT !.registration = upload]
  <2>1. id \in Stored /\ upload # None
    BY <1>1, <1>5, PostgresAssumption DEF StoreOpaqueRecord, TypeOK
  <2>2. licenses' = [licenses EXCEPT ![id] = row] /\ (Answer(r, "activated", id) \/ Fail(r))
    BY <1>5, <2>1 DEF StoreOpaqueRecord
  <2>3. row \in License /\ row.registration = upload
    BY <1>1, <2>1 DEF License
  <2> HIDE DEF id, row
  <2>4. \A other \in Stored : /\ licenses'[other] \in License
                              /\ licenses[other].registration # None => licenses'[other].registration # None
    BY <1>1, <2>1, <2>2, <2>3 DEF TypeOK, Stored
  <2>5. licenses'[id] = row /\ licenses' \in [Ids -> License \cup {None}] /\ id \in Ids
    BY <1>1, <2>1, <2>2, <2>3 DEF TypeOK, Stored
  <2> QED BY <1>5, <2>1, <2>2, <2>3, <2>4, <2>5, AnswersKeepInv DEF StoreOpaqueRecord
<1>6. CASE RequestFails(r)
  BY <1>1, <1>6, AnswersKeepInv DEF RequestFails, TypeOK, Stored, database
<1> QED BY <1>3, <1>4, <1>5, <1>6

LEMMA NextKeepsInv == Inv /\ [Next]_vars => Inv'
<1> SUFFICES ASSUME Inv, [Next]_vars PROVE Inv'
  OBVIOUS
<1>1. CASE UNCHANGED vars
  BY <1>1 DEF Inv, TypeOK, ServingMeansSchema, AcknowledgedIsKept, CopiesOK, Stored, vars, database
<1>2. ASSUME NEW r \in Requests, Serves(r) PROVE Inv'
  BY <1>2, ReadsKeepInv, WritesKeepInv DEF Serves
<1> QED BY <1>1, <1>2, ProcessesKeepInv DEF Next

LEMMA InvIsInvariant == Spec => []Inv
<1>1. Init => Inv
  BY NoRequestIsARequest, PostgresAssumption
     DEF Init, Inv, TypeOK, ServingMeansSchema, AcknowledgedIsKept, CopiesOK, Stored, Free, Starting
<1> QED BY <1>1, NextKeepsInv, PTL DEF Spec, Safety

-----------------------------------------------------------------------------
\* Variables keep to their domains, and a handler between two statements is
\* about a row that is there.
THEOREM PostgresTypeCorrect == Spec => []TypeOK
  BY InvIsInvariant, PTL DEF Inv

\* A process that serves finds its tables (pgstore.go:44-73).
THEOREM ServersFindTables == Spec => []ServingMeansSchema
  BY InvIsInvariant, PTL DEF Inv

\* Acknowledged licenses and registrations are there (pgstore.go:81-90, 140-144).
THEOREM AcknowledgedStays == Spec => []AcknowledgedIsKept
  BY InvIsInvariant, PTL DEF Inv

\* A revocation is undone only by an update that says so, or by one that read
\* the row before it was revoked (server.go:134-148, pgstore.go:126-138).
THEOREM RevocationsAreUndoneOnlyBy == Spec => RevocationUndoneOnlyBy
<1> DEFINE Claim == \A id \in Stored : licenses[id].content /\ ~licenses'[id].content =>
                      \E r \in Requests :
                        /\ request[r].phase = "update" /\ request[r].id = id
                        /\ request[r].said = FALSE \/ ~request[r].got
<1>1. Inv /\ [Next]_vars => [Claim]_vars
  <2> SUFFICES ASSUME Inv, Next, NEW id \in Stored, licenses[id].content, ~licenses'[id].content
               PROVE  \E r \in Requests :
                        /\ request[r].phase = "update" /\ request[r].id = id
                        /\ request[r].said = FALSE \/ ~request[r].got
    OBVIOUS
  <2>1. licenses' # licenses
    OBVIOUS
  <2>2. licenses \in [Ids -> License \cup {None}] /\ id \in Ids
    BY DEF Inv, TypeOK, Stored
  <2>3. PICK r \in Requests : Serves(r)
    BY <2>1 DEF Next, Start, Boots, Probe, CreateIfNotExists, MigrationCommits, CreateTables, Exit, database
  <2>4. ~ \E i \in Instances, key \in Keys : CreateLicense(r, i, key)
    BY <2>2 DEF CreateLicense, Stored
  <2>5. ~ \E upload \in Uploads : StoreOpaqueRecord(r, upload)
    <3> SUFFICES ASSUME NEW upload \in Uploads, StoreOpaqueRecord(r, upload) PROVE FALSE
      OBVIOUS
    <3>1. licenses'[id].content = licenses[id].content
      BY <2>2, StoredIsTyped DEF StoreOpaqueRecord, Inv, License
    <3> QED BY <3>1
  <2>6. UpdateStore(r)
    BY <2>1, <2>3, <2>4, <2>5 DEF Serves, Resolve, UpdateGet, RequestFails, database
  <2>7. request[r].phase = "update" /\ request[r].id = id /\ ~request[r].content
    <3>1. licenses[id] \in License
      BY StoredIsTyped DEF Inv
    <3> QED BY <2>2, <2>6, <3>1 DEF UpdateStore, License
  <2>8. request[r] \in Request
    BY DEF Inv, TypeOK
  <2> QED BY <2>7, <2>8 DEF Inv, CopiesOK, Request
<1> QED BY <1>1, InvIsInvariant, PTL DEF Spec, Safety, RevocationUndoneOnlyBy

\* The Postgres store implements the Store interface (store.go:16-25,
\* pgstore.go:81-158).
THEOREM PostgresImplementsRegistry == Spec => ImplementsRegistry
<1>1. Init => Registry!Init
  BY DEF Init, Registry!Init
<1>2. Inv /\ Inv' /\ [Next]_vars => [Registry!Next]_licenses
  <2> SUFFICES ASSUME Inv, Inv', Next, licenses' # licenses PROVE Registry!Next
    BY DEF vars, database
  <2>1. licenses \in [Ids -> License \cup {None}] /\ licenses' \in [Ids -> License \cup {None}]
    BY DEF Inv, TypeOK
  <2>2. \A id \in Stored : licenses[id] \in License
    BY StoredIsTyped DEF Inv
  <2>3. PICK r \in Requests : Serves(r)
    BY DEF Next, Start, Boots, Probe, CreateIfNotExists, MigrationCommits, CreateTables, Exit, database
  <2> SUFFICES \E id \in Ids :
                 /\ Registry!OnlyOf(id)
                 /\ \/ \E key \in Keys, content \in BOOLEAN : Registry!Create(id, key, content)
                    \/ \E content \in BOOLEAN : Registry!Update(id, content)
                    \/ \E upload \in Uploads : Registry!StoreOpaqueRecord(id, upload)
    BY <2>1 DEF Registry!Next, License, Registry!License
  <2>4. ASSUME NEW i \in Instances, NEW key \in Keys, CreateLicense(r, i, key)
        PROVE  \E id \in Ids : Registry!OnlyOf(id) /\ Registry!Create(id, key, FALSE)
    <3>1. PICK id \in Ids \ Stored : licenses' = [licenses EXCEPT ![id] =
                 [key_hash |-> key, content |-> FALSE, registration |-> None]]
      BY <2>4 DEF CreateLicense
    <3>2. \A other \in Ids : licenses[other] # None => licenses[other].key_hash # key
      BY <2>4 DEF CreateLicense, KeyIsFree, Stored
    <3> QED BY <2>1, <3>1, <3>2 DEF Registry!OnlyOf, Registry!Create, Stored
  <2>5. CASE UpdateStore(r)
    <3>1. request[r].id \in Stored /\ request[r].content \in BOOLEAN
      BY <2>5 DEF UpdateStore, Inv, TypeOK, Request
    <3> QED BY <2>1, <2>2, <2>5, <3>1
            DEF UpdateStore, Registry!OnlyOf, Registry!Update, Stored
  <2>6. ASSUME NEW upload \in Uploads, StoreOpaqueRecord(r, upload)
        PROVE  \E id \in Ids : Registry!OnlyOf(id) /\ Registry!StoreOpaqueRecord(id, upload)
    <3>1. request[r].id \in Stored
      BY <2>6 DEF StoreOpaqueRecord, Inv, TypeOK
    <3> QED BY <2>1, <2>6, <3>1
            DEF StoreOpaqueRecord, Registry!OnlyOf, Registry!StoreOpaqueRecord, Stored
  <2> QED BY <2>3, <2>4, <2>5, <2>6 DEF Serves, Resolve, UpdateGet, RequestFails, database
<1> QED BY <1>1, <1>2, InvIsInvariant, PTL DEF Spec, Safety, ImplementsRegistry, Registry!Spec
=============================================================================
