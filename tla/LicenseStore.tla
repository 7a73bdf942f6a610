----------------------------- MODULE LicenseStore -----------------------------
(***************************************************************************)
(* The in-memory store (server/internal/db/memstore.go) and the handlers   *)
(* of server/internal/api/server.go that go through it more than once:     *)
(* PUT /v1/license/:id, /v1/activate and /v1/validate.  Every request runs *)
(* in a goroutine of its own; a store method holds the mutex, and nothing  *)
(* is held between two of them, so requests interleave at store calls.     *)
(*                                                                         *)
(* A License is copied by value, but not what it points to.  Of its        *)
(* contents the model keeps one field of each sort: `revoked`, copied with *)
(* the struct, and `seat_count`, a pointer, shared between the stored      *)
(* record and every copy of it.  Cells are what such pointers point to.    *)
(***************************************************************************)
EXTENDS Integers

CONSTANTS
  Requests,    \* handler goroutines
  Ids,         \* uuids of licenses
  Keys,        \* license keys; a key stands for its SHA-256 as well
  Uploads,     \* non-empty opaque registration uploads
  SeatCounts,  \* values of entitlements.seat_count
  Cells,       \* addresses of allocated seat counts
  Bodies,      \* bodies of an update request
  None         \* nil, an empty record, an absent map entry

ASSUME StoreAssumption ==
  /\ None \notin Ids \cup Keys \cup Uploads \cup SeatCounts \cup Cells
  /\ SeatCounts # {}

\* A request body names some of the fields; None stands for one left out.
Body == [id: Ids \cup {None}, revoked: BOOLEAN \cup {None},
         seat_count: SeatCounts \cup {None, "null"}]

ASSUME BodiesAssumption == Bodies \subseteq Body

License ==
  [key_hash: Keys, opaque_record: Uploads \cup {None}, revoked: BOOLEAN,
   seat_count: Cells \cup {None}]

ASSUME NoneIsNoLicense == None \notin License

VARIABLES
  records,   \* MemStore.records
  opaque,    \* MemStore.opaque
  heap,      \* what each cell holds
  request    \* request[r]: the handler r runs, between two store calls

store == <<records, opaque>>
vars == <<records, opaque, heap, request>>

Idle == [phase |-> "idle", id |-> None, target |-> None, license |-> None,
         got |-> None, said |-> None]

At(r, phase) == request[r].phase = phase
Respond(r) == request' = [request EXCEPT ![r] = Idle]

Stored == {id \in Ids : records[id] # None}

\* Cells the program can still reach: one of the others is allocated next.
Reachable ==
  {records[id].seat_count : id \in Stored}
    \cup {request[r].license.seat_count : r \in {q \in Requests : request[q].license # None}}

MayAllocate == Cells \ Reachable # {}
NewCell == CHOOSE cell \in Cells : cell \notin Reachable

-----------------------------------------------------------------------------
\* POST /v1/license.  The whole of MemStore.Create is under the lock, and the
\* id is a fresh uuid.

KeyIsFree(key) == \A id \in Stored : records[id].key_hash # key

CreateLicense(key, seats) ==
  /\ KeyIsFree(key)
  /\ MayAllocate
  /\ \E id \in Ids \ Stored :
       records' = [records EXCEPT ![id] =
         [key_hash |-> key, opaque_record |-> None, revoked |-> FALSE,
          seat_count |-> IF seats = None THEN None ELSE NewCell]]
  /\ heap' = IF seats = None THEN heap ELSE [heap EXCEPT ![NewCell] = seats]
  /\ UNCHANGED <<opaque, request>>

-----------------------------------------------------------------------------
\* PUT /v1/license/:id: Get, Bind into the copy, Update.  `got` and `said`
\* remember, for the properties, `revoked` as read and as the body had it.

\* Seeded fault: the error of Get is dropped.
FaultyUpdateGet(r, id) ==
  /\ At(r, "idle")
  /\ request' = [request EXCEPT ![r] =
       [phase |-> "bind", id |-> id, target |-> id, license |-> records[id],
        got |-> IF id \in Stored THEN records[id].revoked ELSE FALSE, said |-> None]]
  /\ UNCHANGED <<store, heap>>

UpdateGet(r, id) ==
  /\ At(r, "idle")
  /\ id \in Stored
  /\ request' = [request EXCEPT ![r] =
       [phase |-> "bind", id |-> id, target |-> id,
        license |-> records[id], got |-> records[id].revoked, said |-> None]]
  /\ UNCHANGED <<store, heap>>

\* Seeded fault: the body is bound to a new License that takes over the rest.
FaultyBound(license, body) ==
  [license EXCEPT !.revoked = (body.revoked = TRUE)]

\* The copy after Bind.  The JSON decoder follows a pointer that is set and
\* writes where it points; it allocates only for a nil pointer.  key_hash and
\* opaque_record are not part of the JSON.
Bound(license, body) ==
  [license EXCEPT
     !.revoked = IF body.revoked = None THEN @ ELSE body.revoked,
     !.seat_count = IF body.seat_count = "null" THEN None
                    ELSE IF body.seat_count # None /\ @ = None THEN NewCell ELSE @]

\* The heap after Bind.
Written(license, body) ==
  IF body.seat_count \in SeatCounts
  THEN [heap EXCEPT ![IF license.seat_count = None THEN NewCell ELSE license.seat_count]
          = body.seat_count]
  ELSE heap

\* Seeded fault: an id in the body wins.
FaultyPathId(r, body) == IF body.id = None THEN request[r].id ELSE body.id

\* The handler then puts the id of the path back into the copy.  Bind may also
\* end in a type error, which answers 400 but leaves the fields it decoded.
PathId(r, body) == request[r].id

UpdateBind(r, body) ==
  /\ At(r, "bind")
  /\ MayAllocate
  /\ heap' = Written(request[r].license, body)
  /\ \/ request' = [request EXCEPT ![r].phase = "update",
          ![r].target = PathId(r, body), ![r].said = body.revoked,
          ![r].license = Bound(request[r].license, body)]
     \/ Respond(r)
  /\ UNCHANGED store

\* Seeded fault: the registration is taken from the copy as well.
FaultyUpdateStore(r) ==
  /\ At(r, "update")
  /\ LET id == request[r].target IN
       /\ records' = IF id \in Stored
                     THEN [records EXCEPT ![id] = request[r].license] ELSE records
       /\ opaque' = [opaque EXCEPT ![id] = request[r].license.opaque_record]
  /\ Respond(r)
  /\ UNCHANGED heap

\* MemStore.Update writes the copy wholesale, the mirrored registration too.
UpdateStore(r) ==
  /\ At(r, "update")
  /\ LET id == request[r].target IN
       records' = IF id \in Stored
                  THEN [records EXCEPT ![id] = request[r].license] ELSE records
  /\ Respond(r)
  /\ UNCHANGED <<opaque, heap>>

-----------------------------------------------------------------------------
\* POST /v1/activate and /v1/validate: resolve the license by its key, then go
\* to the registrations.  Neither looks at `revoked`.

Resolve(r, key, phase) ==
  /\ At(r, "idle")
  /\ \E id \in Stored :
       /\ records[id].key_hash = key
       /\ request' = [request EXCEPT ![r] =
            [Idle EXCEPT !.phase = phase, !.id = id, !.license = records[id]]]
  /\ UNCHANGED <<store, heap>>

\* auth.Register, then MemStore.StoreOpaqueRecord: the last machine wins.
\* Whether IssueLeaf succeeds afterwards changes nothing here.
Register(r, upload) ==
  /\ At(r, "register")
  /\ LET id == request[r].id IN
       /\ opaque' = [opaque EXCEPT ![id] = upload]
       /\ records' = IF id \in Stored
                     THEN [records EXCEPT ![id].opaque_record = upload] ELSE records
  /\ Respond(r)
  /\ UNCHANGED heap

\* An empty upload is refused.
RegisterRefused(r) ==
  /\ At(r, "register")
  /\ Respond(r)
  /\ UNCHANGED <<store, heap>>

\* Seeded fault: a missing registration is not an error.
FaultyStartLogin(r) ==
  /\ At(r, "login")
  /\ request' = [request EXCEPT ![r].phase = "sign"]
  /\ UNCHANGED <<store, heap>>

\* auth.StartLogin: without a registration, 401.
StartLogin(r) ==
  /\ At(r, "login")
  /\ IF opaque[request[r].id] = None
     THEN Respond(r)
     ELSE request' = [request EXCEPT ![r].phase = "sign"]
  /\ UNCHANGED <<store, heap>>

\* token.Build over the copy's entitlements; the token leaves in the answer.
SignToken(r) ==
  /\ At(r, "sign")
  /\ Respond(r)
  /\ UNCHANGED <<store, heap>>

-----------------------------------------------------------------------------
Init ==
  /\ records = [id \in Ids |-> None]
  /\ opaque = [id \in Ids |-> None]
  /\ heap \in [Cells -> {CHOOSE n \in SeatCounts : TRUE}]
  /\ request = [r \in Requests |-> Idle]

Next ==
  \/ \E key \in Keys, seats \in SeatCounts \cup {None} : CreateLicense(key, seats)
  \/ \E r \in Requests :
       \/ \E id \in Ids : UpdateGet(r, id)
       \/ \E body \in Bodies : UpdateBind(r, body)
       \/ UpdateStore(r)
       \/ \E key \in Keys : Resolve(r, key, "register") \/ Resolve(r, key, "login")
       \/ \E upload \in Uploads : Register(r, upload)
       \/ RegisterRefused(r)
       \/ StartLogin(r)
       \/ SignToken(r)

Spec == Init /\ [][Next]_vars

-----------------------------------------------------------------------------
Request ==
  [phase: {"idle", "bind", "update", "register", "login", "sign"},
   id: Ids \cup {None}, target: Ids \cup {None},
   license: License \cup {None}, got: BOOLEAN \cup {None}, said: BOOLEAN \cup {None}]

\* Every variable keeps to its domain, and a handler past its first store call
\* holds the license that call returned.
TypeOK ==
  /\ records \in [Ids -> License \cup {None}]
  /\ opaque \in [Ids -> Uploads \cup {None}]
  /\ heap \in [Cells -> SeatCounts]
  /\ request \in [Requests -> Request]
  /\ \A r \in Requests :
       /\ ~At(r, "idle") => request[r].id \in Stored /\ request[r].license \in License
       /\ request[r].phase \in {"bind", "update"} =>
            request[r].target \in Ids /\ request[r].got \in BOOLEAN

\* However creations and updates interleave, no two licenses share a key, so
\* GetByKeyHash is never ambiguous (memstore.go:39-47, 62-81; server.go:134-148).
KeyUnique ==
  \A i, j \in Stored : records[i].key_hash = records[j].key_hash => i = j

\* A token is signed only for a license that has a registration, also when
\* updates of it are under way (server.go:205; memstore.go:73-102).
SignsOnlyRegistered ==
  \A r \in Requests : At(r, "sign") => opaque[request[r].id] # None

\* A registration is replaced, never forgotten: an update that read the
\* license before the registration does not take it back (memstore.go:73-92).
RegistrationKept == [][\A id \in Ids : opaque[id] # None => opaque'[id] # None]_vars

\* A revocation is undone only by an update that says so, or by one that read
\* the license before it was revoked (server.go:134-148).  The second is the
\* lost update the handler allows; there is no third way.
RevocationUndoneOnlyBy ==
  [][\A id \in Ids :
       id \in Stored /\ records[id].revoked /\ ~records'[id].revoked =>
         \E r \in Requests :
           /\ At(r, "update") /\ request[r].id = id
           /\ request[r].license.revoked = FALSE
           /\ request[r].said = FALSE \/ ~request[r].got]_vars

-----------------------------------------------------------------------------
\* The store as its users see it: the pointers followed, the mirrored
\* registration left out.
Seats(id) == IF records[id].seat_count = None THEN None ELSE heap[records[id].seat_count]

Shown(id) == IF id \in Stored
             THEN [key_hash |-> records[id].key_hash,
                   content |-> [revoked |-> records[id].revoked, seats |-> Seats(id)],
                   registration |-> opaque[id]]
             ELSE None

Registry == INSTANCE LicenseRegistry
              WITH licenses <- [id \in Ids |-> Shown(id)],
                   Contents <- [revoked: BOOLEAN, seats: SeatCounts \cup {None}]

ASSUME NoneIsNoEntry == None \notin Registry!License

\* The in-memory store keeps the promises of the Store interface, though its
\* records are also written through pointers and outside its lock: every step
\* creates, updates or registers one license, or changes nothing a user sees
\* (store.go:16-25, memstore.go:39-102, server.go:134-148).
ImplementsRegistry == Registry!Spec

\* memstore.go:17 "MemStore is a thread-safe in-memory implementation": what a
\* stored license shows changes only when the store replaces its record, which
\* happens under the lock.
ShownChangesUnderLock ==
  [][\A id \in Stored : records'[id] = records[id] => Shown(id)' = Shown(id)]_vars
=============================================================================
