-------------------------- MODULE LicenseStore_proofs --------------------------
(***************************************************************************)
(* Theorems about LicenseStore, for every number of requests, licenses,    *)
(* keys and cells.                                                         *)
(***************************************************************************)
EXTENDS LicenseStore, TLAPS

\* What holds of a handler between two store calls: the copy still has the key
\* of the license it addresses, and `revoked` of the copy is what was read,
\* unless the body said otherwise.
CopyOK(r) ==
  /\ request[r].phase \in {"bind", "update"} =>
       /\ request[r].target = request[r].id
       /\ request[r].license.key_hash = records[request[r].id].key_hash
  /\ At(r, "bind") => request[r].license.revoked = request[r].got
  /\ At(r, "update") =>
       request[r].license.revoked =
         IF request[r].said = None THEN request[r].got ELSE request[r].said

CopiesOK == \A r \in Requests : CopyOK(r)

IInv == TypeOK /\ CopiesOK /\ KeyUnique /\ SignsOnlyRegistered

-----------------------------------------------------------------------------
\* An allocation returns an address.
LEMMA NewCellIsACell == MayAllocate => NewCell \in Cells
  BY DEF MayAllocate, NewCell

\* A goroutine that serves nobody is in the domain.
LEMMA IdleIsARequest == Idle \in Request
  BY DEF Idle, Request

\* Bind yields a license and leaves what is not part of the JSON alone
\* (model.go:34-44, server.go:139).
LEMMA BoundIsALicense ==
  ASSUME NEW license \in License, NEW body \in Body, MayAllocate
  PROVE  /\ Bound(license, body) \in License
         /\ Bound(license, body).key_hash = license.key_hash
         /\ Bound(license, body).opaque_record = license.opaque_record
         /\ Bound(license, body).revoked =
              IF body.revoked = None THEN license.revoked ELSE body.revoked
  BY NewCellIsACell DEF Bound, License, Body

\* Bind writes seat counts to addresses only (server.go:139).
LEMMA WrittenIsAHeap ==
  ASSUME heap \in [Cells -> SeatCounts], NEW license \in License, NEW body \in Body,
         MayAllocate
  PROVE  Written(license, body) \in [Cells -> SeatCounts]
  BY NewCellIsACell DEF Written, License, Body

-----------------------------------------------------------------------------
\* An empty store satisfies the invariant (memstore.go:26-31).
LEMMA InitInv == Init => IInv
<1> SUFFICES ASSUME Init PROVE IInv
  OBVIOUS
<1>1. TypeOK
  BY StoreAssumption, IdleIsARequest
     DEF Init, TypeOK, At, Idle, Stored
<1>2. CopiesOK /\ SignsOnlyRegistered
  BY DEF Init, CopiesOK, CopyOK, SignsOnlyRegistered, At, Idle
<1>3. KeyUnique
  BY DEF Init, KeyUnique, Stored
<1> QED BY <1>1, <1>2, <1>3 DEF IInv

\* A new license takes a fresh id and a key nobody has; no handler is about it.
LEMMA CreateKeepsInv ==
  ASSUME IInv, NEW key \in Keys, NEW seats \in SeatCounts \cup {None},
         CreateLicense(key, seats)
  PROVE  IInv'
<1> USE DEF IInv
<1>1. PICK id \in Ids \ Stored : records' = [records EXCEPT ![id] =
         [key_hash |-> key, opaque_record |-> None, revoked |-> FALSE,
          seat_count |-> IF seats = None THEN None ELSE NewCell]]
  BY DEF CreateLicense
<1> DEFINE new == [key_hash |-> key, opaque_record |-> None, revoked |-> FALSE,
                   seat_count |-> IF seats = None THEN None ELSE NewCell]
<1>2. new \in License
  BY NewCellIsACell DEF CreateLicense, License
<1>3. records' \in [Ids -> License \cup {None}] /\ heap' \in [Cells -> SeatCounts]
  BY <1>1, <1>2, NewCellIsACell DEF CreateLicense, TypeOK
<1>4. /\ \A i \in Stored : i # id /\ records'[i] = records[i]
      /\ records'[id] = new
      /\ Stored' = Stored \cup {id}
  BY <1>1, <1>2, NoneIsNoLicense DEF TypeOK, Stored
<1>5. TypeOK'
  BY <1>3, <1>4 DEF CreateLicense, TypeOK, At
<1>6. CopiesOK'
  BY <1>4 DEF CreateLicense, CopiesOK, CopyOK, TypeOK, At
<1>7. KeyUnique'
  BY <1>4 DEF CreateLicense, KeyIsFree, KeyUnique, Stored
<1>8. SignsOnlyRegistered'
  BY DEF CreateLicense, SignsOnlyRegistered, At
<1> QED BY <1>5, <1>6, <1>7, <1>8

\* Get hands a handler a copy of a stored license (server.go:135-138).
LEMMA GetKeepsInv ==
  ASSUME IInv, NEW r \in Requests, NEW id \in Ids, UpdateGet(r, id)
  PROVE  IInv'
<1> USE DEF IInv
<1>1. records[id] \in License
  BY DEF UpdateGet, Stored, TypeOK
<1>2. TypeOK'
  BY <1>1 DEF UpdateGet, TypeOK, License, Request, At, Stored, store
<1>3. CopiesOK' /\ KeyUnique' /\ SignsOnlyRegistered'
  BY <1>1 DEF UpdateGet, CopiesOK, CopyOK, TypeOK, KeyUnique, SignsOnlyRegistered,
              At, Stored, store
<1> QED BY <1>2, <1>3

\* Bind changes a handler's copy and the heap; the id is that of the path again
\* (server.go:139-142).
LEMMA BindKeepsInv ==
  ASSUME IInv, NEW r \in Requests, NEW body \in Bodies, UpdateBind(r, body)
  PROVE  IInv'
<1> USE DEF IInv
<1>0. body \in Body
  BY BodiesAssumption
<1>1. request[r].license \in License /\ request[r].id \in Stored
  BY DEF UpdateBind, TypeOK, At
<1>2. heap' \in [Cells -> SeatCounts]
  BY <1>0, <1>1, WrittenIsAHeap DEF UpdateBind, TypeOK
<1>3. CASE Respond(r)
  BY <1>2, <1>3, IdleIsARequest
     DEF UpdateBind, Respond, TypeOK, CopiesOK, CopyOK, KeyUnique, SignsOnlyRegistered,
         At, Stored, store, Idle
<1>4. CASE request' = [request EXCEPT ![r].phase = "update",
             ![r].target = PathId(r, body), ![r].said = body.revoked,
             ![r].license = Bound(request[r].license, body)]
  <2> DEFINE bound == Bound(request[r].license, body)
  <2>1. /\ bound \in License
        /\ bound.key_hash = request[r].license.key_hash
        /\ bound.revoked = IF body.revoked = None THEN request[r].license.revoked
                           ELSE body.revoked
    BY <1>0, <1>1, BoundIsALicense DEF UpdateBind
  <2>2. body.revoked \in BOOLEAN \cup {None}
    BY <1>0 DEF Body
  <2> HIDE DEF bound
  <2>3. request' = [request EXCEPT ![r].phase = "update",
             ![r].target = request[r].id, ![r].said = body.revoked,
             ![r].license = bound]
    BY <1>4 DEF PathId, bound
  <2>4. request[r] \in Request /\ At(r, "bind") /\ UNCHANGED <<records, opaque>>
    BY DEF UpdateBind, TypeOK, store
  <2>5. /\ request'[r].phase = "update"
        /\ request'[r].id = request[r].id
        /\ request'[r].target = request[r].id
        /\ request'[r].got = request[r].got
        /\ request'[r].said = body.revoked
        /\ request'[r].license = bound
        /\ \A q \in Requests \ {r} : request'[q] = request[q]
    BY <2>3, <2>4 DEF TypeOK, Request
  <2>6. request' \in [Requests -> Request]
    BY <2>1, <2>2, <2>3, <2>4 DEF TypeOK, Request, Stored
  <2>7. TypeOK'
    BY <1>1, <1>2, <2>1, <2>4, <2>5, <2>6 DEF TypeOK, At, Stored
  <2>8. CopiesOK'
    BY <2>1, <2>4, <2>5 DEF CopiesOK, CopyOK, At
  <2>9. KeyUnique' /\ SignsOnlyRegistered'
    BY <2>4, <2>5 DEF KeyUnique, SignsOnlyRegistered, At, Stored
  <2> QED BY <2>7, <2>8, <2>9
<1> QED BY <1>3, <1>4 DEF UpdateBind

\* The record keeps its key, so no other copy and no other record is affected.
LEMMA UpdateKeepsInv ==
  ASSUME IInv, NEW r \in Requests, UpdateStore(r)
  PROVE  IInv'
<1> USE DEF IInv
<1> DEFINE id == request[r].id
           license == request[r].license
<1>1. /\ id \in Stored /\ license \in License /\ request[r].target = id
      /\ license.key_hash = records[id].key_hash
  BY DEF UpdateStore, TypeOK, CopiesOK, CopyOK, At
<1> HIDE DEF id, license
<1>2. records' = [records EXCEPT ![id] = license]
  BY <1>1 DEF UpdateStore, id, license
<1>3. /\ Stored' = Stored
      /\ \A i \in Stored : records'[i].key_hash = records[i].key_hash
      /\ records' \in [Ids -> License \cup {None}]
  BY <1>1, <1>2, NoneIsNoLicense DEF TypeOK, Stored
<1>4. UNCHANGED <<opaque, heap>> /\ request' = [request EXCEPT ![r] = Idle]
  BY DEF UpdateStore, Respond
<1>5. TypeOK'
  BY <1>3, <1>4, IdleIsARequest DEF TypeOK, At, Idle
<1>6. CopiesOK'
  BY <1>3, <1>4 DEF TypeOK, CopiesOK, CopyOK, At, Idle
<1>7. KeyUnique' /\ SignsOnlyRegistered'
  BY <1>3, <1>4 DEF TypeOK, KeyUnique, SignsOnlyRegistered, At, Idle
<1> QED BY <1>5, <1>6, <1>7

\* A handler that found its license by key holds that license (server.go:152-163).
LEMMA ResolveKeepsInv ==
  ASSUME IInv, NEW r \in Requests, NEW key \in Keys, NEW phase \in {"register", "login"},
         Resolve(r, key, phase)
  PROVE  IInv'
<1> USE DEF IInv
<1>1. PICK id \in Stored : request' = [request EXCEPT ![r] =
            [Idle EXCEPT !.phase = phase, !.id = id, !.license = records[id]]]
  BY DEF Resolve
<1>2. records[id] \in License /\ id \in Ids /\ UNCHANGED <<records, opaque, heap>>
  BY DEF Resolve, Stored, TypeOK, store
<1>3. TypeOK'
  BY <1>1, <1>2 DEF TypeOK, Request, Idle, At, Stored
<1>4. CopiesOK' /\ KeyUnique' /\ SignsOnlyRegistered'
  BY <1>1, <1>2 DEF TypeOK, CopiesOK, CopyOK, KeyUnique, SignsOnlyRegistered, Idle, At, Stored
<1> QED BY <1>3, <1>4

\* A registration is added to the map and mirrored in the record
\* (memstore.go:83-92).
LEMMA RegisterKeepsInv ==
  ASSUME IInv, NEW r \in Requests, NEW upload \in Uploads, Register(r, upload)
  PROVE  IInv'
<1> USE DEF IInv
<1> DEFINE id == request[r].id
<1>1. id \in Stored /\ id \in Ids
  BY DEF Register, TypeOK, At, Stored
<1>2. /\ records' = [records EXCEPT ![id].opaque_record = upload]
      /\ opaque' = [opaque EXCEPT ![id] = upload]
      /\ heap' = heap /\ request' = [request EXCEPT ![r] = Idle]
  BY <1>1 DEF Register, Respond
<1> HIDE DEF id
<1>3. records[id] \in License
  BY <1>1 DEF TypeOK, Stored
<1>4. /\ Stored' = Stored
      /\ \A i \in Stored : records'[i].key_hash = records[i].key_hash
      /\ records' \in [Ids -> License \cup {None}]
  <2>1. [records[id] EXCEPT !.opaque_record = upload] \in License
    BY <1>3 DEF License
  <2>2. records' = [records EXCEPT ![id] = [records[id] EXCEPT !.opaque_record = upload]]
    BY <1>2
  <2>3. [records[id] EXCEPT !.opaque_record = upload].key_hash = records[id].key_hash
    BY <1>3 DEF License
  <2> QED BY <1>1, <2>1, <2>2, <2>3, NoneIsNoLicense DEF TypeOK, Stored
<1>5. /\ opaque' \in [Ids -> Uploads \cup {None}]
      /\ \A i \in Ids : opaque[i] # None => opaque'[i] # None
  BY <1>2, StoreAssumption DEF TypeOK
<1>6. TypeOK'
  BY <1>2, <1>4, <1>5, IdleIsARequest DEF TypeOK, At, Idle
<1>7. CopiesOK'
  BY <1>2, <1>4 DEF TypeOK, CopiesOK, CopyOK, At, Idle
<1>8. KeyUnique'
  BY <1>4 DEF KeyUnique
<1>9. SignsOnlyRegistered'
  BY <1>2, <1>5 DEF SignsOnlyRegistered, TypeOK, At, Idle, Stored
<1> QED BY <1>6, <1>7, <1>8, <1>9

\* Only a license with a registration goes on to be signed (server.go:198-205).
LEMMA LoginKeepsInv ==
  ASSUME IInv, NEW r \in Requests, StartLogin(r)
  PROVE  IInv'
<1> USE DEF IInv
<1>1. UNCHANGED <<records, opaque, heap>>
  BY DEF StartLogin, store
<1>2. CASE Respond(r)
  BY <1>1, <1>2, IdleIsARequest
     DEF Respond, TypeOK, CopiesOK, CopyOK, KeyUnique, SignsOnlyRegistered, At, Stored, Idle
<1>3. CASE opaque[request[r].id] # None /\ request' = [request EXCEPT ![r].phase = "sign"]
  <2>1. request[r] \in Request
    BY DEF TypeOK
  <2>2. /\ request' \in [Requests -> Request]
        /\ request'[r] = [request[r] EXCEPT !.phase = "sign"]
        /\ \A q \in Requests \ {r} : request'[q] = request[q]
    BY <1>3, <2>1 DEF TypeOK, Request
  <2>3. TypeOK'
    BY <1>1, <2>1, <2>2 DEF StartLogin, TypeOK, Request, At, Stored
  <2>4. CopiesOK' /\ KeyUnique' /\ SignsOnlyRegistered'
    BY <1>1, <1>3, <2>1, <2>2
       DEF CopiesOK, CopyOK, KeyUnique, SignsOnlyRegistered, Request, At, Stored
  <2> QED BY <2>3, <2>4
<1> QED BY <1>2, <1>3 DEF StartLogin

\* An answer ends the handler and touches nothing else.
LEMMA RespondKeepsInv ==
  ASSUME IInv, NEW r \in Requests, Respond(r), UNCHANGED <<store, heap>>
  PROVE  IInv'
BY IdleIsARequest
   DEF IInv, Respond, TypeOK, CopiesOK, CopyOK, KeyUnique, SignsOnlyRegistered,
       At, Stored, store, Idle

\* Every step preserves the invariant.
LEMMA NextKeepsInv == IInv /\ [Next]_vars => IInv'
<1> SUFFICES ASSUME IInv, [Next]_vars PROVE IInv'
  OBVIOUS
<1>1. CASE \E key \in Keys, seats \in SeatCounts \cup {None} : CreateLicense(key, seats)
  BY <1>1, CreateKeepsInv
<1>2. ASSUME NEW r \in Requests,
             \/ \E id \in Ids : UpdateGet(r, id)
             \/ \E body \in Bodies : UpdateBind(r, body)
             \/ UpdateStore(r)
             \/ \E key \in Keys : Resolve(r, key, "register") \/ Resolve(r, key, "login")
             \/ \E upload \in Uploads : Register(r, upload)
             \/ RegisterRefused(r)
             \/ StartLogin(r)
             \/ SignToken(r)
      PROVE  IInv'
  <2>1. CASE RegisterRefused(r) \/ SignToken(r)
    BY <2>1, RespondKeepsInv DEF RegisterRefused, SignToken
  <2>2. CASE \E key \in Keys : Resolve(r, key, "register") \/ Resolve(r, key, "login")
    BY <2>2, ResolveKeepsInv
  <2> QED BY <1>2, <2>1, <2>2, GetKeepsInv, BindKeepsInv, UpdateKeepsInv, RegisterKeepsInv,
             LoginKeepsInv
<1>3. CASE UNCHANGED vars
  BY <1>3 DEF vars, store, IInv, TypeOK, CopiesOK, CopyOK, KeyUnique, SignsOnlyRegistered,
              At, Stored
<1> QED BY <1>1, <1>2, <1>3 DEF Next

-----------------------------------------------------------------------------
\* The inductive invariant holds in every reachable state.
THEOREM StoreInvariant == Spec => []IInv
  BY InitInv, NextKeepsInv, PTL DEF Spec

\* Variables keep to their domains, and a handler past its first store call
\* holds the license that call returned.
THEOREM StoreTypeCorrect == Spec => []TypeOK
<1>1. IInv => TypeOK
  BY DEF IInv
<1> QED BY <1>1, StoreInvariant, PTL

\* No interleaving of creations and updates gives two licenses one key
\* (memstore.go:39-47, server.go:134-148).
THEOREM KeysStayUnique == Spec => []KeyUnique
<1>1. IInv => KeyUnique
  BY DEF IInv
<1> QED BY <1>1, StoreInvariant, PTL

\* A token is signed only for a license that has a registration
\* (server.go:205).
THEOREM OnlyRegisteredAreSigned == Spec => []SignsOnlyRegistered
<1>1. IInv => SignsOnlyRegistered
  BY DEF IInv
<1> QED BY <1>1, StoreInvariant, PTL

\* No update takes a registration back (memstore.go:73-92).
THEOREM RegistrationsAreKept == Spec => RegistrationKept
<1>1. TypeOK /\ [Next]_vars => [\A id \in Ids : opaque[id] # None => opaque'[id] # None]_vars
  <2> SUFFICES ASSUME TypeOK, Next
               PROVE  \A id \in Ids : opaque[id] # None => opaque'[id] # None
    OBVIOUS
  <2>1. CASE UNCHANGED opaque
    BY <2>1
  <2>2. ASSUME NEW r \in Requests, NEW upload \in Uploads, Register(r, upload)
        PROVE  \A id \in Ids : opaque[id] # None => opaque'[id] # None
    BY <2>2, StoreAssumption DEF Register, TypeOK
  <2> QED BY <2>1, <2>2
             DEF Next, CreateLicense, UpdateGet, UpdateBind, UpdateStore, Resolve,
                 RegisterRefused, StartLogin, SignToken, store
<1> QED BY <1>1, StoreTypeCorrect, PTL DEF Spec, RegistrationKept

\* A revocation is undone only by an update that says so or that read the
\* license before it was revoked (server.go:134-148).
THEOREM RevocationsAreUndoneOnlyBy == Spec => RevocationUndoneOnlyBy
<1> DEFINE Undone(id) == id \in Stored /\ records[id].revoked /\ ~records'[id].revoked
           ByUpdate(id) == \E r \in Requests :
             /\ At(r, "update") /\ request[r].id = id
             /\ request[r].license.revoked = FALSE
             /\ request[r].said = FALSE \/ ~request[r].got
<1>1. IInv /\ [Next]_vars => [\A id \in Ids : Undone(id) => ByUpdate(id)]_vars
  <2> SUFFICES ASSUME IInv, Next, NEW id \in Ids, Undone(id)
               PROVE  ByUpdate(id)
    OBVIOUS
  <2>1. records[id] \in License /\ id \in Stored
    BY DEF IInv, TypeOK, Stored
  <2>2. CASE UNCHANGED records
    BY <2>2
  <2>3. ASSUME NEW key \in Keys, NEW seats \in SeatCounts \cup {None}, CreateLicense(key, seats)
        PROVE  FALSE
    BY <2>1, <2>3 DEF CreateLicense, IInv, TypeOK, Stored
  <2>4. ASSUME NEW r \in Requests, NEW upload \in Uploads, Register(r, upload)
        PROVE  FALSE
    BY <2>1, <2>4 DEF Register, IInv, TypeOK, License, Stored
  <2>5. ASSUME NEW r \in Requests, UpdateStore(r)
        PROVE  ByUpdate(id)
    <3>1. /\ At(r, "update") /\ request[r].target = request[r].id
          /\ request[r].id \in Stored /\ request[r].license \in License
          /\ request[r].got \in BOOLEAN /\ request[r].said \in BOOLEAN \cup {None}
      BY <2>5 DEF UpdateStore, IInv, TypeOK, Request, CopiesOK, CopyOK, At
    <3>2. request[r].id = id /\ ~request[r].license.revoked
      BY <2>1, <2>5, <3>1 DEF UpdateStore, IInv, TypeOK
    <3>3. request[r].license.revoked = FALSE
      BY <3>1, <3>2 DEF License
    <3>4. request[r].license.revoked =
            IF request[r].said = None THEN request[r].got ELSE request[r].said
      BY <3>1 DEF IInv, CopiesOK, CopyOK
    <3>5. request[r].said = FALSE \/ ~request[r].got
      BY <3>3, <3>4
    <3> QED BY <3>1, <3>2, <3>3, <3>5
  <2> QED BY <2>2, <2>3, <2>4, <2>5
             DEF Next, UpdateGet, UpdateBind, Resolve, RegisterRefused, StartLogin, SignToken,
                 store
<1> QED BY <1>1, StoreInvariant, PTL DEF Spec, RevocationUndoneOnlyBy

-----------------------------------------------------------------------------
\* The refinement.  Pointers are followed by readers and written through by
\* handlers, so it rests on who shares which cell: the record of a license and
\* the copies of it, and nobody else.

Points(id, cell) ==
  \/ id \in Stored /\ records[id].seat_count = cell
  \/ \E r \in Requests : /\ request[r].license # None
                         /\ request[r].id = id
                         /\ request[r].license.seat_count = cell

\* No two licenses share a cell.
CellsOwned == \A cell \in Cells, i, j \in Ids : Points(i, cell) /\ Points(j, cell) => i = j

\* A goroutine between requests keeps no copy; the registrations are of stored
\* licenses.
TidyUp ==
  /\ \A r \in Requests : At(r, "idle") => request[r] = Idle
  /\ \A id \in Ids : opaque[id] # None => id \in Stored

SharingInv == IInv /\ CellsOwned /\ TidyUp

\* What is allocated is nobody's yet.
LEMMA NewCellIsFree ==
  ASSUME TypeOK, MayAllocate
  PROVE  /\ NewCell \in Cells
         /\ \A i \in Ids : ~Points(i, NewCell)
<1>1. NewCell \in Cells /\ NewCell \notin Reachable
  BY DEF MayAllocate, NewCell
<1> QED BY <1>1 DEF Points, Reachable

\* A step keeps cells apart when its pointers are old ones, or one owner's to the
\* cell it allocates.
LEMMA OwnersStay ==
  ASSUME TypeOK, CellsOwned, NEW owner \in Ids,
         \A i \in Ids, cell \in Cells :
           Points(i, cell)' => Points(i, cell) \/ (MayAllocate /\ cell = NewCell /\ i = owner)
  PROVE  CellsOwned'
<1> SUFFICES ASSUME NEW cell \in Cells, NEW i \in Ids, NEW j \in Ids,
                    Points(i, cell)', Points(j, cell)'
             PROVE  i = j
  BY DEF CellsOwned
<1> QED BY NewCellIsFree DEF CellsOwned

\* The same for a step that allocates nothing.
LEMMA PointersAreOld ==
  ASSUME TypeOK, CellsOwned,
         \A i \in Ids, cell \in Cells : Points(i, cell)' => Points(i, cell)
  PROVE  CellsOwned'
  BY DEF CellsOwned

\* A goroutine that answers drops its copy.
LEMMA RespondTidies ==
  ASSUME SharingInv, NEW r \in Requests, Respond(r),
         \A i \in Ids, cell \in Cells :
           i \in Stored' /\ records'[i].seat_count = cell => Points(i, cell),
         \A id \in Ids : opaque'[id] # None => id \in Stored'
  PROVE  CellsOwned' /\ TidyUp'
<1>1. /\ request' \in [Requests -> Request]
      /\ request'[r] = Idle /\ \A q \in Requests \ {r} : request'[q] = request[q]
  BY IdleIsARequest DEF Respond, SharingInv, IInv, TypeOK
<1>2. CellsOwned'
  BY <1>1, PointersAreOld DEF SharingInv, IInv, Points, Idle
<1>3. TidyUp'
  BY <1>1 DEF SharingInv, TidyUp, At
<1> QED BY <1>2, <1>3

\* Create gives the new license a cell of its own.
LEMMA CreateShares ==
  ASSUME SharingInv, NEW key \in Keys, NEW seats \in SeatCounts \cup {None},
         CreateLicense(key, seats)
  PROVE  CellsOwned' /\ TidyUp'
<1> USE DEF SharingInv, IInv
<1> DEFINE new == [key_hash |-> key, opaque_record |-> None, revoked |-> FALSE,
                   seat_count |-> IF seats = None THEN None ELSE NewCell]
<1>1. PICK id \in Ids \ Stored : records' = [records EXCEPT ![id] = new]
  BY DEF CreateLicense
<1>2. /\ records'[id] = new /\ \A i \in Ids \ {id} : records'[i] = records[i]
      /\ UNCHANGED <<opaque, request>> /\ MayAllocate
  BY <1>1 DEF CreateLicense, TypeOK
<1>3. None \notin Cells
  BY StoreAssumption
<1>4. CellsOwned'
  <2>1. ASSUME NEW i \in Ids, NEW cell \in Cells, Points(i, cell)'
        PROVE  Points(i, cell) \/ (cell = NewCell /\ i = id)
    BY <1>2, <1>3, <2>1 DEF Points, Stored
  <2> QED BY <1>2, <2>1, OwnersStay
<1>5. TidyUp'
  BY <1>2 DEF TidyUp, At, Stored, CreateLicense
<1> QED BY <1>4, <1>5

\* A handler that fetches a license shares the cells of its record.
LEMMA FetchShares ==
  ASSUME SharingInv, NEW r \in Requests, NEW id \in Stored, UNCHANGED <<records, opaque>>,
         request'[r].phase # "idle", request'[r].id = id, request'[r].license = records[id],
         \A q \in Requests \ {r} : request'[q] = request[q]
  PROVE  CellsOwned' /\ TidyUp'
<1>1. CellsOwned'
  <2>1. ASSUME NEW i \in Ids, NEW cell \in Cells, Points(i, cell)' PROVE Points(i, cell)
    BY <2>1 DEF Points, Stored
  <2> QED BY <2>1, PointersAreOld DEF SharingInv, IInv
<1>2. TidyUp'
  BY DEF SharingInv, TidyUp, At, Stored
<1> QED BY <1>1, <1>2

\* Bind leaves the copy's cell in place, clears the pointer, or allocates.
LEMMA BindShares ==
  ASSUME SharingInv, NEW r \in Requests, NEW body \in Bodies, UpdateBind(r, body)
  PROVE  CellsOwned' /\ TidyUp'
<1> USE DEF SharingInv, IInv
<1>1. /\ UNCHANGED <<records, opaque>> /\ MayAllocate /\ body \in Body
      /\ request[r].license \in License /\ request[r].id \in Ids /\ request[r] \in Request
  BY BodiesAssumption DEF UpdateBind, TypeOK, At, store, Stored
<1>2. CASE Respond(r)
  BY <1>1, <1>2, RespondTidies DEF Points, TidyUp, Stored
<1>3. CASE request' = [request EXCEPT ![r].phase = "update",
             ![r].target = PathId(r, body), ![r].said = body.revoked,
             ![r].license = Bound(request[r].license, body)]
  <2> DEFINE bound == Bound(request[r].license, body)
  <2>1. bound.seat_count \in {request[r].license.seat_count, None, NewCell}
    BY <1>1 DEF Bound, License
  <2> HIDE DEF bound
  <2>2. /\ request'[r].phase = "update" /\ request'[r].id = request[r].id
        /\ request'[r].license = bound
        /\ \A q \in Requests \ {r} : request'[q] = request[q]
    BY <1>1, <1>3 DEF TypeOK, Request, bound
  <2>3. ASSUME NEW i \in Ids, NEW cell \in Cells, Points(i, cell)'
        PROVE  Points(i, cell) \/ (cell = NewCell /\ i = request[r].id)
    <3>1. request[r].license # None /\ cell # None
      BY <1>1, NoneIsNoLicense, StoreAssumption
    <3> QED BY <1>1, <2>1, <2>2, <2>3, <3>1 DEF Points, Stored
  <2>4. CellsOwned'
    BY <1>1, <2>3, OwnersStay
  <2>5. TidyUp'
    BY <1>1, <2>2 DEF TidyUp, At, Stored
  <2> QED BY <2>4, <2>5
<1> QED BY <1>2, <1>3 DEF UpdateBind

\* Every step keeps the cells of different licenses apart.
LEMMA NextShares == SharingInv /\ [Next]_vars => SharingInv'
<1> SUFFICES ASSUME SharingInv, [Next]_vars PROVE CellsOwned' /\ TidyUp'
  BY NextKeepsInv DEF SharingInv
<1> USE DEF SharingInv, IInv
<1>1. CASE \E key \in Keys, seats \in SeatCounts \cup {None} : CreateLicense(key, seats)
  BY <1>1, CreateShares
<1>2. ASSUME NEW r \in Requests, NEW id \in Ids, UpdateGet(r, id)
      PROVE  CellsOwned' /\ TidyUp'
  <2>1. /\ id \in Stored /\ UNCHANGED <<records, opaque>>
        /\ request'[r].phase = "bind" /\ request'[r].id = id /\ request'[r].license = records[id]
        /\ \A q \in Requests \ {r} : request'[q] = request[q]
    BY <1>2 DEF UpdateGet, TypeOK, store
  <2> QED BY <2>1, FetchShares
<1>3. ASSUME NEW r \in Requests, NEW key \in Keys, NEW phase \in {"register", "login"},
             Resolve(r, key, phase)
      PROVE  CellsOwned' /\ TidyUp'
  <2>1. PICK id \in Stored : request' = [request EXCEPT ![r] =
            [Idle EXCEPT !.phase = phase, !.id = id, !.license = records[id]]]
    BY <1>3 DEF Resolve
  <2>2. /\ UNCHANGED <<records, opaque>>
        /\ request'[r].phase = phase /\ request'[r].id = id /\ request'[r].license = records[id]
        /\ \A q \in Requests \ {r} : request'[q] = request[q]
    BY <1>3, <2>1 DEF Resolve, TypeOK, store, Idle
  <2> QED BY <2>2, FetchShares
<1>4. ASSUME NEW r \in Requests, NEW body \in Bodies, UpdateBind(r, body)
      PROVE  CellsOwned' /\ TidyUp'
  BY <1>4, BindShares
<1>5. ASSUME NEW r \in Requests, UpdateStore(r) PROVE CellsOwned' /\ TidyUp'
  <2> DEFINE id == request[r].id
  <2>1. /\ id \in Stored /\ id \in Ids /\ request[r].license \in License
        /\ records' = [records EXCEPT ![id] = request[r].license]
        /\ Respond(r) /\ opaque' = opaque
    BY <1>5 DEF UpdateStore, TypeOK, CopiesOK, CopyOK, At, Stored
  <2>2. /\ Stored' = Stored /\ records'[id] = request[r].license
        /\ \A i \in Ids \ {id} : records'[i] = records[i]
    BY <2>1, NoneIsNoLicense DEF TypeOK, Stored
  <2> QED BY <2>1, <2>2, RespondTidies, NoneIsNoLicense DEF Points, TidyUp
<1>6. ASSUME NEW r \in Requests, NEW upload \in Uploads, Register(r, upload)
      PROVE  CellsOwned' /\ TidyUp'
  <2> DEFINE id == request[r].id
  <2>1. /\ id \in Stored /\ id \in Ids /\ records[id] \in License
        /\ records' = [records EXCEPT ![id].opaque_record = upload]
        /\ opaque' = [opaque EXCEPT ![id] = upload] /\ Respond(r)
    BY <1>6 DEF Register, TypeOK, At, Stored
  <2>2. /\ Stored' = Stored /\ records'[id].seat_count = records[id].seat_count
        /\ \A i \in Ids \ {id} : records'[i] = records[i] /\ opaque'[i] = opaque[i]
    BY <2>1, NoneIsNoLicense DEF TypeOK, License, Stored
  <2> QED BY <2>1, <2>2, RespondTidies DEF Points, TidyUp
<1>7. ASSUME NEW r \in Requests, Respond(r), UNCHANGED <<records, opaque>>
      PROVE  CellsOwned' /\ TidyUp'
  BY <1>7, RespondTidies DEF Points, TidyUp, Stored
<1>8. ASSUME NEW r \in Requests, StartLogin(r) PROVE CellsOwned' /\ TidyUp'
  <2>0. CASE Respond(r)
    BY <1>7, <1>8, <2>0 DEF StartLogin, store
  <2> SUFFICES ASSUME ~Respond(r) PROVE CellsOwned' /\ TidyUp'
    BY <2>0
  <2>1. /\ UNCHANGED <<records, opaque>> /\ request'[r].phase = "sign"
        /\ request'[r].id = request[r].id /\ request'[r].license = request[r].license
        /\ \A q \in Requests \ {r} : request'[q] = request[q]
    <3>1. request[r] \in Request
      BY DEF TypeOK
    <3> QED BY <1>8, <3>1 DEF StartLogin, TypeOK, Request, store
  <2>2. ASSUME NEW i \in Ids, NEW cell \in Cells, Points(i, cell)' PROVE Points(i, cell)
    BY <2>1, <2>2 DEF Points, Stored
  <2>3. TidyUp'
    BY <2>1 DEF TidyUp, At, Stored
  <2> QED BY <2>2, <2>3, PointersAreOld
<1>9. CASE UNCHANGED vars
  <2>1. UNCHANGED <<records, opaque, request>>
    BY <1>9 DEF vars, store
  <2>2. ASSUME NEW i \in Ids, NEW cell \in Cells, Points(i, cell)' PROVE Points(i, cell)
    BY <2>1, <2>2 DEF Points, Stored
  <2>3. TidyUp'
    BY <2>1 DEF TidyUp, At, Stored
  <2> QED BY <2>2, <2>3, PointersAreOld
<1> QED BY <1>1, <1>2, <1>3, <1>4, <1>5, <1>6, <1>7, <1>8, <1>9
        DEF Next, RegisterRefused, SignToken, store

\* The invariant and its strengthening hold throughout.
LEMMA SharingInvariant == Spec => []SharingInv
<1>1. Init => SharingInv
  BY InitInv DEF Init, SharingInv, CellsOwned, Points, TidyUp, Stored, At, Idle
<1> QED BY <1>1, NextShares, PTL DEF Spec

\* What users see of a license is an entry of the registry.
EntriesShown ==
  \A id \in Ids : /\ Shown(id) \in Registry!License \cup {None}
                  /\ (Shown(id) # None <=> id \in Stored)

LEMMA ShownIsAnEntry == TypeOK => EntriesShown
<1> SUFFICES ASSUME TypeOK, NEW id \in Ids
             PROVE  /\ Shown(id) \in Registry!License \cup {None}
                    /\ (Shown(id) # None <=> id \in Stored)
  BY DEF EntriesShown
<1>1. CASE id \in Stored
  <2>1. /\ records[id] \in License /\ opaque[id] \in Uploads \cup {None}
        /\ Seats(id) \in SeatCounts \cup {None}
    BY <1>1 DEF TypeOK, License, Seats, Stored
  <2>2. Shown(id) \in Registry!License
    BY <1>1, <2>1 DEF Shown, Registry!License, License
  <2> QED BY <1>1, <2>2, NoneIsNoEntry
<1>2. CASE id \notin Stored
  BY <1>2 DEF Shown
<1> QED BY <1>1, <1>2

\* And it still is after a step.
LEMMA ShownStaysAnEntry == TypeOK' => EntriesShown'
  BY ShownIsAnEntry, PTL

\* A step that shows nothing new of any other license, and of one a license
\* created, updated or registered, is a step of the registry.
LEMMA OneLicenseChanges ==
  ASSUME TypeOK, TypeOK', NEW id \in Ids,
         \A i \in Ids \ {id} : Shown(i)' = Shown(i),
         \/ \E key \in Keys, content \in [revoked: BOOLEAN, seats: SeatCounts \cup {None}] :
              Registry!Create(id, key, content)
         \/ \E content \in [revoked: BOOLEAN, seats: SeatCounts \cup {None}] :
              Registry!Update(id, content)
         \/ \E upload \in Uploads : Registry!StoreOpaqueRecord(id, upload)
  PROVE  Registry!Next
<1>1. Registry!OnlyOf(id)
  BY DEF Registry!OnlyOf
<1>2. [i \in Ids |-> Shown(i)]' \in [Ids -> Registry!License \cup {None}]
  BY ShownStaysAnEntry DEF EntriesShown
<1> QED BY <1>1, <1>2 DEF Registry!Next

\* Create adds an entry with a key of its own, and no registration.
LEMMA CreateIsCreate ==
  ASSUME SharingInv, TypeOK', NEW key \in Keys, NEW seats \in SeatCounts \cup {None},
         CreateLicense(key, seats)
  PROVE  Registry!Next
<1> USE DEF SharingInv, IInv
<1> DEFINE new == [key_hash |-> key, opaque_record |-> None, revoked |-> FALSE,
                   seat_count |-> IF seats = None THEN None ELSE NewCell]
           content == [revoked |-> FALSE, seats |-> seats]
<1>1. PICK id \in Ids \ Stored : records' = [records EXCEPT ![id] = new]
  BY DEF CreateLicense
<1>2. /\ records'[id] = new /\ \A i \in Ids \ {id} : records'[i] = records[i]
      /\ opaque' = opaque /\ opaque[id] = None /\ NewCell \in Cells
      /\ \A i \in Ids : ~Points(i, NewCell)
      /\ heap' = IF seats = None THEN heap ELSE [heap EXCEPT ![NewCell] = seats]
  BY <1>1, NewCellIsFree DEF CreateLicense, TypeOK, TidyUp
<1>3. ASSUME NEW i \in Ids \ {id} PROVE Shown(i)' = Shown(i)
  <2>1. CASE i \in Stored
    <3>1. records[i].seat_count # NewCell /\ records[i].seat_count \in Cells \cup {None}
      BY <1>2, <2>1 DEF Points, TypeOK, License, Stored
    <3> QED BY <1>2, <2>1, <3>1 DEF Shown, Seats, Stored, TypeOK
  <2>2. CASE i \notin Stored
    BY <1>2, <2>2 DEF Shown, Stored
  <2> QED BY <2>1, <2>2
<1>4. Shown(id)' = [key_hash |-> key, content |-> content, registration |-> None]
  <2>1. id \in Stored' /\ None \notin Cells
    <3>1. new \in License
      BY <1>2 DEF License
    <3> QED BY <1>2, <3>1, NoneIsNoLicense, StoreAssumption DEF Stored, TypeOK
  <2>2. Seats(id)' = seats
    BY <1>2, <2>1 DEF Seats, TypeOK
  <2> QED BY <1>2, <2>1, <2>2 DEF Shown
<1>5. Registry!Create(id, key, content)
  <2>1. Shown(id) = None
    BY DEF Shown
  <2>2. ASSUME NEW other \in Ids, Shown(other) # None PROVE Shown(other).key_hash # key
    BY <2>2 DEF Shown, CreateLicense, KeyIsFree
  <2> QED BY <1>4, <2>1, <2>2 DEF Registry!Create
<1>6. content \in [revoked: BOOLEAN, seats: SeatCounts \cup {None}]
  OBVIOUS
<1> HIDE DEF content
<1> QED BY <1>3, <1>5, <1>6, OneLicenseChanges

\* A step that leaves the key and the registration of a stored license alone is
\* an update of it.
LEMMA ContentChanges ==
  ASSUME TypeOK, TypeOK', NEW id \in Stored, id \in Stored',
         \A i \in Ids \ {id} : Shown(i)' = Shown(i),
         records'[id].key_hash = records[id].key_hash, opaque'[id] = opaque[id]
  PROVE  Registry!Next
<1>1. id \in Ids /\ Shown(id) # None
  BY ShownIsAnEntry DEF EntriesShown, Stored
<1> DEFINE content == [revoked |-> records'[id].revoked, seats |-> Seats(id)']
<1>2. /\ Shown(id) = [key_hash |-> records[id].key_hash,
                      content |-> [revoked |-> records[id].revoked, seats |-> Seats(id)],
                      registration |-> opaque[id]]
      /\ Shown(id)' = [key_hash |-> records'[id].key_hash, content |-> content,
                       registration |-> opaque'[id]]
  BY DEF Shown
<1>3. content \in [revoked: BOOLEAN, seats: SeatCounts \cup {None}]
  BY <1>1, ShownStaysAnEntry, <1>2 DEF TypeOK, License, Stored, Seats
<1> HIDE DEF content
<1>4. Registry!Update(id, content)
  BY <1>1, <1>2 DEF Registry!Update
<1> QED BY <1>1, <1>3, <1>4, OneLicenseChanges

\* Bind writes through a pointer: what it changes, if anything, is what users see
\* of the one license the handler is about.
LEMMA BindIsUpdate ==
  ASSUME SharingInv, TypeOK', NEW r \in Requests, NEW body \in Bodies, UpdateBind(r, body)
  PROVE  Registry!Next
<1> USE DEF SharingInv, IInv
<1> DEFINE id == request[r].id
           license == request[r].license
           cell == IF license.seat_count = None THEN NewCell ELSE license.seat_count
<1>1. /\ id \in Stored /\ id \in Ids /\ license \in License
      /\ UNCHANGED <<records, opaque>> /\ body \in Body
  BY BodiesAssumption DEF UpdateBind, TypeOK, At, store, Stored
<1>2. heap' = heap \/ \E n \in SeatCounts : heap' = [heap EXCEPT ![cell] = n]
  BY DEF UpdateBind, Written
<1>3. cell \in Cells /\ \A i \in Ids \ {id} : ~Points(i, cell)
  <2>1. CASE license.seat_count = None
    BY <2>1, NewCellIsFree DEF UpdateBind
  <2>2. CASE license.seat_count # None
    <3>1. cell \in Cells /\ Points(id, cell)
      BY <1>1, <2>2, NoneIsNoLicense DEF Points, License
    <3> QED BY <1>1, <3>1 DEF CellsOwned
  <2> QED BY <2>1, <2>2
<1> HIDE DEF cell, id
<1>4. ASSUME NEW i \in Ids \ {id} PROVE Shown(i)' = Shown(i)
  <2>1. CASE i \in Stored
    <3>1. records[i].seat_count # cell /\ records[i].seat_count \in Cells \cup {None}
      BY <1>3, <2>1 DEF Points, TypeOK, License, Stored
    <3> QED BY <1>1, <1>2, <1>3, <2>1, <3>1 DEF Shown, Seats, Stored, TypeOK
  <2>2. CASE i \notin Stored
    BY <1>1, <2>2 DEF Shown, Stored
  <2> QED BY <2>1, <2>2
<1> QED BY <1>1, <1>4, ContentChanges DEF Stored

\* Update writes a copy that has the key of the record it replaces, and leaves
\* the registration to its own map.
LEMMA StoreIsUpdate ==
  ASSUME SharingInv, TypeOK', NEW r \in Requests, UpdateStore(r)
  PROVE  Registry!Next
<1> USE DEF SharingInv, IInv
<1> DEFINE id == request[r].id
<1>1. /\ id \in Stored /\ id \in Ids /\ request[r].license \in License
      /\ request[r].license.key_hash = records[id].key_hash
      /\ records' = [records EXCEPT ![id] = request[r].license]
      /\ UNCHANGED <<opaque, heap>>
  BY DEF UpdateStore, TypeOK, CopiesOK, CopyOK, At, Stored
<1> HIDE DEF id
<1>2. /\ records'[id].key_hash = records[id].key_hash /\ id \in Stored'
      /\ \A i \in Ids \ {id} : records'[i] = records[i]
  BY <1>1, NoneIsNoLicense DEF TypeOK, Stored
<1>3. ASSUME NEW i \in Ids \ {id} PROVE Shown(i)' = Shown(i)
  BY <1>1, <1>2 DEF Shown, Seats, Stored
<1> QED BY <1>1, <1>2, <1>3, ContentChanges

\* StoreOpaqueRecord changes the registration users see; the mirror in the
\* record is not theirs to see.
LEMMA RegisterIsRegister ==
  ASSUME SharingInv, TypeOK', NEW r \in Requests, NEW upload \in Uploads, Register(r, upload)
  PROVE  Registry!Next
<1> USE DEF SharingInv, IInv
<1>0. PICK id : id = request[r].id
  OBVIOUS
<1>1. /\ id \in Stored /\ id \in Ids /\ records[id] \in License
      /\ records' = [records EXCEPT ![id].opaque_record = upload]
      /\ opaque' = [opaque EXCEPT ![id] = upload] /\ heap' = heap
  BY <1>0 DEF Register, TypeOK, At, Stored
<1>2. records'[id] = [records[id] EXCEPT !.opaque_record = upload]
  BY <1>1 DEF TypeOK
<1>3. /\ records'[id].key_hash = records[id].key_hash
      /\ records'[id].revoked = records[id].revoked
      /\ records'[id].seat_count = records[id].seat_count
      /\ records'[id] \in License
      /\ opaque'[id] = upload
      /\ \A i \in Ids \ {id} : records'[i] = records[i] /\ opaque'[i] = opaque[i]
  BY <1>1, <1>2 DEF TypeOK, License
<1>4. id \in Stored' /\ Stored' = Stored
  BY <1>1, <1>3, NoneIsNoLicense DEF Stored
<1>5. ASSUME NEW i \in Ids \ {id} PROVE Shown(i)' = Shown(i)
  BY <1>1, <1>3, <1>4 DEF Shown, Seats
<1>6. Registry!StoreOpaqueRecord(id, upload)
  <2>1. Shown(id) # None /\ Shown(id) =
          [key_hash |-> records[id].key_hash,
           content |-> [revoked |-> records[id].revoked, seats |-> Seats(id)],
           registration |-> opaque[id]]
    BY <1>1, ShownIsAnEntry DEF EntriesShown, Shown
  <2>2. Seats(id)' = Seats(id)
    BY <1>1, <1>3 DEF Seats
  <2>3. Shown(id)' =
          [key_hash |-> records[id].key_hash,
           content |-> [revoked |-> records[id].revoked, seats |-> Seats(id)],
           registration |-> upload]
    BY <1>3, <1>4, <2>2 DEF Shown
  <2> QED BY <1>1, <2>1, <2>3 DEF Registry!StoreOpaqueRecord
<1> QED BY <1>1, <1>5, <1>6, OneLicenseChanges

\* The in-memory store implements the registry (store.go:16-25).
THEOREM StoreImplementsRegistry == Spec => ImplementsRegistry
<1>1. Init => Registry!Init
  BY DEF Init, Registry!Init, Shown, Stored
<1>2. SharingInv /\ TypeOK' /\ [Next]_vars => [Registry!Next]_([id \in Ids |-> Shown(id)])
  <2> SUFFICES ASSUME SharingInv, TypeOK', [Next]_vars
               PROVE  Registry!Next \/ UNCHANGED [id \in Ids |-> Shown(id)]
    OBVIOUS
  <2>1. ASSUME UNCHANGED <<records, opaque, heap>>
        PROVE  UNCHANGED [id \in Ids |-> Shown(id)]
    <3>1. \A id \in Ids : Shown(id)' = Shown(id)
      BY <2>1 DEF Shown, Stored, Seats
    <3> QED BY <3>1
  <2>2. ASSUME NEW r \in Requests,
               \/ \E id \in Ids : UpdateGet(r, id)
               \/ \E key \in Keys : Resolve(r, key, "register") \/ Resolve(r, key, "login")
               \/ RegisterRefused(r) \/ StartLogin(r) \/ SignToken(r)
        PROVE  UNCHANGED <<records, opaque, heap>>
    BY <2>2 DEF UpdateGet, Resolve, RegisterRefused, StartLogin, SignToken, store
  <2>3. UNCHANGED vars => UNCHANGED <<records, opaque, heap>>
    BY DEF vars, store
  <2> QED BY <2>1, <2>2, <2>3, CreateIsCreate, BindIsUpdate, StoreIsUpdate, RegisterIsRegister
          DEF Next
<1>3. SharingInv => TypeOK
  BY DEF SharingInv, IInv
<1> QED BY <1>1, <1>2, <1>3, SharingInvariant, PTL DEF Spec, ImplementsRegistry, Registry!Spec
=============================================================================
