---------------------------- MODULE LicenseRegistry ----------------------------
(***************************************************************************)
(* What the Store interface (server/internal/db/store.go) promises the     *)
(* rest of the server, whichever of its two implementations is behind it:  *)
(* a map from uuids to licenses in which keys are unique, a license keeps  *)
(* its id and key for ever, a registration is added beside the license's   *)
(* contents and is never dropped, and each change is about one license.    *)
(***************************************************************************)
CONSTANTS
  Ids,       \* uuids
  Keys,      \* license keys, standing for their hashes
  Contents,  \* what else a license holds and an update may change
  Uploads,   \* registrations
  None       \* no license, no registration

VARIABLE licenses   \* licenses[id], or None

License == [key_hash: Keys, content: Contents, registration: Uploads \cup {None}]

Init == licenses = [id \in Ids |-> None]

\* Nothing but the entry of `id` changes.
OnlyOf(id) == \A other \in Ids \ {id} : licenses'[other] = licenses[other]

Create(id, key, content) ==
  /\ licenses[id] = None
  /\ \A other \in Ids : licenses[other] # None => licenses[other].key_hash # key
  /\ licenses'[id] = [key_hash |-> key, content |-> content, registration |-> None]

Update(id, content) ==
  /\ licenses[id] # None
  /\ licenses'[id] = [licenses[id] EXCEPT !.content = content]

StoreOpaqueRecord(id, upload) ==
  /\ licenses[id] # None
  /\ licenses'[id] = [licenses[id] EXCEPT !.registration = upload]

Next ==
  /\ \E id \in Ids :
       /\ OnlyOf(id)
       /\ \/ \E key \in Keys, content \in Contents : Create(id, key, content)
          \/ \E content \in Contents : Update(id, content)
          \/ \E upload \in Uploads : StoreOpaqueRecord(id, upload)
  /\ licenses' \in [Ids -> License \cup {None}]

Spec == Init /\ [][Next]_licenses
=============================================================================
