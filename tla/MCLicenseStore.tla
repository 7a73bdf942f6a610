---------------------------- MODULE MCLicenseStore ----------------------------
EXTENDS LicenseStore, TLC

Symmetry == Permutations(Requests) \cup Permutations(Ids) \cup Permutations(Keys)
              \cup Permutations(Uploads)

\* An id in the body comes alone.
MCBodies == {body \in Body : body.id = None \/ (body.revoked = None /\ body.seat_count = None)}

\* States up to the names of cells: of a pointer only what it points to and
\* who shares it.  No definition tells one cell from another.
Shape(cell) ==
  IF cell = None THEN None
  ELSE <<heap[cell], {id \in Stored : records[id].seat_count = cell},
         {r \in Requests : request[r].license # None /\ request[r].license.seat_count = cell}>>

Shaped(license) ==
  IF license = None THEN None ELSE [license EXCEPT !.seat_count = Shape(@)]

UpToCells == <<[id \in Ids |-> Shaped(records[id])], opaque,
               [r \in Requests |-> [request[r] EXCEPT !.license = Shaped(@)]]>>
=============================================================================
