-------------------------- MODULE MCLicensifyClient --------------------------
EXTENDS LicensifyClientProperties, TLC

\* Processes that start without a token key, and with or without a server URL.
MCUnpinned == {[server_url |-> TRUE, server_public_key |-> None, binary_matches |-> TRUE]}
MCAnyUrl == {[server_url |-> u, server_public_key |-> None, binary_matches |-> TRUE] : u \in BOOLEAN}
\* Processes that start with one of the server's keys configured.
MCPinned == {[server_url |-> TRUE, server_public_key |-> k, binary_matches |-> TRUE] : k \in SigningKeys}

\* What the handles do to each other through the files: every call and every
\* interleaving of their steps, at one time on one machine, with nobody calling
\* the setters and no process exit.
SharingNext ==
  \E h \in Handles :
    \/ \E key \in LicenseKeys : Activate(h, key)
    \/ Check(h)
    \/ Deactivate(h)
    \/ ServerAnswers(h)
    \/ LocalStep(h)

SharingSpec == Init /\ [][SharingNext]_vars

Symmetry == Permutations(Handles) \cup Permutations(SigningKeys) \cup Permutations(Grants)
              \cup Permutations(Machines)
=============================================================================
