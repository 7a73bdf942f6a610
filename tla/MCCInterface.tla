----------------------------- MODULE MCCInterface -----------------------------
EXTENDS CInterface, TLC

\* One process environment: a server URL, one of its keys, no pin.
MCPinned == {[server_url |-> TRUE, server_public_key |-> k, binary_matches |-> TRUE] :
              k \in SigningKeys}

\* What the server grants is not what an offline activation does.
CONSTANT g1
MCFeatures == (g1 :> {"pro"})
=============================================================================
