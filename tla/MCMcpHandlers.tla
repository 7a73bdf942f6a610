---------------------------- MODULE MCMcpHandlers ----------------------------
EXTENDS McpHandlers, TLC

\* A license with both features and one with "pro" alone.
CONSTANTS g1, g2
MCHasBase == (g1 :> TRUE) @@ (g2 :> FALSE) @@ (Default :> TRUE) @@ (None :> FALSE)
MCHasPro == (g1 :> TRUE) @@ (g2 :> TRUE) @@ (Default :> FALSE) @@ (None :> FALSE)
=============================================================================
