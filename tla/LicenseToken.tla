---------------------------- MODULE LicenseToken ----------------------------
(***************************************************************************)
(* License tokens and the rules by which a client accepts one.             *)
(*                                                                         *)
(* A token is kept down to the fields the client's decisions read: who     *)
(* signed it, which machine it is bound to, the window it is good for and  *)
(* the entitlements it grants.  Byte layout, nonce, license id and the     *)
(* one wire version are left out; a signature is the key that made it, so  *)
(* a token verifies under exactly one key.                                 *)
(***************************************************************************)
EXTENDS Integers

CONSTANTS
  SigningKeys,   \* Ed25519 token keys a server process may have
  Machines,      \* hardware fingerprints
  Grants,        \* entitlements a server may sign
  RootKeys,      \* root keys of certificate authorities
  MaxTime,       \* bound on every clock: times are 0..MaxTime
  ClockSkew,     \* CLOCK_SKEW_SECS
  TokenTTL,      \* life of a token, 30 days in the server
  LeafBackdate,  \* how far IssueLeaf sets NotBefore into the past
  LeafTTL,       \* life of a leaf certificate, 1 year in the server
  CaBackdate,    \* how far NewAuthority sets NotBefore into the past, 1 hour
  CaTTL          \* life of the intermediate, 10 years

ASSUME TokenAssumption ==
  /\ MaxTime \in Nat /\ ClockSkew \in Nat /\ TokenTTL \in Nat
  /\ LeafBackdate \in Nat /\ LeafTTL \in Nat /\ CaBackdate \in Nat /\ CaTTL \in Nat

Times == 0 .. MaxTime

Token == [key: SigningKeys, machine: Machines, issued_at: Times,
          expires_at: Int, entitlements: Grants]

\* What the server signs at time `at`.
BuildToken(key, machine, at, grant) ==
  [key |-> key, machine |-> machine, issued_at |-> at,
   expires_at |-> at + TokenTTL, entitlements |-> grant]

\* Seeded fault: the dates are looked at before the signature.
FaultyVerify(token, key, now) ==
  IF now - ClockSkew > token.expires_at THEN "expired"
  ELSE IF token.key # key \/ now + ClockSkew < token.issued_at THEN "invalid" ELSE "ok"

\* The verdict of token::verify.  A token that is not genuine is "invalid"
\* whatever its dates say: only a genuine one can be "expired".
Verify(token, key, now) ==
  IF \/ token.issued_at > token.expires_at
     \/ token.key # key
     \/ now + ClockSkew < token.issued_at
  THEN "invalid"
  ELSE IF now - ClockSkew > token.expires_at THEN "expired" ELSE "ok"

\* The authority of a server process: its root key, and when NewAuthority made
\* its root and its intermediate.
Authorities == [root: RootKeys, since: Times]

\* Both are inside their windows.  They begin together, and the root, which is
\* good for 20 years, never ends first.
InForce(ca, now) == ca.since - CaBackdate <= now /\ now <= ca.since + CaTTL

\* A leaf certificate: the authority behind it and the time of issue.
Leaf == [ca: Authorities, issued_at: Times]

\* Seeded fault: the leaf is good from the moment of its issue.
FaultyVerifyChain(leaf, root, now) ==
  /\ leaf.ca = root /\ InForce(root, now)
  /\ leaf.issued_at <= now /\ now <= leaf.issued_at + LeafTTL

\* cert::verify_chain on a leaf, the intermediate of the same answer and the
\* root fetched afterwards: each signs the next, and all three are inside their
\* windows.  A leaf may outlive the intermediate that signed it.
VerifyChain(leaf, root, now) ==
  /\ leaf.ca = root
  /\ InForce(root, now)
  /\ leaf.issued_at - LeafBackdate <= now
  /\ now <= leaf.issued_at + LeafTTL
=============================================================================
