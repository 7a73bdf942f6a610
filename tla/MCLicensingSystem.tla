-------------------------- MODULE MCLicensingSystem --------------------------
EXTENDS LicensingSystem, TLC

\* Processes that start without a token key.
MCUnpinned == {[server_url |-> TRUE, server_public_key |-> None, binary_matches |-> TRUE]}

MCSymmetry == Permutations(SigningKeys) \cup Permutations(RootKeys) \cup Permutations(Machines)
                \cup Permutations(LicenseKeys) \cup Permutations(Grants)

\* honoured, torn, disturbed and held are history, and last_online_error is only
\* reported: no guard looks at them, and no property of SystemKeys.cfg but for
\* the types of disturbed and held.
MCView == <<environment, files, config, license_key, entitlements_cache, call, result,
            servers, network>>

\* Two properties of SystemClocks.cfg are about disturbed and held.  With a Postgres
\* a registration stays, and a late request to make it again changes nothing.
MCExchangeView == <<environment, files, config, license_key, entitlements_cache, call, result,
                    servers, answer, late \ registered, disturbed, held>>

\* SystemClocks.cfg goes no further from a pin the executable does not meet: no
\* check passes under it, and an exchange does not look at it.
MCUnpinnedStays == \A h \in Handles : config[h].binary_matches
=============================================================================
