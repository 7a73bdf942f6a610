---------------------- MODULE LicensifyClientProperties ----------------------
(***************************************************************************)
(* What the client promises its embedder, over LicensifyClient.            *)
(***************************************************************************)
EXTENDS LicensifyClient

AllIdle == \A h \in Handles : IsIdle(h)

\* h's call returns r in this step.
Returns(h, r) == ~IsIdle(h) /\ IsIdle(h)' /\ result'[h] = r

\* Whether check() would say Valid now, if every write succeeds.
CheckPasses(h) ==
  /\ config[h].binary_matches
  /\ CacheVerdict(h) = "ok"
  /\ ~TooOld(cache_file.token, seen_file)

\* check() answers Valid only about a token signed by the key this handle
\* trusts, with the integrity gate passed, and from then on shows exactly the
\* entitlements of that token (lib.rs:259-309), whatever other handles wrote to
\* the files meanwhile.
ValidMeansGenuine ==
  [][\A h \in Handles : Returns(h, "valid") =>
       /\ config[h].binary_matches
       /\ call[h].token.key = config[h].server_public_key
       /\ entitlements_cache'[h] = call[h].token.entitlements]_vars

\* check() answers Valid only about a token bound to the fingerprint it computed
\* itself (lib.rs:281-286).  The sealed file alone does not see to that: the
\* fingerprint may change between the binding test of an activation and the
\* sealing of its answer (lib.rs:249-252), which leaves a token of one
\* fingerprint under the key of another.
ValidMeansBound ==
  [][\A h \in Handles : Returns(h, "valid") => call[h].token.machine = call[h].machine]_vars

\* "Expired" is said of genuine tokens of this machine only; a foreign,
\* replaced or unreadable cache is "Invalid", and the end of the window is widened
\* by the skew tolerance (token.rs:84-95, lib.rs:265-279).
ExpiredMeansGenuine ==
  [][\A h \in Handles : result[h] # "expired" /\ result'[h] = "expired" =>
       /\ cache_file # None
       /\ cache_file.sealed_for = machine
       /\ cache_file.token.key = config[h].server_public_key
       /\ cache_file.token.expires_at < now - ClockSkew]_vars

\* An activation that reports server-signed entitlements has left everything a
\* later check() needs: the token is in the cache, it verifies under the key
\* this handle now trusts, and the marker covers it (lib.rs:247-256).
OnlineActivationIsDurable ==
  \A h \in Handles : result[h] = "online" =>
    /\ cache_file # None
    /\ cache_file.token.key = config[h].server_public_key
    /\ cache_file.token.entitlements = entitlements_cache[h]
    /\ cache_file.token.issued_at <= seen_file

\* Signed entitlements become visible only with the answer that earned them:
\* never from a check() that then says Invalid or fails, never from an
\* activation that then falls back (lib.rs:256, 298-303).
SignedOnlyOnSuccess ==
  [][\A h \in Handles :
       entitlements_cache'[h] # entitlements_cache[h] /\ entitlements_cache'[h] \in Grants
         => Returns(h, "online") \/ Returns(h, "valid")]_vars

\* No check() ever takes a license away, whichever of its steps fails and
\* wherever the process dies in it: a cache that check() accepts is lost only
\* through the clock, the machine, the configured key or pin, an activation or
\* a deactivation.
ChecksNeverRevoke ==
  [][\A h \in Handles : CheckPasses(h) /\ ~CheckPasses(h)' =>
       \/ environment' # environment
       \/ config'[h] # config[h]
       \/ \E g \in Handles : call[g].op \in {"activate", "deactivate"}]_vars

\* Between calls the marker covers every token accepted since it was last
\* removed, unless a rewrite of it was cut short (lib.rs:428-433).
HonouredIsRecorded == AllIdle /\ ~torn => honoured <= seen_file

\* Rollback protection as the code has it (lib.rs:288-296): check() is never
\* Valid for a token older than the newest accepted one by more than the skew
\* tolerance, unless a rewrite of the marker was cut short.  The tolerance is the
\* code's: docs/architecture.md:17 speaks of any "strictly older token".
RollbackBound ==
  [][\A h \in Handles : Returns(h, "valid") =>
       torn \/ call[h].token.issued_at >= honoured - ClockSkew]_vars

-----------------------------------------------------------------------------
\* The record behind the marker: in the file, or, while that is rewritten, in
\* the locals of the call that rewrites it.
Rewrites(h) == At(h, "marker_write")
Marker ==
  IF \E h \in Handles : Rewrites(h) THEN call[CHOOSE h \in Handles : Rewrites(h)].seen
  ELSE seen_file

\* The token a call is about, from its verification on.
HoldingPhases == MarkerPhases \cup {"rollback", "seal", "cache_truncate", "cache_write"}
Presented(h) ==
  IF call[h].phase \in HoldingPhases THEN call[h].token.issued_at ELSE Unseen

Verdict(h) ==
  IF result[h] \in {"valid", "invalid", "online", "deactivated"} THEN result[h] ELSE "none"

Record == INSTANCE RollbackRecord
  WITH record <- Marker, presented <- [h \in Handles |-> Presented(h)],
       verdict <- [h \in Handles |-> Verdict(h)], lost <- torn

\* The marker is compared in one step, read again, truncated and written in three
\* more, any of which may fail or be the last of its process; to calls that do not
\* overlap it is one register.  The very token a check() verified is compared with
\* it when the answer is given, and entered with the answer: a token is Valid only
\* if it is not too old for what the register holds at that moment, be it after a
\* rewrite was cut short, and of the tokens that verify only one that is too old
\* is Invalid (lib.rs:288-298, 418-440).
RecordIsAtomic == Record!Spec

-----------------------------------------------------------------------------
\* What the documentation says and the code does not do.

\* docs/architecture.md:14: clients verify cached tokens against the key
\* "learned during activate": a license check() accepts is accepted by the
\* process started next, on the same machine, at the same time.
LicenseSurvivesRestart ==
  [][\A h \in Handles : IsIdle(h) /\ CheckPasses(h) /\ Restart(h) => CheckPasses(h)']_vars
=============================================================================
