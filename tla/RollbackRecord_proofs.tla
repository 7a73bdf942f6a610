------------------------- MODULE RollbackRecord_proofs -------------------------
(***************************************************************************)
(* The client's marker implements RollbackRecord, for any number of        *)
(* handles whose calls do not overlap.                                     *)
(***************************************************************************)
EXTENDS LicensifyClient_proofs

-----------------------------------------------------------------------------
\* The mapping.

\* Where the record is when nobody but h rewrites it.
MarkerIsOf(h) ==
  (\A g \in Handles \ {h} : ~Rewrites(g)) =>
    Marker = IF Rewrites(h) THEN call[h].seen ELSE seen_file

LEMMA MarkerFound == \A h \in Handles : MarkerIsOf(h)
<1> SUFFICES ASSUME NEW h \in Handles, \A g \in Handles \ {h} : ~Rewrites(g)
             PROVE  Marker = IF Rewrites(h) THEN call[h].seen ELSE seen_file
  BY DEF MarkerIsOf
<1>1. CASE Rewrites(h)
  <2>1. (CHOOSE g \in Handles : Rewrites(g)) = h
    BY <1>1
  <2> QED BY <1>1, <2>1 DEF Marker
<1>2. CASE ~Rewrites(h)
  BY <1>2 DEF Marker
<1> QED BY <1>1, <1>2

\* And where it is after a step.
LEMMA MarkerFoundLater == (\A h \in Handles : MarkerIsOf(h))'
  BY MarkerFound, PTL

Presentations == [h \in Handles |-> Presented(h)]
Verdicts == [h \in Handles |-> Verdict(h)]
record_vars == <<Marker, Presentations, Verdicts, torn>>

\* A step of h changes no verdict and no presented token but its own.
LEMMA OthersSayNothing ==
  ASSUME TypeOK, NEW h \in Handles, Acts(h)
  PROVE  /\ Verdicts' = [Verdicts EXCEPT ![h] = Verdict(h)']
         /\ Presentations' = [Presentations EXCEPT ![h] = Presented(h)']
<1>1. ASSUME NEW g \in Handles \ {h}
      PROVE  Verdict(g)' = Verdict(g) /\ Presented(g)' = Presented(g)
  BY <1>1, OthersStay DEF Verdict, Presented
<1> QED BY <1>1 DEF Verdicts, Presentations

\* What h says when its call is over.
LEMMA SaysItsVerdict ==
  ASSUME TypeOK, NEW h \in Handles, Acts(h), Presented(h)' = Unseen,
         NEW v, Verdict(h)' = v
  PROVE  Record!Says(h, v)
  BY OthersSayNothing DEF Record!Says, Record!Unseen, Unseen, Verdicts, Presentations

\* A step of h that leaves the record, and says nothing about it.
Aside(h) ==
  \/ UNCHANGED <<Presented(h), Verdict(h)>>
  \/ Presented(h)' = Unseen /\ Verdict(h)' = "none"

LEMMA StepAside ==
  ASSUME TypeOK, NEW h \in Handles, Acts(h), UNCHANGED <<Marker, torn>>, Aside(h)
  PROVE  Record!Next \/ UNCHANGED record_vars
<1>1. CASE Presented(h)' = Unseen /\ Verdict(h)' = "none"
  <2>1. Record!Otherwise(h)
    BY <1>1, SaysItsVerdict DEF Record!Otherwise
  <2> QED BY <2>1 DEF Record!Next
<1>2. CASE UNCHANGED <<Presented(h), Verdict(h)>>
  <2>1. Verdicts' = Verdicts /\ Presentations' = Presentations
    BY <1>2, OthersSayNothing DEF Verdicts, Presentations
  <2> QED BY <2>1 DEF record_vars
<1> QED BY <1>1, <1>2 DEF Aside

\* A step of h in which its call comes to a token that verifies.
LEMMA StepPresents ==
  ASSUME TypeOK, NEW h \in Handles, Acts(h), UNCHANGED <<Marker, torn>>,
         Presented(h) = Unseen, NEW at \in Times, Presented(h)' = at, Verdict(h)' = "none"
  PROVE  Record!Next
<1>1. Record!Present(h, at)
  BY OthersSayNothing DEF Record!Present, Record!Unseen, Unseen, Verdicts, Presentations
<1> QED BY <1>1 DEF Record!Next

\* A step of h that refuses the token presented, or has none.
LEMMA StepRefuses ==
  ASSUME TypeOK, NEW h \in Handles, Acts(h), UNCHANGED <<Marker, torn>>,
         Presented(h)' = Unseen, Verdict(h)' = "invalid",
         Presented(h) # Unseen => Record!TooOld(Presented(h))
  PROVE  Record!Next
<1>1. Presentations[h] = Presented(h)
  BY DEF Presentations
<1>2. Record!Invalid(h)
  BY <1>1, SaysItsVerdict DEF Record!Invalid, Record!Unseen, Unseen, Presentations
<1> QED BY <1>2 DEF Record!Next

\* What a call returns that is not about the record.
LEMMA ReturnsAside ==
  ASSUME TypeOK, NEW h \in Handles, NEW r, Return(h, r),
         r \notin {"valid", "invalid", "online", "deactivated"}
  PROVE  Verdict(h)' = "none"
  BY DEF TypeOK, Return, Verdict

\* A token is presented while a call holds one.
LEMMA PresentedTimes ==
  ASSUME TypeOK, NEW h \in Handles
  PROVE  /\ call[h].phase \in HoldingPhases =>
              Presented(h) = call[h].token.issued_at /\ Presented(h) \in Times
         /\ call[h].phase \notin HoldingPhases => Presented(h) = Unseen
<1>1. CASE call[h].phase \in HoldingPhases
  <2>1. call[h].token \in Token
    BY <1>1 DEF TypeOK, HoldingPhases
  <2> QED BY <1>1, <2>1 DEF Presented, Token
<1>2. CASE call[h].phase \notin HoldingPhases
  BY <1>2 DEF Presented
<1> QED BY <1>1, <1>2

\* And after a step.
LEMMA PresentedLater ==
  ASSUME TypeOK', NEW h \in Handles
  PROVE  /\ call'[h].phase \in HoldingPhases =>
              Presented(h)' = call'[h].token.issued_at /\ Presented(h)' \in Times
         /\ call'[h].phase \notin HoldingPhases => Presented(h)' = Unseen
<1>1. CASE call'[h].phase \in HoldingPhases
  <2>1. call'[h].token \in Token
    BY <1>1 DEF TypeOK, HoldingPhases, At
  <2> QED BY <1>1, <2>1 DEF Presented, Token
<1>2. CASE call'[h].phase \notin HoldingPhases
  BY <1>2 DEF Presented
<1> QED BY <1>1, <1>2

LEMMA IdlePresentsNothing ==
  ASSUME NEW h \in Handles, call'[h] = Idle
  PROVE  Presented(h)' = Unseen
  BY DEF Presented, Idle, HoldingPhases, MarkerPhases

-----------------------------------------------------------------------------
\* The steps.

\* A call that begins says nothing about the record, comes to the token of the
\* cache, or refuses what it finds there (lib.rs:138-147, 259-286).
LEMMA StartsStep ==
  ASSUME TypeOK, TypeOK', NEW h \in Handles, Starts(h), UNCHANGED <<Marker, torn>>
  PROVE  Record!Next \/ UNCHANGED record_vars
<1>0. call \in [Handles -> Call] /\ result \in [Handles -> Results] /\ Acts(h)
  BY DEF TypeOK, Acts
<1>1. IsIdle(h) /\ Presented(h) = Unseen
  <2>1. IsIdle(h)
    BY DEF Starts, ActivateEmptyKey, ActivateWithoutServer, Activate, Check, Deactivate,
           SetServerKey, SetExpectedDigest
  <2> QED BY <2>1 DEF IsIdle, Presented, HoldingPhases, MarkerPhases
<1>2. ASSUME result' = [result EXCEPT ![h] = "none"] PROVE Verdict(h)' = "none"
  BY <1>0, <1>2 DEF Verdict
<1>3. ASSUME NEW r, Return(h, r), r # "invalid", r \notin {"valid", "online", "deactivated"}
      PROVE  Aside(h)
  BY <1>3, EndingsAreIdle, IdlePresentsNothing, ReturnsAside DEF Aside
<1>4. CASE Check(h)
  <2>1. CASE \E gateError \in GateErrors(h) : gateError /\ Return(h, "error")
    BY <1>0, <1>3, <2>1, StepAside
  <2>2. CASE Return(h, CacheVerdict(h)) /\ CacheVerdict(h) # "ok"
    <3>1. CacheVerdict(h) \in {"invalid", "expired"}
      BY <2>2 DEF CacheVerdict, Opens, Verify
    <3>2. CASE CacheVerdict(h) = "expired"
      BY <1>0, <1>3, <2>2, <3>2, StepAside
    <3>3. CASE CacheVerdict(h) = "invalid"
      <4>1. Verdict(h)' = "invalid" /\ Presented(h)' = Unseen
        BY <1>0, <2>2, <3>3, EndingsAreIdle, IdlePresentsNothing DEF Return, Verdict
      <4> QED BY <1>0, <1>1, <4>1, StepRefuses
    <3> QED BY <3>1, <3>2, <3>3
  <2>3. CASE /\ call' = [call EXCEPT ![h] = [Idle EXCEPT !.op = "check",
                          !.phase = "rollback", !.machine = machine,
                          !.token = cache_file.token]]
             /\ result' = [result EXCEPT ![h] = "none"]
    <3>1. call'[h].phase = "rollback"
      BY <1>0, <2>3 DEF Idle
    <3>2. Presented(h)' \in Times
      BY <3>1, PresentedLater DEF HoldingPhases
    <3> QED BY <1>0, <1>1, <1>2, <2>3, <3>2, StepPresents
  <2> QED BY <1>4, <2>1, <2>2, <2>3 DEF Check
<1>5. CASE ~Check(h)
  <2>1. Verdict(h)' = "none"
    BY <1>2, <1>5, ReturnsAside
       DEF Starts, ActivateEmptyKey, ActivateWithoutServer, Activate, Deactivate, SetServerKey,
           SetExpectedDigest, Begin
  <2>2. Presented(h)' = Unseen
    <3>1. ASSUME NEW op, NEW p \in {"token_key", "remove_cache"}, Begin(h, op, p)
          PROVE  call'[h].phase \notin HoldingPhases
      BY <1>0, <3>1 DEF Begin, Idle, HoldingPhases, MarkerPhases
    <3>2. ASSUME NEW r, Return(h, r) PROVE call'[h].phase \notin HoldingPhases
      BY <1>0, <3>2 DEF Return, Idle, HoldingPhases, MarkerPhases
    <3>3. ASSUME UNCHANGED call PROVE call'[h].phase \notin HoldingPhases
      BY <1>1, <3>3 DEF IsIdle, HoldingPhases, MarkerPhases
    <3>4. call'[h].phase \notin HoldingPhases
      BY <1>5, <3>1, <3>2, <3>3
         DEF Starts, ActivateEmptyKey, ActivateWithoutServer, Activate, Deactivate, SetServerKey,
             SetExpectedDigest
    <3> QED BY <3>4, PresentedLater
  <2> QED BY <1>0, <2>1, <2>2, StepAside DEF Aside
<1> QED BY <1>4, <1>5

\* Of the answers, that to the last request may bring a token that verifies
\* (lib.rs:234-247).
LEMMA AnswersStep ==
  ASSUME TypeOK, TypeOK', NEW h \in Handles, ServerAnswers(h), Silent(h),
         UNCHANGED <<Marker, torn>>
  PROVE  Record!Next \/ UNCHANGED record_vars
<1>0. call \in [Handles -> Call] /\ result \in [Handles -> Results] /\ Acts(h)
  BY DEF TypeOK, Acts
<1>1. call[h].phase \in RequestPhases
  BY DEF ServerAnswers, TokenKeyAnswered, ActivateAnswered, CaRootAnswered, ValidateAnswered,
         At, RequestPhases
<1>2. Presented(h) = Unseen /\ Verdict(h) = "none"
  BY <1>1 DEF Presented, HoldingPhases, MarkerPhases, RequestPhases, Silent, IsIdle, Verdict
<1>3. CASE ActivateLocally(h)
  <2>1. Presented(h)' = Unseen /\ Verdict(h)' = "none"
    BY <1>3, EndingsAreIdle, IdlePresentsNothing, ReturnsAside DEF ActivateLocally
  <2> QED BY <1>0, <2>1, StepAside DEF Aside
<1>4. CASE UNCHANGED result
  <2>1. Verdict(h)' = "none"
    BY <1>2, <1>4 DEF Verdict
  <2>2. CASE call'[h].phase \in HoldingPhases
    BY <1>0, <1>2, <2>1, <2>2, PresentedLater, StepPresents
  <2>3. CASE call'[h].phase \notin HoldingPhases
    <3>1. Presented(h)' = Unseen
      BY <2>3, PresentedLater
    <3> QED BY <1>0, <2>1, <3>1, StepAside DEF Aside
  <2> QED BY <2>2, <2>3
<1>5. ActivateLocally(h) \/ UNCHANGED result
  BY DEF ServerAnswers, TokenKeyAnswered, ActivateAnswered, CaRootAnswered, ValidateAnswered
<1> QED BY <1>3, <1>4, <1>5

\* A call that goes on with the token it holds.
LEMMA HoldsOn ==
  ASSUME NEW h \in Handles, UNCHANGED result, call[h].phase \in HoldingPhases,
         call'[h].phase \in HoldingPhases, call'[h].token = call[h].token
  PROVE  Aside(h)
  BY DEF Aside, Presented, Verdict

\* What a handle does that has the files to itself for the moment.
LEMMA AloneStep ==
  ASSUME TypeOK, TypeOK', NEW h \in Handles, Acts(h), OthersIdle(h), Silent(h),
         Recorded(h), RecentCheck(h)
  PROVE  Record!Next \/ UNCHANGED record_vars
<1>1. call \in [Handles -> Call] /\ call[h] \in Call /\ result \in [Handles -> Results]
  BY DEF TypeOK
<1>2. \A g \in Handles \ {h} : ~Rewrites(g) /\ ~Rewrites(g)'
  BY OthersStay DEF OthersIdle, IsIdle, Rewrites, At
<1>3. /\ Marker = IF Rewrites(h) THEN call[h].seen ELSE seen_file
      /\ Marker' = IF Rewrites(h)' THEN call'[h].seen ELSE seen_file'
  BY <1>2, MarkerFound, MarkerFoundLater DEF MarkerIsOf
<1>4. ASSUME call'[h] = Idle PROVE ~Rewrites(h)' /\ Presented(h)' = Unseen
  BY <1>4, IdlePresentsNothing DEF Rewrites, At, Idle
<1>5. ASSUME ~Rewrites(h), ~Rewrites(h)', UNCHANGED <<seen_file, torn>>, Aside(h)
      PROVE  Record!Next \/ UNCHANGED record_vars
  BY <1>3, <1>5, StepAside
<1>6. ASSUME ActivateLocally(h) \/ MarkerError(h)
      PROVE  Aside(h) /\ ~Rewrites(h)' /\ Verdict(h)' = "none"
  BY <1>4, <1>6, EndingsAreIdle, ReturnsAside DEF ActivateLocally, MarkerError, Aside
<1>7. CASE Starts(h) \/ ServerAnswers(h)
  <2>1. ~Rewrites(h) /\ ~Rewrites(h)' /\ UNCHANGED <<seen_file, torn>>
    BY <1>7, StartsAndAnswersAvoidMarker DEF Rewrites, At, MarkerPhases
  <2>2. Marker' = Marker
    BY <1>3, <2>1
  <2> QED BY <1>7, <2>1, <2>2, StartsStep, AnswersStep
<1>8. CASE RequestFails(h) \/ CacheTruncate(h) \/ CacheWrite(h)
  <2>1. ~Rewrites(h) /\ UNCHANGED <<seen_file, torn>>
    BY <1>8 DEF RequestFails, CacheTruncate, CacheWrite, Rewrites, At, RequestPhases, files, history
  <2>2. ASSUME Goto(h, "cache_write") \/ call' = [call EXCEPT ![h].phase = "marker_read", ![h].machine = None],
               ~RequestFails(h), UNCHANGED result
        PROVE  ~Rewrites(h)' /\ Aside(h)
    <3>1. call[h].phase \in HoldingPhases
      BY <1>8, <2>2 DEF CacheTruncate, CacheWrite, At, HoldingPhases
    <3>2. call'[h].phase \in {"cache_write", "marker_read"} /\ call'[h].token = call[h].token
      BY <1>1, <2>2 DEF Goto, Call
    <3> QED BY <2>2, <3>1, <3>2, HoldsOn DEF Rewrites, At, HoldingPhases, MarkerPhases
  <2> QED BY <1>5, <1>6, <1>8, <2>1, <2>2 DEF RequestFails, CacheTruncate, CacheWrite
<1>9. CASE Seal(h) \/ MarkerRead(h)
  <2>1. ~Rewrites(h) /\ UNCHANGED <<seen_file, torn, result>> /\ call[h].phase \in HoldingPhases
    BY <1>9 DEF Seal, MarkerRead, Rewrites, At, files, history, HoldingPhases, MarkerPhases
  <2>2. call'[h].phase \in {"cache_truncate", "marker_truncate"} /\ call'[h].token = call[h].token
    <3>1. CASE Seal(h)
      BY <1>1, <3>1 DEF Seal, Call
    <3>2. CASE MarkerRead(h)
      BY <1>1, <3>2 DEF MarkerRead, Call
    <3> QED BY <1>9, <3>1, <3>2
  <2>3. ~Rewrites(h)' /\ Aside(h)
    BY <2>1, <2>2, HoldsOn DEF Rewrites, At, HoldingPhases, MarkerPhases
  <2> QED BY <1>5, <2>1, <2>3
<1>10. CASE RemoveCache(h)
  <2>1. ~Rewrites(h) /\ UNCHANGED <<seen_file, torn, result>> /\ Presented(h) = Unseen
    BY <1>10 DEF RemoveCache, Rewrites, At, history, Presented, HoldingPhases, MarkerPhases
  <2>2. call'[h].phase = "remove_marker"
    BY <1>1, <1>10 DEF RemoveCache, Goto, Call
  <2>3. ~Rewrites(h)' /\ Aside(h)
    BY <2>1, <2>2 DEF Rewrites, At, Aside, Presented, Verdict, HoldingPhases, MarkerPhases
  <2> QED BY <1>5, <2>1, <2>3
<1>11. CASE CheckRollback(h)
  <2>1. /\ ~Rewrites(h) /\ UNCHANGED <<seen_file, torn>> /\ call[h].phase \in HoldingPhases
        /\ Presented(h) = call[h].token.issued_at
    BY <1>11 DEF CheckRollback, Rewrites, At, files, history, Presented, HoldingPhases
  <2>2. CASE TooOld(call[h].token, seen_file) /\ Return(h, "invalid")
    <3>1. Presented(h)' = Unseen /\ ~Rewrites(h)' /\ Verdict(h)' = "invalid"
      BY <1>1, <1>4, <2>2, EndingsAreIdle DEF Return, Verdict
    <3>2. Record!TooOld(Presented(h)) /\ Marker' = Marker
      BY <1>3, <2>1, <2>2, <3>1 DEF TooOld, Record!TooOld, Unseen, Record!Unseen
    <3> QED BY <2>1, <3>1, <3>2, StepRefuses
  <2>3. CASE Goto(h, "marker_read") /\ UNCHANGED result
    <3>1. call'[h].phase = "marker_read" /\ call'[h].token = call[h].token
      BY <1>1, <2>3 DEF Goto, Call
    <3>2. ~Rewrites(h)' /\ Aside(h)
      BY <2>1, <2>3, <3>1, HoldsOn DEF Rewrites, At, HoldingPhases, MarkerPhases
    <3> QED BY <1>5, <2>1, <3>2
  <2> QED BY <1>11, <2>2, <2>3 DEF CheckRollback
<1>12. CASE MarkerTruncate(h)
  <2>1. ~Rewrites(h) /\ UNCHANGED torn /\ call[h].seen = seen_file /\ call[h].phase \in HoldingPhases
    BY <1>12 DEF MarkerTruncate, Rewrites, At, history, Recorded, HoldingPhases, MarkerPhases
  <2>2. CASE Goto(h, "marker_write") /\ UNCHANGED result
    <3>1. call'[h].phase = "marker_write" /\ call'[h].seen = call[h].seen /\ call'[h].token = call[h].token
      BY <1>1, <2>2 DEF Goto, Call
    <3>2. Rewrites(h)' /\ Aside(h)
      BY <2>1, <2>2, <3>1, HoldsOn DEF Rewrites, At, HoldingPhases, MarkerPhases
    <3> QED BY <1>3, <2>1, <3>1, <3>2, StepAside
  <2> QED BY <1>5, <1>6, <1>12, <2>1, <2>2 DEF MarkerTruncate
<1>13. CASE MarkerWrite(h)
  <2> DEFINE at == call[h].token.issued_at
  <2>1. call'[h] = Idle /\ Rewrites(h)
    BY <1>13, EndingsAreIdle DEF MarkerWrite, Rewrites
  <2>2. Marker = call[h].seen /\ Marker' = seen_file' /\ Presented(h)' = Unseen
    BY <1>3, <1>4, <2>1
  <2>3. at \in Times /\ call[h].seen \in Times \cup {Unseen}
    BY <1>1, <2>1 DEF TypeOK, Rewrites, At, MarkerPhases, Token, Call
  <2>4. Presentations[h] = at /\ Presentations[h] # Record!Unseen
    BY <2>1, <2>3 DEF Presentations, Presented, Rewrites, At, HoldingPhases, MarkerPhases,
                      Record!Unseen, Times
  <2>5. CASE torn' = TRUE /\ MarkerError(h) /\ UNCHANGED seen_file
    <3>1. seen_file' = Unseen /\ Verdict(h)' = "none"
      BY <1>6, <2>1, <2>5 DEF Recorded, Rewrites
    <3>2. Record!Lose(h)
      BY <2>2, <2>4, <2>5, <3>1, SaysItsVerdict DEF Record!Lose, Record!Unseen, Unseen, Presentations
    <3> QED BY <3>2 DEF Record!Next
  <2>6. CASE /\ seen_file' = Newer(at, call[h].seen)
             /\ Return(h, IF call[h].op = "activate" THEN "online" ELSE "valid")
             /\ UNCHANGED torn
    <3>1. Record!Enter(h)
      BY <2>2, <2>4, <2>6 DEF Record!Enter, Newer, Presentations
    <3>2. Verdict(h)' = IF call[h].op = "activate" THEN "online" ELSE "valid"
      BY <1>1, <2>6 DEF Return, Verdict
    <3>3. CASE call[h].op = "activate"
      <4>1. Record!Online(h)
        BY <2>2, <3>1, <3>2, <3>3, SaysItsVerdict DEF Record!Online
      <4> QED BY <4>1 DEF Record!Next
    <3>4. CASE call[h].op # "activate"
      <4>1. ~TooOld(call[h].token, call[h].seen)
        BY <2>1, <3>4 DEF RecentCheck, Rewrites, At
      <4>2. ~Record!TooOld(Presentations[h])
        BY <2>2, <2>4, <4>1 DEF TooOld, Record!TooOld, Unseen, Record!Unseen
      <4>3. Record!Valid(h)
        BY <2>2, <3>1, <3>2, <3>4, <4>2, SaysItsVerdict DEF Record!Valid, Presentations
      <4> QED BY <4>3 DEF Record!Next
    <3> QED BY <3>3, <3>4
  <2> QED BY <1>13, <2>5, <2>6 DEF MarkerWrite
<1>14. CASE RemoveMarker(h)
  <2>1. call'[h] = Idle /\ ~Rewrites(h)
    BY <1>14, EndingsAreIdle DEF RemoveMarker, Rewrites, At
  <2>2. Marker = seen_file /\ Marker' = seen_file'
    BY <1>3, <1>4, <2>1
  <2>3. Verdict(h)' = "deactivated"
    BY <1>1, <1>14 DEF RemoveMarker, Return, Verdict
  <2>4. \/ seen_file' = Unseen /\ torn' = FALSE
        \/ UNCHANGED <<seen_file, torn>>
    BY <1>14 DEF RemoveMarker, history
  <2>5. Record!Remove(h)
    BY <1>4, <2>1, <2>2, <2>3, <2>4, SaysItsVerdict DEF Record!Remove, Record!Unseen, Unseen
  <2> QED BY <2>5 DEF Record!Next
<1>15. CASE Restart(h)
  <2>1. call'[h] = Idle /\ Verdict(h)' = "none" /\ UNCHANGED seen_file
    BY <1>15, EndingsAreIdle, ReturnsAside DEF Restart, files
  <2>2. CASE Rewrites(h)
    <3>1. seen_file' = Unseen /\ torn' = TRUE
      BY <1>15, <2>1, <2>2 DEF Restart, Recorded, Rewrites
    <3>2. Presentations[h] # Record!Unseen
      BY <2>2, PresentedTimes DEF Presentations, Rewrites, At, HoldingPhases, MarkerPhases,
                                  Record!Unseen, Times
    <3>3. Record!Lose(h)
      BY <1>3, <1>4, <2>1, <3>1, <3>2, SaysItsVerdict DEF Record!Lose, Record!Unseen, Unseen, Presentations
    <3> QED BY <3>3 DEF Record!Next
  <2>3. CASE ~Rewrites(h)
    <3>1. torn' = torn
      BY <1>15, <2>3 DEF Restart, Rewrites, TypeOK
    <3> QED BY <1>4, <1>5, <2>1, <2>3, <3>1 DEF Aside
  <2> QED BY <2>2, <2>3
<1> QED BY <1>7, <1>8, <1>9, <1>10, <1>11, <1>12, <1>13, <1>14, <1>15 DEF Acts, LocalStep

\* What a handle does while another is in the middle of a call: nothing that
\* touches the record.
LEMMA BesideStep ==
  ASSUME TypeOK, TypeOK', OneCallAtATime, NEW h \in Handles, Acts(h), ~OthersIdle(h)
  PROVE  Record!Next \/ UNCHANGED record_vars
<1>1. PICK k \in Handles \ {h} : ~IsIdle(k)
  BY DEF OthersIdle
<1>2. IsIdle(h) /\ \A g \in Handles \ {k} : ~Rewrites(g)
  BY <1>1 DEF OneCallAtATime, IsIdle, Rewrites, At
<1>3. UNCHANGED <<files, history>> /\ UNCHANGED call[k]
  BY <1>1, <1>2, BetweenCalls, OthersStay
<1>4. Starts(h) \/ Restart(h)
  BY <1>2 DEF IsIdle, Acts, ServerAnswers, TokenKeyAnswered, ActivateAnswered, CaRootAnswered,
              ValidateAnswered, LocalStep, RequestFails, Seal, CacheTruncate, CacheWrite,
              CheckRollback, MarkerRead, MarkerTruncate, MarkerWrite, RemoveCache, RemoveMarker, At,
              RequestPhases
<1>5. ASSUME Restart(h) PROVE Aside(h) /\ ~Rewrites(h)'
  BY <1>5, EndingsAreIdle, IdlePresentsNothing, ReturnsAside DEF Restart, Aside, Rewrites, At, Idle
<1>6. ~Rewrites(h)'
  BY <1>4, <1>5, StartsAndAnswersAvoidMarker DEF Rewrites, At, MarkerPhases
<1>7. \A g \in Handles \ {k} : ~Rewrites(g)'
  BY <1>2, <1>6, OthersStay DEF Rewrites, At
<1>8. Rewrites(k)' = Rewrites(k)
  BY <1>3 DEF Rewrites, At
<1>9. Marker' = Marker
  <2>1. Marker = IF Rewrites(k) THEN call[k].seen ELSE seen_file
    BY <1>2, MarkerFound DEF MarkerIsOf
  <2>2. Marker' = IF Rewrites(k)' THEN call'[k].seen ELSE seen_file'
    BY <1>7, MarkerFoundLater DEF MarkerIsOf
  <2> QED BY <1>3, <1>8, <2>1, <2>2 DEF files
<1> QED BY <1>3, <1>4, <1>5, <1>9, StepAside, StartsStep DEF history

\* To calls that do not overlap the marker is one register, though it is compared
\* in one step and read, truncated and written in three more that may fail or be
\* the last of their process.  The token a check() verified is the one compared
\* with the register when it answers, and the one then entered; of the tokens that
\* verify, only one that is too old is refused (lib.rs:288-298, 418-440).
THEOREM MarkerIsRecord == Safety /\ []OneCallAtATime => RecordIsAtomic
<1>1. Init => Record!Init
  BY DEF Init, Record!Init, Marker, Rewrites, At, Idle, Verdict, Presented, HoldingPhases,
         MarkerPhases, Unseen, Record!Unseen
<1>2. TypeOK /\ TypeOK' /\ OneCallAtATime /\ AloneInv /\ (\A h \in Handles : Silent(h)) /\ [Next]_vars =>
        [Record!Next]_record_vars
  <2> SUFFICES ASSUME TypeOK, TypeOK', OneCallAtATime, AloneInv, \A h \in Handles : Silent(h),
                      [Next]_vars
               PROVE  Record!Next \/ UNCHANGED record_vars
    OBVIOUS
  <2>1. ASSUME NEW h \in Handles, Acts(h)
        PROVE  Record!Next \/ UNCHANGED record_vars
    BY <2>1, AloneStep, BesideStep DEF AloneInv
  <2>2. CASE ClockMoves \/ MachineChanges \/ UNCHANGED vars
    BY <2>2, NobodyActs
       DEF Marker, Rewrites, At, Verdicts, Verdict, Presentations, Presented, record_vars, files, history
  <2> QED BY <2>1, <2>2 DEF Next, Acts
<1>3. [Record!Next]_record_vars =>
        [Record!Next]_<<Marker, [h \in Handles |-> Presented(h)], [h \in Handles |-> Verdict(h)], torn>>
  BY DEF record_vars, Presentations, Verdicts
<1> QED BY <1>1, <1>2, <1>3, ClientTypeCorrect, ClientIsSilent, AloneInvariant, PTL
        DEF Safety, RecordIsAtomic, Record!Spec
=============================================================================
