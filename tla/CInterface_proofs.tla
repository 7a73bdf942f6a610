-------------------------- MODULE CInterface_proofs --------------------------
(***************************************************************************)
(* Theorems about CInterface, for any number of handles and any features:  *)
(* the client behind it is a LicensifyClient, so every theorem of          *)
(* LicensifyClient_proofs about Safety holds behind the C interface too.   *)
(***************************************************************************)
EXTENDS CInterface, LicensifyClient_proofs

HandlesOK ==
  /\ open \in [Handles -> BOOLEAN]
  /\ running \in [Handles -> Activations \cup Checks \cup {"none"}]
  /\ answer \in [Handles ->
       [function: Activations \cup Checks \cup {"none"}, code: 0..4, status: {None, 0, 1}]]
  /\ last_error \in [Handles -> Errors \cup Complaints \cup {None}]

\* A C function runs while its method does, its last status 0 was earned, and
\* the slot holds the error of the last answer.
HandleOK(h) ==
  /\ (running[h] = "none") <=> IsIdle(h)
  /\ running[h] \in Activations => call[h].op = "activate"
  /\ running[h] \in Checks => call[h].op = "check"
  /\ IsIdle(h) /\ answer[h].status = 0 => entitlements_cache[h] \in Grants
  /\ IsIdle(h) /\ last_error[h] \in Errors =>
       /\ answer[h].code # LICENSIFY_OK
       /\ (last_error[h] = "inactive") <=> (answer[h].function \in Activations)

CInv == TypeOK /\ HandlesOK /\ \A h \in Handles : HandleOK(h)

-----------------------------------------------------------------------------
\* The functions of the interface do to the client what its methods do
\* (ffi.rs:68-220).
LEMMA CStepsAreSteps == CNext => [Next]_vars
<1> SUFFICES ASSUME CNext PROVE [Next]_vars
  OBVIOUS
<1>1. ASSUME NEW h \in Handles, New(h) \/ Gone(h) \/ ClearError(h) PROVE [Next]_vars
  BY <1>1 DEF New, Gone, ClearError, Next
<1>2. ASSUME NEW h \in Handles, NEW f, CallActivate(h, f) PROVE [Next]_vars
  BY <1>2 DEF CallActivate, Next, Starts
<1>3. ASSUME NEW h \in Handles, NEW f, CallCheck(h, f) PROVE [Next]_vars
  BY <1>3 DEF CallCheck, Next, Starts
<1>4. ASSUME NEW h \in Handles, Continue(h) PROVE [Next]_vars
  BY <1>4 DEF Continue, Next
<1>5. ASSUME NEW h \in Handles, CallSetServerKey(h) \/ CallSetExpectedDigest(h)
      PROVE  [Next]_vars
  BY <1>5 DEF CallSetServerKey, CallSetExpectedDigest, Next, Starts
<1>6. CASE ClockMoves \/ MachineChanges
  BY <1>6 DEF Next
<1> QED BY <1>1, <1>2, <1>3, <1>4, <1>5, <1>6 DEF CNext

\* What holds of the client holds of it behind the C interface (ffi.rs:68-220).
THEOREM CKeepsClient == CSafety => CImplementsClient
<1>1. CInit => Init
  BY DEF CInit
<1>2. [CNext]_cvars => [Next]_vars
  BY CStepsAreSteps DEF cvars
<1> QED BY <1>1, <1>2, PTL DEF CSafety, CImplementsClient, Safety

\* Behind the C interface too, check is Valid only of a token bound to the
\* fingerprint it took itself (lib.rs:281-286).
THEOREM CValidIsBound == CSafety => ValidMeansBound
  BY CKeepsClient, ValidIsBound, PTL DEF CImplementsClient

-----------------------------------------------------------------------------
\* A call that goes on keeps what it is; no activation that has begun ends with
\* an error, and none but the one with the empty key is inactive
\* (lib.rs:140-162).
LEMMA CallsGoOn ==
  ASSUME TypeOK, NEW h \in Handles, ServerAnswers(h) \/ LocalStep(h)
  PROVE  /\ ~IsIdle(h)
         /\ ~IsIdle(h)' => call'[h].op = call[h].op
         /\ IsIdle(h)' => /\ result'[h] # "inactive"
                          /\ result'[h] = "error" => call[h].op # "activate"
<1> DEFINE GoesOn == /\ ~IsIdle(h)
                     /\ ~IsIdle(h)' => call'[h].op = call[h].op
                     /\ IsIdle(h)' => /\ result'[h] # "inactive"
                                      /\ result'[h] = "error" => call[h].op # "activate"
<1>1. /\ call \in [Handles -> Call] /\ result \in [Handles -> Results]
      /\ call[h] \in Call
  BY DEF TypeOK
<1>2. ASSUME NEW r \in {"local", "online", "valid", "invalid", "deactivated"},
             Return(h, r), ~IsIdle(h)
      PROVE  GoesOn
  BY <1>1, <1>2 DEF Return, IsIdle, Idle
<1>3. ASSUME ~IsIdle(h), call'[h].op = call[h].op, ~IsIdle(h)' PROVE GoesOn
  BY <1>3
<1>4. ASSUME ActivateLocally(h), ~IsIdle(h) PROVE GoesOn
  BY <1>2, <1>4 DEF ActivateLocally
<1>5. ASSUME MarkerError(h), ~IsIdle(h) PROVE GoesOn
  BY <1>1, <1>4, <1>5 DEF MarkerError, Return, IsIdle, Idle
<1> USE DEF At, IsIdle
<1>6. CASE ServerAnswers(h)
  <2>1. ASSUME NEW key, TokenKeyAnswered(h, key) PROVE GoesOn
    BY <1>1, <1>3, <2>1 DEF TokenKeyAnswered, Call
  <2>2. ASSUME NEW leaf, ActivateAnswered(h, leaf) PROVE GoesOn
    BY <1>1, <1>3, <2>2 DEF ActivateAnswered, Call
  <2>3. ASSUME NEW root, CaRootAnswered(h, root) PROVE GoesOn
    BY <1>1, <1>3, <1>4, <2>3 DEF CaRootAnswered, Call
  <2>4. ASSUME NEW token, ValidateAnswered(h, token) PROVE GoesOn
    BY <1>1, <1>3, <1>4, <2>4 DEF ValidateAnswered, Call
  <2> QED BY <1>6, <2>1, <2>2, <2>3, <2>4 DEF ServerAnswers
<1>7. CASE LocalStep(h)
  <2>1. CASE RequestFails(h)
    BY <1>4, <2>1 DEF RequestFails, RequestPhases
  <2>2. CASE Seal(h)
    BY <1>1, <1>3, <2>2 DEF Seal, Call
  <2>3. CASE CacheTruncate(h)
    BY <1>1, <1>3, <1>4, <2>3 DEF CacheTruncate, Goto, Call
  <2>4. CASE CacheWrite(h)
    BY <1>1, <1>3, <1>4, <2>4 DEF CacheWrite, Call
  <2>5. CASE CheckRollback(h)
    BY <1>1, <1>2, <1>3, <2>5 DEF CheckRollback, Goto, Call
  <2>6. CASE MarkerRead(h)
    BY <1>1, <1>3, <2>6 DEF MarkerRead, Call
  <2>7. CASE MarkerTruncate(h)
    BY <1>1, <1>3, <1>5, <2>7 DEF MarkerTruncate, Goto, Call
  <2>8. CASE MarkerWrite(h)
    BY <1>2, <1>5, <2>8 DEF MarkerWrite
  <2>9. CASE RemoveCache(h)
    BY <1>1, <1>3, <2>9 DEF RemoveCache, Goto, Call
  <2>10. CASE RemoveMarker(h)
    BY <1>2, <2>10 DEF RemoveMarker
  <2> QED BY <1>7, <2>1, <2>2, <2>3, <2>4, <2>5, <2>6, <2>7, <2>8, <2>9, <2>10 DEF LocalStep
<1> QED BY <1>6, <1>7

\* What answers put into the handle has its type.
LEMMA AnswersAreTyped ==
  ASSUME HandlesOK, NEW h \in Handles, NEW f \in Activations \cup Checks, Answers(h, f),
         UNCHANGED open
  PROVE  HandlesOK'
<1> DEFINE Answer == [function: Activations \cup Checks \cup {"none"}, code: 0..4,
                      status: {None, 0, 1}]
           given == [function |-> f, code |-> Code(f, result'[h]),
                     status |-> OutStatus(f, result'[h])]
<1>1. ASSUME NEW r PROVE Code(f, r) \in 0..4
  BY DEF Code, Activations, Checks, LICENSIFY_OK, LICENSIFY_ERR_ACTIVATION, LICENSIFY_ERR_CHECK
<1>2. ASSUME NEW r PROVE OutStatus(f, r) \in {None, 0, 1}
  BY DEF OutStatus
<1>3. ASSUME NEW r PROVE SlotAfter(h, r) \in Errors \cup {None}
  BY DEF SlotAfter, Failed
<1>4. given \in Answer /\ NoAnswer \in Answer
  BY <1>1, <1>2 DEF NoAnswer, LICENSIFY_OK
<1>5. \/ /\ running' = [running EXCEPT ![h] = "none"]
         /\ answer' = [answer EXCEPT ![h] = given]
         /\ last_error' = [last_error EXCEPT ![h] = SlotAfter(h, result'[h])]
      \/ /\ running' = [running EXCEPT ![h] = f]
         /\ answer' = [answer EXCEPT ![h] = NoAnswer]
         /\ UNCHANGED last_error
  BY DEF Answers
<1>6. answer' \in [Handles -> Answer]
  <2> HIDE DEF Answer, given
  <2>1. answer \in [Handles -> Answer]
    BY DEF HandlesOK, Answer
  <2> QED BY <1>4, <1>5, <2>1
<1>7. running' \in [Handles -> Activations \cup Checks \cup {"none"}]
  BY <1>5 DEF HandlesOK
<1>8. last_error' \in [Handles -> Errors \cup Complaints \cup {None}]
  BY <1>3, <1>5 DEF HandlesOK
<1> QED BY <1>6, <1>7, <1>8 DEF HandlesOK

\* An answer that a call ends in keeps the handle in order, and so does a call
\* that has yet to answer.
LEMMA AnswersKeepOrder ==
  ASSUME HandlesOK, NEW h \in Handles, NEW f \in Activations \cup Checks, Answers(h, f),
         ~IsIdle(h)' => call'[h].op = (IF f \in Activations THEN "activate" ELSE "check"),
         IsIdle(h)' => /\ result'[h] = "inactive" => f \in Activations
                       /\ result'[h] = "error" => f \in Checks
                       /\ result'[h] = "valid" => entitlements_cache'[h] \in Grants
  PROVE  HandleOK(h)'
<1> USE DEF Activations, Checks, Errors, HandlesOK
<1>1. CASE ~IsIdle(h)'
  BY <1>1 DEF HandleOK, Answers
<1>2. CASE IsIdle(h)'
  <2>1. /\ running'[h] = "none"
        /\ answer'[h].function = f
        /\ answer'[h].code = Code(f, result'[h])
        /\ answer'[h].status = OutStatus(f, result'[h])
        /\ last_error'[h] = SlotAfter(h, result'[h])
    BY <1>2 DEF Answers
  <2>2. answer'[h].status = 0 => result'[h] = "valid"
    BY <2>1, FeaturesAssumption DEF OutStatus
  <2>3. last_error'[h] \in Errors => /\ Failed(result'[h]) /\ last_error'[h] = result'[h]
                                     /\ answer'[h].code # LICENSIFY_OK
    BY <2>1, FeaturesAssumption
       DEF SlotAfter, Code, Failed, LICENSIFY_OK, LICENSIFY_ERR_ACTIVATION, LICENSIFY_ERR_CHECK
  <2>4. last_error'[h] \in Errors =>
          ((last_error'[h] = "inactive") <=> (answer'[h].function \in Activations))
    BY <1>2, <2>1, <2>3
  <2> QED BY <1>2, <2>1, <2>2, <2>3, <2>4 DEF HandleOK
<1> QED BY <1>1, <1>2

\* What the functions of one handle do leaves the others in order.
LEMMA OthersStayInOrder ==
  ASSUME TypeOK, HandlesOK, NEW h \in Handles, NEW g \in Handles \ {h}, HandleOK(g),
         Acts(h) \/ UNCHANGED vars,
         running'[g] = running[g], answer'[g] = answer[g], last_error'[g] = last_error[g]
  PROVE  HandleOK(g)'
<1>1. call'[g] = call[g] /\ entitlements_cache'[g] = entitlements_cache[g]
  BY OthersStay DEF vars, memory
<1> QED BY <1>1 DEF HandleOK, IsIdle

\* One step of the interface leaves its handle typed and in order.
LEMMA FunctionsKeepOrder ==
  ASSUME CInv, NEW h \in Handles,
         \/ New(h) \/ Gone(h) \/ ClearError(h) \/ Continue(h)
         \/ CallSetServerKey(h) \/ CallSetExpectedDigest(h)
         \/ (\E f \in Activations : CallActivate(h, f)) \/ (\E f \in Checks : CallCheck(h, f))
  PROVE  /\ HandlesOK' /\ HandleOK(h)'
         /\ Acts(h) \/ UNCHANGED vars
         /\ \A g \in Handles \ {h} : /\ running'[g] = running[g] /\ answer'[g] = answer[g]
                                     /\ last_error'[g] = last_error[g]
<1> DEFINE Kept == /\ HandlesOK' /\ HandleOK(h)'
                   /\ Acts(h) \/ UNCHANGED vars
                   /\ \A g \in Handles \ {h} :
                        /\ running'[g] = running[g] /\ answer'[g] = answer[g]
                        /\ last_error'[g] = last_error[g]
<1>1. /\ TypeOK /\ HandlesOK /\ HandleOK(h)
      /\ call \in [Handles -> Call] /\ result \in [Handles -> Results]
      /\ entitlements_cache \in [Handles -> Grants \cup {Default, None}]
  BY DEF CInv, TypeOK
<1>2. ASSUME NEW f, Answers(h, f)
      PROVE  \A g \in Handles \ {h} : /\ running'[g] = running[g] /\ answer'[g] = answer[g]
                                     /\ last_error'[g] = last_error[g]
  BY <1>1, <1>2 DEF Answers, HandlesOK
<1>3. CASE New(h)
  <2>1. call'[h] = Idle /\ running'[h] = "none" /\ answer'[h] = NoAnswer /\ last_error'[h] = None
    BY <1>1, <1>3 DEF New, Restart, Return, HandlesOK
  <2>2. HandleOK(h)'
    BY <2>1, FeaturesAssumption
       DEF HandleOK, IsIdle, Idle, NoAnswer, Errors, Activations, Checks
  <2>3. NoAnswer \in [function: Activations \cup Checks \cup {"none"}, code: 0..4,
                      status: {None, 0, 1}]
    BY DEF NoAnswer, LICENSIFY_OK
  <2> QED BY <1>1, <1>3, <2>2, <2>3 DEF New, HandlesOK, Acts
<1>4. CASE Gone(h) \/ ClearError(h)
  BY <1>1, <1>4, FeaturesAssumption
     DEF Gone, ClearError, HandlesOK, HandleOK, IsIdle, vars, memory, Errors
<1>5. CASE CallSetServerKey(h) \/ CallSetExpectedDigest(h)
  <2>1. UNCHANGED <<call, entitlements_cache, running, answer, open>>
    BY <1>5 DEF CallSetServerKey, CallSetExpectedDigest, SetServerKey, SetExpectedDigest,
                vars, memory
  <2>2. \/ UNCHANGED last_error
        \/ \E c \in Complaints : last_error' = [last_error EXCEPT ![h] = c]
    BY <1>5 DEF CallSetServerKey, CallSetExpectedDigest, Complaints
  <2>3. Acts(h) \/ UNCHANGED vars
    BY <1>5 DEF CallSetServerKey, CallSetExpectedDigest, Acts, Starts
  <2>4. HandlesOK'
    BY <1>1, <2>1, <2>2 DEF HandlesOK
  <2>5. HandleOK(h)'
    BY <1>1, <2>1, <2>2 DEF HandlesOK, HandleOK, IsIdle, Errors, Complaints
  <2> QED BY <1>1, <2>1, <2>2, <2>3, <2>4, <2>5 DEF HandlesOK
<1>6. ASSUME NEW f \in Activations, CallActivate(h, f) PROVE Kept
  <2>1. Starts(h)
    BY <1>6 DEF CallActivate, Starts
  <2>2. /\ ~IsIdle(h)' => call'[h].op = "activate"
        /\ IsIdle(h)' => result'[h] \in {"inactive", "local"}
    <3>1. Idle.phase = "idle"
      BY DEF Idle
    <3>2. CASE Begin(h, "activate", "token_key")
      BY <1>1, <3>2 DEF Begin, IsIdle, Idle
    <3>3. ASSUME NEW r \in {"inactive", "local"}, Return(h, r)
          PROVE  IsIdle(h)' /\ result'[h] = r
      BY <1>1, <3>1, <3>3 DEF Return, IsIdle
    <3> QED BY <1>6, <3>2, <3>3
            DEF CallActivate, ActivateEmptyKey, ActivateWithoutServer, Activate
  <2>3. HandleOK(h)'
    BY <1>1, <1>6, <2>2, AnswersKeepOrder DEF CallActivate
  <2> QED BY <1>1, <1>2, <1>6, <2>1, <2>3, AnswersAreTyped DEF CallActivate, Acts
<1>7. ASSUME NEW f \in Checks, CallCheck(h, f) PROVE Kept
  <2>1. Starts(h)
    BY <1>7 DEF CallCheck, Starts
  <2>2. /\ ~IsIdle(h)' => call'[h].op = "check"
        /\ IsIdle(h)' => result'[h] \in {"error", "expired", "invalid"}
    <3>1. Idle.phase = "idle" /\ CacheVerdict(h) \in {"ok", "expired", "invalid"}
      BY DEF Idle, CacheVerdict, Opens, Verify
    <3>2. ASSUME NEW r \in {"error", "expired", "invalid"}, Return(h, r)
          PROVE  IsIdle(h)' /\ result'[h] = r
      BY <1>1, <3>1, <3>2 DEF Return, IsIdle
    <3>3. ASSUME call' = [call EXCEPT ![h] = [Idle EXCEPT !.op = "check", !.phase = "rollback",
                            !.machine = machine, !.token = cache_file.token]]
          PROVE  ~IsIdle(h)' /\ call'[h].op = "check"
      BY <1>1, <3>3 DEF IsIdle, Idle
    <3>4. Check(h)
      BY <1>7 DEF CallCheck
    <3> QED BY <3>1, <3>2, <3>3, <3>4 DEF Check, GateErrors
  <2>3. f \notin Activations
    BY <1>7 DEF Activations, Checks
  <2>4. HandleOK(h)'
    BY <1>1, <1>7, <2>2, <2>3, AnswersKeepOrder DEF CallCheck
  <2> QED BY <1>1, <1>2, <1>7, <2>1, <2>4, AnswersAreTyped DEF CallCheck, Acts
<1>8. CASE Continue(h)
  <2> DEFINE f == running[h]
  <2>1. f \in Activations \cup Checks /\ Answers(h, f) /\ UNCHANGED open
    BY <1>1, <1>8 DEF Continue, HandlesOK
  <2>2. (ServerAnswers(h) \/ LocalStep(h)) /\ Acts(h)
    BY <1>8 DEF Continue, Acts
  <2>3. call[h].op = IF f \in Activations THEN "activate" ELSE "check"
    BY <1>1, <2>1 DEF HandleOK
  <2>4. IsIdle(h)' /\ result'[h] = "valid" => entitlements_cache'[h] \in Grants
    <3> SUFFICES ASSUME Returns(h, "valid") PROVE entitlements_cache'[h] \in Grants
      BY <1>1, <2>2, CallsGoOn DEF Returns
    <3>1. /\ MarkerWrite(h)
          /\ entitlements_cache' = [entitlements_cache EXCEPT ![h] = call[h].token.entitlements]
      BY <1>1, <2>2, SuccessIsMarkerWrite
    <3> QED BY <1>1, <3>1 DEF MarkerWrite, At, MarkerPhases, TypeOK, Token
  <2>5. HandleOK(h)'
    <3>1. ~IsIdle(h)' => call'[h].op = (IF f \in Activations THEN "activate" ELSE "check")
      BY <1>1, <2>2, <2>3, CallsGoOn
    <3>2. IsIdle(h)' => /\ result'[h] = "inactive" => f \in Activations
                        /\ result'[h] = "error" => f \in Checks
      BY <1>1, <2>1, <2>2, <2>3, CallsGoOn
    <3> HIDE DEF f
    <3> QED BY <1>1, <2>1, <2>4, <3>1, <3>2, AnswersKeepOrder
  <2> HIDE DEF f
  <2> QED BY <1>1, <1>2, <2>1, <2>2, <2>5, AnswersAreTyped
<1> QED BY <1>3, <1>4, <1>5, <1>6, <1>7, <1>8

LEMMA CInvIsInvariant == CSafety => []CInv
<1>1. CInit => CInv
  <2> SUFFICES ASSUME CInit PROVE CInv
    OBVIOUS
  <2>1. TypeOK
    BY InitIsTyped DEF CInit
  <2>2. NoAnswer \in [function: Activations \cup Checks \cup {"none"}, code: 0..4,
                      status: {None, 0, 1}]
    BY DEF NoAnswer, LICENSIFY_OK
  <2>3. HandlesOK
    BY <2>2 DEF CInit, HandlesOK
  <2>4. \A h \in Handles : HandleOK(h)
    BY FeaturesAssumption
       DEF CInit, Init, HandleOK, IsIdle, Idle, NoAnswer, Errors, Activations, Checks
  <2> QED BY <2>1, <2>3, <2>4 DEF CInv
<1>2. CInv /\ [CNext]_cvars => CInv'
  <2> SUFFICES ASSUME CInv, [CNext]_cvars PROVE CInv'
    OBVIOUS
  <2>1. TypeOK'
    BY CStepsAreSteps, NextKeepsType DEF CInv, cvars
  <2>2. CASE UNCHANGED <<call, entitlements_cache, handle>>
    BY <2>1, <2>2 DEF CInv, HandlesOK, HandleOK, IsIdle, handle
  <2>3. ASSUME NEW h \in Handles,
               \/ New(h) \/ Gone(h) \/ ClearError(h) \/ Continue(h)
               \/ CallSetServerKey(h) \/ CallSetExpectedDigest(h)
               \/ (\E f \in Activations : CallActivate(h, f))
               \/ (\E f \in Checks : CallCheck(h, f))
        PROVE  CInv'
    <3>1. /\ HandlesOK' /\ HandleOK(h)' /\ (Acts(h) \/ UNCHANGED vars)
          /\ \A g \in Handles \ {h} : /\ running'[g] = running[g] /\ answer'[g] = answer[g]
                                      /\ last_error'[g] = last_error[g]
      BY <2>3, FunctionsKeepOrder
    <3>2. \A g \in Handles \ {h} : HandleOK(g)'
      BY <3>1, OthersStayInOrder DEF CInv
    <3> QED BY <2>1, <3>1, <3>2 DEF CInv
  <2>4. UNCHANGED cvars \/ ((ClockMoves \/ MachineChanges) /\ UNCHANGED handle)
          => UNCHANGED <<call, entitlements_cache, handle>>
    BY NobodyActs DEF cvars, vars, memory
  <2> QED BY <2>2, <2>3, <2>4 DEF CNext
<1> QED BY <1>1, <1>2, PTL DEF CSafety

\* Variables keep to their domains, and a C function runs while its method does.
THEOREM CTypeCorrect == CSafety => []CTypeOK
<1>1. CInv => CTypeOK
  BY DEF CInv, HandlesOK, HandleOK, CTypeOK
<1> QED BY <1>1, CInvIsInvariant, PTL

\* A message in the slot is that of the handle's last activation or check
\* (ffi.rs:99-178).
THEOREM SlotStaysCurrent == CSafety => []SlotIsCurrent
<1>1. CInv => SlotIsCurrent
  BY DEF CInv, HandleOK, SlotIsCurrent, MayCall
<1> QED BY <1>1, CInvIsInvariant, PTL

\* After a status 0 of licensify_check_code, licensify_has_feature knows the
\* features of one grant, and no other (ffi.rs:131-138, 159-178).
THEOREM CheckedAreSigned == CSafety => []CheckedFeaturesAreSigned
<1>1. CInv => CheckedFeaturesAreSigned
  BY ClientAssumption
     DEF CInv, HandleOK, CheckedFeaturesAreSigned, MayCall, HasFeature, FeaturesOf
<1> QED BY <1>1, CInvIsInvariant, PTL
=============================================================================
