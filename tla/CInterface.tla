------------------------------ MODULE CInterface ------------------------------
(***************************************************************************)
(* The C interface (client/src/ffi.rs, client/include/licensify.h): every  *)
(* handle wraps one LicensifyClient and a slot for the last error.  A C    *)
(* function runs the client's method to its end; its answer and the slot   *)
(* are set when the method returns.                                        *)
(*                                                                         *)
(* Calls with a null pointer answer at once and touch nothing.  There is   *)
(* no C function for deactivate.                                           *)
(***************************************************************************)
EXTENDS LicensifyClientProperties

CONSTANTS
  Features,         \* feature names
  GrantedFeatures   \* GrantedFeatures[g]: those in the entitlements g

ASSUME FeaturesAssumption ==
  /\ GrantedFeatures \in [Grants -> SUBSET Features]
  /\ None \notin {0, 1} /\ None \notin {"inactive", "error"}

VARIABLES
  open,       \* open[h]: licensify_new has returned h, and it is not freed
  running,    \* running[h]: the C function that runs on h, or "none"
  answer,     \* answer[h]: what the last activation or check answered
  last_error  \* last_error[h]: licensify_client_t.last_error, or None

handle == <<open, running, answer, last_error>>
cvars == <<vars, handle>>

-----------------------------------------------------------------------------
LICENSIFY_OK == 0
LICENSIFY_ERR_ACTIVATION == 3
LICENSIFY_ERR_CHECK == 4

Activations == {"activate", "activate_code"}
Checks == {"check", "check_code"}

\* What the slot may hold: a LicenseError the client returned ("inactive" or
\* "error"), or the complaint of a setter.
Errors == {"inactive", "error"}
Complaints == {"server_key", "expected_digest"}

\* The method returned Err.
Failed(r) == r \in Errors

\* The code of an answer: result.ok as 0 or 1, status.code, or the error code.
Code(f, r) ==
  IF ~Failed(r) THEN LICENSIFY_OK
  ELSE [activate |-> 1, check |-> 1,
        activate_code |-> LICENSIFY_ERR_ACTIVATION, check_code |-> LICENSIFY_ERR_CHECK][f]

\* Seeded fault: every verdict without an error is status 0, as in
\* licensify_check.
FaultyOutStatus(f, r) == IF f # "check_code" THEN None ELSE IF Failed(r) THEN 1 ELSE 0

\* *out_status_code, which only licensify_check_code has.
OutStatus(f, r) == IF f # "check_code" THEN None ELSE IF r = "valid" THEN 0 ELSE 1

NoAnswer == [function |-> "none", code |-> LICENSIFY_OK, status |-> None]

\* Seeded fault: a success leaves the slot as it was.
FaultySlotAfter(h, r) == IF Failed(r) THEN r ELSE last_error[h]

\* set_error, or None after any Ok.
SlotAfter(h, r) == IF Failed(r) THEN r ELSE None

\* Seeded fault: the method is left running behind a function that answered.
FaultyAnswers(h, f) ==
  /\ running' = [running EXCEPT ![h] = "none"]
  /\ answer' = [answer EXCEPT ![h] = [function |-> f, code |-> Code(f, result'[h]),
                                      status |-> OutStatus(f, result'[h])]]
  /\ last_error' = [last_error EXCEPT ![h] = SlotAfter(h, result'[h])]

\* The C function f on h goes on, or answers what its method returned.
Answers(h, f) ==
  IF IsIdle(h)'
  THEN /\ running' = [running EXCEPT ![h] = "none"]
       /\ answer' = [answer EXCEPT ![h] = [function |-> f, code |-> Code(f, result'[h]),
                                           status |-> OutStatus(f, result'[h])]]
       /\ last_error' = [last_error EXCEPT ![h] = SlotAfter(h, result'[h])]
  ELSE /\ running' = [running EXCEPT ![h] = f]
       /\ answer' = [answer EXCEPT ![h] = NoAnswer]
       /\ UNCHANGED last_error

MayCall(h) == open[h] /\ running[h] = "none"

-----------------------------------------------------------------------------
\* Seeded fault: the new handle takes over the client of an old one.
FaultyNew(h) ==
  /\ ~open[h]
  /\ Return(h, "none")
  /\ UNCHANGED <<environment, files, config, memory, history>>
  /\ open' = [open EXCEPT ![h] = TRUE]
  /\ running' = [running EXCEPT ![h] = "none"]
  /\ answer' = [answer EXCEPT ![h] = NoAnswer]
  /\ last_error' = [last_error EXCEPT ![h] = None]

\* licensify_new: key and pin come from the environment.
New(h) ==
  /\ ~open[h]
  /\ Restart(h)
  /\ open' = [open EXCEPT ![h] = TRUE]
  /\ running' = [running EXCEPT ![h] = "none"]
  /\ answer' = [answer EXCEPT ![h] = NoAnswer]
  /\ last_error' = [last_error EXCEPT ![h] = None]

\* licensify_free between two calls, or the end of the process in any.
Gone(h) ==
  /\ open[h]
  /\ open' = [open EXCEPT ![h] = FALSE]
  /\ UNCHANGED <<vars, running, answer, last_error>>

CallActivate(h, f) ==
  /\ MayCall(h)
  /\ \/ ActivateEmptyKey(h)
     \/ \E key \in LicenseKeys : ActivateWithoutServer(h, key) \/ Activate(h, key)
  /\ Answers(h, f)
  /\ UNCHANGED open

CallCheck(h, f) ==
  /\ MayCall(h)
  /\ Check(h)
  /\ Answers(h, f)
  /\ UNCHANGED open

Continue(h) ==
  /\ open[h] /\ running[h] # "none"
  /\ ServerAnswers(h) \/ LocalStep(h)
  /\ Answers(h, running[h])
  /\ UNCHANGED open

\* licensify_set_server_key: malformed hex changes nothing but the slot.
CallSetServerKey(h) ==
  /\ MayCall(h)
  /\ \/ /\ \E key \in SigningKeys : SetServerKey(h, key)
        /\ UNCHANGED last_error
     \/ /\ last_error' = [last_error EXCEPT ![h] = "server_key"]
        /\ UNCHANGED vars
  /\ UNCHANGED <<open, running, answer>>

\* licensify_set_expected_digest: malformed hex clears the pin as well.
CallSetExpectedDigest(h) ==
  /\ MayCall(h)
  /\ \/ /\ \E matches \in BOOLEAN : SetExpectedDigest(h, matches)
        /\ UNCHANGED last_error
     \/ /\ SetExpectedDigest(h, TRUE)
        /\ last_error' = [last_error EXCEPT ![h] = "expected_digest"]
  /\ UNCHANGED <<open, running, answer>>

ClearError(h) ==
  /\ MayCall(h)
  /\ last_error' = [last_error EXCEPT ![h] = None]
  /\ UNCHANGED <<vars, open, running, answer>>

-----------------------------------------------------------------------------
CInit ==
  /\ Init
  /\ open = [h \in Handles |-> FALSE]
  /\ running = [h \in Handles |-> "none"]
  /\ answer = [h \in Handles |-> NoAnswer]
  /\ last_error = [h \in Handles |-> None]

CNext ==
  \/ \E h \in Handles :
       \/ New(h) \/ Gone(h)
       \/ \E f \in Activations : CallActivate(h, f)
       \/ \E f \in Checks : CallCheck(h, f)
       \/ Continue(h)
       \/ CallSetServerKey(h) \/ CallSetExpectedDigest(h) \/ ClearError(h)
  \/ (ClockMoves \/ MachineChanges) /\ UNCHANGED handle

\* What is true without fairness.
CSafety == CInit /\ [][CNext]_cvars

\* A process that keeps running goes on with its call; a request that gets no
\* answer runs into its timeout.
CSpec == CSafety /\ \A h \in Handles : WF_cvars(Continue(h) /\ LocalStep(h))

-----------------------------------------------------------------------------
\* licensify_has_feature, and the features a client knows: those of the token, or
\* of default_entitlements.
FeaturesOf(entitlements) ==
  IF entitlements = None THEN {}
  ELSE IF entitlements = Default THEN {"base"} ELSE GrantedFeatures[entitlements]

HasFeature(h, feature) == feature \in FeaturesOf(entitlements_cache[h])

\* Variables keep to their domains, and a C function runs while, and only while,
\* its method does.
CTypeOK ==
  /\ open \in [Handles -> BOOLEAN]
  /\ running \in [Handles -> Activations \cup Checks \cup {"none"}]
  /\ answer \in [Handles ->
       [function: Activations \cup Checks \cup {"none"}, code: 0..4, status: {None, 0, 1}]]
  /\ last_error \in [Handles -> Errors \cup Complaints \cup {None}]
  /\ \A h \in Handles : (running[h] = "none") <=> IsIdle(h)

\* No sequence of C calls, exits and restarts takes the client where its methods
\* would not: what holds of LicensifyClient holds behind the C interface
\* (ffi.rs:68-220).
CImplementsClient == Safety

\* A message in the slot is that of the handle's last activation or check: no
\* success leaves an older error behind for licensify_last_error
\* (ffi.rs:99-178, docs/sdk-c.md:13-14).
SlotIsCurrent ==
  \A h \in Handles : MayCall(h) /\ last_error[h] \in Errors =>
    /\ answer[h].code # LICENSIFY_OK
    /\ (last_error[h] = "inactive") <=> (answer[h].function \in Activations)

\* Between a licensify_check_code that put 0 in *out_status_code and the next
\* activation or check, licensify_has_feature knows the features a server
\* signed, and no other (ffi.rs:131-138, 159-178).
CheckedFeaturesAreSigned ==
  \A h \in Handles : MayCall(h) /\ answer[h].status = 0 =>
    \E grant \in Grants : \A feature \in Features \cup {"base"} :
      HasFeature(h, feature) <=> feature \in GrantedFeatures[grant]

\* Every C function returns, unless its process ends in it: each request has a
\* timeout, and nothing a server, another handle, the clock or the fingerprint
\* does can hold a call up (lib.rs:170-173, ffi.rs:93-177).
FunctionsReturn ==
  \A h \in Handles : running[h] # "none" ~> running[h] = "none" \/ ~open[h]
=============================================================================
