-------------------------- MODULE McpHandlers_proofs --------------------------
(***************************************************************************)
(* Theorems about McpHandlers, for any number of tool calls and grants.    *)
(***************************************************************************)
EXTENDS McpHandlers, TLAPS

\* Where the handler of r may wait.
PlaceOK(r) ==
  /\ request[r].at = "checked" => request[r].tool \in {"check", "summary"}
  /\ request[r].at = "base_asked" => request[r].tool = "summary"
  /\ ~client => request[r].at \in {"none", "answered"}

\* r's handler is past its check.
HasRecorded(r) ==
  \/ At(r, "summary", "base_asked") \/ At(r, "summary", "called")
  \/ request[r].tool \in {"check", "summary"} /\ IsAnswered(r) /\ request[r].ok

\* It has recorded the check, and answers no older one.
RecordedOK(r) ==
  HasRecorded(r) =>
    /\ request[r].own # 0 /\ request[r].own <= lastSuccessfulCheckMs
    /\ IsAnswered(r) => request[r].own <= request[r].ms

\* While no other call changes them, the entitlements are those r's check left,
\* and a summary has asked about those.
FoundOK(r) ==
  alone[r] =>
    /\ found[r] = entitlements
    /\ request[r].active => found[r] \in Grants
    /\ request[r].tool = "summary" /\ request[r].ok =>
         /\ request[r].at \in {"base_asked", "called", "answered"} =>
              request[r].base = HasBase[found[r]]
         /\ request[r].at \in {"called", "answered"} => request[r].pro = HasPro[found[r]]

RequestOK(r) == PlaceOK(r) /\ RecordedOK(r) /\ FoundOK(r)

Inv == TypeOK /\ \A r \in Requests : RequestOK(r)

-----------------------------------------------------------------------------
LEMMA UnaskedIsARequest == Unasked \in Request
  BY DEF Unasked, Request, Tools, Points

\* The locals of a handler that asks for a feature.
LEMMA UnaskedAsksBase ==
  \A b \in BOOLEAN :
    LET locals == [Unasked EXCEPT !.tool = "has_feature", !.at = "called", !.base = b]
    IN  /\ locals \in Request
        /\ locals.tool = "has_feature" /\ locals.at = "called" /\ locals.active = FALSE
  BY DEF Unasked, Request, Tools, Points

LEMMA UnaskedAsksPro ==
  \A b \in BOOLEAN :
    LET locals == [Unasked EXCEPT !.tool = "has_feature", !.at = "called", !.pro = b]
    IN  /\ locals \in Request
        /\ locals.tool = "has_feature" /\ locals.at = "called" /\ locals.active = FALSE
  BY DEF Unasked, Request, Tools, Points

LEMMA CheckMayAnswer ==
  \A q \in Request, n \in Nat :
    [q EXCEPT !.at = "answered", !.own = n, !.ms = n] \in Request
  BY DEF Request, Points

LEMMA SummaryMayAskBase ==
  \A q \in Request, n \in Nat, b \in BOOLEAN :
    [q EXCEPT !.at = "base_asked", !.own = n, !.base = b] \in Request
  BY DEF Request, Points

LEMMA SummaryMayAskPro ==
  \A q \in Request, b \in BOOLEAN : [q EXCEPT !.at = "called", !.pro = b] \in Request
  BY DEF Request, Points

LEMMA FeaturesAreKnown ==
  ASSUME TypeOK
  PROVE  HasBase[entitlements] \in BOOLEAN /\ HasPro[entitlements] \in BOOLEAN
  BY McpAssumption DEF TypeOK

\* A step of r's handler leaves alone what is known of the others.
LEMMA OthersStayOK ==
  ASSUME Inv, TypeOK', NEW r \in Requests,
         UNCHANGED client,
         lastSuccessfulCheckMs' \in {lastSuccessfulCheckMs, lastSuccessfulCheckMs + 1},
         \A q \in Requests \ {r} :
           /\ request'[q] = request[q] /\ found'[q] = found[q]
           /\ alone'[q] => alone[q] /\ entitlements' = entitlements,
         RequestOK(r)'
  PROVE  Inv'
<1> SUFFICES ASSUME NEW q \in Requests \ {r} PROVE RequestOK(q)'
  BY DEF Inv
<1>1. RequestOK(q) /\ TypeOK
  BY DEF Inv
<1>2. PlaceOK(q)'
  BY <1>1 DEF RequestOK, PlaceOK
<1>3. RecordedOK(q)'
  BY <1>1 DEF RequestOK, RecordedOK, HasRecorded, At, IsAnswered, TypeOK, Request
<1>4. FoundOK(q)'
  BY <1>1 DEF RequestOK, FoundOK
<1> QED BY <1>2, <1>3, <1>4 DEF RequestOK

\* A call arrives (handlers.ts:183-291, up to the first await).
LEMMA CallsKeepInv ==
  ASSUME Inv, NEW r \in Requests, Calls(r)
  PROVE  Inv'
<1>1. TypeOK /\ RequestOK(r)
  BY DEF Inv
<1>2. ASSUME NEW tool \in Tools, Refused(r, tool)
      PROVE  Inv'
  <2>1. [Unasked EXCEPT !.tool = tool, !.at = "answered", !.ok = FALSE] \in Request
    BY DEF Unasked, Request, Points
  <2>2. TypeOK'
    BY <1>1, <1>2, <2>1 DEF Refused, Goes, TypeOK
  <2>3. request'[r] = [Unasked EXCEPT !.tool = tool, !.at = "answered", !.ok = FALSE]
    BY <1>1, <1>2 DEF Refused, Goes, TypeOK
  <2>4. RequestOK(r)'
    BY <1>1, <1>2, <2>3
       DEF Refused, RequestOK, PlaceOK, RecordedOK, HasRecorded, FoundOK, At, IsAnswered, Unasked
  <2> QED BY <1>1, <1>2, <2>2, <2>4, OthersStayOK DEF Refused, Goes, TypeOK
<1>3. CASE Health(r)
  <2>1. [Unasked EXCEPT !.tool = "health", !.at = "answered", !.ms = lastSuccessfulCheckMs] \in Request
    BY <1>1 DEF Unasked, Request, Points, Tools, TypeOK
  <2>2. TypeOK'
    BY <1>1, <1>3, <2>1 DEF Health, Goes, TypeOK
  <2>3. request'[r] = [Unasked EXCEPT !.tool = "health", !.at = "answered",
                                      !.ms = lastSuccessfulCheckMs]
    BY <1>1, <1>3 DEF Health, Goes, TypeOK
  <2>4. RequestOK(r)'
    BY <1>1, <1>3, <2>3
       DEF Health, RequestOK, PlaceOK, RecordedOK, HasRecorded, FoundOK, At, IsAnswered, Unasked
  <2> QED BY <1>1, <1>3, <2>2, <2>4, OthersStayOK DEF Health, Goes, TypeOK
<1>4. CASE Activate(r)
  <2>1. [Unasked EXCEPT !.tool = "activate", !.at = "called"] \in Request
    BY DEF Unasked, Request, Points, Tools
  <2>2. TypeOK'
    BY <1>1, <1>4, <2>1 DEF Activate, Goes, TypeOK, Entitlements
  <2>3. request'[r] = [Unasked EXCEPT !.tool = "activate", !.at = "called"]
    BY <1>1, <1>4 DEF Activate, Goes, TypeOK
  <2>4. RequestOK(r)'
    BY <1>1, <1>4, <2>3
       DEF Activate, RequestOK, PlaceOK, RecordedOK, HasRecorded, FoundOK, At, IsAnswered, Unasked
  <2> QED BY <1>1, <1>4, <2>2, <2>4, OthersStayOK DEF Activate, Goes, TypeOK
<1>5. CASE HasFeature(r)
  <2>1. PICK asked \in Request :
          /\ request' = [request EXCEPT ![r] = asked]
          /\ asked.tool = "has_feature" /\ asked.at = "called" /\ asked.active = FALSE
    <3>1. CASE Goes(r, [Unasked EXCEPT !.tool = "has_feature", !.at = "called",
                                       !.base = HasBase[entitlements]])
      BY <1>1, <3>1, FeaturesAreKnown, UnaskedAsksBase DEF Goes
    <3>2. CASE Goes(r, [Unasked EXCEPT !.tool = "has_feature", !.at = "called",
                                       !.pro = HasPro[entitlements]])
      BY <1>1, <3>2, FeaturesAreKnown, UnaskedAsksPro DEF Goes
    <3> QED BY <1>5, <3>1, <3>2 DEF HasFeature
  <2>2. TypeOK'
    BY <1>1, <1>5, <2>1 DEF HasFeature, TypeOK
  <2>3. RequestOK(r)'
    BY <1>1, <1>5, <2>1
       DEF HasFeature, RequestOK, PlaceOK, RecordedOK, HasRecorded, FoundOK, At, IsAnswered, TypeOK
  <2> QED BY <1>1, <1>5, <2>1, <2>2, <2>3, OthersStayOK DEF HasFeature, TypeOK
<1>6. ASSUME NEW tool \in {"check", "summary"}, Check(r, tool)
      PROVE  Inv'
  <2>1. PICK checked \in Request :
          /\ request' = [request EXCEPT ![r] = checked]
          /\ checked.tool = tool /\ checked.at = "checked"
          /\ checked.active => entitlements' \in Grants
    <3>1. \A ok \in BOOLEAN :
            LET locals == [Unasked EXCEPT !.tool = tool, !.at = "checked", !.ok = ok]
            IN  /\ locals \in Request
                /\ locals.tool = tool /\ locals.at = "checked" /\ locals.active = FALSE
      BY DEF Unasked, Request, Points, Tools
    <3>2. LET locals == [Unasked EXCEPT !.tool = tool, !.at = "checked", !.active = TRUE]
          IN  /\ locals \in Request
              /\ locals.tool = tool /\ locals.at = "checked"
      BY DEF Unasked, Request, Points, Tools
    <3> QED BY <1>6, <3>1, <3>2 DEF Check, Goes
  <2>3. TypeOK'
    BY <1>1, <1>6, <2>1 DEF Check, TypeOK, Entitlements
  <2>4. /\ request'[r].tool = tool /\ request'[r].at = "checked"
        /\ request'[r].active => entitlements' \in Grants
    BY <1>1, <2>1 DEF TypeOK
  <2>5. /\ found'[r] = entitlements' /\ client' /\ UNCHANGED <<client, lastSuccessfulCheckMs>>
        /\ \A q \in Requests \ {r} :
             /\ request'[q] = request[q] /\ found'[q] = found[q]
             /\ alone'[q] => alone[q] /\ entitlements' = entitlements
    BY <1>1, <1>6, <2>1 DEF Check, TypeOK
  <2>6. RequestOK(r)'
    BY <2>1, <2>4, <2>5
       DEF RequestOK, PlaceOK, RecordedOK, HasRecorded, FoundOK, At, IsAnswered
  <2> QED BY <2>3, <2>5, <2>6, OthersStayOK
<1> QED BY <1>2, <1>3, <1>4, <1>5, <1>6 DEF Calls

\* A handler goes on after an await (handlers.ts:220-312).
LEMMA GoesOnKeepsInv ==
  ASSUME Inv, NEW r \in Requests, GoesOn(r)
  PROVE  Inv'
<1>1. /\ TypeOK /\ RequestOK(r) /\ request[r] \in Request /\ lastSuccessfulCheckMs \in Nat
      /\ UNCHANGED <<client, entitlements, found, alone>>
      /\ HasBase[entitlements] \in BOOLEAN /\ HasPro[entitlements] \in BOOLEAN
  BY FeaturesAreKnown
     DEF Inv, TypeOK, GoesOn, Answer, Thrown, CheckAnswered, SummaryAsksBase, SummaryAsksPro,
         SummaryAnswered
\* It is enough to look at the locals of r.
<1>2. ASSUME NEW STATE locals, locals \in Request, Goes(r, locals),
             \/ UNCHANGED lastSuccessfulCheckMs
             \/ client /\ lastSuccessfulCheckMs' = lastSuccessfulCheckMs + 1,
             RequestOK(r)'
      PROVE  Inv'
  <2>1. TypeOK'
    BY <1>1, <1>2 DEF Goes, TypeOK
  <2> QED BY <1>1, <1>2, <2>1, OthersStayOK DEF Goes, TypeOK
<1>3. CASE Answer(r) \/ Thrown(r)
  <2>1. [request[r] EXCEPT !.at = "answered"] \in Request
    BY <1>1 DEF Request, Points
  <2>2. /\ Goes(r, [request[r] EXCEPT !.at = "answered"]) /\ UNCHANGED lastSuccessfulCheckMs
        /\ request'[r] = [request[r] EXCEPT !.at = "answered"]
        /\ request[r].tool \notin {"check", "summary"} \/ ~request[r].ok
    BY <1>1, <1>3 DEF Answer, Thrown, Goes, TypeOK, At
  <2>3. RequestOK(r)'
    BY <1>1, <2>2
       DEF Request, RequestOK, PlaceOK, RecordedOK, HasRecorded, FoundOK, At, IsAnswered
  <2> QED BY <1>2, <2>1, <2>2, <2>3
<1>4. CASE CheckAnswered(r)
  <2> DEFINE own == lastSuccessfulCheckMs + 1
             locals == [request[r] EXCEPT !.at = "answered", !.own = own, !.ms = own]
  <2>1. locals \in Request
    <3>1. own \in Nat
      BY <1>1
    <3>2. ASSUME NEW n \in Nat
          PROVE  [request[r] EXCEPT !.at = "answered", !.own = n, !.ms = n] \in Request
      BY <1>1, CheckMayAnswer, Zenon
    <3> QED BY <3>1, <3>2, Zenon
  <2>2. /\ Goes(r, locals) /\ lastSuccessfulCheckMs' = own
        /\ request'[r] = locals
        /\ client /\ request[r].tool = "check"
    BY <1>1, <1>4 DEF CheckAnswered, Record, Goes, TypeOK, RequestOK, PlaceOK
  <2>3. RequestOK(r)'
    BY <1>1, <2>2
       DEF Request, RequestOK, PlaceOK, RecordedOK, HasRecorded, FoundOK, At, IsAnswered
  <2> HIDE DEF locals
  <2> QED BY <1>2, <2>1, <2>2, <2>3
<1>5. CASE SummaryAsksBase(r)
  <2> DEFINE own == lastSuccessfulCheckMs + 1
             locals == [request[r] EXCEPT !.at = "base_asked", !.own = own,
                                          !.base = HasBase[entitlements]]
  <2>1. locals \in Request
    <3>1. own \in Nat
      BY <1>1
    <3>2. ASSUME NEW n \in Nat PROVE [request[r] EXCEPT !.at = "base_asked", !.own = n,
                                        !.base = HasBase[entitlements]] \in Request
      BY <1>1, SummaryMayAskBase, Zenon
    <3> QED BY <3>1, <3>2, Zenon
  <2>2. /\ Goes(r, locals) /\ lastSuccessfulCheckMs' = own
        /\ request'[r] = locals
        /\ client /\ request[r].tool = "summary"
    BY <1>1, <1>5 DEF SummaryAsksBase, Record, Goes, TypeOK, RequestOK, PlaceOK
  <2>3. RequestOK(r)'
    BY <1>1, <2>2
       DEF Request, RequestOK, PlaceOK, RecordedOK, HasRecorded, FoundOK, At, IsAnswered
  <2> HIDE DEF locals
  <2> QED BY <1>2, <2>1, <2>2, <2>3
<1>6. CASE SummaryAsksPro(r)
  <2> DEFINE locals == [request[r] EXCEPT !.at = "called", !.pro = HasPro[entitlements]]
  <2>1. locals \in Request
    BY <1>1, SummaryMayAskPro, Zenon
  <2>2. /\ Goes(r, locals) /\ UNCHANGED lastSuccessfulCheckMs
        /\ request'[r] = locals
        /\ At(r, "summary", "base_asked")
    BY <1>1, <1>6 DEF SummaryAsksPro, Goes, TypeOK
  <2>3. RequestOK(r)'
    BY <1>1, <2>2
       DEF Request, RequestOK, PlaceOK, RecordedOK, HasRecorded, FoundOK, At, IsAnswered
  <2> HIDE DEF locals
  <2> QED BY <1>2, <2>1, <2>2, <2>3
<1>7. CASE SummaryAnswered(r)
  <2> DEFINE locals == [request[r] EXCEPT !.at = "answered", !.ms = lastSuccessfulCheckMs]
  <2>1. locals \in Request
    BY <1>1 DEF Request, Points
  <2>2. /\ Goes(r, locals) /\ UNCHANGED lastSuccessfulCheckMs
        /\ request'[r] = locals
        /\ At(r, "summary", "called")
    BY <1>1, <1>7 DEF SummaryAnswered, Goes, TypeOK
  <2>3. RequestOK(r)'
    BY <1>1, <2>2
       DEF Request, RequestOK, PlaceOK, RecordedOK, HasRecorded, FoundOK, At, IsAnswered
  <2> HIDE DEF locals
  <2> QED BY <1>2, <2>1, <2>2, <2>3
<1> QED BY <1>3, <1>4, <1>5, <1>6, <1>7 DEF GoesOn

LEMMA InitIsInv == Init => Inv
  BY McpAssumption, UnaskedIsARequest
     DEF Init, Inv, TypeOK, RequestOK, PlaceOK, RecordedOK, HasRecorded, FoundOK, At, IsAnswered,
         Unasked, Entitlements

LEMMA StepsKeepInv == Inv /\ [Next]_vars => Inv'
<1> SUFFICES ASSUME Inv, [Next]_vars PROVE Inv'
  OBVIOUS
<1>1. CASE Next
  BY <1>1, CallsKeepInv, GoesOnKeepsInv DEF Next
<1>2. CASE UNCHANGED vars
  BY <1>2 DEF vars, Inv, TypeOK, RequestOK, PlaceOK, RecordedOK, HasRecorded, FoundOK, At, IsAnswered
<1> QED BY <1>1, <1>2

LEMMA InvIsInvariant == Safety => []Inv
  BY InitIsInv, StepsKeepInv, PTL DEF Safety

\* Every variable keeps to its domain, and a server without a client finds
\* nothing out (handlers.ts:183-323).
THEOREM McpTypeCorrect == Safety => []TypeOK
<1>1. Inv => TypeOK
  BY DEF Inv
<1> QED BY <1>1, InvIsInvariant, PTL

\* A summary is a snapshot unless another tool call came between its awaits
\* (handlers.ts:286-312), for any number of calls under way.
THEOREM SummariesTornOnlyByOthers == Safety => []SummaryTornOnlyByOthers
<1>1. Inv => SummaryTornOnlyByOthers
  BY DEF Inv, RequestOK, FoundOK, SummaryTornOnlyByOthers, At
<1> QED BY <1>1, InvIsInvariant, PTL

\* No answer carries the time of a check older than its own
\* (handlers.ts:237-245, 293-311).
THEOREM ReportedChecksAreNoOlder == Safety => []ReportedCheckIsNoOlder
<1>1. Inv => ReportedCheckIsNoOlder
  BY DEF Inv, RequestOK, RecordedOK, HasRecorded, ReportedCheckIsNoOlder
<1> QED BY <1>1, InvIsInvariant, PTL
=============================================================================
