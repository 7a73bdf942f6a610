----------------------------- MODULE McpHandlers -----------------------------
(***************************************************************************)
(* The MCP server (mcp/licensify/src/handlers.ts, server.ts): tool calls   *)
(* over one native client that the process made when it started, or could  *)
(* not make.                                                               *)
(*                                                                         *)
(* A native call runs to its end and blocks the event loop.  Between two   *)
(* awaits a handler is alone; at an await any other handler may go on, so  *)
(* a step here is what a handler does from one await to the next.  The     *)
(* native client is kept down to the entitlements of its handle and what   *)
(* CInterface lets its functions do with them; a time is the number of     *)
(* recordings up to it.                                                    *)
(***************************************************************************)
EXTENDS Naturals

CONSTANTS
  Requests,  \* tool calls
  Grants,    \* entitlements a server may sign
  Default,   \* default_entitlements()
  None,      \* a handle without entitlements
  HasBase,   \* HasBase[e], HasPro[e]: whether "base", "pro" is among e
  HasPro

Entitlements == Grants \cup {Default, None}

ASSUME McpAssumption ==
  /\ Default \notin Grants /\ None \notin Grants \cup {Default}
  /\ HasBase \in [Entitlements -> BOOLEAN] /\ HasPro \in [Entitlements -> BOOLEAN]

VARIABLES
  client,                 \* deps.client !== null
  entitlements,           \* those of the native handle
  lastSuccessfulCheckMs,  \* this.lastSuccessfulCheckMs, 0 for null
  request,                \* request[r]: where the handler of r is, and its locals
  found,                  \* history: found[r]: the entitlements r's check left
  alone                   \* history: alone[r]: no other call changed them since

vars == <<client, entitlements, lastSuccessfulCheckMs, request, found, alone>>

Tools == {"health", "activate", "check", "has_feature", "summary"}
Points == {"none", "called", "checked", "base_asked", "answered"}

Unasked == [tool |-> "none", at |-> "none", ok |-> TRUE, active |-> FALSE,
            base |-> FALSE, pro |-> FALSE, own |-> 0, ms |-> 0]

At(r, tool, point) == request[r].tool = tool /\ request[r].at = point

\* The handler of r is at `locals` when it next waits, or answers.
Goes(r, locals) == request' = [request EXCEPT ![r] = locals]

-----------------------------------------------------------------------------
\* A call arrives and runs up to its first await.

\* Without a client every tool but health is LICENSIFY_UNAVAILABLE; with one,
\* an empty key or feature name is INVALID_ARGUMENT.
Refused(r, tool) ==
  /\ request[r] = Unasked
  /\ IF client THEN tool \in {"activate", "has_feature"} ELSE tool # "health"
  /\ Goes(r, [Unasked EXCEPT !.tool = tool, !.at = "answered", !.ok = FALSE])
  /\ UNCHANGED <<client, entitlements, lastSuccessfulCheckMs, found, alone>>

Health(r) ==
  /\ request[r] = Unasked
  /\ Goes(r, [Unasked EXCEPT !.tool = "health", !.at = "answered", !.ms = lastSuccessfulCheckMs])
  /\ UNCHANGED <<client, entitlements, lastSuccessfulCheckMs, found, alone>>

\* Seeded fault: the client is not looked at.
FaultyActivate(r) ==
  /\ request[r] = Unasked
  /\ Goes(r, [Unasked EXCEPT !.tool = "activate", !.at = "called"])
  /\ entitlements' \in Grants \cup {Default}
  /\ alone' = [q \in Requests |-> FALSE]
  /\ UNCHANGED <<client, lastSuccessfulCheckMs, found>>

\* An activation never fails once it has a key: it falls back to Default.
Activate(r) ==
  /\ request[r] = Unasked /\ client
  /\ Goes(r, [Unasked EXCEPT !.tool = "activate", !.at = "called"])
  /\ entitlements' \in Grants \cup {Default}
  /\ alone' = [q \in Requests |-> FALSE]
  /\ UNCHANGED <<client, lastSuccessfulCheckMs, found>>

\* licensify_check_code: valid, with the entitlements of the token; any other
\* verdict; or an error, which the SDK throws.
Check(r, tool) ==
  /\ request[r] = Unasked /\ client
  /\ \/ /\ Goes(r, [Unasked EXCEPT !.tool = tool, !.at = "checked", !.active = TRUE])
        /\ entitlements' \in Grants
        /\ alone' = [q \in Requests |-> q = r]
     \/ /\ \E ok \in BOOLEAN : Goes(r, [Unasked EXCEPT !.tool = tool, !.at = "checked", !.ok = ok])
        /\ alone' = [alone EXCEPT ![r] = TRUE]
        /\ UNCHANGED entitlements
  /\ found' = [found EXCEPT ![r] = entitlements']
  /\ UNCHANGED <<client, lastSuccessfulCheckMs>>

HasFeature(r) ==
  /\ request[r] = Unasked /\ client
  /\ \/ Goes(r, [Unasked EXCEPT !.tool = "has_feature", !.at = "called", !.base = HasBase[entitlements]])
     \/ Goes(r, [Unasked EXCEPT !.tool = "has_feature", !.at = "called", !.pro = HasPro[entitlements]])
  /\ UNCHANGED <<client, entitlements, lastSuccessfulCheckMs, found, alone>>

-----------------------------------------------------------------------------
\* Handlers go on after an await.

\* activate and hasFeature have their answer.
Answer(r) ==
  /\ At(r, "activate", "called") \/ At(r, "has_feature", "called")
  /\ Goes(r, [request[r] EXCEPT !.at = "answered"])
  /\ UNCHANGED <<client, entitlements, lastSuccessfulCheckMs, found, alone>>

\* Seeded fault: summary has no handler for what check() throws.
FaultyThrown(r) ==
  /\ At(r, "check", "checked")
  /\ ~request[r].ok
  /\ Goes(r, [request[r] EXCEPT !.at = "answered"])
  /\ UNCHANGED <<client, entitlements, lastSuccessfulCheckMs, found, alone>>

\* What check() threw becomes an error answer.
Thrown(r) ==
  /\ request[r].at = "checked" /\ ~request[r].ok
  /\ Goes(r, [request[r] EXCEPT !.at = "answered"])
  /\ UNCHANGED <<client, entitlements, lastSuccessfulCheckMs, found, alone>>

\* The time of a check that did not throw, ACTIVE or not.
Record(r) ==
  /\ request[r].at = "checked" /\ request[r].ok
  /\ lastSuccessfulCheckMs' = lastSuccessfulCheckMs + 1

CheckAnswered(r) ==
  /\ request[r].tool = "check"
  /\ Record(r)
  /\ Goes(r, [request[r] EXCEPT !.at = "answered", !.own = lastSuccessfulCheckMs', !.ms = lastSuccessfulCheckMs'])
  /\ UNCHANGED <<client, entitlements, found, alone>>

\* summary asks for "base" in the step that records its check.
SummaryAsksBase(r) ==
  /\ request[r].tool = "summary"
  /\ Record(r)
  /\ Goes(r, [request[r] EXCEPT !.at = "base_asked", !.own = lastSuccessfulCheckMs',
              !.base = HasBase[entitlements]])
  /\ UNCHANGED <<client, entitlements, found, alone>>

\* Seeded fault: "base" is asked for a second time.
FaultySummaryAsksPro(r) ==
  /\ At(r, "summary", "base_asked")
  /\ Goes(r, [request[r] EXCEPT !.at = "called", !.pro = HasBase[entitlements]])
  /\ UNCHANGED <<client, entitlements, lastSuccessfulCheckMs, found, alone>>

SummaryAsksPro(r) ==
  /\ At(r, "summary", "base_asked")
  /\ Goes(r, [request[r] EXCEPT !.at = "called", !.pro = HasPro[entitlements]])
  /\ UNCHANGED <<client, entitlements, lastSuccessfulCheckMs, found, alone>>

\* Seeded fault: the time is read before the check is recorded.
FaultySummaryAnswered(r) ==
  /\ At(r, "summary", "called")
  /\ Goes(r, [request[r] EXCEPT !.at = "answered", !.ms = request[r].own - 1])
  /\ UNCHANGED <<client, entitlements, lastSuccessfulCheckMs, found, alone>>

\* The time answered is the field's value now: another call may have set it.
SummaryAnswered(r) ==
  /\ At(r, "summary", "called")
  /\ Goes(r, [request[r] EXCEPT !.at = "answered", !.ms = lastSuccessfulCheckMs])
  /\ UNCHANGED <<client, entitlements, lastSuccessfulCheckMs, found, alone>>

-----------------------------------------------------------------------------
Init ==
  /\ client \in BOOLEAN
  /\ entitlements = None
  /\ lastSuccessfulCheckMs = 0
  /\ request = [r \in Requests |-> Unasked]
  /\ found = [r \in Requests |-> None]
  /\ alone = [r \in Requests |-> FALSE]

Calls(r) ==
  \/ \E tool \in Tools : Refused(r, tool)
  \/ Health(r) \/ Activate(r) \/ HasFeature(r)
  \/ \E tool \in {"check", "summary"} : Check(r, tool)

GoesOn(r) ==
  Answer(r) \/ Thrown(r) \/ CheckAnswered(r)
  \/ SummaryAsksBase(r) \/ SummaryAsksPro(r) \/ SummaryAnswered(r)

Next == \E r \in Requests : Calls(r) \/ GoesOn(r)

Safety == Init /\ [][Next]_vars

\* The event loop comes to every settled promise.
Spec == Safety /\ \A r \in Requests : WF_vars(GoesOn(r))

-----------------------------------------------------------------------------
Request ==
  [tool: Tools \cup {"none"}, at: Points, ok: BOOLEAN, active: BOOLEAN,
   base: BOOLEAN, pro: BOOLEAN, own: Nat, ms: Nat]

\* Every variable keeps to its domain, and nothing is found out by a server
\* without a client (handlers.ts:192-230, 286-289).
TypeOK ==
  /\ client \in BOOLEAN
  /\ entitlements \in Entitlements
  /\ lastSuccessfulCheckMs \in Nat
  /\ request \in [Requests -> Request]
  /\ found \in [Requests -> Entitlements]
  /\ alone \in [Requests -> BOOLEAN]
  /\ ~client => entitlements = None /\ lastSuccessfulCheckMs = 0

IsAnswered(r) == request[r].at = "answered"

\* The "snapshot" of licensify_get_status_summary (server.ts:226-232): its
\* features are those its own check left, those of the token if it says ACTIVE,
\* unless another tool call activated or checked between two of its awaits.
SummaryTornOnlyByOthers ==
  \A r \in Requests : At(r, "summary", "answered") /\ request[r].ok /\ alone[r] =>
    /\ request[r].base = HasBase[found[r]] /\ request[r].pro = HasPro[found[r]]
    /\ request[r].active => found[r] \in Grants

\* However calls interleave, a check or summary answers with the time of its
\* own check or of a later one, never of one that was over before it
\* (handlers.ts:237-245, 293-311).
ReportedCheckIsNoOlder ==
  \A r \in Requests :
    IsAnswered(r) /\ request[r].ok /\ request[r].tool \in {"check", "summary"} =>
      request[r].own # 0 /\ request[r].own <= request[r].ms

\* Every tool call is answered, whatever the native client does: no handler
\* rejects and none waits for another (handlers.ts:206-323).
EveryCallIsAnswered ==
  \A r \in Requests : request[r].at # "none" ~> IsAnswered(r)
=============================================================================
