------------------------------- MODULE McpHttp -------------------------------
(***************************************************************************)
(* The local HTTP transport of the MCP adapter (internal/mcpserver/http.go)*)
(* over one pinned atlas: a handler per request, a bounded number of them  *)
(* at work, a deadline that answers in the handler's place, and a shutdown *)
(* that does not wait for handlers.                                        *)
(***************************************************************************)
EXTENDS Naturals, FiniteSets

CONSTANTS
  Posts,             \* requests of clients
  MaximumConcurrent  \* HTTPOptions.MaximumConcurrent

PermitsAssumption == MaximumConcurrent \in Nat \ {0}

VARIABLES
  handler,  \* where each request's handler stands
  permits,  \* permits taken
  reply,    \* what each client got
  late,     \* requests whose deadline has passed
  listening \* Serve: "open", "closing" after ctx has ended, "returned"

httpVars == <<handler, permits, reply, late, listening>>

HttpInit ==
  /\ handler = [r \in Posts |-> "new"]
  /\ permits = 0
  /\ reply = [r \in Posts |-> "none"]
  /\ late = {} /\ listening = "open"

\* r.Context(): the deadline's, below the server's.
ContextOver(r) == r \in late \/ listening # "open"

MoveTo(r, where) == handler' = [handler EXCEPT ![r] = where]

\* TimeoutHandler passes on what the handler has written before the deadline,
\* and only that; a closed connection takes nothing.
WriteReply(r, what) ==
  reply' = IF reply[r] = "none" /\ listening = "open" THEN [reply EXCEPT ![r] = what] ELSE reply

\* defect: the permit goes back with the reply
ReturnsWithReply(r) == permits' = IF reply[r] = "timeout" THEN permits ELSE permits - 1

\* The deferred release of ServeHTTP.
Returns(r) == permits' = permits - 1

Conclude(r) == MoveTo(r, "done") /\ Returns(r)

-----------------------------------------------------------------------------
Unadmitted(r, what) ==
  /\ handler[r] = "new" /\ listening = "open"
  /\ MoveTo(r, "done") /\ WriteReply(r, what)
  /\ UNCHANGED <<permits, late, listening>>

\* localRequest: another authority or origin than this server's.
Forbid(r) == Unadmitted(r, "forbidden")

\* The path, the method, the protocol version, the content's type.
RejectHeaders(r) == Unadmitted(r, "refused")

\* acceptsMCPJSON
NotAcceptable(r) == Unadmitted(r, "not acceptable")

TakePermit(r) ==
  /\ handler[r] = "new" /\ listening = "open"
  /\ IF permits < MaximumConcurrent
       THEN MoveTo(r, "admitted") /\ permits' = permits + 1 /\ UNCHANGED reply
       ELSE MoveTo(r, "done") /\ WriteReply(r, "busy") /\ UNCHANGED permits
  /\ UNCHANGED <<late, listening>>

Early(r, what) ==
  /\ handler[r] = "admitted"
  /\ Conclude(r) /\ WriteReply(r, what)
  /\ UNCHANGED <<late, listening>>

\* The body is too large, cut off, or no JSON.
RejectBody(r) == Early(r, "bad body")

\* exactHTTPObject, checkHTTPJSONDepth, validateRequest, validHTTPID, an ID
\* that is missing or does not belong.
RejectRequest(r) == Early(r, "bad request")

\* validHTTPParams, httpInitializeVersion
RejectParams(r) == Early(r, "bad parameters")

Notify(r) == Early(r, "accepted")

Decode(r) ==
  /\ handler[r] = "admitted"
  /\ MoveTo(r, "dispatching")
  /\ UNCHANGED <<permits, reply, late, listening>>

\* handle looks at the context before anything else.
Dispatch(r) ==
  /\ handler[r] = "dispatching"
  /\ MoveTo(r, IF ContextOver(r) THEN "replying" ELSE "working")
  /\ UNCHANGED <<permits, reply, late, listening>>

\* The tool has run; context or not, a search is not interrupted.
RunTool(r) ==
  /\ handler[r] = "working"
  /\ MoveTo(r, "replying")
  /\ UNCHANGED <<permits, reply, late, listening>>

Reply(r) ==
  /\ handler[r] = "replying"
  /\ Conclude(r)
  /\ IF ContextOver(r) THEN UNCHANGED reply ELSE WriteReply(r, "result")
  /\ UNCHANGED <<late, listening>>

\* TimeoutHandler answers, and the handler runs on.
TimeOut(r) ==
  /\ handler[r] \notin {"new", "done"} /\ r \notin late
  /\ late' = late \cup {r}
  /\ WriteReply(r, "timeout")
  /\ UNCHANGED <<handler, permits, listening>>

\* The context of Serve ends: the listener and the connections are closed.
Shutdown ==
  /\ listening = "open" /\ listening' = "closing"
  /\ UNCHANGED <<handler, permits, reply, late>>

ServeReturns ==
  /\ listening = "closing" /\ listening' = "returned"
  /\ UNCHANGED <<handler, permits, reply, late>>

Handler(r) ==
  \/ Forbid(r) \/ RejectHeaders(r) \/ NotAcceptable(r) \/ TakePermit(r)
  \/ RejectBody(r) \/ RejectRequest(r) \/ RejectParams(r) \/ Notify(r)
  \/ Decode(r) \/ Dispatch(r) \/ RunTool(r) \/ Reply(r)

HttpNext == (\E r \in Posts : Handler(r) \/ TimeOut(r)) \/ Shutdown \/ ServeReturns

HttpSpec == HttpInit /\ [][HttpNext]_httpVars

-----------------------------------------------------------------------------
Busy == {r \in Posts : handler[r] \notin {"new", "done"}}

\* A permit is held by the handler, not by the reply: as many handlers as
\* permits, those included whose client has had its timeout (http.go:161).
SlotsHeld == permits = Cardinality(Busy) /\ permits <= MaximumConcurrent
=============================================================================
