-------------------------------- MODULE Mcp --------------------------------
(***************************************************************************)
(* The MCP endpoint (api/routes/mcp.py): one JSON-RPC envelope in, one out. *)
(* tools/call never calculates: it answers with the REST path to post to.  *)
(*                                                                         *)
(* A request says of each part whether it is there and of the right type:  *)
(* params and arguments are "none" (absent or falsy), "object" or "other"  *)
(* (any other JSON value), a string that is no string is NotAString.       *)
(***************************************************************************)
EXTENDS Registry, Integers

NotAString == "not a string"
NoPeriod   == Period("none", "none")

Shapes  == {"none", "object", "other"}
Methods == {"tools/list", "tools/call", "resources/list", "resources/read"}

NoResource == Resource("none", NoCalc, "none")

Params(shape, name, arguments, period, uri) ==
  [shape |-> shape, name |-> name, arguments |-> arguments,
   period |-> period, uri |-> uri]

Rpc(version, method, id, params) ==
  [version |-> version, method |-> method, id |-> id, params |-> params]

InvalidRequest == -32600
MethodNotFound == -32601
InvalidParams  == -32602
ToolNotFound   == -32001

\* error 0: none.  A reply without an envelope has no body, or a bare one.
Reply(http, envelope, error, result) ==
  [http |-> http, envelope |-> envelope, error |-> error, result |-> result]

Fault(http, error) == Reply(http, TRUE, error, "none")
Result(result)     == Reply(200, TRUE, 0, result)
NoContent          == Reply(204, FALSE, 0, "none")
BareError          == Reply(500, FALSE, 0, "none")  \* an exception nobody caught

HandleToolsCall(p) ==
  IF p.shape = "other" THEN BareError           \* params.get: AttributeError
  ELSE IF p.shape = "none" \/ p.name = NotAString
         \/ p.arguments = "other" THEN Fault(200, InvalidParams)
  ELSE IF ToolsNamed(p.name) = {} THEN Fault(200, ToolNotFound)
  ELSE IF p.arguments = "object" /\ p.period.name = NotAString
         THEN BareError                         \* quote(period_uri): TypeError
  ELSE Result("dispatch")

HandleResourcesRead(p) ==
  IF p.shape = "other" THEN BareError
  ELSE IF p.shape = "object" /\ CanReadResource(p.uri) THEN Result("contents")
  ELSE Fault(200, InvalidParams)

Handle(q) ==
  CASE q.method = "tools/list"     -> Result("tools")
    [] q.method = "resources/list" -> Result("resources")
    [] q.method = "tools/call"     -> HandleToolsCall(q.params)
    [] q.method = "resources/read" -> HandleResourcesRead(q.params)

\* A notification has no id; only its success goes without an answer.
McpEndpoint(q) ==
  IF q.version # "2.0" \/ q.method = NotAString
    THEN Fault(400, InvalidRequest)
  ELSE IF q.method \notin Methods THEN Fault(200, MethodNotFound)
  ELSE IF Handle(q).error = 0 /\ Handle(q).envelope /\ ~q.id THEN NoContent
  ELSE Handle(q)

\* Mutant: the calculator with a path of its own is told by its last segment.
RedirectByName(p) ==
  LET row == ToolCalcUriForName(p.name)
  IN  [native |-> row.calc.name = "at",
       calc   |-> row.calc,
       period |-> IF p.arguments = "object" /\ p.period # NoPeriod
                  THEN p.period ELSE row.periods[1]]

(***************************************************************************)
(* Where a successful tools/call sends its caller: depreciation at has its *)
(* own path, every other calculator the generic one.  A period left out is *)
(* the first one supported.                                                *)
(***************************************************************************)
Redirect(p) ==
  LET row == ToolCalcUriForName(p.name)
  IN  [native |-> row.calc = Calculator("depreciation", "at"),
       calc   |-> row.calc,
       period |-> IF p.arguments = "object" /\ p.period # NoPeriod
                  THEN p.period ELSE row.periods[1]]

NoRedirect == [native |-> FALSE, calc |-> NoCalc, period |-> NoPeriod]
=============================================================================
