--------------------------- MODULE FrontDoorClaims ---------------------------
(***************************************************************************)
(* What a docstring of the MCP endpoint says of its answers, as an         *)
(* invariant of the model of its code; TLC finds it violated.              *)
(***************************************************************************)
EXTENDS MCFrontDoor

\* mcp.py:115-117, the endpoint "Returns a JSON-RPC 2.0 envelope in every
\* case (success or error)" and a notification gets "204 No Content".
EnvelopeInEveryCase ==
  rpc # NoRpc => IF rpc.request.id THEN rpc.reply.envelope
                                   ELSE rpc.reply = NoContent

NoWishes == {}
=============================================================================
