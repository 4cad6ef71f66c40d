-------------------------- MODULE GatewayContract --------------------------
(***************************************************************************)
(* What the gateway promises a caller, with no event loop, token or        *)
(* transport in it: a request is answered once; if it needs an engine the  *)
(* engine is called at most once, and the answer says the caller is at     *)
(* fault if the engine said so, and only then, or if what it said is       *)
(* unclear, and has a result only if the engine gave one.  The platform in *)
(* front may answer in the gateway's place.                                *)
(***************************************************************************)
CONSTANT Requests

VARIABLES
  open,      \* the requests that have arrived
  local,     \* those of them that need no engine
  calls,     \* engine calls that reached the engine
  said,      \* what the engine said: nothing, result, refused, unclear, failed
  verdict    \* the answer: pending, result, caller_fault, gateway_fault, platform

vars == <<open, local, calls, said, verdict>>

Init ==
  /\ open = {} /\ local = {}
  /\ calls = [r \in Requests |-> 0]
  /\ said = [r \in Requests |-> "nothing"]
  /\ verdict = [r \in Requests |-> "pending"]

Accept(r) ==
  /\ r \notin open
  /\ open' = open \cup {r}
  /\ local' \in {local, local \cup {r}}
  /\ UNCHANGED <<calls, said, verdict>>

\* An engine receives the request: once, whether or not the caller still waits.
Call(r) ==
  /\ r \in open \ local
  /\ calls[r] = 0 /\ said[r] = "nothing"
  /\ calls' = [calls EXCEPT ![r] = 1]
  /\ UNCHANGED <<open, local, said, verdict>>

\* The call comes back; a call that never reached the engine can only fail.
Hear(r) ==
  /\ r \in open \ local
  /\ said[r] = "nothing"
  /\ said' \in {[said EXCEPT ![r] = s] :
                  s \in IF calls[r] = 1
                        THEN {"result", "refused", "unclear", "failed"}
                        ELSE {"failed"}}
  /\ UNCHANGED <<open, local, calls, verdict>>

\* The verdicts open to the gateway.
Justified(r) ==
  IF r \in local THEN {"result", "caller_fault", "gateway_fault"}
  ELSE CASE said[r] = "result"  -> {"result", "gateway_fault"}
         [] said[r] = "refused" -> {"caller_fault"}
         [] said[r] = "unclear" -> {"caller_fault", "gateway_fault"}
         [] said[r] = "failed"  -> {"gateway_fault"}
         [] said[r] = "nothing" -> {}

Answer(r) ==
  /\ r \in open /\ verdict[r] = "pending"
  /\ \E v \in Justified(r) : verdict' = [verdict EXCEPT ![r] = v]
  /\ UNCHANGED <<open, local, calls, said>>

\* The token could not be minted: the call fails and is answered in one step.
FailUncalled(r) ==
  /\ r \in open \ local
  /\ calls[r] = 0 /\ said[r] = "nothing"
  /\ said' = [said EXCEPT ![r] = "failed"]
  /\ verdict' = [verdict EXCEPT ![r] = IF @ = "pending" THEN "gateway_fault" ELSE @]
  /\ UNCHANGED <<open, local, calls>>

\* The platform answers some of the waiting requests.
Preempt ==
  /\ \E S \in SUBSET {r \in open : verdict[r] = "pending"} :
       verdict' = [r \in Requests |-> IF r \in S THEN "platform" ELSE verdict[r]]
  /\ UNCHANGED <<open, local, calls, said>>

Next ==
  \/ \E r \in Requests : \/ Accept(r) \/ Call(r) \/ Hear(r)
                         \/ Answer(r) \/ FailUncalled(r)
  \/ Preempt

Spec == Init /\ [][Next]_vars
=============================================================================
