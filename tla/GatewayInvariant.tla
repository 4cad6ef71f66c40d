-------------------------- MODULE GatewayInvariant --------------------------
(***************************************************************************)
(* The inductive invariant from which the safety properties of Gateway     *)
(* follow.  It says, per request, what its stage implies about the request *)
(* record, the token, the call and the reply.                              *)
(***************************************************************************)
EXTENDS Gateway

\* What an awaited engine call can come back with: a failed mint never gets to
\* be awaited.
Comeback == Answers \cup {f \in Fault : f.code # "engine_auth_local_fail"}

\* What may follow from an engine answer a to a request of kind k: never the
\* slug of a failed mint, engine_auth_failed only after a 401 or 403, a 4xx only
\* if the answer is the caller's fault or may be taken for it, and then with no
\* internal field but where the scrub does not reach; a 4xx always if it is the
\* caller's fault and can be told; a 200 only if the answer backs one.
Sound(k, a, rep) ==
  /\ rep \in ReplyType /\ rep.status # 0
  /\ rep.error # "engine_auth_local_fail"
  /\ rep.error = "engine_auth_failed" => a.kind = "http" /\ a.status \in {401, 403}
  /\ rep.status \in 400..499 =>
       /\ CallersFault(k, a) \/ Mentions(a)
       /\ rep.echoed \cap {"top", "request"} # {} => Unscrubbed(k, a)
  /\ CallersFault(k, a) /\ ~Untold(k, a) => PassedOn(a, rep)
  /\ rep.status = 200 => Backs(k, a)

BeforeCall   == {"idle", "queued", "connecting"} \cup MintSteps
EngineStages == {"connecting", "awaiting", "resumable"} \cup MintSteps

\* What the stage of a handler says of its request and its engine call.
Staged(r) ==
  /\ pc[r] # "idle" => req[r] \in Kinds
  /\ pc[r] \in EngineStages => req[r].calc \in Engines /\ req[r].input = "valid"
  /\ pc[r] \in BeforeCall => calls[r] = 0 /\ answer[r] = NoAnswer
  /\ pc[r] = "awaiting" => calls[r] = 1 /\ answer[r] = NoAnswer
  /\ pc[r] = "resumable" => answer[r] \in Comeback
  /\ calls[r] \in {0, 1}
  /\ answer[r].kind \in {"http", "result"} => calls[r] = 1

\* From the POST on, and for every call an engine got, the token is there.
Tokened(r) ==
  /\ pc[r] = "connecting" \/ calls[r] > 0
  /\ req[r].calc \in CloudRun /\ ~env.soft
  => header[r] = "bearer"

\* The three ways a handler gets to its reply.
RepliedLocally(r) ==
  /\ calls[r] = 0 /\ answer[r] = NoAnswer
  /\ req[r].input # "valid" \/ req[r].calc = "hp"
  /\ reply[r].error \notin {"engine_auth_local_fail", "engine_auth_failed"}
  /\ reply[r].echoed = {}
  /\ reply[r].status = 200 => req[r].calc = "hp"

MintFailed(r) ==
  /\ calls[r] = 0 /\ answer[r].kind = "fault"
  /\ reply[r] = Reply(503, "engine_auth_local_fail", {}, FALSE)

RepliedAfterCall(r) ==
  /\ answer[r] \in Comeback
  /\ reply[r] = HandlerReply(req[r], answer[r])
  /\ Sound(req[r], answer[r], reply[r])

Replied(r) ==
  \/ reply[r] \in {NoReply, PlatformTimeout, PlatformError}
  \/ /\ pc[r] = "done"
     /\ RepliedLocally(r) \/ MintFailed(r) \/ RepliedAfterCall(r)

RecordsInv ==
  TypeOK /\ \A r \in Requests : Staged(r) /\ Tokened(r) /\ Replied(r)

\* Who has the loop is in a mint, and who is in a mint has it: nobody waits for
\* a loop that was not given back.
LoopInv == \A r \in Requests : loop = r <=> pc[r] \in MintSteps

\* No handler ends without its caller having been answered, by it or for it.
AnsweredInv == \A r \in Requests : pc[r] = "done" => reply[r] # NoReply

IInv == RecordsInv /\ LoopInv /\ AnsweredInv

\* How far a handler is on its way.
Rank ==
  [idle |-> 0, queued |-> 1, host_1 |-> 2, host_2 |-> 3, fetch_id_token |-> 4,
   connecting |-> 5, awaiting |-> 6, resumable |-> 7, done |-> 8]

\* Every step of a handler takes it further on the way, so it has eight at most;
\* only Cloud Run acts on a request without moving its handler.
HandlersMoveOn ==
  [][ /\ \A r \in Requests : pc'[r] # pc[r] => Rank[pc[r]] < Rank[pc'[r]]
      /\ \A r \in Requests : Handle(r) \/ Transfer(r) => pc'[r] # pc[r] ]_vars
=============================================================================
