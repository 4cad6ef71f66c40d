------------------------ MODULE GatewayContractProofs ------------------------
(***************************************************************************)
(* Gateway implements GatewayContract: what a caller may rely on holds     *)
(* whatever tokens, loops, engines and the platform do.  A step is a step  *)
(* of the contract, or one it does not see.                                *)
(***************************************************************************)
EXTENDS GatewayProofs

\* The state of the contract, read off the state of the gateway.
Opened   == {r \in Requests : pc[r] # "idle"}
Locals   == {r \in Requests : req[r].calc = "hp" \/ req[r].input # "valid"}
              \ {r \in Requests : pc[r] = "idle"}
Said     == [r \in Requests |-> EngineSaid(r)]
Verdicts == [r \in Requests |-> Verdict(r)]

\* The step changes nothing the contract sees of request s.
LEMMA Unmoved ==
  ASSUME NEW s \in Requests, Same(s)
  PROVE  EngineSaid(s)' = EngineSaid(s) /\ Verdict(s)' = Verdict(s)
<1>1. EngineSaid(s)' = EngineSaid(s)
  BY DEF Same, EngineSaid
<1>2. Verdict(s)' = Verdict(s)
  BY DEF Same, Verdict, FromHandler
<1> QED  BY <1>1, <1>2

\* What a step on request r changes in the contract's state.
LEMMA OneMoves ==
  ASSUME TypeOK, TypeOK', NEW r \in Requests, \A s \in Requests \ {r} : Same(s)
  PROVE  /\ Said' = [Said EXCEPT ![r] = EngineSaid(r)']
         /\ Verdicts' = [Verdicts EXCEPT ![r] = Verdict(r)']
         /\ calls' = [calls EXCEPT ![r] = calls'[r]]
         /\ pc[r] # "idle" /\ pc'[r] # "idle" /\ req'[r] = req[r]
              => Opened' = Opened /\ Locals' = Locals
<1>1. \A s \in Requests \ {r} :
        EngineSaid(s)' = EngineSaid(s) /\ Verdict(s)' = Verdict(s)
  BY Unmoved
<1>2. Said' = [Said EXCEPT ![r] = EngineSaid(r)']
  BY <1>1 DEF Said
<1>3. Verdicts' = [Verdicts EXCEPT ![r] = Verdict(r)']
  BY <1>1 DEF Verdicts
<1>4. calls' = [calls EXCEPT ![r] = calls'[r]]
  BY DEF TypeOK, Same
<1>5. ASSUME pc[r] # "idle", pc'[r] # "idle", req'[r] = req[r]
      PROVE  Opened' = Opened /\ Locals' = Locals
  BY <1>5 DEF Opened, Locals, Same
<1> QED  BY <1>2, <1>3, <1>4, <1>5

\* A step that changes neither the answer, the call nor the reply of a request
\* that has arrived is none the contract sees.
LEMMA Unseen ==
  ASSUME TypeOK, TypeOK', NEW r \in Requests, \A s \in Requests \ {r} : Same(s),
         pc[r] # "idle", pc'[r] # "idle",
         req'[r] = req[r], calls'[r] = calls[r],
         answer'[r] = answer[r], reply'[r] = reply[r]
  PROVE  UNCHANGED Contract!vars
<1>1. EngineSaid(r)' = EngineSaid(r)
  BY DEF EngineSaid
<1>2. Verdict(r)' = Verdict(r)
  BY DEF Verdict, FromHandler
<1>3. Said' = Said /\ Verdicts' = Verdicts /\ calls' = calls
  <2>1. /\ Said = [Said EXCEPT ![r] = EngineSaid(r)]
        /\ Verdicts = [Verdicts EXCEPT ![r] = Verdict(r)]
        /\ calls = [calls EXCEPT ![r] = calls[r]]
    BY DEF Said, Verdicts, TypeOK
  <2> QED  BY <1>1, <1>2, <2>1, OneMoves
<1>4. Opened' = Opened /\ Locals' = Locals
  BY OneMoves
<1> QED  BY <1>3, <1>4 DEF Contract!vars, Said, Verdicts, Opened, Locals

\* Initially nothing has been asked or said.
LEMMA InitMaps == Init => Contract!Init
<1> SUFFICES ASSUME Init PROVE Contract!Init
  OBVIOUS
<1>1. \A r \in Requests : EngineSaid(r) = "nothing" /\ Verdict(r) = "pending"
  BY DEF Init, EngineSaid, Verdict, NoAnswer
<1> QED  BY <1>1 DEF Init, Contract!Init

\* What is known of a request before its engine call is back.
LEMMA NotYetSaid ==
  ASSUME NEW r \in Requests, answer[r] = NoAnswer
  PROVE  EngineSaid(r) = "nothing"
BY DEF EngineSaid, NoAnswer

\* A request arrives: the contract accepts it.
LEMMA ArriveMaps ==
  ASSUME RecordsInv, TypeOK', NEW r \in Requests, Arrive(r)
  PROVE  Contract!Accept(r)
<1>1. /\ TypeOK /\ pc[r] = "idle" /\ answer[r] = NoAnswer
      /\ pc' = [pc EXCEPT ![r] = "queued"]
      /\ UNCHANGED <<env, loop, header, calls, answer, reply>>
      /\ \A s \in Requests \ {r} : Same(s)
  BY DEF RecordsInv, Staged, BeforeCall, TypeOK, Arrive, Goto, Same
<1>2. EngineSaid(r) = "nothing" /\ EngineSaid(r)' = "nothing"
  BY <1>1, NotYetSaid DEF EngineSaid, NoAnswer
<1>3. Verdict(r)' = Verdict(r)
  BY <1>1 DEF Verdict, FromHandler
<1>4. Said' = Said /\ Verdicts' = Verdicts
  <2>1. Said = [Said EXCEPT ![r] = EngineSaid(r)]
    BY DEF Said
  <2>2. Verdicts = [Verdicts EXCEPT ![r] = Verdict(r)]
    BY DEF Verdicts
  <2> QED  BY <1>1, <1>2, <1>3, <2>1, <2>2, OneMoves
<1>5. r \notin Opened /\ Opened' = Opened \cup {r}
  BY <1>1 DEF Opened, TypeOK
<1>6. Locals' \in {Locals, Locals \cup {r}}
  BY <1>1 DEF Locals, Same
<1> QED  BY <1>1, <1>4, <1>5, <1>6
         DEF Contract!Accept, Said, Verdicts, Opened, Locals

\* The engine gets the request: the contract's one call.
LEMMA DeliverMaps ==
  ASSUME RecordsInv, TypeOK', NEW r \in Requests, Deliver(r)
  PROVE  Contract!Call(r)
<1>1. /\ TypeOK /\ pc[r] = "connecting" /\ answer[r] = NoAnswer
      /\ calls[r] = 0 /\ req[r].calc \in Engines /\ req[r].input = "valid"
      /\ pc'[r] = "awaiting" /\ calls'[r] = 1
      /\ UNCHANGED <<env, loop, req, header, answer, reply>>
      /\ \A s \in Requests \ {r} : Same(s)
  BY DEF RecordsInv, Staged, BeforeCall, EngineStages, TypeOK, Deliver, Goto, Same
<1>2. EngineSaid(r) = "nothing" /\ EngineSaid(r)' = EngineSaid(r)
  BY <1>1, NotYetSaid DEF EngineSaid
<1>3. Verdict(r)' = Verdict(r)
  BY <1>1 DEF Verdict, FromHandler
<1>4. /\ Said' = Said /\ Verdicts' = Verdicts
      /\ calls' = [calls EXCEPT ![r] = 1]
      /\ Opened' = Opened /\ Locals' = Locals
  <2>1. Said = [Said EXCEPT ![r] = EngineSaid(r)]
    BY DEF Said
  <2>2. Verdicts = [Verdicts EXCEPT ![r] = Verdict(r)]
    BY DEF Verdicts
  <2> QED  BY <1>1, <1>2, <1>3, <2>1, <2>2, OneMoves
<1>5. r \in Opened \ Locals
  BY <1>1 DEF Opened, Locals, Engines
<1> QED  BY <1>1, <1>2, <1>4, <1>5
         DEF Contract!Call, Said, Verdicts, Opened, Locals

\* The call comes back: the contract hears of it; of a call that never got to
\* the engine only that it failed.
LEMMA ComesBackMaps ==
  ASSUME RecordsInv, TypeOK', NEW r \in Requests, NEW a \in Comeback, ComesBack(r, a),
         \/ pc[r] = "connecting" /\ a \in Fault
         \/ pc[r] = "awaiting"
  PROVE  Contract!Hear(r)
<1>1. /\ TypeOK /\ answer[r] = NoAnswer
      /\ pc[r] # "idle" /\ pc'[r] = "resumable" /\ answer'[r] = a
      /\ req[r].calc \in Engines /\ req[r].input = "valid"
      /\ UNCHANGED <<env, loop, req, header, calls, reply>>
      /\ \A s \in Requests \ {r} : Same(s)
  BY DEF RecordsInv, Staged, BeforeCall, EngineStages, TypeOK, ComesBack, Goto, Same
<1>2. a.kind \in {"http", "result", "fault"} /\ (a \in Fault => a.kind = "fault")
  BY GatewayAssumption DEF Comeback, Answer, HttpError, Success, Fault
<1>3. EngineSaid(r)' \in {"result", "refused", "unclear", "failed"}
  BY <1>1, <1>2 DEF EngineSaid
<1>4. a \in Fault => EngineSaid(r)' = "failed"
  BY <1>1, <1>2 DEF EngineSaid, CallersFault, Mentions, Errs
<1>5. calls[r] = 1 \/ EngineSaid(r)' = "failed"
  BY <1>4 DEF RecordsInv, Staged
<1>6. Verdict(r)' = Verdict(r)
  BY <1>1 DEF Verdict, FromHandler
<1>7. /\ Said' = [Said EXCEPT ![r] = EngineSaid(r)'] /\ Verdicts' = Verdicts
      /\ Opened' = Opened /\ Locals' = Locals
  <2>1. Verdicts = [Verdicts EXCEPT ![r] = Verdict(r)]
    BY DEF Verdicts
  <2> QED  BY <1>1, <1>6, <2>1, OneMoves
<1>8. r \in Opened \ Locals
  BY <1>1 DEF Opened, Locals, Engines
<1>9. Said[r] = "nothing"
  BY <1>1, NotYetSaid DEF Said
<1> QED  BY <1>1, <1>3, <1>5, <1>7, <1>8, <1>9
         DEF Contract!Hear, Said, Verdicts, Opened, Locals

\* Cloud Run answers some of the requests that wait.
LEMMA PreemptMaps ==
  ASSUME NEW S \in SUBSET {r \in Requests : pc[r] # "idle" /\ Verdict(r) = "pending"},
         \A r \in Requests : Verdict(r)' = IF r \in S THEN "platform" ELSE Verdict(r),
         \A r \in Requests : EngineSaid(r)' = EngineSaid(r),
         \A r \in Requests : pc'[r] = "idle" <=> pc[r] = "idle",
         req' = req, calls' = calls
  PROVE  Contract!Preempt
<1>1. S \in SUBSET {r \in Opened : Verdicts[r] = "pending"}
  BY DEF Opened, Verdicts
<1>2. Verdicts' = [r \in Requests |-> IF r \in S THEN "platform" ELSE Verdicts[r]]
  BY DEF Verdicts
<1>3. Said' = Said
  BY DEF Said
<1>4. Opened' = Opened /\ Locals' = Locals
  BY DEF Opened, Locals
<1> QED  BY <1>1, <1>2, <1>3, <1>4
         DEF Contract!Preempt, Said, Verdicts, Opened, Locals

\* A handler's reply: the contract's answer; unless Cloud Run answered before, or
\* the reply is one the contract cannot tell from Cloud Run's or from none.
LEMMA RespondMaps ==
  ASSUME RecordsInv, TypeOK', NEW r \in Requests, NEW rep, Respond(r, rep),
         pc[r] \notin {"idle", "done"}, UNCHANGED <<req, calls, answer>>,
         \A s \in Requests \ {r} : Same(s),
         reply[r] = NoReply => Verdict(r)' \in
           Contract!Justified(r) \cup {"pending", "platform"}
  PROVE  [Contract!Next]_(Contract!vars)
<1>1. /\ TypeOK /\ pc'[r] = "done"
      /\ reply'[r] = IF reply[r] = NoReply THEN rep ELSE reply[r]
  BY DEF RecordsInv, TypeOK, Respond, Goto
<1>2. EngineSaid(r)' = EngineSaid(r)
  BY DEF EngineSaid
<1>3. CASE reply[r] # NoReply
  BY <1>1, <1>3, Unseen
<1>4. CASE reply[r] = NoReply
  <2>1. Verdict(r) = "pending"
    BY <1>4 DEF Verdict
  <2>2. /\ Said' = Said /\ calls' = calls
        /\ Opened' = Opened /\ Locals' = Locals
        /\ Verdicts' = [Verdicts EXCEPT ![r] = Verdict(r)']
    <3>1. Said = [Said EXCEPT ![r] = EngineSaid(r)]
      BY DEF Said
    <3> QED  BY <1>1, <1>2, <3>1, OneMoves
  <2>3. CASE Verdict(r)' = "pending"
    <3>1. Verdicts' = Verdicts
      BY <2>1, <2>2, <2>3 DEF Verdicts
    <3> QED  BY <2>2, <3>1 DEF Contract!vars, Said, Verdicts, Opened, Locals
  <2>4. CASE Verdict(r)' = "platform"
    <3>1. \A s \in Requests : /\ s # r => Verdict(s)' = Verdict(s)
                              /\ EngineSaid(s)' = EngineSaid(s)
      BY <1>2, Unmoved
    <3>2. \A s \in Requests : pc'[s] = "idle" <=> pc[s] = "idle"
      BY <1>1 DEF Same
    <3>3. {r} \in SUBSET {s \in Requests : pc[s] # "idle" /\ Verdict(s) = "pending"}
      BY <2>1
    <3>4. \A s \in Requests : Verdict(s)' = IF s \in {r} THEN "platform" ELSE Verdict(s)
      BY <2>4, <3>1
    <3>5. Contract!Preempt
      BY <3>1, <3>2, <3>3, <3>4, PreemptMaps
    <3> QED  BY <3>5 DEF Contract!Next
  <2>5. CASE Verdict(r)' \in Contract!Justified(r)
    <3>1. r \in Opened /\ Verdicts[r] = "pending"
      BY <2>1 DEF Opened, Verdicts
    <3>2. Contract!Answer(r)
      BY <2>2, <2>5, <3>1
         DEF Contract!Answer, Said, Verdicts, Opened, Locals
    <3> QED  BY <3>2 DEF Contract!Next
  <2> QED  BY <1>4, <2>3, <2>4, <2>5
<1> QED  BY <1>3, <1>4

\* An answer made without an engine.
LEMMA StartLocalMaps ==
  ASSUME RecordsInv, TypeOK', NEW r \in Requests, StartLocal(r)
  PROVE  [Contract!Next]_(Contract!vars)
<1>1. PICK rep : /\ Respond(r, rep)
                 /\ req[r].input # "valid" \/ req[r].calc = "hp"
  BY DEF StartLocal
<1>2. /\ TypeOK /\ pc[r] = "queued" /\ UNCHANGED <<req, calls, answer>>
      /\ \A s \in Requests \ {r} : Same(s)
  BY <1>1 DEF RecordsInv, TypeOK, StartLocal, Respond, Goto, Same
<1>3. r \in Locals
  BY <1>1, <1>2 DEF Locals
<1>4. Contract!Justified(r) = {"result", "caller_fault", "gateway_fault"}
  BY <1>3 DEF Contract!Justified, Locals
<1>5. Verdict(r)' \in {"pending", "platform", "result", "caller_fault", "gateway_fault"}
  BY DEF Verdict
<1> QED  BY <1>1, <1>2, <1>4, <1>5, RespondMaps

\* The verdict of a reply that follows soundly from what the engine said.
LEMMA SoundIsJustified ==
  ASSUME NEW r \in Requests, r \notin Locals, answer[r].kind # "none",
         reply'[r] # NoReply => Sound(req[r], answer[r], reply'[r])
  PROVE  Verdict(r)' \in Contract!Justified(r) \cup {"pending", "platform"}
<1> DEFINE rep == reply'[r]
<1>1. Contract!Justified(r) =
        CASE EngineSaid(r) = "result"  -> {"result", "gateway_fault"}
          [] EngineSaid(r) = "refused" -> {"caller_fault"}
          [] EngineSaid(r) = "unclear" -> {"caller_fault", "gateway_fault"}
          [] EngineSaid(r) = "failed"  -> {"gateway_fault"}
          [] EngineSaid(r) = "nothing" -> {}
  BY DEF Contract!Justified, Locals
<1>2. /\ EngineSaid(r) \in {"result", "refused", "unclear", "failed"}
      /\ EngineSaid(r) = "refused" =>
           CallersFault(req[r], answer[r]) /\ ~Untold(req[r], answer[r])
  BY DEF EngineSaid
<1>3. CASE rep.status = 200 /\ rep # NoReply
  <2>1. EngineSaid(r) = "result"
    BY <1>3 DEF Sound, Backs, EngineSaid, CallersFault, Mentions, Errs
  <2>2. Verdict(r)' \in {"platform", "result"}
    BY <1>3 DEF Verdict
  <2> QED  BY <1>1, <2>1, <2>2
<1>4. CASE rep.status \in 400..499 /\ rep # NoReply
  <2>1. EngineSaid(r) \in {"refused", "unclear"}
    BY <1>4 DEF Sound, EngineSaid
  <2>2. rep.status # 200
    BY <1>4
  <2>3. Verdict(r)' \in {"platform", "caller_fault"}
    BY <1>4, <2>2 DEF Verdict
  <2> QED  BY <1>1, <2>1, <2>3
<1>5. CASE rep.status \notin {200} \cup 400..499 /\ rep # NoReply
  <2>1. Verdict(r)' \in {"platform", "gateway_fault"}
    BY <1>5 DEF Verdict
  <2>2. EngineSaid(r) # "refused"
    <3>1. ~PassedOn(answer[r], rep)
      BY <1>5 DEF PassedOn, CallerFault4xx
    <3> QED  BY <1>2, <1>5, <3>1 DEF Sound
  <2> QED  BY <1>1, <1>2, <2>1, <2>2
<1>6. CASE rep = NoReply
  BY <1>6 DEF Verdict
<1> QED  BY <1>3, <1>4, <1>5, <1>6

\* The handler resumes and answers.
LEMMA ResumeMaps ==
  ASSUME RecordsInv, TypeOK', NEW r \in Requests, Resume(r)
  PROVE  [Contract!Next]_(Contract!vars)
<1> DEFINE rep == HandlerReply(req[r], answer[r])
<1>1. /\ TypeOK /\ pc[r] = "resumable" /\ answer[r] \in Comeback
      /\ req[r].calc \in Engines /\ req[r].input = "valid"
      /\ Respond(r, rep) /\ UNCHANGED <<req, calls, answer>>
  BY DEF RecordsInv, Staged, EngineStages, Resume
<1>2. Sound(req[r], answer[r], rep)
  BY <1>1, HandlerReplySound
<1> HIDE DEF rep
<1>3. /\ \A s \in Requests \ {r} : Same(s)
      /\ reply[r] = NoReply => reply'[r] = rep
  BY <1>1 DEF TypeOK, Respond, Goto, Resume, Same
<1>4. r \notin Locals
  BY <1>1 DEF Locals, Engines
<1>5. answer[r].kind # "none"
  BY <1>1, GatewayAssumption DEF Comeback, Answer, HttpError, Success, Fault
<1>6. reply[r] = NoReply =>
        Verdict(r)' \in Contract!Justified(r) \cup {"pending", "platform"}
  BY <1>2, <1>3, <1>4, <1>5, SoundIsJustified
<1> QED  BY <1>1, <1>3, <1>6, RespondMaps

\* No token and no soft mode: the contract's call that fails uncalled.
LEMMA MintFailsMaps ==
  ASSUME RecordsInv, TypeOK', NEW r \in Requests, AuthUnavailable(r), ~env.soft
  PROVE  Contract!FailUncalled(r)
<1> DEFINE a   == [kind |-> "fault", code |-> "engine_auth_local_fail"]
           rep == Reply(503, "engine_auth_local_fail", {}, FALSE)
<1>1. /\ TypeOK /\ pc[r] = "fetch_id_token" /\ pc'[r] = "done"
      /\ answer[r] = NoAnswer /\ calls[r] = 0
      /\ req[r].calc \in Engines /\ req[r].input = "valid"
      /\ answer'[r] = a
      /\ reply'[r] = IF reply[r] = NoReply THEN rep ELSE reply[r]
      /\ UNCHANGED <<req, calls>>
      /\ \A s \in Requests \ {r} : Same(s)
  <2>1. /\ TypeOK /\ pc[r] = "fetch_id_token"
        /\ answer[r] = NoAnswer /\ calls[r] = 0
        /\ req[r].calc \in Engines /\ req[r].input = "valid"
    BY DEF RecordsInv, Staged, BeforeCall, EngineStages, MintSteps, AuthUnavailable
  <2>2. MapTransport("engine_auth_local_fail", req[r].calc) = rep
    BY DEF MapTransport
  <2> HIDE DEF a, rep
  <2>3. /\ UNCHANGED <<env, req, header, calls>>
        /\ pc' = [pc EXCEPT ![r] = "done"]
        /\ answer' = [answer EXCEPT ![r] = a]
        /\ reply' = [reply EXCEPT ![r] = IF @ = NoReply THEN rep ELSE @]
    BY <2>2 DEF AuthUnavailable, Respond, Goto, a
  <2> QED  BY <2>1, <2>3 DEF TypeOK, Same
<1>2. EngineSaid(r) = "nothing" /\ EngineSaid(r)' = "failed"
  BY <1>1, NotYetSaid DEF EngineSaid, CallersFault, Mentions, Errs
<1>3. Verdict(r)' = IF Verdict(r) = "pending" THEN "gateway_fault" ELSE Verdict(r)
  <2>1. CASE reply[r] = NoReply
    <3>1. reply'[r] \notin {NoReply, PlatformTimeout, PlatformError}
      BY <1>1, <2>1 DEF NoReply, PlatformTimeout, PlatformError, Reply
    <3>2. reply'[r].status = 503
      BY <1>1, <2>1 DEF Reply
    <3> QED  BY <2>1, <3>1, <3>2 DEF Verdict, FromHandler
  <2>2. CASE reply[r] # NoReply
    BY <1>1, <2>2 DEF Verdict, FromHandler
  <2> QED  BY <2>1, <2>2
<1>4. /\ Said' = [Said EXCEPT ![r] = "failed"]
      /\ Verdicts' = [Verdicts EXCEPT ![r] = Verdict(r)']
      /\ Opened' = Opened /\ Locals' = Locals
  BY <1>1, <1>2, OneMoves
<1>5. r \in Opened \ Locals
  BY <1>1 DEF Opened, Locals, Engines
<1>6. Said[r] = "nothing" /\ Verdicts[r] = Verdict(r)
  BY <1>2 DEF Said, Verdicts
<1>7. Verdicts' = [Verdicts EXCEPT ![r] = IF @ = "pending" THEN "gateway_fault" ELSE @]
  BY <1>3, <1>4, <1>6
<1> QED  BY <1>1, <1>4, <1>5, <1>6, <1>7
         DEF Contract!FailUncalled, Said, Verdicts, Opened, Locals

\* The mint's other steps, and the handler's way into it, are its own affair.
LEMMA OwnStepsUnseen ==
  ASSUME RecordsInv, TypeOK', NEW r \in Requests,
         StartEngine(r) \/ (Mint(r) /\ ~(AuthUnavailable(r) /\ ~env.soft))
  PROVE  UNCHANGED Contract!vars
<1>1. TypeOK
  BY DEF RecordsInv
<1>2. /\ pc[r] \in {"queued"} \cup MintSteps
      /\ UNCHANGED <<req, calls, answer, reply>>
      /\ \E stage \in Stages \ {"idle"} : pc' = [pc EXCEPT ![r] = stage]
      /\ header' = header \/ header' = [header EXCEPT ![r] = "bearer"]
  BY DEF StartEngine, Mint, TryMetadataHost, FetchIdToken, AuthUnavailable,
         Minted, Goto, MintSteps, Stages
<1>3. /\ pc[r] # "idle" /\ pc'[r] # "idle"
      /\ \A s \in Requests \ {r} : Same(s)
  BY <1>1, <1>2 DEF TypeOK, Same, MintSteps
<1> QED  BY <1>1, <1>2, <1>3, Unseen

\* Cloud Run answers at the deadline.
LEMMA DeadlineMaps ==
  ASSUME RecordsInv, TypeOK', NEW r \in Requests, DeadlinePasses(r)
  PROVE  Contract!Preempt
<1>1. /\ TypeOK /\ pc[r] # "idle" /\ reply[r] = NoReply
      /\ reply'[r] = PlatformTimeout
      /\ UNCHANGED <<pc, req, calls, answer>>
      /\ \A s \in Requests \ {r} : Same(s)
  BY DEF RecordsInv, TypeOK, DeadlinePasses, InFlight, handler, Same
<1>2. PlatformTimeout # NoReply
  BY DEF PlatformTimeout, NoReply, Reply
<1>3. Verdict(r) = "pending" /\ Verdict(r)' = "platform"
  BY <1>1, <1>2 DEF Verdict, FromHandler
<1>4. EngineSaid(r)' = EngineSaid(r)
  BY <1>1 DEF EngineSaid
<1>5. {r} \in SUBSET {s \in Requests : pc[s] # "idle" /\ Verdict(s) = "pending"}
  BY <1>1, <1>3
<1>6. /\ \A s \in Requests : Verdict(s)' = IF s \in {r} THEN "platform" ELSE Verdict(s)
      /\ \A s \in Requests : EngineSaid(s)' = EngineSaid(s)
  BY <1>1, <1>3, <1>4, Unmoved
<1> QED  BY <1>1, <1>5, <1>6, PreemptMaps

\* The container goes: Cloud Run answers for every handler it held.
LEMMA ContainerLostMaps ==
  ASSUME RecordsInv, TypeOK', ContainerLost
  PROVE  Contract!Preempt
<1> DEFINE S == {r \in Requests : InFlight(r) /\ reply[r] = NoReply}
<1>1. /\ UNCHANGED <<req, calls, answer>>
      /\ \A r \in Requests :
           /\ pc'[r] = IF InFlight(r) THEN "done" ELSE pc[r]
           /\ reply'[r] = IF r \in S THEN PlatformError ELSE reply[r]
  BY DEF ContainerLost
<1>2. PlatformError # NoReply
  BY DEF PlatformError, NoReply, Reply
<1>3. ASSUME NEW r \in Requests
      PROVE  Verdict(r)' = IF r \in S THEN "platform" ELSE Verdict(r)
  <2>1. CASE r \in S
    BY <1>1, <1>2, <2>1 DEF Verdict, FromHandler
  <2>2. CASE r \notin S
    BY <1>1, <2>2 DEF Verdict, FromHandler
  <2> QED  BY <2>1, <2>2
<1>4. S \in SUBSET {r \in Requests : pc[r] # "idle" /\ Verdict(r) = "pending"}
  BY DEF InFlight, Verdict
<1>5. \A r \in Requests : EngineSaid(r)' = EngineSaid(r)
  BY <1>1 DEF EngineSaid
<1>6. \A r \in Requests : pc'[r] = "idle" <=> pc[r] = "idle"
  BY <1>1 DEF InFlight
<1> HIDE DEF S
<1> QED  BY <1>1, <1>3, <1>4, <1>5, <1>6, PreemptMaps

-----------------------------------------------------------------------------
\* Every step of the gateway is a step of the contract or leaves it alone.
LEMMA NextMaps == RecordsInv /\ RecordsInv' /\ [Next]_vars => [Contract!Next]_(Contract!vars)
<1> SUFFICES ASSUME RecordsInv, RecordsInv', [Next]_vars
             PROVE  [Contract!Next]_(Contract!vars)
  OBVIOUS
<1>1. TypeOK'
  BY DEF RecordsInv
<1>2. ASSUME NEW r \in Requests, Arrive(r) PROVE Contract!Next
  BY <1>1, <1>2, ArriveMaps DEF Contract!Next
<1>3. ASSUME NEW r \in Requests, Handle(r) PROVE [Contract!Next]_(Contract!vars)
  <2>1. CASE StartLocal(r)
    BY <1>1, <2>1, StartLocalMaps
  <2>2. CASE AuthUnavailable(r) /\ ~env.soft
    BY <1>1, <2>2, MintFailsMaps DEF Contract!Next
  <2>3. CASE StartEngine(r) \/ (Mint(r) /\ ~(AuthUnavailable(r) /\ ~env.soft))
    BY <1>1, <2>3, OwnStepsUnseen
  <2>4. CASE Resume(r)
    BY <1>1, <2>4, ResumeMaps
  <2> QED  BY <1>3, <2>1, <2>2, <2>3, <2>4 DEF Handle
<1>4. ASSUME NEW r \in Requests, Transfer(r) PROVE Contract!Next
  <2>1. CASE Deliver(r)
    BY <1>1, <2>1, DeliverMaps DEF Contract!Next
  <2>2. CASE ~Deliver(r)
    <3>1. PICK a \in Comeback :
            /\ ComesBack(r, a)
            /\ \/ pc[r] = "connecting" /\ a \in Fault
               \/ pc[r] = "awaiting"
      <4>1. \A c \in {"engine_unreachable", "engine_timeout", "engine_transport_error"} :
              /\ [kind |-> "fault", code |-> c] \in Fault
              /\ [kind |-> "fault", code |-> c] \in Comeback
        BY DEF Comeback, Fault, TransportCodes
      <4> QED  BY <1>4, <2>2, <4>1
               DEF Transfer, ConnectFails, EngineAnswers, CallFails, Comeback
    <3>2. Contract!Hear(r)
      BY <1>1, <3>1, ComesBackMaps
    <3> QED  BY <3>2 DEF Contract!Next
  <2> QED  BY <2>1, <2>2
<1>5. ASSUME NEW r \in Requests, DeadlinePasses(r) PROVE Contract!Next
  BY <1>1, <1>5, DeadlineMaps DEF Contract!Next
<1>6. CASE ContainerLost
  BY <1>1, <1>6, ContainerLostMaps DEF Contract!Next
<1>7. CASE UNCHANGED vars
  <2>1. \A r \in Requests : Same(r)
    BY <1>7 DEF vars, handler, Same
  <2>2. Said' = Said /\ Verdicts' = Verdicts
    BY <2>1, Unmoved DEF Said, Verdicts
  <2>3. Opened' = Opened /\ Locals' = Locals /\ calls' = calls
    BY <1>7 DEF vars, handler, Opened, Locals
  <2> QED  BY <2>2, <2>3 DEF Contract!vars, Said, Verdicts, Opened, Locals
<1> QED  BY <1>2, <1>3, <1>4, <1>5, <1>6, <1>7 DEF Next

\* The contract holds for any requests and any engine answers: a request is
\* answered at most once and by at most one engine call, and its answer says
\* only what the engine said (dispatch, the mapper and the tails of the routes):
\* a refusal is answered as the caller's fault, a failure never.  After an error
\* that is unclear (an untold refusal, a mere mention of one) it may say either.
THEOREM GatewayImplementsContract == Spec => ImplementsContract
<1>1. Init => Contract!Init
  BY InitMaps
<1>2. RecordsInv /\ RecordsInv' /\ [Next]_vars => [Contract!Next]_(Contract!vars)
  BY NextMaps
<1> QED  BY <1>1, <1>2, RecordsHold, PTL
         DEF Spec, ImplementsContract, Contract!Spec
=============================================================================
