------------------------------ MODULE Gateway ------------------------------
(***************************************************************************)
(* One container of the calculator gateway serving concurrent requests:    *)
(* the route handlers of api/routes/calculators.py, PrologClient.dispatch, *)
(* the ID-token mint, the calculation engines behind it and Cloud Run in   *)
(* front of it.                                                            *)
(*                                                                         *)
(* The handlers are coroutines on one event loop.  A handler runs without  *)
(* interruption from one await to the next; its only await is the POST to  *)
(* the engine.  The mint before it uses a synchronous HTTP client, so it   *)
(* holds the loop while it waits for the metadata server: `loop`.          *)
(***************************************************************************)
EXTENDS EngineResult

CONSTANTS
  Requests,   \* the requests that reach this container
  Kinds,      \* the requests callers send: members of Request
  Answers,    \* the HTTP answers engines give: members of Answer
  CloudRun,   \* the engines whose URL is no localhost / compose / test host
  Free        \* the event loop is not held

\* What the handler finds before it would call an engine.
Inputs == {"valid", "bad_uri", "bad_taxonomy", "unknown_calculator",
           "unsupported_period", "bad_body"}

Request == [calc : Engines \cup {"hp"}, taxonomy : Taxonomies, input : Inputs]

HttpError == [kind : {"http"}, status : 300..599, body : WellFormedBody]
Success   == [kind : {"result"}, result : Result]
Fault     == [kind : {"fault"}, code : TransportCodes]
Answer    == HttpError \cup Success

ASSUME GatewayAssumption ==
  /\ Kinds \subseteq Request
  /\ Answers \subseteq Answer
  /\ CloudRun \subseteq Engines
  /\ Free \notin Requests

VARIABLES
  env,      \* CLAWDOG_ENGINE_AUTH_SOFT_MODE and whether google-auth imported
  loop,     \* the request whose handler holds the event loop, or Free
  pc,       \* where each handler is
  req,      \* the request it serves
  header,   \* Authorization header of its engine call
  calls,    \* engine calls that reached the engine
  answer,   \* what the call came back with
  reply     \* what the caller received

handler == <<pc, header, calls, answer>>
vars    == <<env, loop, req, reply, handler>>

MintSteps == {"host_1", "host_2", "fetch_id_token"}
Stages    == {"idle", "queued", "connecting", "awaiting", "resumable", "done"}
               \cup MintSteps

NoRequest == [calc |-> "none", taxonomy |-> "none", input |-> "none"]
NoAnswer  == [kind |-> "none"]
NoReply   == Reply(0, "no_reply", {}, FALSE)

\* Cloud Run's own answers: the request deadline, a container that went away.
PlatformTimeout == Reply(504, "platform_timeout", {}, FALSE)
PlatformError   == Reply(503, "platform_error", {}, FALSE)

\* The closed vocabulary of `error` on the wire ("none": a 200).
Slugs ==
  {"non_cent_boundary", "money_not_cent_quantised", "conflicting_inputs",
   "fbt_year_outside_cohort", "engine_bad_request", "engine_validation_error",
   "engine_conflict", "engine_payload_too_large", "refusal",
   "div7a_calculation_error", "unrecognised_engine_error", "engine_unavailable",
   "div7a_engine_unavailable", "engine_auth_failed", "engine_auth_local_fail",
   "engine_rate_limited", "engine_timeout", "manifest_rate_table_unavailable",
   "engine_response_missing_field", "engine_response_missing_taxable_value",
   "engine_response_missing_gross_up_trio", "internal_server_error",
   "platform_timeout", "platform_error", "bad_uri", "bad_taxonomy",
   "unknown_calculator", "unsupported_period", "bad_body", "hp_refusal",
   "none", "no_reply"}

Statuses  == {0, 200, 400, 404, 409, 413, 422, 500, 502, 503, 504}
ReplyType == [status : Statuses, error : Slugs, echoed : SUBSET Places,
              loc : BOOLEAN]

TypeOK ==
  /\ env \in [soft : BOOLEAN, googleAuth : BOOLEAN]
  /\ loop \in Requests \cup {Free}
  /\ pc \in [Requests -> Stages]
  /\ req \in [Requests -> Kinds \cup {NoRequest}]
  /\ header \in [Requests -> {"none", "bearer"}]
  /\ calls \in [Requests -> Nat]
  /\ answer \in [Requests -> Answer \cup Fault \cup {NoAnswer}]
  /\ reply \in [Requests -> ReplyType]

Init ==
  /\ env \in [soft : BOOLEAN, googleAuth : BOOLEAN]
  /\ loop = Free
  /\ pc = [r \in Requests |-> "idle"]
  /\ req = [r \in Requests |-> NoRequest]
  /\ header = [r \in Requests |-> "none"]
  /\ calls = [r \in Requests |-> 0]
  /\ answer = [r \in Requests |-> NoAnswer]
  /\ reply = [r \in Requests |-> NoReply]

-----------------------------------------------------------------------------
\* The handler moves on; the rest of its record stays.
Goto(r, stage) == pc' = [pc EXCEPT ![r] = stage]

(***************************************************************************)
(* The handler returns or raises.  Its response reaches the caller unless  *)
(* Cloud Run has answered the request meanwhile.                           *)
(***************************************************************************)
Respond(r, rep) ==
  /\ Goto(r, "done")
  /\ reply' = [reply EXCEPT ![r] = IF @ = NoReply THEN rep ELSE @]

\* The checks before the engine call, in the order of the handler.
Rejection(input) ==
  CASE input = "bad_uri"            -> Reply(422, "bad_uri", {}, FALSE)
    [] input = "bad_taxonomy"       -> Reply(422, "bad_taxonomy", {}, FALSE)
    [] input = "unknown_calculator" -> Reply(404, "unknown_calculator", {}, FALSE)
    [] input = "unsupported_period" -> Reply(404, "unsupported_period", {}, FALSE)
    [] input = "bad_body"           -> Reply(422, "bad_body", {}, TRUE)

\* hp:schedule is computed in process and answers 200, a typed refusal, or, for
\* a schedule past the last date Python has, with no answer of its own.
HpReplies == {Reply(200, "none", {}, FALSE), Reply(400, "hp_refusal", {}, FALSE),
              Reply(422, "hp_refusal", {}, FALSE), Bare500}

\* A request arrives; uvicorn queues its handler on the loop.
Arrive(r) ==
  /\ pc[r] = "idle"
  /\ \E k \in Kinds : req' = [req EXCEPT ![r] = k]
  /\ Goto(r, "queued")
  /\ UNCHANGED <<env, loop, header, calls, answer, reply>>

\* The handler runs and answers without an engine.
StartLocal(r) ==
  /\ loop = Free /\ pc[r] = "queued"
  /\ \/ /\ req[r].input # "valid"
        /\ Respond(r, Rejection(req[r].input))
     \/ /\ req[r].input = "valid" /\ req[r].calc = "hp"
        /\ \E rep \in HpReplies : Respond(r, rep)
  /\ UNCHANGED <<env, loop, req, header, calls, answer>>

\* The handler runs up to the POST (no token for a localhost audience) or into
\* the mint, where it keeps the loop.
StartEngine(r) ==
  /\ loop = Free /\ pc[r] = "queued"
  /\ req[r].input = "valid" /\ req[r].calc # "hp"
  /\ IF req[r].calc \in CloudRun
     THEN loop' = r    /\ Goto(r, "host_1")
     ELSE loop' = loop /\ Goto(r, "connecting")
  /\ UNCHANGED <<env, req, header, calls, answer, reply>>

-----------------------------------------------------------------------------
\* Mutant of Minted: the token is not put into the headers.
MintedUnused(r) ==
  /\ loop' = Free
  /\ Goto(r, "connecting")
  /\ UNCHANGED <<env, req, header, calls, answer, reply>>

\* A path minted a token: the POST awaits, the loop is free again.
Minted(r) ==
  /\ header' = [header EXCEPT ![r] = "bearer"]
  /\ loop' = Free
  /\ Goto(r, "connecting")
  /\ UNCHANGED <<env, req, calls, answer, reply>>

\* Mutant of TryMetadataHost: the hosts are tried until one answers.
TryMetadataForever(r) ==
  /\ loop = r /\ pc[r] \in {"host_1", "host_2"}
  /\ \/ Minted(r)
     \/ /\ Goto(r, IF pc[r] = "host_1" THEN "host_2" ELSE "host_1")
        /\ UNCHANGED <<env, loop, req, header, calls, answer, reply>>

\* _fetch_id_token_direct_metadata: the two hosts in turn; any failure of the
\* first leads to the second, of the second to google-auth.
TryMetadataHost(r) ==
  /\ loop = r /\ pc[r] \in {"host_1", "host_2"}
  /\ \/ Minted(r)
     \/ /\ Goto(r, IF pc[r] = "host_1" THEN "host_2" ELSE "fetch_id_token")
        /\ UNCHANGED <<env, loop, req, header, calls, answer, reply>>

FetchIdToken(r) ==
  /\ loop = r /\ pc[r] = "fetch_id_token"
  /\ env.googleAuth
  /\ Minted(r)

\* Mutant of AuthUnavailable: the soft mode is taken for granted.
AuthUnavailableSoft(r) ==
  /\ loop = r /\ pc[r] = "fetch_id_token"
  /\ loop' = Free
  /\ Goto(r, "connecting")
  /\ UNCHANGED <<env, req, header, calls, answer, reply>>

(***************************************************************************)
(* EngineAuthUnavailable: in soft mode dispatch() sends the request with   *)
(* no token, otherwise it raises engine_auth_local_fail, mapped to a 503.  *)
(***************************************************************************)
AuthUnavailable(r) ==
  /\ loop = r /\ pc[r] = "fetch_id_token"
  /\ loop' = Free
  /\ IF env.soft
     THEN Goto(r, "connecting") /\ UNCHANGED <<answer, reply>>
     ELSE /\ answer' = [answer EXCEPT ![r] =
                          [kind |-> "fault", code |-> "engine_auth_local_fail"]]
          /\ Respond(r, MapTransport("engine_auth_local_fail", req[r].calc))
  /\ UNCHANGED <<env, req, header, calls>>

-----------------------------------------------------------------------------
\* The awaited POST comes back with a (or with an exception of httpx).
ComesBack(r, a) ==
  /\ answer' = [answer EXCEPT ![r] = a]
  /\ Goto(r, "resumable")
  /\ UNCHANGED <<env, loop, req, header, calls, reply>>

\* The engine never sees the request: connection refused, connect timeout, an
\* error of the transport before the request is out.
ConnectFails(r) ==
  /\ pc[r] = "connecting"
  /\ \E c \in {"engine_unreachable", "engine_timeout", "engine_transport_error"} :
       ComesBack(r, [kind |-> "fault", code |-> c])

\* The engine receives the request.
Deliver(r) ==
  /\ pc[r] = "connecting"
  /\ calls' = [calls EXCEPT ![r] = @ + 1]
  /\ Goto(r, "awaiting")
  /\ UNCHANGED <<env, loop, req, header, answer, reply>>

EngineAnswers(r) ==
  /\ pc[r] = "awaiting"
  /\ \E a \in Answers : ComesBack(r, a)

\* Mutant of CallFails: the POST is sent again.
CallRetried(r) ==
  /\ pc[r] = "awaiting"
  /\ Goto(r, "connecting")
  /\ UNCHANGED <<env, loop, req, header, calls, answer, reply>>

\* A read timeout, a broken connection.
CallFails(r) ==
  /\ pc[r] = "awaiting"
  /\ \E c \in {"engine_timeout", "engine_transport_error"} :
       ComesBack(r, [kind |-> "fault", code |-> c])

\* dispatch() after the await, then the except clauses or the tail of the route.
HandlerReply(k, a) ==
  CASE a.kind = "fault"  -> MapTransport(a.code, k.calc)
    [] a.kind = "http"   -> MapHttpStatus(a.status, a.body, LabelOf(k.calc))
    [] a.kind = "result" -> ResultReply(k.calc, k.taxonomy, a.result)

Resume(r) ==
  /\ loop = Free /\ pc[r] = "resumable"
  /\ Respond(r, HandlerReply(req[r], answer[r]))
  /\ UNCHANGED <<env, loop, req, header, calls, answer>>

-----------------------------------------------------------------------------
InFlight(r) == pc[r] \notin {"idle", "done"}

\* The request deadline of the service: Cloud Run answers, the handler goes on.
DeadlinePasses(r) ==
  /\ InFlight(r) /\ reply[r] = NoReply
  /\ reply' = [reply EXCEPT ![r] = PlatformTimeout]
  /\ UNCHANGED <<env, loop, req, handler>>

\* The container is stopped or dies; nothing it held survives.
ContainerLost ==
  /\ \E r \in Requests : InFlight(r)
  /\ loop' = Free
  /\ pc' = [r \in Requests |-> IF InFlight(r) THEN "done" ELSE pc[r]]
  /\ reply' = [r \in Requests |-> IF InFlight(r) /\ reply[r] = NoReply
                                  THEN PlatformError ELSE reply[r]]
  /\ UNCHANGED <<env, req, header, calls, answer>>

Mint(r)     == TryMetadataHost(r) \/ FetchIdToken(r) \/ AuthUnavailable(r)
Handle(r)   == StartLocal(r) \/ StartEngine(r) \/ Mint(r) \/ Resume(r)
Transfer(r) == ConnectFails(r) \/ Deliver(r) \/ EngineAnswers(r) \/ CallFails(r)

Next ==
  \/ \E r \in Requests : Arrive(r)
  \/ \E r \in Requests : Handle(r)
  \/ \E r \in Requests : Transfer(r)
  \/ \E r \in Requests : DeadlinePasses(r)
  \/ ContainerLost

Spec == Init /\ [][Next]_vars

(***************************************************************************)
(* Every synchronous HTTP attempt and every POST has an httpx timeout, and *)
(* asyncio runs a ready handler once the loop is free.  Nothing obliges a  *)
(* caller to send, nor Cloud Run to cut a request or stop the container.   *)
(***************************************************************************)
Fairness == \A r \in Requests : WF_vars(Handle(r)) /\ WF_vars(Transfer(r))

FairSpec == Spec /\ Fairness

-----------------------------------------------------------------------------
(***************************************************************************)
(* What must hold.                                                         *)
(***************************************************************************)

FromHandler(r) == reply[r] \notin {NoReply, PlatformTimeout, PlatformError}

\* The engine terms D54 and D62 recognise as the caller's to fix.
RecognisedTerms == {"conflicting_inputs", "non_cent_boundary",
                    "fbt_year_outside_cohort"}

\* The answers whose error the mapper has to read out of a body: no 2xx and no
\* 4xx, or a 200 with an `error`.
Errs(a) ==
  \/ a.kind = "http" /\ a.status \notin 400..499
  \/ a.kind = "result" /\ a.result.shape = "object" /\ a.result.error # "none"

\* That body, and the term in it: in a 200 the detail's own goes first.
ErrorBody(a) == IF a.kind = "http" THEN a.body ELSE a.result.detail

ErrorTerm(a) ==
  LET b == ErrorBody(a)
  IN  IF a.kind = "result" /\ b.error = "none" THEN a.result.error
      ELSE IF Truthy(b.error) THEN b.error ELSE b.refusal_class

Recognised(a) == ErrorBody(a).cohort \/ ErrorTerm(a) \in RecognisedTerms

\* A typed refusal: a refusal_class in the body or, in a 200, beside its error.
Typed(a) == \/ Truthy(ErrorBody(a).refusal_class)
            \/ a.kind = "result" /\ a.result.typed

\* The engine answers that are the caller's fault (Amendment 1, D54, D62): its
\* own content validation, or a deterministic refusal it sent as a 5xx or as a
\* 200 with an error.  Every error in a 200 of Division 7A counts as one.
CallersFault(k, a) ==
  \/ a.kind = "http" /\ a.status \in CallerFault4xx
  \/ Errs(a) /\ (Recognised(a) \/ Typed(a))
  \/ Errs(a) /\ a.kind = "result" /\ k.calc = "div7a"

\* The typed refusals the mapper cannot tell: in a 5xx one with no dict for a
\* refusal_payload, in a 200 one whose refusal_class is not in the detail, and
\* either with a term that cannot be hashed.
Untold(k, a) ==
  /\ Errs(a) /\ Typed(a) /\ ~Recognised(a)
  /\ ~(a.kind = "result" /\ k.calc = "div7a")
  /\ \/ a.kind = "http" /\ a.body.payload = "absent"
     \/ a.kind = "result" /\ ~Truthy(a.result.detail.refusal_class)
     \/ ErrorTerm(a) = "structured"

\* What the mapper takes for a typed refusal whether or not it is one: an error
\* with a dict for a payload, in whose text the word refusal_class occurs.
Mentions(a) ==
  Errs(a) /\ ErrorBody(a).payload # "absent" /\ ErrorBody(a).mention

\* D22: outside soft mode no engine behind Cloud Run is ever called without an
\* ID token, whichever mint paths failed before (dispatch, _authenticated_headers).
TokenDiscipline ==
  \A r \in Requests :
    calls[r] > 0 /\ req[r].calc \in CloudRun /\ ~env.soft => header[r] = "bearer"

\* The two authentication slugs partition the failures: engine_auth_local_fail
\* means the engine was never called, engine_auth_failed that it answered
\* 401 or 403 (mapper branches 1c.auth and 2b).
AuthFaultsPartition ==
  \A r \in Requests :
    /\ reply[r].error = "engine_auth_local_fail" => calls[r] = 0
    /\ reply[r].error = "engine_auth_failed" =>
         calls[r] = 1 /\ answer[r].kind = "http" /\ answer[r].status \in {401, 403}

\* D8a, one way: a 4xx is the answer to a request the gateway itself refused or
\* whose one engine call came back with something that is the caller's fault;
\* never to a failed mint, a timeout, a broken connection or a bad manifest.  An
\* error that only mentions a refusal_class beside a payload is the one thing
\* else that becomes a 400.
CallerBlamedJustly ==
  \A r \in Requests : reply[r].status \in 400..499 =>
    \/ calls[r] = 0 /\ (req[r].input # "valid" \/ req[r].calc = "hp")
    \/ calls[r] = 1 /\ (CallersFault(req[r], answer[r]) \/ Mentions(answer[r]))

\* What becomes of an answer a that is the caller's fault.
PassedOn(a, rep) ==
  IF a.kind = "http" /\ a.status \in CallerFault4xx
  THEN rep.status = a.status ELSE rep.status \in {400, 422}

\* D8a, the other way: unless Cloud Run answered first, a caller-fault status of
\* the engine is the status the caller gets, and a deterministic refusal the
\* engine sends as a 5xx or as a 200 with an error (D54, D62), by a recognised
\* term or typed, is a 400 or 422, never a fault that looks transient and
\* invites a retry.  Excepted are the typed refusals of Untold: they are lost.
CallerFaultReachesCaller ==
  \A r \in Requests :
    FromHandler(r) /\ CallersFault(req[r], answer[r]) /\ ~Untold(req[r], answer[r])
    => PassedOn(answer[r], reply[r])

\* The answer a 200 may rest on: an error-free object, every rate table it
\* cites shipped under the taxonomy asked for, all the figures of the response.
Backs(k, a) ==
  /\ a.kind = "result"
  /\ a.result.shape = "object" /\ a.result.error = "none"
  /\ ManifestBuilt(k.calc, k.taxonomy, CitedUris(k.calc, a.result))
  /\ k.calc = "fbt" => a.result.trio = "strings"
  /\ k.calc = "depreciation" => a.result.complete

\* A 200 of an engine-backed calculator rests on one engine call whose answer
\* to this request backs it (the required-field, manifest, D21 and response
\* model checks of the routes let nothing else through).
SuccessIsBacked ==
  \A r \in Requests : reply[r].status = 200 /\ req[r].calc # "hp" =>
    calls[r] = 1 /\ Backs(req[r], answer[r])

\* Where the scrub of an engine body does not reach what a 4xx echoes: a text,
\* for instance a body cut at 500 characters; the body string of a 5xx that is
\* no recognised term; in a 200, a detail copied in as the payload, and every
\* detail on the Division 7A route.
Unscrubbed(k, a) ==
  \/ a.kind = "http" /\ a.status \in CallerFault4xx /\ a.body.shape = "text"
  \/ a.kind = "http" /\ a.status \notin 400..499 /\ ~Recognised(a)
  \/ a.kind = "result" /\ (k.calc = "div7a" \/ (a.result.copied /\ ~Recognised(a)))

\* D8b on refusals, as far as the code keeps it: of all answers that blame the
\* caller none shows numeric_mode or events at the top of the engine body or
\* under its request / payload, but those Unscrubbed names.
RefusalsAreScrubbed ==
  \A r \in Requests :
    /\ FromHandler(r) /\ reply[r].status \in 400..499
    /\ reply[r].echoed \cap {"top", "request"} # {}
    => Unscrubbed(req[r], answer[r])

\* Every request that arrives is answered and its handler ends, although the
\* mints of the others hold the loop before it: no path keeps the loop.
EveryRequestAnswered ==
  \A r \in Requests : InFlight(r) ~> (pc[r] = "done" /\ reply[r] # NoReply)

-----------------------------------------------------------------------------
(***************************************************************************)
(* The gateway implements GatewayContract.  What an engine said is read    *)
(* off its answer, the verdict off the reply.  Unclear is a refusal the    *)
(* mapper cannot tell, and an error it may take for one.                   *)
(***************************************************************************)
EngineSaid(r) ==
  LET a == answer[r]
  IN  IF a.kind = "none" THEN "nothing"
      ELSE IF CallersFault(req[r], a)
        THEN IF Untold(req[r], a) THEN "unclear" ELSE "refused"
      ELSE IF Mentions(a) THEN "unclear"
      ELSE IF a.kind = "result" /\ a.result.shape = "object"
                /\ a.result.error = "none" THEN "result"
      ELSE "failed"

Verdict(r) ==
  IF reply[r] = NoReply THEN "pending"
  ELSE IF ~FromHandler(r) THEN "platform"
  ELSE IF reply[r].status = 200 THEN "result"
  ELSE IF reply[r].status \in 400..499 THEN "caller_fault"
  ELSE "gateway_fault"

Contract ==
  INSTANCE GatewayContract
    WITH open <- {r \in Requests : pc[r] # "idle"},
         local <- {r \in Requests : req[r].calc = "hp" \/ req[r].input # "valid"}
                    \ {r \in Requests : pc[r] = "idle"},
         said <- [r \in Requests |-> EngineSaid(r)],
         verdict <- [r \in Requests |-> Verdict(r)]

ImplementsContract == Contract!Spec
=============================================================================
