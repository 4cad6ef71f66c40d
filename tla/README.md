# Verification of the calculator gateway

TLA+ models of the gateway in this repository (`api/`), checked with TLC and,
for the properties that matter most, proved with TLAPS for every value of the
constants. File references are to the repository root.

## 1. The system

The gateway is a FastAPI application that runs on Cloud Run. It validates a
request for a calculator, calls one of three calculation engines over HTTP (or
computes a hire purchase schedule in process), and returns the engine's figures
with a manifest of the rate tables they rest on and an advisory block.

| Part | Code | State it keeps | Operations | What makes it correct |
|---|---|---|---|---|
| Calculator routes | `api/routes/calculators.py` | none across requests; one coroutine per request; a constant registry | invoke FBT / Div 7A / depreciation at / range / hp by the generic route or an own one; list modules, calculators | every request is answered once; a 4xx only for the caller's fault; a 200 only on a complete, cited engine answer; every way in asks the engine for the same calculation |
| Engine call | `api/prolog_client.py` | none; reads URLs and soft mode from the environment | mint an ID token (two metadata hosts, then google-auth), POST, map exceptions | no untokened call to a Cloud Run engine; a slug that tells whether the engine was called |
| Error mapper | `api/lib/engine_error_mapper.py` | a cached alias table | map an engine error, map a 200 with an error | the partition of engine statuses by fault; the scrub of internal fields |
| Manifest | `api/manifest_fidelity.py`, `api/lib/rate_table_resolver.py` | the rate tables on disk | hash a table, build a manifest | what is cited is what was used |
| Rates | `api/routes/rates.py` | the same files, read anew each time | list, get | listing, fetch and manifest agree; every published digest is of a text the table had |
| Hire purchase engine | `api/engines/hp/schedule.py` | none | compute a schedule | totals foot, the split by financial year adds up |
| Schemas | `api/schemas/*.py` | none | validate input, validate the FBT answer | what is accepted is complete: nothing an engine would silently count as zero |
| Advisory | `api/lib/advisory_boundary.py`, `api/lib/calculator_metadata.py` | constant texts, a cache of rounding sentences | wrap an answer | the disclaimer fits the manifest; a failed read is not cached |
| MCP | `api/routes/mcp.py`, `api/services/mcp_tool_registry.py`, `api/services/widget_url_resolver.py` | constant registry | tools/list, tools/call (a redirect), resources/list, resources/read | JSON-RPC rules; what is listed can be called or read |
| Auth probe | `api/routes/internal_auth_probe.py` | none | try a mint per audience | its report agrees with what a call would do |
| Health | `api/main.py` | none | healthz, livez | answered while the container can serve |
| Deployment | `.github/workflows/deploy.yml`, `deploy/`, `Dockerfile` | revisions, traffic split, environment | guard, deploy a canary, smoke, promote | traffic only goes to what was tested |

**How they interact.** A route runs as a coroutine on one event loop per
container. It calls `PrologClient.dispatch`, whose POST is the only `await`;
the mint before it uses a synchronous client and therefore holds the loop.
Exceptions of `dispatch` go to the mapper, results to the tail of the route,
which builds the manifest and the response. Cloud Run in front of the container
answers a request itself when 60 seconds are over or the container goes away;
the coroutine, if still there, is not told.

**What is hard.** Interleaved handlers on a loop that a mint can hold; a mint
of three attempts of which each can fail in its own way; failures before and
after the engine got the request; a platform answer overtaking the handler's; the loss
of a container with calls in flight; deterministic refusals that arrive as a
5xx or a 200; checks on the engine's answer spread over four route tails.
Rate tables that are edited between two reads of one handler, while the engine
still computes with those of its start. Rules between optional fields whose order
decides what an engine silently skips. One calculation behind three doors, with two
hand-kept tables of input models. A probe whose word a promotion hangs on, and
which mints by another path than the calls it vouches for. Revisions that get
ready after their job, and commands that name "the latest".
`PROJECT.json` lists the hazards line by line, with the property that covers
each or the reason why none does yet.

## 2. The modules

| Module | Models | Correspondence |
|---|---|---|
| `EngineErrorMapper` | `engine_error_mapper.py` | pure operators; one per function or path of the mapper: `Sanitised`, `EngineTerm`, `ClassifyTerm`, `MapHttpStatus` (paths 1a to 1f), `MapTransport` (paths 2, 2b, 3), `MapCalculationError` |
| `EngineResult` | the tails of the routes, `build_manifest`, the FBT response model | `ResultReply` is everything from `resp.json()` to the returned response; `FbtReply`, `Div7aReply`, `DepreciationReply` per route |
| `Gateway` | handlers, mint, POST, engines, Cloud Run | one action per step between two points where another handler may run |
| `GatewayContract` | what a caller may rely on | abstract specification, which `Gateway` implements |
| `GatewayInvariant` | | the inductive invariant `IInv` = `RecordsInv`, `LoopInv` and `AnsweredInv`; `HandlersMoveOn` |
| `GatewayProofs` | | theorems about `Gateway` |
| `GatewayContractProofs` | | the proof that `Gateway` implements the contract |
| `MCGateway` | | instances for TLC |
| `InputRules` | `schemas/*.py`, `model_dump` | the 23 input models as data; `Accepts` and `Dump` |
| `Registry` | the registry, the model tables, the metadata's modules and elections, widgets | constant tables and the listings made of them |
| `Mcp` | `routes/mcp.py` | `McpEndpoint`: one envelope in, one out; `Redirect` |
| `FrontDoor` | the routes up to the engine call | one action per listing, per door and per RPC of a caller |
| `FrontDoorInvariant`, `FrontDoorProofs` | | the invariant `IInv`; theorems about `FrontDoor` |
| `MCFrontDoor`, `FrontDoorClaims` | | bodies for TLC; what a docstring says of envelopes |
| `RateTables` | `manifest_fidelity.py`, `routes/rates.py`, `rate_table_resolver.py`, manifest and advisory of the routes | one action per read of a file |
| `Advisory` | `advisory_boundary.py` | pure operators: which block an answer gets |
| `RateTablesInvariant`, `RateTablesProofs` | | the invariant `IInv` = `ServedInv`, `QuietInv`, `ClaimsInv` and `UneditedInv`; `FreshAnswersReflect`; theorems about `RateTables` |
| `MCRateTables`, `RateTablesClaims` | | trees for TLC; what the disclaimer says of figures |
| `AuthProbe` | `internal_auth_probe.py`, both mint paths | one action per attempt |
| `AuthProbeInvariant`, `AuthProbeProofs`, `MCAuthProbe` | | the invariant `IInv`, `TasksMoveOn`; theorems about `AuthProbe`; environments for TLC |
| `HpSchedule` | `engines/hp/schedule.py`, `schemas/hp.py` | one action per row of the loop, one per row of the sums, one that publishes |
| `HpInvariant`, `HpProofs` | | the loop invariant `IInv` = `BalancesInv`, `PaidInv`, `FootedInv` and `NumberInv`; `OnlyNanSpoils`, `LoopsEnd`; theorems about `HpSchedule` |
| `SumProofs` | | what the sum over a function with a finite domain is: lemmas for `HpProofs` |
| `MCHpSchedule`, `HpClaims` | | contracts for TLC; the claim of the docstring |
| `DeployPipeline` | `deploy.yml`, `make deploy`, `deploy/README.md` | one action per step of the job, of the queue and of the operator |
| `DeployInvariant`, `DeployProofs` | | the invariant `IInv` = `ServiceInv` and `QueueInv`; `JobsMoveOn`; theorems about `DeployPipeline` |
| `MCDeployPipeline`, `DeployClaims` | | commits for TLC; what comments say of promotion and guard |

How they fit together: `FrontDoor` ends where a payload goes to
`PrologClient.dispatch`, which is where an engine-backed request of `Gateway`
has its input `valid`; `Gateway` is one revision's container from there to the
reply; `EngineResult` is the tail of a route, whose check that the cited tables
resolve `RateTables` takes apart read by read; `HpSchedule` is what happens
inside `StartLocal` of an hp request; `AuthProbe` shares the event loop and the mint with
`Gateway`; the pipeline decides which revision runs, and an operator asks the probe before
traffic is given to it (`internal_auth_probe.py:5-6`).
No module composes them all: beyond the places just named they share no state
while they run.

**Abstraction of data.** An engine body is a record of what the mapper can
tell apart: how its text parses, its term, its refusal class (each may be absent,
falsy, a word, or an object or a list, which cannot be hashed), what its payload
names, whether its text contains a wrapped cohort term, whether the word `refusal_class`
occurs in it at all (`mention`: as a null or nested key or within a string, which is
what lines 441-443 of the mapper look for), where internal fields
occur. A 2xx answer is likewise a record of what the tails look at, and of whether a
`refusal_class` stands beside its `error` (`typed`), which the tails do not look at. Both
abstractions keep every branch; texts, figures and log lines are dropped. The
cut of a body to 500 characters needs no step of its own: a cut body is a body
that does not parse, which is one of the shapes.

**`FrontDoor`.** One caller, who comes with a `Wish` (calculator, period,
taxonomy, body) or takes one from a listing, and asks for it by the generic
route, by the calculator's own route and by a tool call whose redirect it
follows, in any order. `answers` keeps what each door made of it: refused, and
why, or forwarded, with the payload.

| Action | Code |
|---|---|
| `BrowseCalculators`, `BrowseModules`, `BrowseTools` | `list_calculators`, `list_modules`, `tools/list` |
| `AskGeneric` | `invoke_calculator`: its checks in their order, then the handler it hands over to |
| `AskNative` | the routes of depreciation, Division 7A and hp: FastAPI checks the body first |
| `CallTool`, `FollowRedirect` | `tools/call` and the POST to the path it answers with |
| `ReadListedResource`, `SendStray` | `resources/read`; JSON-RPC requests with every mistake |

A value is the class the models tell apart (zero, some, cents, mills, excess,
negative, numeral, word, the literals, null). An alias and the name of its field
count as one spelling. Numbers that pydantic would read as a date (midnight
timestamps) are not among the values. The generic route types its body as a
union with `dict`; under the pinned pydantic the dict is always what it is read as. What
the car engine does with each combination of fields (`FbtOcDeemedDispatch`) is taken from the
gateway's comments, which quote the engine. Left out: the second unquoting of
URNs (no URN holds a percent sign) and the 404 for an unknown module filter.

**`RateTables`.** A table is a body and a `content_hash` line; a digest is what
it was computed from, so two digests are equal exactly when code that hashes
collision-free would find them so. `disk` is the tree as the gateway finds it at each read, `engine`
the tables the engines loaded at their start. `list_rates` reads one file up to
four times (`ReadHash`, `ReadDeclared`, `ReadIsDeclared`, `ReadDrift`), `get_rate`
three times, `build_manifest` once per cited table; between any two reads the tree may be
edited, a table anchored, added or removed (`Edit`), and an engine restarted. `seen`
and `used` are history. An engine cites tables of the request's own period
only, and the URI of a table drops the taxonomy, as the code's does.

**`AuthProbe`.** The probe and the three engine calls are tasks on one loop. The probe
tries each audience on its own direct path, then on the one of `dispatch`
(`EnterShared`), which tries the metadata hosts again before google-auth;
engine calls go through `TryMetadataHost` and `FetchIdToken` alone. Which sources
mint may change (`Flip`) between any two attempts. An audience is an origin:
deployed URLs have no path. A URL without a scheme and a variable that is not
set count as local: `dispatch` sends no token there, and the probe reports
OK or FAIL by its direct mint. Soft mode is left out; it changes what
`dispatch` does without a token, not whether there is one. The path
`fetch_id_token` in a report may name a metadata host's mint, at the second try,
although the module's docstring (`internal_auth_probe.py:34-36`) says that it
names what minted; `ReportIsTrue` states what it does mean.

**State of `Gateway`.** `env` (soft mode, google-auth importable: fixed for a
container), `loop` (who holds the event loop), and per request `pc`, `req`,
`header` (token or not), `calls` (engine calls that reached the engine),
`answer` (what the call came back with) and `reply` (what the caller got).
`calls`, `answer` and `reply` are kept after the handler ends so that properties can
relate them.

| Action | Code |
|---|---|
| `StartLocal` | a handler that ends before the engine call: 404, 422, or hp |
| `StartEngine` | up to the mint (Cloud Run audience) or to the POST |
| `TryMetadataHost`, `FetchIdToken`, `AuthUnavailable` | `_fetch_id_token_direct_metadata`, `_authenticated_headers`, the except clause of `dispatch` |
| `ConnectFails`, `Deliver`, `EngineAnswers`, `CallFails` | the awaited POST |
| `Resume` | `dispatch` after the await, except clauses and tail of the route, in one uninterrupted step |
| `DeadlinePasses`, `ContainerLost` | Cloud Run |

The engines, uvicorn and Cloud Run are external: they are modelled by what the
gateway's code and `deploy/cloud-run.yaml` allow them to do.

**`HpSchedule`.** Money is an integer number of grains, `Grains` of them to the
cent; sums are exact and interest is rounded to the grain, as the code's are to
28 digits. `RoundCents` is a real rounding, half up and away from zero, and ties occur.
`Check` is what the request model leaves to `compute_schedule`, `AddRow` one
turn of the loop over rows (payment by balloon mode, interest, closing
balance), `SumRow` takes one row into all totals and both financial-year maps
(the code has a loop for each, over the same finished rows), `Publish` writes
the result, `Raise` is a `decimal` or `datetime` exception that is no refusal. A date
is a month count: the code compares row dates only with ends of months, so their
days tell nothing apart. A rate that `Decimal` reads as NaN sets the flag
`nan`, from which row on the figures mean nothing. `LastMonth` is the range of
`datetime.date`, `MaxFigure` the largest amount `quantize` can write. Digits
below the grain, advisory texts and row labels are left out; so are sums so large that the 28 digits
round them.

**`DeployPipeline`.** A commit is the names its `deploy/env_vars.json` declares
and the smokes its service fails. `pc[c]` is the step of commit c's job, `revs`
the revisions in the order of their creation, `traffic` the pinned revision or
`Latest`, `canary` the tag, `passed` which smoke passed on which revision.

| Action | Code |
|---|---|
| `Push`, `Start` | the concurrency group: one job runs, the newest waits, the one that waited is superseded |
| `Guard` | the delta check on variables; a failed `describe` reads no names |
| `Deploy` | `gcloud run deploy --no-traffic --tag canary --set-env-vars` and its wait for the revision |
| `Assert`, `Smoke`, `Promote` | the steps that follow, `--to-latest` included |
| `Fail` | any step fails, or the job's `timeout-minutes` |
| `MakeDeploy`, `SetEnvVars`, `RollBack` | the operator, at any moment |
| `GetsReady` | Cloud Run: a slow revision gets ready after its job has ended |

What `--no-traffic` does is gcloud's: traffic on the latest revision is pinned to the
revision that has it. That and the readiness of revisions are modelled as
external. The operator's commands are modelled where they end well: one that leaves a
revision of its own half started is the operator's to look after.

## 3. The runs

| Run | Instance | Shows |
|---|---|---|
| `answers` | 1 request, 14 kinds, every distinguishable 5xx body and error in a 200, every 4xx branch, every combination of the 2xx fields (about 1.12 million states) | `CallerBlamedJustly`, `CallerFaultReachesCaller`, `SuccessIsBacked`, `RefusalsAreScrubbed` |
| `contract` | 2 requests, fbt behind Cloud Run and div7a not, 12 answers: a refusal as a 400, by its term and typed (with and without a payload) as a 5xx and as a 200 with an error, a mere mention of one, a 403, failures, a result (about 249 000 states) | `ImplementsContract`, `EveryRequestAnswered`, `TokenDiscipline`, `AuthFaultsPartition`, and `IInv` |
| `schedule` | contracts of up to 28 rows with every balloon mode, balance dates in June and December, a grain of half a cent | `IInv`, `InterestFoots`, `StatementCloses`, `ResidualIsBounded`, `SplitsFoot`, `SplitsRollForward`, `UnexpiredIsNextYears`, `PaymentsAsAgreed` |
| `pipeline` | 3 pushes of 2 kinds of commit, one step by hand | `IInv`, `PromotesSmoked`, `TrafficMovesAtPromotion`, `ServiceNeverGoesBack`, `NoNameIsDropped`, `LastPushIsTried` |
| `rates` | 2 symmetric requests of every kind, 2 tables, 3 trees, 1 edit | `IInv`, `PublishedHashWasLive`, `CitationsVerify`, `QuietAnswerIsExact`, `BareErrorHasCause`, `AdvisoryFitsManifest`, `RoundingOnceKnown` |
| `frontdoor` | all 23 calculators; full and minimal bodies with one field changed to each value, all combinations of the car's deemed amounts, every stray RPC (about 37 000 states) | `IInv`, `TypeOK`, `NoSilentZero`, `DoorsAgree`, `CallIsForTheWish`, `AdvertisedIsCallable` |
| `probe` | 12 environments, 6 probe requests, one change of a source (about 168 000 states) | `IInv`, `VerdictForeseesDispatch`, `ReportIsTrue`, `EveryTaskEnds` |
| `claim_tables` | 1 request, 1 edit | what the disclaimer says of the tables behind a figure |
| `claim_mcp` | RPCs only | what the endpoint's docstring says of envelopes |
| `claim_nan` | the contracts of `schedule` | what the docstring says of published amounts |
| `claim_promote`, `claim_guard_read` | 2 pushes, at most one step by hand | statements of the workflow's comments that its commands do not keep |

**Bounds.** The reply to a request depends on its own kind and answer only, so
one request is enough for the run over all answers; it takes internal fields
nowhere or everywhere, which is all the scrub distinguishes on those paths, and
lists of at most two rate URIs, since the first that fails decides. What
requests share is the loop, the container and nothing else: two requests give
one that holds the loop and one that waits for it, or whose call is out; the
proofs cover any number. No
counter needs a bound: `calls` is at most 1 by the model's own steps, which is part
of what is checked. The runs set `CHECK_DEADLOCK FALSE` because the system
stops when all requests of the instance are answered, the schedule is published
or the pushes are used up.

A schedule's hard cases are few and all small: rounding to a tie (half a cent is one
grain), negative and zero interest, a balance that turns negative, a balloon on
row 1, on the last row and beyond it, in each mode, and a term that begins or
ends on either side of a balance date; 28 rows cross three of them. Three
pushes (`MaxPushes`) are what it takes for a job to run, one to wait and one to
supersede it; one step by hand (`MaxByHand`) at any moment is enough to break what only
holds while nobody works by hand, and the proofs cover any number of both.
`ReadsMayFail` says whether `describe` may fail: the run `pipeline` has it
false, `claim_guard_read` true.

In `rates` requests share only the tree and the cache of sentences. One edit (`MaxEdits`)
between any two reads makes every mixture of two versions; the proofs cover any
number. A table is anchored with its own digest in one tree and with a stale one in
another, a draft and a placeholder stand beside them, and an edit can leave a
text that is no UTF-8. In `frontdoor` there is no interplay of fields but the
one of the car's deemed amounts and of the depreciation basis: the first is
taken in every combination, for the others one field at a time is enough. In `probe` one
change (`MaxFlips`) is what the truth of the report has to survive; what the
report foretells is stated for none, since after a change no report can foretell anything.

**Fairness.** `WF(Handle(r))`: asyncio runs a ready handler once the loop is
free, and each synchronous attempt of a mint ends by its httpx timeout
(`_METADATA_TIMEOUT`; google-auth's transport has one too). `WF(Transfer(r))`:
every POST has connect and read timeouts (`DEFAULT_TIMEOUT`,
`DEPRECIATION_AUDIT_TIMEOUT`). Nothing is assumed of callers, of the platform's
deadline or of containers going away. A queued handler waits only for a loop
that is held; since the requests are finitely many and none starts a second
mint, weak fairness is enough. In the pipeline: `WF(Start(c))`, GitHub starts a
job that may start, and `WF(Job(c))`, a job ends, by its timeout if by nothing
else. Nobody has to push, and no revision has to get ready. In the probe:
`WF(ProbeStep)` and `WF(SharedStep)`, for the same reason as in `Gateway`: each attempt
ends by a timeout, and a free loop starts the handler that waits. No engine
call need come, and no source need ever mint. `RateTables` and `FrontDoor`
state no liveness: their handlers have no loop that could wait.

**Findings.** Five disagreements between a comment and the code, each a run of
its own that TLC refutes; `PROJECT.json` quotes the lines.

- `claim_tables`: the disclaimer says that a figure reflects the tables the manifest
  cites. The manifest hashes the gateway's tree after the engine has answered,
  the engine computed with the tables of its start. After an edit of the
  mounted tree an answer cites the digest of a table no figure in it rests on.
- `claim_mcp`: a JSON-RPC request whose `params` are a non-empty list, string
  or number, or whose period is no string, ends in a bare 500 instead of an
  envelope; a notification in error is answered.
- `claim_nan`: the rate `"NaN"` is accepted and published in every amount.
- `claim_promote`: the promotion names the latest revision, not the one that
  was smoked. As long as nobody works by hand the two are the same
  (`PromotedWasSmoked`); one `make deploy` in between and an untested revision
  has all the traffic.
- `claim_guard_read`: a `describe` that fails is taken for a first deployment.

**Where the mapper cannot tell.** The module `Gateway` counts as a refusal what
the mapper's comments count (`CallersFault`: a caller-fault 4xx, a recognised
term, a body carrying `refusal_class`). On three points the code does something
else than those comments say. They are no runs of their own; each is a
named exception of a property, and the run and the theorem show that it is the only one.

- `Mentions` (`CallerBlamedJustly`): the docstring and lines 139-142 give a 400 to a body
  that carries `refusal_class`. Lines 441-443 give it also if `refusal_payload` is a dict
  and the word occurs anywhere in the text. An engine 500
  `{"error": "x", "refusal_class": null, "refusal_payload": {}}` blames the caller.
- `Untold` (`CallerFaultReachesCaller`): a typed refusal is lost, and is a 502 that
  looks transient, if it is sent as a 5xx without a dict for `refusal_payload` (the classifier
  looks for the key beside the body string, not in it), or as a 200 whose
  `refusal_class` is not inside its `detail` (`dispatch` passes on `error` and `detail`
  only), although lines 865-873 promise a 400 for either. With an object or a list for a term it
  is a bare 500.
- `Unscrubbed` (`RefusalsAreScrubbed`): line 105 says that `numeric_mode` and `events`
  are stripped "from any engine body echoed to a caller". A body that is text, one cut at 500
  characters for instance, is echoed as it is; so are the body string of a 5xx whose
  term is not recognised, a `detail` that has been copied in as the payload, and every
  `detail` on the Division 7A route.

The contract calls the first two "unclear": after such an error the gateway may say either.
Every other refusal is answered as the caller's fault, and no failure is.

## 4. The proofs

### The gateway

`GatewayProofs` proves for any set of requests, any kinds, any engine answers
and any assignment of engines to Cloud Run, from `GatewayAssumption` only (the
constants have the right type and `Free` is no request):

- `InvariantHolds`: `Spec => []IInv`, and `HandlersDoMoveOn`
- `TypeCorrect`, `TokensAreDisciplined`, `AuthFaultsArePartitioned`,
  `CallersAreBlamedJustly`, `SuccessesAreBacked`, `CallerFaultsReachCaller`,
  `RefusalsAreAlwaysScrubbed`
- `GatewayImplementsContract` (in `GatewayContractProofs`):
  `Spec => ImplementsContract`

**The argument.** None of the properties is inductive: that a 4xx is justified
depends on the reply having been computed from the recorded answer, and that a
call carried its token on how the handler got to the POST. `RecordsInv` says per
request what its stage implies: `Staged` (which stages have called, which
answer can be there), `Tokened` (from the POST on a Cloud Run request has its
token, unless soft mode is on) and `Replied` (a reply is the platform's, or made before any call, or
that of a failed mint, or `Sound` for the answer and exactly `HandlerReply` of
it). `HandlerReplySound` is the
lemma that carries the weight: whatever comes back, the mapper and the tails
give a sound reply; it is proved by cases along the branches of the code. For an error in a
5xx or a 200 the cases meet in two lemmas: a reply that blames the caller is sound after a recognised term,
a typed refusal or a mention (`SoundBlame`), one that excuses it after anything but a
refusal, or after one that is untold (`SoundExcuse`). The exceptions are those of section 3, and the theorems
are no stronger than that. The
step lemmas (`StartLocalKeeps` ... `ContainerLostKeeps`) touch one request each
and share `Frame` and `OneRequest`.

**The refinement.** The contract's state is read off the gateway's: `Verdict` is
what the caller has been told, `EngineSaid` what the engine's word allows it to be told: a result, a refusal, a failure,
or, where the mapper cannot tell, unclear.
Every action of one request is shown to be one step of the contract
(`StartLocal`, `Deliver`, the answers and the replies) or a stutter (the attempts of
a mint, a call that fails on its way). That the handler's verdict is one the contract
permits rests on the same invariant.

**Model-checked only.** `EveryRequestAnswered`: liveness under fairness is out
of the prover's reach. What of it is safety is proved: `LoopInv`, the loop is held by
exactly the handler that is in a mint, so nobody waits for a loop that was not
given back; `AnsweredInv`, no handler ends without its caller having been answered,
by it or by the platform; and `HandlersDoMoveOn`, each step takes its handler
further (`Rank`) and nothing takes one back, so that it ends after eight steps at
most. What is left to TLC is that a step that may be taken is taken.

### The hire purchase schedule

`HpProofs` proves, for any set of contracts, any number of rows and any grain
(`HpAssumption`: the contracts have the right type, `Grains` is positive):

- `InvariantHolds`: `Spec => []IInv`
- `StatementsClose`, `ResidualsAreBounded`, `SplitsDoFoot`,
  `SplitsDoRollForward`, `UnexpiredCarriesOver`
- `PaymentsAreAgreed`, `InterestDoesFoot`
- `NanIsTheOnlySpoiler`, `LoopsDoEnd`

**The argument.** The code sums over rows; induction over data is out of the
prover's reach, but the loop is a behaviour, so its sums are invariants of
steps. `BalancesInv` says that each running sum is a difference of two balances (what
has been repaid is what the balance has gone down by), and that the sum of rounded
interests stays within half a cent per row of the exact one. The rounding lemmas rest on division with
remainder and are odd: a tie goes away from zero on both sides. The split of a
year is then a difference of the closing balances at its two ends, which is why
current and non-current parts foot and why one year's end is the next one's
beginning.

`PaidInv` gives what has been paid after k rows in closed form (`AgreedUpTo`): the
instalments that fall into them times the instalment, and the balloon once its row
is among them. That one row more brings exactly what the loop pays with it
(`OneRowMore`) is proved by cases on the balloon's mode and on where its row lies.
After the last row the closed form is the contract's.

`FootedInv` says that the years and the rows summed so far both add up to the
running total. A row changes the one map at one year and the other by one row more.
What such a change does to a sum is proved in `SumProofs`: `SumFunction` takes the
elements of the domain in an order `CHOOSE` picks, so `AnyFirst` first shows
that the order does not matter, then come `SumMore` (one summand more),
`SumChange` (one summand changed) and `SumZeros`. Induction on the
subsets of a finite set is done without an induction theorem: a least
subset without the property would exist, because strict inclusion is well-founded on
finite sets, and does not.

`NumberInv` says when the balance is no number: from the first row on that accrues
at a NaN rate. So the finding `claim_nan` has exact limits (`NanIsTheOnlySpoiler`): a
NaN rate spoils every schedule but one that is a single payment in advance, an
infinite rate gets into no other, and a string that is no number into none.
`LoopsDoEnd` counts down what is left to do: the loops of `compute_schedule` turn
twice a row (the second loop stands for all sums), and nothing in a contract but its
number of rows makes them turn more often. How long that is, with rows unbounded, is
item 3 of section 5.

### The pipeline

`DeployProofs` proves, for any commits and names, any number of pushes and of
steps by hand (`PipelineAssumption`: the constants have the right type):

- `InvariantHolds`: `Spec => []IInv`, `TypeCorrect` and `JobsDoMoveOn`
- `TrafficMoves`, whatever the operator does
- `PromotedWasSmoked` and `NeverGoesBack`, as long as nobody has worked by hand
- `NoNameDropped`, where besides `describe` does not fail

**The argument.** The dangerous state is traffic on "the latest that is ready"
while the last revision is not ready: then the traffic moves when it gets
ready, with no step of a job. `LastIsReady` excludes it, for two reasons that
need each other: a deploy pins the traffic, and the job that unpins it has waited
for its revision. That its revision is still the last one at the promotion takes
`OneJob` (the concurrency group) and nobody at work by hand; `CanaryIsLast`
carries the passed smokes along. `InOrder` relates queue and revisions: the job
that waits is of the last commit, and a job's commit is later than any deployed
before it. All this is `ServiceInv`.

`QueueInv` needs no condition on the operator: jobs run one after the other in the
order of the pushes, only the last push waits, and only a job with a later push
behind it is superseded.

**Model-checked only.** `LastPushIsTried`. Its safety half is proved: the job of the last
push is never passed over (`QueueInv`), the job it waits for and it itself end
after seven steps at most, and none is taken up again (`JobsDoMoveOn`). TLC adds that
GitHub starts what may start.

### The rate tables

`RateTablesProofs` proves, for any tables, periods, requests and number of edits
(`RateTablesAssumption`): `Inductive` (`Spec => []IInv`), `HashesAreLive`,
`BareErrorsHaveCause`, `AdvisoriesFit`, `RoundingIsKept`, `QuietAnswersAreExact`,
`FreshFiguresReflect` and, where `OneBundle` holds, `CitationsDoVerify`.

**The argument.** What a handler holds between two reads is no longer true of
the disk; `ServedInv` says of what it was true: of a version of the tree among those
the request has `seen`. `PartIsLive` says it of the digest of the half-made entry,
`TodoWasThere` of the names a glob has found, without which a missing file could have
no cause.

`QuietInv` is about a request that has seen one tree only: of a listing, what is
entered and what is to come make up the directory, everything entered comes
before everything to come, and drift has been told of the stale tables only. The
proof needs that a table whose `content_hash` line holds a digest declares one
(`File`): between the third and the fourth read nothing but an edit can take
the declared hash away.

`ClaimsInv` is about all requests at once. A claim is a digest that somebody
says, or is about to say, of a table as it is at one edit of the tree. A claim made
since the last edit is true of the disk, an older one can no longer change, so two
claims about one root, URI and edit never differ, and this is proved without any
further condition. But the URI does not name the taxonomy: with two
bundles of one period it would name two tables, and `CitationsVerify` would be false.
`OneBundle` excludes it, as the repository does today: of the two ratified
taxonomies only `lodgeit_au_sbrm` has tables
(`api/lib/rate_table_resolver.py:17-24`, `tests/test_production_bundle.py:24-28`), and
`hoffman_base` holds a README. It is a hypothesis of the theorem, not an assumption
of the model; `MCRateTables` has TLC evaluate it for its trees.

`FreshFiguresReflect` gives the finding `claim_tables` its limits: the disclaimer is true
of every figure until the tree is first edited (`UneditedInv`: engine, answers
and tree are of one version), and later of every answer during which the tree was the
one the engine had read.

### The front door

`FrontDoorProofs` proves, for any wishes, any bodies, any samples the input models
accept and any stray RPCs (`FrontDoorAssumption`, `ToolNamesAssumption`):
`InvariantHolds` (`Spec => []IInv`), `TypeCorrect`, `DoorsDoAgree`,
`CallsAreForTheWish`, `AdvertisedCanBeHad`, `NoSilentZeroHolds`.

**The argument.** `IInv` says that each door's answer is a function of the
wish the caller has settled on: `ToBeAnswered` for a door, and a redirect that
goes to the calculator that was wished for. That a redirect can be trusted needs
that tool names tell calculators apart. They are concatenated strings, of which the
provers know nothing; `ToolNamesAssumption` states it of the registry, which
is constant, and TLC evaluates it. That the doors agree is then a fact about the operators: the checks
of the generic route and of the own one are different, in another order, and come to the
same for a good period and taxonomy. For `NoSilentZero` the lemmas follow a body
through validation and dump: `FieldsFit` makes the required fields be there with
a value of their kind, `DeemedAmountsTriad` leaves the engine's dispatch no way to skip
or to conflict, and joining category and method to the payload hides no field.

The first attempt to prove that the doors agree failed on `AtItsRoute`, whose `CASE`
had guards that overlapped for calculators that are in no registry; they now name
the four routes.

**What is advertised.** `AdvertisedIsCallable` is about bodies the input models accept.
The JSON schemas that `tools/list` publishes allow more, since pydantic does not publish the
rules between fields: an owned car without its deemed amounts or an accounting asset
without a life fits its schema and gets a 422, and the texts in `api/schemas/hp.py` offer a
"JSON number or decimal string" for amounts whose type is `str`, which refuses the number.
Nothing here says that a body made from the published schema alone is taken.

### The probe

`AuthProbeProofs` proves, for any environments, requests and changes
(`AuthProbeAssumption`): `InvariantHolds`, `ReportsAreTrue`, `VerdictsForeseeDispatch`
and `TasksDoMoveOn`.

**The argument.** `PathsFixed` is what makes the report foretell the calls: while
nothing has changed, an audience gets its token by one path
(`FixedPath`), and each stage of a mint says that the sources before it have failed.
`LoopHeld` keeps audiences without a token out of those stages, `TokensReported`
keeps the tokens of one result apart from the next one's.

**Model-checked only.** `EveryTaskEnds`. Its safety half is `TasksDoMoveOn`: each attempt
takes its task to the next source or to its end, and the probe, when a mint of its own
has ended, to its next audience.

## 5. Not modelled, and the plan

Every component that decides something is modelled. What is left:

1. A cited URI of another year: `build_manifest` resolves it by its last
   segment under the request's period. `RateTables` takes every cited table to be
   one of the request's period; which one an engine cites is the engine's.
2. Time: the deadline of 60 s, the liveness probe and the timeouts of a mint on
   one loop. Google-auth's retries have no bound in this code, so a timed model
   would be about numbers it does not state; `Gateway` lets deadline and loss of the
   container come at any moment instead.
3. What a schedule costs: the number of instalments has no upper bound and is
   computed on the loop.
4. The response models of depreciation and Division 7A, which only describe the
   answer for OpenAPI, and the one of hp, which asks for nothing its engine does not
   always give. They decide no reply.

The health endpoints (`api/main.py`) are constant answers; that they wait for
the loop is item 2.

Left out of `DeployPipeline`: the bypass variable of the guard, which nothing in the
workflow sets; a re-run of an old job from GitHub's pages; `gcloud run services
replace deploy/cloud-run.yaml`, which sets limits and probes and is modelled by what
`Gateway` assumes of them; `ci.yml` and `smoke-prod.yml`, which only read.

Left out for good: wording of messages, log lines, OpenAPI texts, the
URLs of widgets, the smoke scripts and hooks. They keep no state and decide nothing.
