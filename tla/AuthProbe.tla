----------------------------- MODULE AuthProbe -----------------------------
(***************************************************************************)
(* The engine-auth probe (api/routes/internal_auth_probe.py) beside the    *)
(* handlers whose mints it speaks for (_authenticated_headers).  An        *)
(* operator promotes a revision on its word: does dispatch get the tokens  *)
(* the probe got, and no others?                                           *)
(*                                                                         *)
(* A mint is synchronous: a task that is in one has the event loop.  What  *)
(* the metadata hosts and google-auth answer may change between any two    *)
(* attempts.  An audience is an origin, "localhost" (or a compose or test  *)
(* host), or a URL with "no scheme".                                       *)
(***************************************************************************)
EXTENDS Sequences, Naturals

CONSTANTS
  Configs,   \* environments of a revision: members of Config
  Calls,     \* requests to the probe: members of Call
  MaxFlips,  \* how often what mints changes
  Free       \* the event loop is not held

Engines   == {"fbt", "depreciation", "div7a"}
Sources   == {"host_1", "host_2", "google_auth"}
Audiences == Engines \cup {"localhost", "no scheme"}

Headers   == {"none", "secret", "other", "not ascii"}

Config == [urls    : [Engines -> Audiences],
           refused : SUBSET Audiences,     \* by the metadata hosts
           secret  : {"none", "secret"}]

\* A value of `audiences` that is no list and no string cannot be iterated.
Call == [header : Headers, audiences : Seq(Audiences), iterable : BOOLEAN]

ASSUME AuthProbeAssumption ==
  /\ Configs \subseteq Config
  /\ Calls \subseteq Call
  /\ MaxFlips \in Nat
  /\ Free \notin Engines \cup {"probe"}

Tasks == Engines \cup {"probe"}

VARIABLES
  config,   \* the revision's URLs and secret, what its account may mint for
  mints,    \* which sources would mint a token now
  flips,    \* how often that has changed
  loop,     \* the task that holds the event loop, or Free
  pc,       \* where each task is
  path,     \* what minted the token of an engine call, or "none"
  call,     \* the request to the probe
  todo,     \* the audiences it has still to report on
  results,  \* its report so far
  http,     \* the status it has answered with
  issued    \* tokens issued on the probe's behalf: for which result, by whom

probe == <<call, todo, results, http, issued>>
vars  == <<config, mints, flips, loop, pc, path, probe>>

NoCall == [header |-> "none", audiences |-> <<>>, iterable |-> TRUE]

Init ==
  /\ config \in Configs
  /\ mints \in [Sources -> BOOLEAN]
  /\ flips = 0
  /\ loop = Free
  /\ pc = [t \in Tasks |-> "idle"]
  /\ path = [e \in Engines |-> "none"]
  /\ call = NoCall /\ todo = <<>> /\ results = <<>>
  /\ http = 0 /\ issued = {}

Goto(t, stage) == pc' = [pc EXCEPT ![t] = stage]

-----------------------------------------------------------------------------
(* The probe. *)

Arrive ==
  /\ pc["probe"] = "idle"
  /\ \E c \in Calls : call' = c
  /\ Goto("probe", "queued")
  /\ UNCHANGED <<config, mints, flips, loop, path, todo, results, http, issued>>

\* _assert_probe_authorised; compare_digest takes no other text than ASCII.
Gate ==
  IF config.secret = "none" \/ call.header = "none" THEN 404
  ELSE IF call.header = "not ascii" THEN 500
  ELSE IF call.header = config.secret THEN 200 ELSE 404

ConfiguredEngineAudiences ==
  <<config.urls["fbt"], config.urls["depreciation"], config.urls["div7a"]>>

Asked == IF call.audiences = <<>> THEN ConfiguredEngineAudiences
                                  ELSE call.audiences

\* The handler answers without a mint, or takes the loop for all of them.
StartProbe ==
  /\ loop = Free /\ pc["probe"] = "queued"
  /\ IF Gate = 200 /\ call.iterable
     THEN /\ loop' = "probe" /\ Goto("probe", "direct_1")
          /\ todo' = Asked
          /\ UNCHANGED http
     ELSE /\ Goto("probe", "done")
          /\ http' = IF Gate = 200 THEN 500 ELSE Gate
          /\ UNCHANGED <<loop, todo>>
  /\ UNCHANGED <<config, mints, flips, path, call, results, issued>>

\* Mutant of Report: an audience is tried until it has a token.
ReportOnceMinted(status, by) ==
  IF status = "OK"
  THEN /\ results' = Append(results,
            [audience |-> Head(todo), status |-> status, path |-> by])
       /\ todo' = Tail(todo)
       /\ IF Len(todo) = 1
          THEN Goto("probe", "done") /\ loop' = Free /\ http' = 200
          ELSE Goto("probe", "direct_1") /\ UNCHANGED <<loop, http>>
  ELSE Goto("probe", "direct_1") /\ UNCHANGED <<results, todo, loop, http>>

\* Mutant of Report: an audience without a token is left out.
ReportMinted(status, by) ==
  /\ results' = IF status = "FAIL" THEN results ELSE Append(results,
       [audience |-> Head(todo), status |-> status, path |-> by])
  /\ todo' = Tail(todo)
  /\ IF Len(todo) = 1
     THEN Goto("probe", "done") /\ loop' = Free /\ http' = 200
     ELSE Goto("probe", "direct_1") /\ UNCHANGED <<loop, http>>

\* The result for this audience; on to the next one, or to the answer.
Report(status, by) ==
  /\ results' = Append(results,
       [audience |-> Head(todo), status |-> status, path |-> by])
  /\ todo' = Tail(todo)
  /\ IF Len(todo) = 1
     THEN Goto("probe", "done") /\ loop' = Free /\ http' = 200
     ELSE Goto("probe", "direct_1") /\ UNCHANGED <<loop, http>>

Issue(by) == issued' = issued \cup {[n |-> Len(results) + 1, by |-> by]}

HostMints(host, a) == mints[host] /\ a \notin config.refused

\* The probe's own direct mint, host by host.
ProbeDirect ==
  /\ loop = "probe" /\ pc["probe"] \in {"direct_1", "direct_2"}
  /\ IF HostMints(IF pc["probe"] = "direct_1" THEN "host_1" ELSE "host_2",
                  Head(todo))
     THEN Issue("direct") /\ Report("OK", "direct_metadata")
     ELSE /\ Goto("probe", IF pc["probe"] = "direct_1" THEN "direct_2"
                                                       ELSE "shared")
          /\ UNCHANGED <<loop, todo, results, http, issued>>
  /\ UNCHANGED <<config, mints, flips, path, call>>

IsLocalhostAudience(a) == a \in {"localhost", "no scheme"}

\* Mutant of EnterShared: no header is no failure.
EnterSharedSoft ==
  /\ loop = "probe" /\ pc["probe"] = "shared"
  /\ IF IsLocalhostAudience(Head(todo))
     THEN Report("OK", "fetch_id_token")
     ELSE Goto("probe", "host_1") /\ UNCHANGED <<loop, todo, results, http>>
  /\ UNCHANGED <<config, mints, flips, path, call, issued>>

\* Then the path of dispatch, which gives no header to a local audience.
EnterShared ==
  /\ loop = "probe" /\ pc["probe"] = "shared"
  /\ IF IsLocalhostAudience(Head(todo))
     THEN Report("FAIL", "none")
     ELSE Goto("probe", "host_1") /\ UNCHANGED <<loop, todo, results, http>>
  /\ UNCHANGED <<config, mints, flips, path, call, issued>>

-----------------------------------------------------------------------------
(* _authenticated_headers, for the probe and for an engine call. *)

Dispatch(e) ==
  /\ loop = Free /\ pc[e] = "idle"
  /\ IF IsLocalhostAudience(config.urls[e])
     THEN Goto(e, "done") /\ UNCHANGED loop
     ELSE Goto(e, "host_1") /\ loop' = e
  /\ UNCHANGED <<config, mints, flips, path, probe>>

AudienceOf(t) == IF t = "probe" THEN Head(todo) ELSE config.urls[t]

\* A token from `by`; the probe takes any for one of google-auth.
Token(t, by) ==
  IF t = "probe"
  THEN Issue(by) /\ Report("OK", "fetch_id_token") /\ UNCHANGED <<path, call>>
  ELSE /\ path' = [path EXCEPT ![t] = by]
       /\ Goto(t, "done") /\ loop' = Free
       /\ UNCHANGED probe

\* EngineAuthUnavailable, whatever dispatch makes of it in soft mode.
NoToken(t) ==
  IF t = "probe"
  THEN Report("FAIL", "none") /\ UNCHANGED <<path, call, issued>>
  ELSE Goto(t, "done") /\ loop' = Free /\ UNCHANGED <<path, probe>>

TryMetadataHost(t) ==
  /\ loop = t /\ pc[t] \in {"host_1", "host_2"}
  /\ IF HostMints(pc[t], AudienceOf(t)) THEN Token(t, "direct_metadata")
     ELSE /\ Goto(t, IF pc[t] = "host_1" THEN "host_2" ELSE "google_auth")
          /\ UNCHANGED <<loop, path, probe>>
  /\ UNCHANGED <<config, mints, flips>>

\* Mutant of FetchIdToken: the fallback is left to dispatch.
FetchIdTokenForDispatch(t) ==
  /\ loop = t /\ pc[t] = "google_auth"
  /\ IF mints["google_auth"] /\ t # "probe"
     THEN Token(t, "fetch_id_token") ELSE NoToken(t)
  /\ UNCHANGED <<config, mints, flips>>

FetchIdToken(t) ==
  /\ loop = t /\ pc[t] = "google_auth"
  /\ IF mints["google_auth"] THEN Token(t, "fetch_id_token") ELSE NoToken(t)
  /\ UNCHANGED <<config, mints, flips>>

-----------------------------------------------------------------------------
\* The metadata server or google-auth comes or goes.
Flip ==
  /\ flips < MaxFlips
  /\ \E s \in Sources : mints' = [mints EXCEPT ![s] = ~@]
  /\ flips' = flips + 1
  /\ UNCHANGED <<config, loop, pc, path, probe>>

ProbeStep  == StartProbe \/ ProbeDirect \/ EnterShared
SharedStep == \E t \in Tasks : TryMetadataHost(t) \/ FetchIdToken(t)

Next ==
  \/ Arrive \/ ProbeStep \/ SharedStep
  \/ \E e \in Engines : Dispatch(e)
  \/ Flip

(***************************************************************************)
(* Every attempt has an httpx timeout or one of google-auth's, and the     *)
(* loop goes on with the handler that has it; a free loop starts one that  *)
(* waits.  No call need ever come, and nothing need change.                *)
(***************************************************************************)
Spec == Init /\ [][Next]_vars

FairSpec == Spec /\ WF_vars(ProbeStep) /\ WF_vars(SharedStep)

-----------------------------------------------------------------------------
(***************************************************************************)
(* The type invariant: the probe has the loop from its first mint to its   *)
(* answer, and of the audiences asked for each is either reported on, in   *)
(* their order, or still to do.                                            *)
(***************************************************************************)
TypeOK ==
  /\ loop \in Tasks \cup {Free}
  /\ mints \in [Sources -> BOOLEAN]
  /\ path \in [Engines -> {"none", "direct_metadata", "fetch_id_token"}]
  /\ http \in {0, 200, 404, 500}
  /\ (loop = "probe") <=> (todo # <<>>)
  /\ loop = "probe" \/ http = 200 =>
       [i \in DOMAIN results |-> results[i].audience] \o todo = Asked

(***************************************************************************)
(* What an operator promotes on: as long as what mints does not change, an *)
(* engine behind Cloud Run whose configured URL was reported OK gets its   *)
(* calls with a token, minted by the path the report names, and one that   *)
(* was reported FAIL gets none, in whatever order probe and calls came.    *)
(***************************************************************************)
VerdictForeseesDispatch ==
  flips = 0 =>
    \A i \in DOMAIN results, e \in Engines :
      ( /\ results[i].audience = config.urls[e]
        /\ ~IsLocalhostAudience(config.urls[e])
        /\ pc[e] = "done" )
      => results[i].path = path[e]

(***************************************************************************)
(* The report is true of the probe's own mints, however the sources change *)
(* meanwhile: OK means that a token was issued for this very result and    *)
(* FAIL that none was; "direct_metadata" is the first direct mint; a 200   *)
(* has only mints made with the right header.  "fetch_id_token" says only  *)
(* that the first direct mint failed: the second may have worked.          *)
(***************************************************************************)
ReportIsTrue ==
  /\ \A i \in DOMAIN results :
       LET by == {t.by : t \in {x \in issued : x.n = i}}
       IN  CASE results[i].path = "none" ->
                  results[i].status = "FAIL" /\ by = {}
             [] results[i].path = "direct_metadata" ->
                  results[i].status = "OK" /\ by = {"direct"}
             [] results[i].path = "fetch_id_token" ->
                  /\ results[i].status = "OK"
                  /\ by \in {{"direct_metadata"}, {"fetch_id_token"}}
  /\ issued # {} => call.header = config.secret

(***************************************************************************)
(* The probe gives the loop back and answers, and so does every engine     *)
(* call that has begun its mint: it tries each audience once, whatever     *)
(* comes of it.                                                            *)
(***************************************************************************)
EveryTaskEnds ==
  \A t \in Tasks : pc[t] # "idle" ~> (pc[t] = "done" /\ loop # t)
=============================================================================
