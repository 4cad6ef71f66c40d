------------------------- MODULE AuthProbeInvariant -------------------------
(***************************************************************************)
(* The inductive invariant of AuthProbe: who holds the loop in which       *)
(* stage, which tokens a result rests on and, as long as nothing has       *)
(* changed, what each stage says of the sources tried before it.           *)
(***************************************************************************)
EXTENDS AuthProbe

MintStages  == {"host_1", "host_2", "google_auth"}
ProbeStages == {"direct_1", "direct_2", "shared"} \cup MintStages
StagesOf(t) == {"idle", "done"} \cup
               (IF t = "probe" THEN {"queued"} \cup ProbeStages ELSE MintStages)

Paths  == {"none", "direct_metadata", "fetch_id_token"}
Result == [audience : Audiences, status : {"OK", "FAIL"}, path : Paths]
Issued == [n : Nat, by : {"direct", "direct_metadata", "fetch_id_token"}]

Typed ==
  /\ config \in Configs /\ call \in Calls \cup {NoCall}
  /\ mints \in [Sources -> BOOLEAN] /\ flips \in Nat
  /\ pc \in [Tasks -> UNION {StagesOf(t) : t \in Tasks}]
  /\ \A t \in Tasks : pc[t] \in StagesOf(t)
  /\ todo \in Seq(Audiences) /\ results \in Seq(Result)
  /\ issued \in SUBSET Issued

\* A task holds the loop exactly in the stages of a mint; the probe only for the
\* right header, a local audience never in the stages of dispatch.
LoopHeld ==
  /\ \A t \in Tasks : loop = t <=> pc[t] \in ProbeStages
  /\ pc["probe"] \in {"idle", "queued"} => http = 0 /\ results = <<>> /\ issued = {}
  /\ pc["probe"] \in ProbeStages =>
       http = 0 /\ call.header = config.secret
  /\ pc["probe"] \in MintStages => ~IsLocalhostAudience(Head(todo))
  /\ \A e \in Engines : pc[e] # "idle" /\ pc[e] # "done" =>
                          ~IsLocalhostAudience(config.urls[e])

\* No token was issued for a result that is still to come.
TokensReported == \A x \in issued : x.n \in 1..Len(results)

(***************************************************************************)
(* As long as nothing has changed, the path by which an audience gets its  *)
(* token is fixed, and the stages behind a source say that it failed.      *)
(***************************************************************************)
FixedPath(a) ==
  IF HostMints("host_1", a) \/ HostMints("host_2", a) THEN "direct_metadata"
  ELSE IF mints["google_auth"] THEN "fetch_id_token" ELSE "none"

NoHostMints(a) == ~HostMints("host_1", a) /\ ~HostMints("host_2", a)

PathsFixed ==
  flips = 0 =>
    /\ \A i \in DOMAIN results : ~IsLocalhostAudience(results[i].audience) =>
         results[i].path = FixedPath(results[i].audience)
    /\ \A e \in Engines :
         LET a == config.urls[e] IN
           /\ pc[e] # "done" => path[e] = "none"
           /\ pc[e] = "host_2" => ~HostMints("host_1", a)
           /\ pc[e] = "google_auth" => NoHostMints(a)
           /\ pc[e] = "done" /\ ~IsLocalhostAudience(a) => path[e] = FixedPath(a)
    /\ pc["probe"] = "direct_2" => ~HostMints("host_1", Head(todo))
    /\ pc["probe"] \in {"shared"} \cup MintStages => NoHostMints(Head(todo))

IInv == TypeOK /\ Typed /\ LoopHeld /\ TokensReported /\ ReportIsTrue /\ PathsFixed

\* How far a task is with one audience.
Rank ==
  [idle |-> 0, queued |-> 1, direct_1 |-> 2, direct_2 |-> 3, shared |-> 4,
   host_1 |-> 5, host_2 |-> 6, google_auth |-> 7, done |-> 8]

MovesOn(t) ==
  \/ Rank[pc[t]] < Rank[pc'[t]]
  \/ t = "probe" /\ todo # <<>> /\ todo' = Tail(todo)

\* A step of a mint or of the probe takes its task further, or the probe to its
\* next audience: each is tried in six attempts at most.
TasksMoveOn ==
  [][ /\ \A t \in Tasks : pc'[t] # pc[t] => MovesOn(t)
      /\ \A t \in Tasks : TryMetadataHost(t) \/ FetchIdToken(t) => MovesOn(t)
      /\ ProbeStep => MovesOn("probe") ]_vars
=============================================================================
