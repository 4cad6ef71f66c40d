--------------------------- MODULE DeployPipeline ---------------------------
(***************************************************************************)
(* From a push to main to the revision that takes the traffic: the job of  *)
(* .github/workflows/deploy.yml, the queue its concurrency group makes,    *)
(* the Cloud Run service it works on, and the operator, who follows        *)
(* deploy/README.md and works on the same service at any time.             *)
(*                                                                         *)
(* Commit c is the c-th push; its job is job c.                            *)
(***************************************************************************)
EXTENDS Integers, Sequences

CONSTANTS
  Trees,          \* what may be pushed: members of Tree
  Names,          \* the names of environment variables
  MaxPushes,      \* bound on the pushes
  MaxByHand,      \* bound on the operator's steps
  ReadsMayFail    \* whether `gcloud run services describe` can fail

\* Of a commit: the names deploy/env_vars.json declares and which of the two
\* smokes its service fails, if any.
Tree == [declared : SUBSET Names, fails : SUBSET {"smoke_prod", "smoke_fbt"}]

ASSUME PipelineAssumption ==
  /\ Trees \subseteq Tree
  /\ MaxPushes \in Nat /\ MaxByHand \in Nat
  /\ ReadsMayFail \in BOOLEAN

VARIABLES
  tree,      \* the commits on main, in the order of their pushes
  pc,        \* the step each commit's job is at
  revs,      \* the revisions of the service, in the order of their creation
  traffic,   \* the revision with all traffic; Latest: the latest that is ready
  canary,    \* the revision with the tag "canary"; 0 if none
  passed,    \* which smokes have passed on which revision
  byHand     \* the operator's steps so far

service == <<revs, traffic, canary>>
vars    == <<tree, pc, service, passed, byHand>>

Latest == 0

Revision == [tree : Trees, commit : Nat, env : SUBSET Names, ready : BOOLEAN]

Steps == {"guard", "deploy", "assert", "smoke", "smoke_fbt", "promote"}
Ends  == {"promoted", "refused", "failed", "superseded"}

Pushed == 1..Len(tree)

InProgress == {c \in Pushed : pc[c] \in Steps}

-----------------------------------------------------------------------------
(***************************************************************************)
(* Cloud Run.                                                              *)
(***************************************************************************)
Ready == {k \in 1..Len(revs) : revs[k].ready}

\* status.latestReadyRevisionName
LatestReady == CHOOSE k \in Ready : \A j \in Ready : j <= k

Serving == IF traffic = Latest THEN LatestReady ELSE traffic

\* spec.template: the configuration of the last revision asked for.
Template == revs[Len(revs)]

\* Mutant of PinnedTraffic: the deploy without --no-traffic.
PinnedTrafficNot == traffic

\* Mutant of PinnedTraffic: the new revision gets the traffic before it is ready.
PinnedTrafficNew == Len(revs) + 1

\* --no-traffic: traffic on the latest revision is pinned to the one that has
\* it now.
PinnedTraffic == Serving

\* The first deployment, by hand: healthy, and the traffic goes to the latest.
Init ==
  /\ tree = <<>> /\ pc = <<>>
  /\ \E t \in Trees :
       /\ t.fails = {}
       /\ revs = <<[tree |-> t, commit |-> 0, env |-> t.declared, ready |-> TRUE]>>
  /\ traffic = Latest
  /\ canary = 0
  /\ passed = [smoke_prod |-> {1}, smoke_fbt |-> {1}]
  /\ byHand = 0

\* A revision that was slow to start, or whose job ran out of time, gets ready.
GetsReady ==
  /\ \E k \in 1..Len(revs) :
       /\ ~revs[k].ready
       /\ revs' = [revs EXCEPT ![k].ready = TRUE]
  /\ UNCHANGED <<tree, pc, traffic, canary, passed, byHand>>

-----------------------------------------------------------------------------
(***************************************************************************)
(* GitHub: the concurrency group deploy-main.                              *)
(***************************************************************************)
\* Mutant of Push: the job that waits stays, the new one is dropped.
PushDropped ==
  /\ Len(tree) < MaxPushes
  /\ \E t \in Trees : tree' = Append(tree, t)
  /\ pc' = Append(pc, IF \E c \in Pushed : pc[c] = "pending"
                      THEN "superseded" ELSE "pending")
  /\ UNCHANGED <<service, passed, byHand>>

\* A push queues its job; one job waits at most, the newest.
Push ==
  /\ Len(tree) < MaxPushes
  /\ \E t \in Trees : tree' = Append(tree, t)
  /\ pc' = Append([c \in Pushed |-> IF pc[c] = "pending" THEN "superseded"
                                                         ELSE pc[c]],
                  "pending")
  /\ UNCHANGED <<service, passed, byHand>>

Goto(c, step) == pc' = [pc EXCEPT ![c] = step]

\* Mutant of Start: no concurrency group.
StartAtOnce(c) ==
  /\ pc[c] = "pending"
  /\ Goto(c, "guard")
  /\ UNCHANGED <<tree, service, passed, byHand>>

\* cancel-in-progress: false: the job in progress is left to end.
Start(c) ==
  /\ pc[c] = "pending" /\ InProgress = {}
  /\ Goto(c, "guard")
  /\ UNCHANGED <<tree, service, passed, byHand>>

-----------------------------------------------------------------------------
(***************************************************************************)
(* The steps of the job.                                                   *)
(***************************************************************************)
\* Mutant of WouldDrop: the loop at the end of a pipe, its result lost with
\* the subshell.
WouldDropInSubshell(live, c) == {}

\* The names --set-env-vars would remove from the service.
WouldDrop(live, c) == live \ tree[c].declared

\* What the guard reads: the template's names; none from a describe that fails.
LiveReads == {Template.env} \cup (IF ReadsMayFail THEN {{}} ELSE {})

\* Pre-deploy live env-var-set delta check.  No name read is a first deploy.
Guard(c) ==
  /\ pc[c] = "guard"
  /\ \E live \in LiveReads :
       Goto(c, IF live # {} /\ WouldDrop(live, c) # {} THEN "refused"
                                                       ELSE "deploy")
  /\ UNCHANGED <<tree, service, passed, byHand>>

\* gcloud run deploy --no-traffic --tag canary --set-env-vars: it ends well once
\* the revision is ready.
Deploy(c) ==
  /\ pc[c] = "deploy"
  /\ \E ready \in BOOLEAN :
       /\ revs' = Append(revs, [tree |-> tree[c], commit |-> c,
                                env |-> tree[c].declared, ready |-> ready])
       /\ Goto(c, IF ready THEN "assert" ELSE "failed")
  /\ traffic' = PinnedTraffic
  /\ canary' = Len(revs')
  /\ UNCHANGED <<tree, passed, byHand>>

\* Post-deploy env-var-set presence assertion, on the template again.
Assert(c) ==
  /\ pc[c] = "assert"
  /\ tree[c].declared \subseteq Template.env
  /\ Goto(c, "smoke")
  /\ UNCHANGED <<tree, service, passed, byHand>>

\* make smoke-prod and make smoke-fbt against the tag's URL.
Probe(c, step, smoke, next) ==
  /\ pc[c] = step
  /\ smoke \notin revs[canary].tree.fails
  /\ passed' = [passed EXCEPT ![smoke] = @ \cup {canary}]
  /\ Goto(c, next)
  /\ UNCHANGED <<tree, service, byHand>>

Smoke(c) == \/ Probe(c, "smoke", "smoke_prod", "smoke_fbt")
            \/ Probe(c, "smoke_fbt", "smoke_fbt", "promote")

\* update-traffic --to-latest; the describe after it may still fail the job.
Promote(c) ==
  /\ pc[c] = "promote"
  /\ traffic' = Latest
  /\ Goto(c, "promoted") \/ Goto(c, "failed")
  /\ UNCHANGED <<tree, revs, canary, passed, byHand>>

\* A step fails: gcloud, a smoke, the runner, or the job's fifteen minutes.
Fail(c) ==
  /\ pc[c] \in Steps
  /\ Goto(c, "failed")
  /\ UNCHANGED <<tree, service, passed, byHand>>

-----------------------------------------------------------------------------
(***************************************************************************)
(* The operator.                                                           *)
(***************************************************************************)
ByHand ==
  /\ byHand < MaxByHand
  /\ byHand' = byHand + 1
  /\ UNCHANGED <<tree, pc, passed>>

\* make deploy, from a checkout of main: the names stay, no traffic option.  Of
\* the operator's commands, those that end well.
MakeDeploy ==
  /\ ByHand
  /\ \E c \in Pushed :
       revs' = Append(revs, [tree |-> tree[c], commit |-> c,
                             env |-> Template.env, ready |-> TRUE])
  /\ UNCHANGED <<traffic, canary>>

\* gcloud run services update --set-env-vars.
SetEnvVars ==
  /\ ByHand
  /\ \E env \in SUBSET Names :
       revs' = Append(revs, [Template EXCEPT !.env = env, !.ready = TRUE])
  /\ UNCHANGED <<traffic, canary>>

\* gcloud run services update-traffic --to-revisions=<revision>=100
RollBack ==
  /\ ByHand
  /\ traffic' \in Ready
  /\ UNCHANGED <<revs, canary>>

Operator == MakeDeploy \/ SetEnvVars \/ RollBack

Job(c) == \/ Guard(c) \/ Deploy(c) \/ Assert(c) \/ Smoke(c) \/ Promote(c)
          \/ Fail(c)

Next ==
  \/ Push
  \/ \E c \in Pushed : Start(c)
  \/ \E c \in Pushed : Job(c)
  \/ GetsReady
  \/ Operator

Spec == Init /\ [][Next]_vars

\* GitHub starts a job that may start; a job ends, by its timeout if by nothing
\* else.  Nothing obliges anyone to push or a revision to get ready.
Fairness ==
  \A c \in 1..MaxPushes :
    /\ WF_vars(c \in Pushed /\ Start(c))
    /\ WF_vars(c \in Pushed /\ Job(c))

FairSpec == Spec /\ Fairness

-----------------------------------------------------------------------------
(***************************************************************************)
(* What must hold.                                                         *)
(***************************************************************************)
TypeOK ==
  /\ tree \in Seq(Trees)
  /\ pc \in Seq(Steps \cup Ends \cup {"pending"}) /\ Len(pc) = Len(tree)
  /\ revs \in Seq(Revision) /\ Len(revs) > 0
  /\ Ready # {} /\ traffic \in Ready \cup {Latest}
  /\ canary \in 0..Len(revs)
  /\ passed \in [{"smoke_prod", "smoke_fbt"} -> SUBSET (1..Len(revs))]
  /\ byHand \in 0..MaxByHand

\* deploy.yml:157, "traffic is promoted to the new revision ONLY if the smoke
\* exits 0": as long as nobody works on the service by hand, a promotion moves
\* the traffic to a revision both smokes passed on.
PromotesSmoked ==
  [][\A c \in Pushed :
       byHand' = 0 /\ pc[c] = "promote" /\ Serving' # Serving =>
         Serving' \in passed.smoke_prod \cap passed.smoke_fbt]_vars

\* The traffic moves at a promotion, or by hand, and at no other step: not at a
\* deploy, a failure, or when a slow revision of an earlier job gets ready.
TrafficMovesAtPromotion ==
  [][Serving' # Serving =>
       (\E c \in Pushed : pc[c] = "promote") \/ byHand' # byHand]_vars

\* No step of any job puts the traffic back to an earlier commit, in whatever
\* order the jobs of quick pushes get to run, fail or end, as long as nobody
\* works on the service by hand.
ServiceNeverGoesBack ==
  [][byHand' = 0 => revs'[Serving'].commit >= revs[Serving].commit]_vars

\* deploy.yml:84, a deploy never takes a name off the service, as long as nobody
\* sets names by hand.
NoNameIsDropped ==
  [][\A c \in Pushed :
       byHand' = 0 /\ pc[c] = "deploy" /\ revs' # revs =>
         Template.env \subseteq Template'.env]_vars

\* Merged and not deployed: the job of the last push comes to its end, whatever
\* became of the ones before it.
LastPushIsTried ==
  \A c \in 1..MaxPushes :
    c \in Pushed ~> c \in Pushed /\ (\/ pc[c] \in Ends \ {"superseded"}
                                     \/ c < Len(tree))
=============================================================================
