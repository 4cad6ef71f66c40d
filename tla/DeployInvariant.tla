-------------------------- MODULE DeployInvariant --------------------------
(***************************************************************************)
(* The inductive invariant of the pipeline, of the service (ServiceInv)    *)
(* and of the jobs' queue (QueueInv).  The last parts of the first hold as *)
(* long as nobody has worked on the service by hand; the very last, only   *)
(* where `describe` does not fail.                                         *)
(***************************************************************************)
EXTENDS DeployPipeline

\* CHOOSE in LatestReady has something to choose.
OneIsReady == \E k \in Ready : \A j \in Ready : j <= k

\* The concurrency group.
OneJob == \A c, d \in InProgress : c = d

\* A job's revision is there, and ready.
HasDeployed(c) == pc[c] \in {"assert", "smoke", "smoke_fbt", "promote"}

\* A revision that is not ready can get ready unnoticed: it is the last one only
\* while the traffic is pinned and no job is about to unpin it.
LastIsReady ==
  traffic = Latest \/ (\E c \in Pushed : HasDeployed(c)) => Template.ready

\* The smokes have a revision under the tag.
TagIsThere == (\E c \in Pushed : HasDeployed(c)) => canary > 0

\* Without an operator, the revision under the tag is the last one.
CanaryIsLast ==
  \A c \in Pushed :
    /\ HasDeployed(c) => canary = Len(revs)
    /\ pc[c] \in {"smoke_fbt", "promote"} => canary \in passed.smoke_prod
    /\ pc[c] = "promote" => canary \in passed.smoke_fbt

\* Without an operator, the revisions are in the order of their commits, and the
\* job that waits is of the last commit.
InOrder ==
  /\ \A j, k \in 1..Len(revs) : j <= k => revs[j].commit <= revs[k].commit
  /\ \A k \in 1..Len(revs) : revs[k].commit <= Len(tree)
  /\ \A c \in Pushed : \A k \in 1..Len(revs) :
       /\ pc[c] \in {"pending", "guard", "deploy"} => revs[k].commit < c
       /\ HasDeployed(c) => revs[k].commit <= c
  /\ \A c \in Pushed : pc[c] = "pending" => c = Len(tree)

\* Without an operator and without failed reads, what the guard found still
\* holds at the deploy.
NamesStay ==
  \A c \in Pushed : pc[c] = "deploy" => Template.env \subseteq tree[c].declared

ServiceInv ==
  /\ TypeOK /\ OneIsReady /\ OneJob /\ LastIsReady /\ TagIsThere
  /\ byHand = 0 => CanaryIsLast /\ InOrder
  /\ byHand = 0 /\ ~ReadsMayFail => NamesStay

\* Whatever is pushed when and whoever works by hand: the jobs run in the order of
\* the pushes, one after the other; only a job with a later push behind it is
\* superseded, and only the last push waits.
QueueInv ==
  /\ \A c \in Pushed : pc[c] = "superseded" => c < Len(tree)
  /\ \A c \in Pushed : pc[c] = "pending" => c = Len(tree)
  /\ \A c, d \in Pushed :
       c < d /\ pc[d] \notin {"pending", "superseded"} => pc[c] \in Ends

IInv == ServiceInv /\ QueueInv

-----------------------------------------------------------------------------
\* How far a job is on its way.
Rank ==
  [step \in Steps \cup Ends \cup {"pending"} |->
     CASE step = "pending" -> 0 [] step = "guard" -> 1 [] step = "deploy" -> 2
       [] step = "assert" -> 3 [] step = "smoke" -> 4 [] step = "smoke_fbt" -> 5
       [] step = "promote" -> 6 [] step \in Ends -> 7]

\* A job never goes back and is never taken up again: its start and each of its
\* steps take it further, so it has seven steps at most.
JobsMoveOn ==
  [][ /\ \A c \in Pushed : pc'[c] # pc[c] => Rank[pc[c]] < Rank[pc'[c]]
      /\ \A c \in Pushed : Start(c) \/ Job(c) => pc'[c] # pc[c] ]_vars
=============================================================================
