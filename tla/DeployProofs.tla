---------------------------- MODULE DeployProofs ----------------------------
(***************************************************************************)
(* Theorems about DeployPipeline, for any commits and names and any number *)
(* of pushes and of steps by hand.                                         *)
(***************************************************************************)
EXTENDS DeployInvariant, TLAPS

USE DEF service, Latest

\* What CHOOSE gives in LatestReady.
LEMMA LatestReadyFact ==
  ASSUME OneIsReady
  PROVE  LatestReady \in Ready /\ \A j \in Ready : j <= LatestReady
BY DEF OneIsReady, LatestReady

\* The traffic is on a revision that is ready.
LEMMA ServingFact ==
  ASSUME TypeOK, OneIsReady
  PROVE  Serving \in Ready /\ Serving \in 1..Len(revs)
<1>1. Serving \in Ready
  BY LatestReadyFact DEF TypeOK, Serving
<1> QED  BY <1>1 DEF Ready

\* Revisions have commits.
LEMMA CommitFact ==
  ASSUME TypeOK
  PROVE  \A k \in 1..Len(revs) : revs[k] \in Revision /\ revs[k].commit \in Nat
<1>1. \A k \in 1..Len(revs) : revs[k] \in Revision
  BY DEF TypeOK
<1> QED  BY <1>1 DEF Revision

\* A job's step that leaves the service alone: to another step or to its end.
LEMMA JobStepKeeps ==
  ASSUME ServiceInv, NEW c \in Pushed, pc[c] \in Steps,
         NEW s \in Steps \cup Ends, pc' = [pc EXCEPT ![c] = s],
         UNCHANGED <<tree, service, byHand>>,
         passed' \in [{"smoke_prod", "smoke_fbt"} -> SUBSET (1..Len(revs))],
         passed.smoke_prod \subseteq passed'.smoke_prod,
         passed.smoke_fbt \subseteq passed'.smoke_fbt,
         s \notin {"superseded", "guard"},
         s = "deploy" => pc[c] = "guard",
         s \in {"assert", "smoke", "smoke_fbt", "promote"} => HasDeployed(c),
         byHand = 0 /\ s \in {"smoke_fbt", "promote"} =>
           canary \in passed'.smoke_prod,
         byHand = 0 /\ s = "promote" => canary \in passed'.smoke_fbt,
         s = "deploy" /\ byHand = 0 /\ ~ReadsMayFail =>
           Template.env \subseteq tree[c].declared
  PROVE  ServiceInv'
<1>1. TypeOK'
  BY DEF ServiceInv, TypeOK, Pushed, Ready, Steps, Ends
<1>2. /\ Pushed' = Pushed /\ Ready' = Ready /\ Template' = Template
      /\ \A d \in Pushed : pc'[d] = IF d = c THEN s ELSE pc[d]
  BY DEF ServiceInv, TypeOK, Pushed, Ready, Template
<1>3. OneIsReady'
  BY <1>2 DEF ServiceInv, OneIsReady
<1>4. OneJob'
  BY <1>2 DEF ServiceInv, OneJob, InProgress
<1>5. LastIsReady'
  BY <1>2 DEF ServiceInv, LastIsReady, HasDeployed
<1>6. TagIsThere'
  BY <1>2 DEF ServiceInv, TagIsThere, HasDeployed
<1>7. ASSUME byHand = 0  PROVE CanaryIsLast'
  <2>1. CanaryIsLast
    BY <1>7 DEF ServiceInv
  <2>2. canary' = canary /\ Len(revs') = Len(revs)
    OBVIOUS
  <2>3. SUFFICES ASSUME NEW d \in Pushed
                 PROVE  /\ HasDeployed(d)' => canary = Len(revs)
                        /\ pc'[d] \in {"smoke_fbt", "promote"} =>
                             canary \in passed'.smoke_prod
                        /\ pc'[d] = "promote" => canary \in passed'.smoke_fbt
    BY <1>2, <2>2 DEF CanaryIsLast
  <2>4. CASE d = c
    BY <1>2, <1>7, <2>1, <2>4 DEF CanaryIsLast, HasDeployed
  <2>5. CASE d # c
    BY <1>2, <2>1, <2>5 DEF CanaryIsLast, HasDeployed
  <2> QED  BY <2>4, <2>5
<1>8. ASSUME byHand = 0  PROVE InOrder'
  <2>1. InOrder
    BY <1>8 DEF ServiceInv
  <2>2. \A d \in Pushed :
          /\ pc'[d] \in {"pending", "guard", "deploy"} =>
               pc[d] \in {"pending", "guard", "deploy"}
          /\ HasDeployed(d)' =>
               HasDeployed(d) \/ pc[d] \in {"pending", "guard", "deploy"}
          /\ pc'[d] = "pending" => pc[d] = "pending"
    BY <1>2 DEF HasDeployed, Steps, Ends
  <2>3. revs' = revs /\ tree' = tree
    OBVIOUS
  <2>4. \A k \in 1..Len(revs) : revs[k].commit \in Nat
    BY CommitFact DEF ServiceInv
  <2> QED  BY <1>2, <2>1, <2>2, <2>3, <2>4 DEF InOrder, Pushed
<1>9. ASSUME byHand = 0, ~ReadsMayFail  PROVE NamesStay'
  BY <1>2, <1>9 DEF ServiceInv, NamesStay
<1> QED  BY <1>1, <1>3, <1>4, <1>5, <1>6, <1>7, <1>8, <1>9 DEF ServiceInv

\* The steps of a job that leave the service alone are such steps.
LEMMA GuardKeeps ==
  ASSUME ServiceInv, NEW c \in Pushed, Guard(c)
  PROVE  ServiceInv'
<1>1. PICK live \in LiveReads :
        pc' = [pc EXCEPT ![c] = IF live # {} /\ WouldDrop(live, c) # {}
                                THEN "refused" ELSE "deploy"]
  BY DEF Guard, Goto
<1> DEFINE s == IF live # {} /\ WouldDrop(live, c) # {} THEN "refused" ELSE "deploy"
<1>2. pc[c] = "guard" /\ UNCHANGED <<tree, service, byHand, passed>>
  BY DEF Guard
<1>3. s = "deploy" /\ ~ReadsMayFail => Template.env \subseteq tree[c].declared
  BY DEF LiveReads, WouldDrop
<1>4. passed \in [{"smoke_prod", "smoke_fbt"} -> SUBSET (1..Len(revs))]
  BY DEF ServiceInv, TypeOK
<1>5. s \in {"refused", "deploy"} /\ pc' = [pc EXCEPT ![c] = s]
  BY <1>1
<1> HIDE DEF s
<1> QED  BY <1>2, <1>3, <1>4, <1>5, JobStepKeeps DEF Steps, Ends

\* The assertion after the deploy only reads.
LEMMA AssertKeeps ==
  ASSUME ServiceInv, NEW c \in Pushed, Assert(c)
  PROVE  ServiceInv'
<1>1. /\ pc[c] = "assert" /\ pc' = [pc EXCEPT ![c] = "smoke"]
      /\ UNCHANGED <<tree, service, byHand, passed>>
  BY DEF Assert, Goto
<1>2. passed \in [{"smoke_prod", "smoke_fbt"} -> SUBSET (1..Len(revs))]
  BY DEF ServiceInv, TypeOK
<1> QED  BY <1>1, <1>2, JobStepKeeps DEF Steps, Ends, HasDeployed

\* A failed step leaves the service as it is.
LEMMA FailKeeps ==
  ASSUME ServiceInv, NEW c \in Pushed, Fail(c)
  PROVE  ServiceInv'
<1>1. /\ pc[c] \in Steps /\ pc' = [pc EXCEPT ![c] = "failed"]
      /\ UNCHANGED <<tree, service, byHand, passed>>
  BY DEF Fail, Goto
<1>2. passed \in [{"smoke_prod", "smoke_fbt"} -> SUBSET (1..Len(revs))]
  BY DEF ServiceInv, TypeOK
<1>3. "failed" \in Ends
  BY DEF Ends
<1> QED  BY <1>1, <1>2, <1>3, JobStepKeeps

\* A smoke that passes is noted for the revision under the tag.
LEMMA SmokeKeeps ==
  ASSUME ServiceInv, NEW c \in Pushed, Smoke(c)
  PROVE  ServiceInv'
<1>1. canary \in 0..Len(revs)
      /\ passed \in [{"smoke_prod", "smoke_fbt"} -> SUBSET (1..Len(revs))]
  BY DEF ServiceInv, TypeOK
<1>2. byHand = 0 => CanaryIsLast
  BY DEF ServiceInv
<1>3. Len(revs) \in Nat /\ Len(revs) > 0
  BY DEF ServiceInv, TypeOK
<1>4. pc[c] \in {"smoke", "smoke_fbt"} => canary \in 1..Len(revs)
  BY <1>1, <1>3 DEF ServiceInv, TagIsThere, HasDeployed
<1>5. CASE Probe(c, "smoke", "smoke_prod", "smoke_fbt")
  <2>1. /\ pc[c] = "smoke" /\ pc' = [pc EXCEPT ![c] = "smoke_fbt"]
        /\ passed' = [passed EXCEPT !["smoke_prod"] = @ \cup {canary}]
        /\ UNCHANGED <<tree, service, byHand>>
    BY <1>5 DEF Probe, Goto
  <2>2. /\ passed'.smoke_prod = passed.smoke_prod \cup {canary}
        /\ passed'.smoke_fbt = passed.smoke_fbt
        /\ passed' \in [{"smoke_prod", "smoke_fbt"} -> SUBSET (1..Len(revs))]
    BY <1>1, <1>4, <2>1
  <2> QED  BY <2>1, <2>2, JobStepKeeps DEF Steps, Ends, HasDeployed
<1>6. CASE Probe(c, "smoke_fbt", "smoke_fbt", "promote")
  <2>1. /\ pc[c] = "smoke_fbt" /\ pc' = [pc EXCEPT ![c] = "promote"]
        /\ passed' = [passed EXCEPT !["smoke_fbt"] = @ \cup {canary}]
        /\ UNCHANGED <<tree, service, byHand>>
    BY <1>6 DEF Probe, Goto
  <2>2. /\ passed'.smoke_fbt = passed.smoke_fbt \cup {canary}
        /\ passed'.smoke_prod = passed.smoke_prod
        /\ passed' \in [{"smoke_prod", "smoke_fbt"} -> SUBSET (1..Len(revs))]
    BY <1>1, <1>4, <2>1
  <2>3. byHand = 0 => canary \in passed.smoke_prod
    BY <1>2, <2>1 DEF CanaryIsLast
  <2>4. "promote" \in Steps /\ pc[c] \in Steps /\ HasDeployed(c)
    BY <2>1 DEF Steps, HasDeployed
  <2>5. canary \in passed'.smoke_fbt /\ (byHand = 0 => canary \in passed'.smoke_prod)
    BY <2>2, <2>3
  <2> QED  BY <2>1, <2>2, <2>4, <2>5, JobStepKeeps
<1> QED  BY <1>5, <1>6 DEF Smoke

-----------------------------------------------------------------------------
\* A job starts when none is in progress.
LEMMA StartKeeps ==
  ASSUME ServiceInv, NEW c \in Pushed, Start(c)
  PROVE  ServiceInv'
<1>1. /\ pc[c] = "pending" /\ InProgress = {} /\ pc' = [pc EXCEPT ![c] = "guard"]
      /\ UNCHANGED <<tree, service, byHand, passed>>
  BY DEF Start, Goto
<1>2. TypeOK'
  BY <1>1 DEF ServiceInv, TypeOK, Pushed, Ready, Steps, Ends
<1>3. /\ Pushed' = Pushed /\ Ready' = Ready /\ Template' = Template
      /\ \A d \in Pushed : pc'[d] = IF d = c THEN "guard" ELSE pc[d]
  BY <1>1 DEF ServiceInv, TypeOK, Pushed, Ready, Template
<1>4. OneIsReady'
  BY <1>3 DEF ServiceInv, OneIsReady
<1>5. OneJob'
  BY <1>1, <1>3 DEF OneJob, InProgress
<1>6. \A d \in Pushed : HasDeployed(d)' => HasDeployed(d)
  BY <1>3 DEF HasDeployed
<1>7. LastIsReady' /\ TagIsThere'
  BY <1>1, <1>3, <1>6 DEF ServiceInv, LastIsReady, TagIsThere
<1>8. ASSUME byHand = 0  PROVE CanaryIsLast' /\ InOrder'
  <2>1. CanaryIsLast /\ InOrder
    BY <1>8 DEF ServiceInv
  <2>2. CanaryIsLast'
    BY <1>1, <1>3, <1>6, <2>1 DEF CanaryIsLast
  <2>3. InOrder'
    BY <1>1, <1>3, <1>6, <2>1 DEF InOrder
  <2> QED  BY <2>2, <2>3
<1>9. ASSUME byHand = 0, ~ReadsMayFail  PROVE NamesStay'
  BY <1>1, <1>3, <1>9 DEF ServiceInv, NamesStay
<1> QED  BY <1>1, <1>2, <1>4, <1>5, <1>7, <1>8, <1>9 DEF ServiceInv

\* A promotion unpins the traffic: the last revision is ready.
LEMMA PromoteKeeps ==
  ASSUME ServiceInv, NEW c \in Pushed, Promote(c)
  PROVE  ServiceInv'
<1>1. PICK s \in {"promoted", "failed"} :
        /\ pc[c] = "promote" /\ traffic' = 0 /\ pc' = [pc EXCEPT ![c] = s]
        /\ UNCHANGED <<tree, revs, canary, byHand, passed>>
  BY DEF Promote, Goto
<1>2. TypeOK'
  BY <1>1 DEF ServiceInv, TypeOK, Pushed, Ready, Steps, Ends
<1>3. /\ Pushed' = Pushed /\ Ready' = Ready /\ Template' = Template
      /\ \A d \in Pushed : pc'[d] = IF d = c THEN s ELSE pc[d]
  BY <1>1 DEF ServiceInv, TypeOK, Pushed, Ready, Template
<1>4. OneIsReady'
  BY <1>3 DEF ServiceInv, OneIsReady
<1>5. OneJob'
  BY <1>1, <1>3 DEF ServiceInv, OneJob, InProgress, Steps
<1>6. \A d \in Pushed : HasDeployed(d)' => HasDeployed(d)
  BY <1>3 DEF HasDeployed
<1>7. LastIsReady' /\ TagIsThere'
  BY <1>1, <1>3, <1>6 DEF ServiceInv, LastIsReady, TagIsThere, HasDeployed
<1>8. ASSUME byHand = 0  PROVE CanaryIsLast' /\ InOrder'
  <2>1. CanaryIsLast /\ InOrder
    BY <1>8 DEF ServiceInv
  <2>2. CanaryIsLast'
    BY <1>1, <1>3, <1>6, <2>1 DEF CanaryIsLast
  <2>3. InOrder'
    BY <1>1, <1>3, <1>6, <2>1 DEF InOrder
  <2> QED  BY <2>2, <2>3
<1>9. ASSUME byHand = 0, ~ReadsMayFail  PROVE NamesStay'
  BY <1>1, <1>3, <1>9 DEF ServiceInv, NamesStay
<1> QED  BY <1>1, <1>2, <1>4, <1>5, <1>7, <1>8, <1>9 DEF ServiceInv

-----------------------------------------------------------------------------
\* A new revision, whoever makes it.
LEMMA NewRevision ==
  ASSUME TypeOK, OneIsReady, NEW r \in Revision, revs' = Append(revs, r)
  PROVE  /\ Len(revs') = Len(revs) + 1 /\ Len(revs) \in Nat
         /\ revs' \in Seq(Revision)
         /\ \A k \in 1..Len(revs) : revs'[k] = revs[k]
         /\ revs'[Len(revs) + 1] = r
         /\ Template' = r
         /\ Ready \subseteq Ready'
         /\ OneIsReady'
<1>1. /\ Len(revs') = Len(revs) + 1 /\ Len(revs) \in Nat
      /\ revs' \in Seq(Revision)
      /\ \A k \in 1..Len(revs) : revs'[k] = revs[k]
      /\ revs'[Len(revs) + 1] = r
  BY DEF TypeOK
<1>2. Template' = r
  BY <1>1 DEF Template
<1>3. Ready' = Ready \cup {k \in {Len(revs) + 1} : r.ready}
  BY <1>1 DEF Ready
<1>4. PICK k \in Ready : \A j \in Ready : j <= k
  BY DEF OneIsReady
<1>5. k \in 1..Len(revs) /\ Ready \subseteq 1..Len(revs)
  BY DEF Ready
<1>6. ASSUME r.ready  PROVE OneIsReady'
  <2>1. Len(revs) + 1 \in Ready' /\ \A j \in Ready' : j <= Len(revs) + 1
    BY <1>1, <1>3, <1>5, <1>6
  <2> QED  BY <2>1 DEF OneIsReady
<1>7. ASSUME ~r.ready  PROVE OneIsReady'
  BY <1>3, <1>4, <1>7 DEF OneIsReady
<1> QED  BY <1>1, <1>2, <1>3, <1>6, <1>7

\* What a deploy adds to the service.
LEMMA DeployFact ==
  ASSUME ServiceInv, NEW c \in Pushed, Deploy(c)
  PROVE  \E ready \in BOOLEAN :
           /\ pc' = [pc EXCEPT ![c] = IF ready THEN "assert" ELSE "failed"]
           /\ Len(revs') = Len(revs) + 1 /\ Len(revs) \in Nat
           /\ revs' \in Seq(Revision)
           /\ \A k \in 1..Len(revs) : revs'[k] = revs[k]
           /\ Template' = revs'[Len(revs')]
           /\ Template'.ready = ready /\ Template'.commit = c
           /\ Template'.env = tree[c].declared
           /\ Ready \subseteq Ready' /\ OneIsReady'
<1> DEFINE rev(ready) == [tree |-> tree[c], commit |-> c,
                          env |-> tree[c].declared, ready |-> ready]
<1>1. PICK ready \in BOOLEAN :
        /\ revs' = Append(revs, rev(ready))
        /\ pc' = [pc EXCEPT ![c] = IF ready THEN "assert" ELSE "failed"]
  BY DEF Deploy, Goto
<1>2. TypeOK /\ OneIsReady /\ c \in Nat
  BY DEF ServiceInv, Pushed
<1>3. tree[c] \in Trees /\ tree[c].declared \in SUBSET Names
  <2>1. tree[c] \in Trees
    BY <1>2 DEF TypeOK, Pushed
  <2> QED  BY <2>1, PipelineAssumption DEF Tree
<1>4. rev(ready) \in Revision
  BY <1>2, <1>3 DEF Revision
<1>5. /\ rev(ready).commit = c /\ rev(ready).ready = ready
      /\ rev(ready).env = tree[c].declared
  OBVIOUS
<1> HIDE DEF rev
<1>6. /\ Len(revs') = Len(revs) + 1 /\ Len(revs) \in Nat
      /\ revs' \in Seq(Revision)
      /\ \A k \in 1..Len(revs) : revs'[k] = revs[k]
      /\ revs'[Len(revs) + 1] = rev(ready)
      /\ Template' = rev(ready)
      /\ Ready \subseteq Ready' /\ OneIsReady'
  BY <1>1, <1>2, <1>4, NewRevision
<1> QED  BY <1>1, <1>5, <1>6

\* A deploy keeps the order of commits: the job is of a later one than any before.
LEMMA DeployKeeps ==
  ASSUME ServiceInv, NEW c \in Pushed, Deploy(c)
  PROVE  ServiceInv'
<1>1. PICK ready \in BOOLEAN :
           /\ pc' = [pc EXCEPT ![c] = IF ready THEN "assert" ELSE "failed"]
           /\ Len(revs') = Len(revs) + 1 /\ Len(revs) \in Nat
           /\ revs' \in Seq(Revision)
           /\ \A k \in 1..Len(revs) : revs'[k] = revs[k]
           /\ Template' = revs'[Len(revs')]
           /\ Template'.ready = ready /\ Template'.commit = c
           /\ Template'.env = tree[c].declared
           /\ Ready \subseteq Ready' /\ OneIsReady'
  BY DeployFact
<1>2. /\ pc[c] = "deploy" /\ traffic' = Serving /\ canary' = Len(revs')
      /\ UNCHANGED <<tree, byHand, passed>>
  BY DEF Deploy, PinnedTraffic
<1>3. TypeOK /\ OneIsReady /\ OneJob /\ c \in Nat
  BY DEF ServiceInv, Pushed
<1>4. /\ Pushed' = Pushed
      /\ \A d \in Pushed :
           pc'[d] = IF d = c THEN (IF ready THEN "assert" ELSE "failed") ELSE pc[d]
  BY <1>1, <1>2, <1>3 DEF TypeOK, Pushed
<1>5. Serving \in Ready
  BY <1>3, ServingFact
<1>6. TypeOK'
  <2>1. pc' \in Seq(Steps \cup Ends \cup {"pending"}) /\ Len(pc') = Len(tree')
    BY <1>1, <1>2, <1>3 DEF TypeOK, Pushed, Steps, Ends
  <2>2. Ready' # {} /\ traffic' \in Ready' \cup {0} /\ canary' \in 0..Len(revs')
    BY <1>1, <1>2, <1>5
  <2>3. passed' \in [{"smoke_prod", "smoke_fbt"} -> SUBSET (1..Len(revs'))]
    BY <1>1, <1>2, <1>3 DEF TypeOK
  <2> QED  BY <1>1, <1>2, <1>3, <2>1, <2>2, <2>3 DEF TypeOK
<1>7. \A d \in Pushed : d # c => pc[d] \notin Steps
  BY <1>2, <1>3 DEF OneJob, InProgress, Steps
<1>8. OneJob'
  BY <1>2, <1>4, <1>7 DEF OneJob, InProgress
<1>9. \A d \in Pushed : HasDeployed(d)' => d = c /\ ready
  BY <1>4, <1>7 DEF HasDeployed, Steps
<1>10. LastIsReady' /\ TagIsThere'
  <2>1. traffic' # 0
    BY <1>2, <1>5 DEF Ready
  <2> QED  BY <1>1, <1>2, <1>4, <1>9, <2>1 DEF LastIsReady, TagIsThere
<1>11. CanaryIsLast'
  BY <1>2, <1>4, <1>7, <1>9 DEF CanaryIsLast, HasDeployed, Steps
<1>12. ASSUME byHand = 0  PROVE InOrder'
  <2>1. InOrder
    BY <1>3, <1>12 DEF ServiceInv
  <2>2. \A k \in 1..Len(revs) : revs[k].commit \in Nat /\ revs[k].commit < c
    BY <1>2, <1>3, <2>1, CommitFact DEF InOrder
  <2>3. \A k \in 1..Len(revs') :
          revs'[k].commit = IF k = Len(revs') THEN c ELSE revs[k].commit
    BY <1>1
  <2>4. \A j, k \in 1..Len(revs') : j <= k => revs'[j].commit <= revs'[k].commit
    BY <1>1, <1>3, <2>1, <2>2, <2>3 DEF InOrder
  <2>5. \A k \in 1..Len(revs') : revs'[k].commit \in Nat /\ revs'[k].commit <= c
    BY <1>1, <1>3, <2>2, <2>3
  <2>6. c <= Len(tree) /\ Len(tree) \in Nat
    BY <1>3 DEF Pushed, TypeOK
  <2>7. \A d \in Pushed : pc'[d] \in {"pending", "guard", "deploy"} =>
          d = Len(tree) /\ d # c /\ pc'[d] = "pending"
    BY <1>4, <1>7, <2>1 DEF InOrder, Steps
  <2>8. \A k \in 1..Len(revs') : revs'[k].commit <= Len(tree')
    BY <1>2, <1>3, <2>5, <2>6
  <2>9. \A d \in Pushed' : \A k \in 1..Len(revs') :
          /\ pc'[d] \in {"pending", "guard", "deploy"} => revs'[k].commit < d
          /\ HasDeployed(d)' => revs'[k].commit <= d
    <3>1. SUFFICES ASSUME NEW d \in Pushed, NEW k \in 1..Len(revs')
                   PROVE  /\ pc'[d] \in {"pending", "guard", "deploy"} =>
                               revs'[k].commit < d
                          /\ HasDeployed(d)' => revs'[k].commit <= d
      BY <1>4
    <3>2. revs'[k].commit \in Nat /\ revs'[k].commit <= c
      BY <2>5
    <3>3. pc'[d] \in {"pending", "guard", "deploy"} => c < d
      BY <1>3, <2>6, <2>7
    <3> QED  BY <1>3, <1>9, <2>6, <3>2, <3>3
  <2>10. \A d \in Pushed' : pc'[d] = "pending" => d = Len(tree')
    BY <1>2, <1>4, <2>7
  <2> QED  BY <2>4, <2>8, <2>9, <2>10 DEF InOrder
<1>13. ASSUME byHand = 0, ~ReadsMayFail  PROVE NamesStay'
  BY <1>4, <1>7 DEF NamesStay, Steps
<1> QED  BY <1>1, <1>2, <1>6, <1>8, <1>10, <1>11, <1>12, <1>13 DEF ServiceInv

\* A push adds a commit, and its job supersedes the one that waits.
LEMMA PushKeeps ==
  ASSUME ServiceInv, Push
  PROVE  ServiceInv'
<1>1. PICK t \in Trees : tree' = Append(tree, t)
  BY DEF Push
<1> DEFINE old == [c \in Pushed |-> IF pc[c] = "pending" THEN "superseded" ELSE pc[c]]
<1>2. pc' = Append(old, "pending") /\ UNCHANGED <<service, passed, byHand>>
  BY DEF Push
<1>3. TypeOK /\ Len(tree) \in Nat
  BY DEF ServiceInv, TypeOK
<1>4. old \in Seq(Steps \cup Ends \cup {"pending"}) /\ Len(old) = Len(tree)
  BY <1>3 DEF TypeOK, Pushed, Steps, Ends
<1>5. \A c \in Pushed : old[c] = IF pc[c] = "pending" THEN "superseded" ELSE pc[c]
  OBVIOUS
<1> HIDE DEF old
<1>6. Len(tree') = Len(tree) + 1 /\ Pushed' = Pushed \cup {Len(tree')}
  <2>1. Len(tree') = Len(tree) + 1
    BY <1>1, <1>3 DEF TypeOK
  <2> QED  BY <1>3, <2>1 DEF Pushed
<1>7. Len(tree') \notin Pushed /\ pc'[Len(tree')] = "pending"
  BY <1>2, <1>3, <1>4, <1>6 DEF Pushed
<1>8. \A c \in Pushed : tree'[c] = tree[c]
  BY <1>1, <1>3 DEF TypeOK, Pushed
<1>9. \A c \in Pushed : pc'[c] = IF pc[c] = "pending" THEN "superseded" ELSE pc[c]
  <2>1. \A c \in Pushed : pc'[c] = old[c]
    BY <1>2, <1>3, <1>4 DEF Pushed
  <2> QED  BY <1>5, <2>1
<1>10. TypeOK'
  BY <1>1, <1>2, <1>3, <1>4 DEF TypeOK, Ready
<1>11. Ready' = Ready /\ Template' = Template
  BY <1>2 DEF Ready, Template
<1>12. OneIsReady'
  BY <1>11 DEF ServiceInv, OneIsReady
<1>13. \A c \in Pushed' :
         /\ HasDeployed(c)' => c \in Pushed /\ HasDeployed(c)
         /\ pc'[c] \in Steps => c \in Pushed /\ pc[c] \in Steps
         /\ pc'[c] \in Steps => pc'[c] = pc[c]
  <2>1. "pending" \notin Steps /\ "superseded" \notin Steps
    BY DEF Steps
  <2>2. \A c \in Pushed' : pc'[c] \in Steps => c \in Pushed /\ pc'[c] = pc[c]
    BY <1>6, <1>7, <1>9, <2>1
  <2> QED  BY <2>2 DEF HasDeployed, Steps
<1>14. OneJob'
  BY <1>13 DEF ServiceInv, OneJob, InProgress
<1>15. LastIsReady' /\ TagIsThere'
  BY <1>2, <1>11, <1>13 DEF ServiceInv, LastIsReady, TagIsThere
<1>16. ASSUME byHand = 0  PROVE CanaryIsLast'
  <2>1. CanaryIsLast
    BY <1>16 DEF ServiceInv
  <2> QED  BY <1>2, <1>13, <2>1 DEF CanaryIsLast, Steps
<1>17. ASSUME byHand = 0  PROVE InOrder'
  <2>1. InOrder
    BY <1>17 DEF ServiceInv
  <2>2. \A k \in 1..Len(revs) : revs[k].commit \in Nat
    BY <1>3, CommitFact
  <2>3. \A k \in 1..Len(revs') : revs'[k].commit <= Len(tree')
    BY <1>2, <1>3, <1>6, <2>1, <2>2 DEF InOrder
  <2>4. \A c \in Pushed' : pc'[c] = "pending" => c = Len(tree')
    BY <1>6, <1>9
  <2>5. \A c \in Pushed' : \A k \in 1..Len(revs') :
          /\ pc'[c] \in {"pending", "guard", "deploy"} => revs'[k].commit < c
          /\ HasDeployed(c)' => revs'[k].commit <= c
    <3>1. SUFFICES ASSUME NEW c \in Pushed', NEW k \in 1..Len(revs)
                   PROVE  /\ pc'[c] \in {"pending", "guard", "deploy"} =>
                               revs[k].commit < c
                          /\ HasDeployed(c)' => revs[k].commit <= c
      BY <1>2
    <3>2. CASE c = Len(tree')
      BY <1>3, <1>6, <1>7, <1>13, <2>1, <2>2, <3>2 DEF InOrder
    <3>3. CASE c \in Pushed
      <4>1. /\ pc'[c] \in {"pending", "guard", "deploy"} =>
                 pc[c] \in {"pending", "guard", "deploy"}
            /\ HasDeployed(c)' => HasDeployed(c)
        BY <1>9, <1>13, <3>3 DEF Steps
      <4> QED  BY <2>1, <3>3, <4>1 DEF InOrder
    <3> QED  BY <1>6, <3>2, <3>3
  <2> QED  BY <1>2, <2>1, <2>3, <2>4, <2>5 DEF InOrder
<1>18. ASSUME byHand = 0, ~ReadsMayFail  PROVE NamesStay'
  <2>1. NamesStay
    BY <1>18 DEF ServiceInv
  <2>2. \A c \in Pushed' : pc'[c] = "deploy" => c \in Pushed /\ pc[c] = "deploy"
    BY <1>13 DEF Steps
  <2>3. \A c \in Pushed' : pc'[c] = "deploy" =>
          Template'.env \subseteq tree'[c].declared
    BY <1>8, <1>11, <2>1, <2>2 DEF NamesStay
  <2> QED  BY <2>3 DEF NamesStay
<1> QED  BY <1>2, <1>10, <1>12, <1>14, <1>15, <1>16, <1>17, <1>18 DEF ServiceInv

\* What changes when a revision gets ready.
LEMMA GetsReadyFact ==
  ASSUME ServiceInv, GetsReady
  PROVE  /\ Len(revs') = Len(revs) /\ revs' \in Seq(Revision) /\ Len(revs) \in Nat
         /\ \A j \in 1..Len(revs) :
              revs'[j].commit = revs[j].commit /\ revs'[j].env = revs[j].env
         /\ \E k \in 1..Len(revs) : ~revs[k].ready /\ Ready' = Ready \cup {k}
         /\ Template'.env = Template.env /\ (Template.ready => Template'.ready)
<1>1. PICK k \in 1..Len(revs) :
        ~revs[k].ready /\ revs' = [revs EXCEPT ![k].ready = TRUE]
  BY DEF GetsReady
<1>2. TypeOK /\ Len(revs) \in Nat /\ Len(revs) > 0
  BY DEF ServiceInv, TypeOK
<1>3. \A j \in 1..Len(revs) : revs[j] \in Revision
  BY <1>2, CommitFact
<1>4. Len(revs') = Len(revs) /\ revs' \in Seq(Revision)
  <2>1. [revs[k] EXCEPT !.ready = TRUE] \in Revision
    BY <1>3 DEF Revision
  <2> QED  BY <1>1, <1>2, <2>1 DEF TypeOK
<1>5. \A j \in 1..Len(revs) :
        /\ revs'[j].ready = (j = k \/ revs[j].ready)
        /\ revs'[j].commit = revs[j].commit /\ revs'[j].env = revs[j].env
  <2>1. \A j \in 1..Len(revs) :
          revs'[j] = IF j = k THEN [revs[k] EXCEPT !.ready = TRUE] ELSE revs[j]
    BY <1>1, <1>2 DEF TypeOK
  <2> SUFFICES ASSUME NEW j \in 1..Len(revs)
               PROVE  /\ revs'[j].ready = (j = k \/ revs[j].ready)
                      /\ revs'[j].commit = revs[j].commit
                      /\ revs'[j].env = revs[j].env
    OBVIOUS
  <2>2. CASE j = k
    <3>1. revs'[k] = [revs[k] EXCEPT !.ready = TRUE] /\ revs[k] \in Revision
      BY <1>3, <2>1
    <3> QED  BY <2>2, <3>1 DEF Revision
  <2>3. CASE j # k
    <3>1. revs'[j] = revs[j] /\ revs[j].ready \in BOOLEAN
      BY <1>3, <2>1, <2>3 DEF Revision
    <3> QED  BY <2>3, <3>1, Zenon
  <2> QED  BY <2>2, <2>3
<1>6. Ready' = Ready \cup {k}
  BY <1>4, <1>5 DEF Ready
<1>7. Template'.env = Template.env /\ (Template.ready => Template'.ready)
  <2>1. Len(revs) \in 1..Len(revs)
    BY <1>2
  <2> QED  BY <1>4, <1>5, <2>1 DEF Template
<1> QED  BY <1>1, <1>2, <1>4, <1>5, <1>6, <1>7

\* Readiness is noticed by no job.
LEMMA GetsReadyKeeps ==
  ASSUME ServiceInv, GetsReady
  PROVE  ServiceInv'
<1>1. UNCHANGED <<tree, pc, traffic, canary, passed, byHand>>
  BY DEF GetsReady
<1>2. TypeOK /\ OneIsReady
  BY DEF ServiceInv
<1>3. /\ Len(revs') = Len(revs) /\ revs' \in Seq(Revision) /\ Len(revs) \in Nat
      /\ \A j \in 1..Len(revs) :
           revs'[j].commit = revs[j].commit /\ revs'[j].env = revs[j].env
      /\ Template'.env = Template.env /\ (Template.ready => Template'.ready)
  BY GetsReadyFact
<1>4. PICK k \in 1..Len(revs) : Ready' = Ready \cup {k}
  BY GetsReadyFact
<1>5. OneIsReady'
  <2>1. PICK m \in Ready : \A j \in Ready : j <= m
    BY <1>2 DEF OneIsReady
  <2>2. k \in Nat /\ m \in Nat /\ Ready \subseteq Nat
    BY <2>1 DEF Ready
  <2>3. CASE k <= m
    BY <1>4, <2>1, <2>2, <2>3 DEF OneIsReady
  <2>4. CASE m <= k
    BY <1>4, <2>1, <2>2, <2>4 DEF OneIsReady
  <2> QED  BY <2>2, <2>3, <2>4
<1>6. TypeOK'
  BY <1>1, <1>2, <1>3, <1>4 DEF TypeOK, Pushed
<1>7. OneJob' /\ TagIsThere'
  BY <1>1 DEF ServiceInv, OneJob, InProgress, Pushed, TagIsThere, HasDeployed
<1>8. LastIsReady'
  BY <1>1, <1>3 DEF ServiceInv, LastIsReady, Pushed, HasDeployed
<1>9. ASSUME byHand = 0  PROVE CanaryIsLast' /\ InOrder'
  <2>1. CanaryIsLast /\ InOrder
    BY <1>9 DEF ServiceInv
  <2>2. CanaryIsLast'
    BY <1>1, <1>3, <2>1 DEF CanaryIsLast, Pushed, HasDeployed
  <2>3. InOrder'
    BY <1>1, <1>3, <2>1 DEF InOrder, Pushed, HasDeployed
  <2> QED  BY <2>2, <2>3
<1>10. ASSUME byHand = 0, ~ReadsMayFail  PROVE NamesStay'
  BY <1>1, <1>3, <1>10 DEF ServiceInv, NamesStay, Pushed
<1> QED  BY <1>1, <1>5, <1>6, <1>7, <1>8, <1>9, <1>10 DEF ServiceInv

-----------------------------------------------------------------------------
\* Once there has been a step by hand, only the first parts are left to keep.
LEMMA ByHandKeeps ==
  ASSUME ServiceInv, ByHand, OneIsReady', LastIsReady', canary' = canary,
         revs' \in Seq(Revision), Len(revs) \in Nat, Len(revs') \in Nat,
         Len(revs) <= Len(revs'), traffic' \in Ready' \cup {0}
  PROVE  ServiceInv'
<1>1. byHand' # 0 /\ byHand' \in 0..MaxByHand
  BY PipelineAssumption DEF ServiceInv, TypeOK, ByHand
<1>2. UNCHANGED <<tree, pc, passed>>
  BY DEF ByHand
<1>3. OneJob' /\ TagIsThere'
  BY <1>2 DEF ServiceInv, OneJob, InProgress, Pushed, TagIsThere, HasDeployed
<1>4. TypeOK'
  <2>1. Ready' # {}
    BY DEF OneIsReady
  <2>2. passed \in [{"smoke_prod", "smoke_fbt"} -> SUBSET (1..Len(revs))]
        /\ canary \in 0..Len(revs) /\ Len(revs) > 0
    BY DEF ServiceInv, TypeOK
  <2>3. 1..Len(revs) \subseteq 1..Len(revs') /\ 0..Len(revs) \subseteq 0..Len(revs')
        /\ Len(revs') > 0
    BY <2>2
  <2>4. passed' \in [{"smoke_prod", "smoke_fbt"} -> SUBSET (1..Len(revs'))]
    BY <1>2, <2>2, <2>3
  <2> QED  BY <1>1, <1>2, <2>1, <2>2, <2>3, <2>4 DEF ServiceInv, TypeOK
<1> QED  BY <1>1, <1>3, <1>4 DEF ServiceInv

\* make deploy.
LEMMA MakeDeployKeeps ==
  ASSUME ServiceInv, MakeDeploy
  PROVE  ServiceInv'
<1>1. PICK c \in Pushed :
        revs' = Append(revs, [tree |-> tree[c], commit |-> c,
                              env |-> Template.env, ready |-> TRUE])
  BY DEF MakeDeploy
<1> DEFINE r == [tree |-> tree[c], commit |-> c, env |-> Template.env, ready |-> TRUE]
<1>2. ByHand /\ traffic' = traffic /\ canary' = canary
  BY DEF MakeDeploy
<1>3. TypeOK /\ OneIsReady
  BY DEF ServiceInv
<1>4. r \in Revision /\ r.ready
  <2>1. tree[c] \in Trees /\ c \in Nat
    BY <1>3 DEF TypeOK, Pushed
  <2>2. Template \in Revision
    BY <1>3 DEF TypeOK, Template
  <2> QED  BY <2>1, <2>2 DEF Revision
<1> HIDE DEF r
<1>5. /\ Len(revs') = Len(revs) + 1 /\ Len(revs) \in Nat
      /\ revs' \in Seq(Revision) /\ Template' = r
      /\ Ready \subseteq Ready' /\ OneIsReady'
  BY <1>1, <1>3, <1>4, NewRevision DEF r
<1>6. LastIsReady'
  BY <1>4, <1>5 DEF LastIsReady
<1>7. traffic' \in Ready' \cup {0}
  BY <1>2, <1>3, <1>5 DEF TypeOK
<1>8. Len(revs') \in Nat /\ Len(revs) <= Len(revs')
  BY <1>5
<1> QED  BY <1>2, <1>5, <1>6, <1>7, <1>8, ByHandKeeps

\* A change of variables by hand.
LEMMA SetEnvVarsKeeps ==
  ASSUME ServiceInv, SetEnvVars
  PROVE  ServiceInv'
<1>1. PICK env \in SUBSET Names :
        revs' = Append(revs, [Template EXCEPT !.env = env, !.ready = TRUE])
  BY DEF SetEnvVars
<1> DEFINE r == [Template EXCEPT !.env = env, !.ready = TRUE]
<1>2. ByHand /\ traffic' = traffic /\ canary' = canary
  BY DEF SetEnvVars
<1>3. TypeOK /\ OneIsReady
  BY DEF ServiceInv
<1>4. r \in Revision /\ r.ready
  <2>1. Template \in Revision
    BY <1>3 DEF TypeOK, Template
  <2> QED  BY <2>1 DEF Revision
<1> HIDE DEF r
<1>5. /\ Len(revs') = Len(revs) + 1 /\ Len(revs) \in Nat
      /\ revs' \in Seq(Revision) /\ Template' = r
      /\ Ready \subseteq Ready' /\ OneIsReady'
  BY <1>1, <1>3, <1>4, NewRevision DEF r
<1>6. LastIsReady'
  BY <1>4, <1>5 DEF LastIsReady
<1>7. traffic' \in Ready' \cup {0}
  BY <1>2, <1>3, <1>5 DEF TypeOK
<1>8. Len(revs') \in Nat /\ Len(revs) <= Len(revs')
  BY <1>5
<1> QED  BY <1>2, <1>5, <1>6, <1>7, <1>8, ByHandKeeps

\* A rollback pins the traffic.
LEMMA RollBackKeeps ==
  ASSUME ServiceInv, RollBack
  PROVE  ServiceInv'
<1>1. ByHand /\ traffic' \in Ready /\ UNCHANGED <<revs, canary>>
      /\ UNCHANGED <<tree, pc>>
  BY DEF RollBack, ByHand
<1>2. Ready' = Ready /\ Template' = Template /\ Pushed' = Pushed
  BY <1>1 DEF Ready, Template, Pushed
<1>3. OneIsReady'
  BY <1>2 DEF ServiceInv, OneIsReady
<1>4. LastIsReady'
  <2>1. traffic' # 0
    BY <1>1 DEF Ready
  <2> QED  BY <1>1, <1>2, <2>1 DEF ServiceInv, LastIsReady, HasDeployed
<1>5. revs' \in Seq(Revision) /\ Len(revs) \in Nat /\ Len(revs) <= Len(revs')
      /\ Len(revs') \in Nat
  BY <1>1 DEF ServiceInv, TypeOK
<1> QED  BY <1>1, <1>2, <1>3, <1>4, <1>5, ByHandKeeps

-----------------------------------------------------------------------------
\* Every step keeps the invariant.
LEMMA NextKeeps ==
  ASSUME ServiceInv, Next
  PROVE  ServiceInv'
<1>1. ASSUME NEW c \in Pushed, Job(c)  PROVE ServiceInv'
  BY <1>1, GuardKeeps, DeployKeeps, AssertKeeps, SmokeKeeps, PromoteKeeps,
     FailKeeps DEF Job
<1>2. ASSUME Operator  PROVE ServiceInv'
  BY <1>2, MakeDeployKeeps, SetEnvVarsKeeps, RollBackKeeps DEF Operator
<1> QED  BY <1>1, <1>2, PushKeeps, StartKeeps, GetsReadyKeeps DEF Next

\* So does a stuttering step.
LEMMA StutterKeeps ==
  ASSUME ServiceInv, UNCHANGED vars
  PROVE  ServiceInv'
<1>1. UNCHANGED <<tree, pc, revs, traffic, canary, passed, byHand>>
  BY DEF vars
<1>2. TypeOK' /\ OneIsReady'
  BY <1>1 DEF ServiceInv, TypeOK, OneIsReady, Ready
<1>3. OneJob' /\ LastIsReady' /\ TagIsThere'
  BY <1>1 DEF ServiceInv, OneJob, InProgress, Pushed, LastIsReady, TagIsThere, HasDeployed,
              Template
<1>4. (CanaryIsLast => CanaryIsLast') /\ (InOrder => InOrder') /\ (NamesStay => NamesStay')
  BY <1>1 DEF CanaryIsLast, InOrder, NamesStay, Pushed, HasDeployed, Template
<1> QED  BY <1>1, <1>2, <1>3, <1>4 DEF ServiceInv

\* The first deployment establishes it.
LEMMA InitHolds == Init => ServiceInv
<1> SUFFICES ASSUME Init  PROVE ServiceInv
  OBVIOUS
<1>1. PICK t \in Trees :
        revs = <<[tree |-> t, commit |-> 0, env |-> t.declared, ready |-> TRUE]>>
  BY DEF Init
<1>2. /\ tree = <<>> /\ pc = <<>> /\ traffic = 0 /\ canary = 0 /\ byHand = 0
      /\ passed = [smoke_prod |-> {1}, smoke_fbt |-> {1}]
  BY DEF Init
<1> DEFINE r == [tree |-> t, commit |-> 0, env |-> t.declared, ready |-> TRUE]
<1>3. r \in Revision /\ r.ready /\ r.commit = 0
  BY PipelineAssumption DEF Revision, Tree
<1> HIDE DEF r
<1>4. revs = <<r>>
  BY <1>1 DEF r
<1>5. revs \in Seq(Revision) /\ Len(revs) = 1 /\ revs[1] = r
  BY <1>3, <1>4
<1>6. Ready = {1} /\ Template = r /\ Pushed = {}
  BY <1>2, <1>3, <1>5 DEF Ready, Template, Pushed
<1>7. TypeOK
  BY <1>2, <1>5, <1>6, PipelineAssumption DEF TypeOK
<1>8. OneIsReady
  BY <1>6 DEF OneIsReady
<1>9. OneJob /\ LastIsReady /\ TagIsThere /\ CanaryIsLast /\ NamesStay
  BY <1>3, <1>6 DEF OneJob, InProgress, LastIsReady, TagIsThere, CanaryIsLast, NamesStay
<1>10. InOrder
  <2>1. Len(tree) = 0
    BY <1>2
  <2> QED  BY <1>3, <1>5, <1>6, <2>1 DEF InOrder
<1> QED  BY <1>7, <1>8, <1>9, <1>10 DEF ServiceInv

\* The inductive invariant, under which a job and the operator may interleave in
\* any way.
THEOREM ServiceHolds == Spec => []ServiceInv
<1>1. ServiceInv /\ [Next]_vars => ServiceInv'
  BY NextKeeps, StutterKeeps
<1> QED  BY InitHolds, <1>1, PTL DEF Spec

\* Type correctness.
THEOREM TypeCorrect == Spec => []TypeOK
<1>1. ServiceInv => TypeOK
  BY DEF ServiceInv
<1> QED  BY <1>1, ServiceHolds, PTL

-----------------------------------------------------------------------------
\* What CHOOSE gives in LatestReady when the greatest is known.
LEMMA GreatestFact ==
  ASSUME NEW S \in SUBSET Nat, NEW m \in S, \A j \in S : j <= m
  PROVE  (CHOOSE k \in S : \A j \in S : j <= k) = m
<1> DEFINE g == CHOOSE k \in S : \A j \in S : j <= k
<1>1. g \in S /\ \A j \in S : j <= g
  OBVIOUS
<1>2. g <= m /\ m <= g /\ g \in Nat /\ m \in Nat
  BY <1>1
<1> QED  BY <1>2

\* Where the last revision is ready, it is the latest one that is.
LEMMA LastServes ==
  ASSUME TypeOK, Template.ready
  PROVE  Len(revs) \in Ready /\ LatestReady = Len(revs)
<1>1. Len(revs) \in Ready /\ Ready \in SUBSET Nat /\ \A j \in Ready : j <= Len(revs)
  BY DEF TypeOK, Ready, Template
<1> QED  BY <1>1, GreatestFact DEF LatestReady

\* A job's or GitHub's step that is no promotion leaves the traffic where it is.
LEMMA TrafficStays ==
  ASSUME ServiceInv, Next
  PROVE  \/ Serving' = Serving
         \/ \E c \in Pushed : Promote(c)
         \/ Operator
<1>1. TypeOK /\ OneIsReady
  BY DEF ServiceInv
<1>2. ASSUME UNCHANGED service  PROVE Serving' = Serving
  BY <1>2 DEF Serving, LatestReady, Ready
<1>3. ASSUME Push \/ (\E c \in Pushed : Start(c))  PROVE Serving' = Serving
  BY <1>2, <1>3 DEF Push, Start
<1>4. ASSUME NEW c \in Pushed, Guard(c) \/ Assert(c) \/ Smoke(c) \/ Fail(c)
      PROVE  Serving' = Serving
  BY <1>2, <1>4 DEF Guard, Assert, Smoke, Probe, Fail
<1>5. ASSUME NEW c \in Pushed, Deploy(c)  PROVE Serving' = Serving
  <2>1. traffic' = Serving /\ Serving # 0
    BY <1>1, <1>5, ServingFact DEF Deploy, PinnedTraffic
  <2> QED  BY <2>1 DEF Serving
<1>6. ASSUME GetsReady  PROVE Serving' = Serving
  <2>1. PICK k \in 1..Len(revs) :
          ~revs[k].ready /\ revs' = [revs EXCEPT ![k].ready = TRUE]
    BY <1>6 DEF GetsReady
  <2>2. traffic' = traffic
    BY <1>6 DEF GetsReady
  <2>3. CASE traffic = 0
    <3>1. Template.ready
      BY <2>3 DEF ServiceInv, LastIsReady
    <3>2. Len(revs) \in Ready /\ LatestReady = Len(revs)
      BY <1>1, <3>1, LastServes
    <3>3. Ready' \in SUBSET Nat /\ Len(revs) \in Ready' /\ \A j \in Ready' : j <= Len(revs)
      BY <1>1, <2>1, <3>2 DEF TypeOK, Ready
    <3>4. LatestReady' = Len(revs)
      BY <3>3, GreatestFact DEF LatestReady
    <3> QED  BY <2>2, <2>3, <3>2, <3>4 DEF Serving
  <2>4. CASE traffic # 0
    BY <2>2, <2>4 DEF Serving
  <2> QED  BY <2>3, <2>4
<1> QED  BY <1>3, <1>4, <1>5, <1>6 DEF Next, Job

\* A step by hand counts.
LEMMA OperatorFact ==
  ASSUME ServiceInv, Operator
  PROVE  byHand' # byHand /\ byHand' # 0
<1>1. ByHand
  BY DEF Operator, MakeDeploy, SetEnvVars, RollBack
<1>2. byHand \in Nat
  BY PipelineAssumption DEF ServiceInv, TypeOK
<1>3. byHand' = byHand + 1
  BY <1>1 DEF ByHand
<1> QED  BY <1>2, <1>3

\* The traffic moves at a promotion or by hand only, whatever the operator has
\* done before and whichever revisions get ready late.
THEOREM TrafficMoves == Spec => TrafficMovesAtPromotion
<1>1. ServiceInv /\ [Next]_vars =>
        [Serving' # Serving =>
           (\E c \in Pushed : pc[c] = "promote") \/ byHand' # byHand]_vars
  <2>1. ASSUME ServiceInv, Next, Serving' # Serving
        PROVE  (\E c \in Pushed : pc[c] = "promote") \/ byHand' # byHand
    <3>1. ASSUME NEW c \in Pushed, Promote(c)  PROVE pc[c] = "promote"
      BY <3>1 DEF Promote
    <3> QED  BY <2>1, <3>1, OperatorFact, TrafficStays
  <2> QED  BY <2>1
<1> QED  BY <1>1, ServiceHolds, PTL DEF Spec, TrafficMovesAtPromotion

\* As long as nobody has worked by hand: a promotion puts the traffic on the
\* revision under the tag, which is the last.
LEMMA PromotionFact ==
  ASSUME ServiceInv, byHand = 0, NEW c \in Pushed, Promote(c)
  PROVE  /\ pc[c] = "promote" /\ revs' = revs
         /\ Serving' = Len(revs) /\ Len(revs) \in Nat
         /\ Len(revs) \in passed.smoke_prod \cap passed.smoke_fbt
<1>1. /\ pc[c] = "promote" /\ traffic' = 0 /\ revs' = revs
      /\ TypeOK /\ HasDeployed(c)
  BY DEF Promote, ServiceInv, HasDeployed
<1>2. Template.ready
  BY <1>1 DEF ServiceInv, LastIsReady
<1>3. canary = Len(revs) /\ canary \in passed.smoke_prod \cap passed.smoke_fbt
  BY <1>1 DEF ServiceInv, CanaryIsLast
<1>4. LatestReady = Len(revs) /\ Len(revs) \in Nat
  BY <1>1, <1>2, LastServes DEF TypeOK
<1>5. LatestReady' = LatestReady
  BY <1>1 DEF LatestReady, Ready
<1> QED  BY <1>1, <1>3, <1>4, <1>5 DEF Serving

\* Where nobody has worked by hand after a step, nobody had before.
LEMMA NotByHand ==
  ASSUME ServiceInv, Next, byHand' = 0
  PROVE  byHand = 0 /\ ~Operator
<1>1. ~Operator
  BY OperatorFact
<1>2. byHand' = byHand
  BY <1>1 DEF Next, Push, Start, Job, Guard, Deploy, Assert, Smoke, Probe, Promote,
              Fail, GetsReady
<1> QED  BY <1>1, <1>2

\* What a promotion puts the traffic on has passed both smokes.
THEOREM PromotedWasSmoked == Spec => PromotesSmoked
<1>1. ServiceInv /\ [Next]_vars =>
        [\A c \in Pushed :
           byHand' = 0 /\ pc[c] = "promote" /\ Serving' # Serving =>
             Serving' \in passed.smoke_prod \cap passed.smoke_fbt]_vars
  <2>1. ASSUME ServiceInv, Next, byHand' = 0, Serving' # Serving
        PROVE  Serving' \in passed.smoke_prod \cap passed.smoke_fbt
    <3>1. byHand = 0 /\ ~Operator
      BY <2>1, NotByHand
    <3>2. PICK c \in Pushed : Promote(c)
      BY <2>1, <3>1, TrafficStays
    <3> QED  BY <2>1, <3>1, <3>2, PromotionFact
  <2> QED  BY <2>1
<1> QED  BY <1>1, ServiceHolds, PTL DEF Spec, PromotesSmoked

\* A revision keeps its commit.
LEMMA CommitStays ==
  ASSUME ServiceInv, Next, ~Operator, NEW k \in 1..Len(revs)
  PROVE  revs'[k].commit = revs[k].commit
<1>1. ASSUME revs' = revs  PROVE revs'[k].commit = revs[k].commit
  BY <1>1
<1>2. ASSUME GetsReady  PROVE revs'[k].commit = revs[k].commit
  BY <1>2, GetsReadyFact
<1>3. ASSUME NEW c \in Pushed, Deploy(c)  PROVE revs'[k].commit = revs[k].commit
  BY <1>3, DeployFact
<1>4. revs' = revs \/ GetsReady \/ \E c \in Pushed : Deploy(c)
  BY DEF Next, Push, Start, Job, Guard, Assert, Smoke, Probe, Promote, Fail
<1> QED  BY <1>1, <1>2, <1>3, <1>4

\* The commit in service never goes back.
THEOREM NeverGoesBack == Spec => ServiceNeverGoesBack
<1>1. ServiceInv /\ [Next]_vars =>
        [byHand' = 0 => revs'[Serving'].commit >= revs[Serving].commit]_vars
  <2>1. ASSUME ServiceInv, Next, byHand' = 0
        PROVE  revs'[Serving'].commit >= revs[Serving].commit
    <3>1. byHand = 0 /\ ~Operator /\ TypeOK /\ OneIsReady /\ InOrder
      BY <2>1, NotByHand DEF ServiceInv
    <3>2. Serving \in 1..Len(revs) /\ revs[Serving].commit \in Nat
      BY <3>1, ServingFact, CommitFact
    <3>3. CASE \E c \in Pushed : Promote(c)
      <4>1. revs' = revs /\ Serving' = Len(revs) /\ Len(revs) \in Nat
        BY <2>1, <3>1, <3>3, PromotionFact
      <4>2. Len(revs) \in 1..Len(revs) /\ Serving <= Len(revs)
        BY <3>2, <4>1
      <4>3. revs[Len(revs)].commit \in Nat
        BY <3>1, <4>2, CommitFact
      <4>4. revs[Serving].commit <= revs[Len(revs)].commit
        BY <3>1, <3>2, <4>2 DEF InOrder
      <4> QED  BY <3>2, <4>1, <4>3, <4>4
    <3>4. CASE Serving' = Serving
      <4>1. revs'[Serving].commit = revs[Serving].commit
        BY <2>1, <3>1, <3>2, CommitStays
      <4> QED  BY <3>2, <3>4, <4>1
    <3> QED  BY <2>1, <3>1, <3>3, <3>4, TrafficStays
  <2> QED  BY <2>1
<1> QED  BY <1>1, ServiceHolds, PTL DEF Spec, ServiceNeverGoesBack

\* Where `describe` does not fail, a deploy takes no name off the service.
THEOREM NoNameDropped ==
  ASSUME ~ReadsMayFail
  PROVE  Spec => NoNameIsDropped
<1>1. ServiceInv /\ [Next]_vars =>
        [\A c \in Pushed :
           byHand' = 0 /\ pc[c] = "deploy" /\ revs' # revs =>
             Template.env \subseteq Template'.env]_vars
  <2>1. ASSUME ServiceInv, Next, NEW c \in Pushed, byHand' = 0, pc[c] = "deploy",
               revs' # revs
        PROVE  Template.env \subseteq Template'.env
    <3>1. byHand = 0 /\ ~Operator /\ TypeOK /\ OneJob /\ NamesStay
      BY <2>1, NotByHand DEF ServiceInv
    <3>2. GetsReady \/ \E d \in Pushed : Deploy(d)
      BY <2>1, <3>1 DEF Next, Job, Push, Start, Guard, Assert, Smoke, Probe, Promote, Fail
    <3>3. CASE GetsReady
      BY <2>1, <3>1, <3>3, GetsReadyFact
    <3>4. ASSUME NEW d \in Pushed, Deploy(d)
          PROVE  Template.env \subseteq Template'.env
      <4>1. pc[d] = "deploy"
        BY <3>4 DEF Deploy
      <4>2. Template.env \subseteq tree[d].declared
        BY <3>1, <4>1 DEF NamesStay
      <4>3. Template'.env = tree[d].declared
        BY <2>1, <3>1, <3>4, DeployFact
      <4> QED  BY <4>2, <4>3
    <3> QED  BY <3>2, <3>3, <3>4
  <2> QED  BY <2>1
<1> QED  BY <1>1, ServiceHolds, PTL DEF Spec, NoNameIsDropped

-----------------------------------------------------------------------------
(***************************************************************************)
(* The queue of jobs.                                                      *)
(***************************************************************************)
\* A step of a job takes it to a later step or to an end.
LEMMA JobFact ==
  ASSUME NEW c \in Pushed, Job(c)
  PROVE  /\ pc[c] \in Steps /\ tree' = tree
         /\ \E s \in Steps \cup (Ends \ {"superseded"}) :
              pc' = [pc EXCEPT ![c] = s] /\ Rank[pc[c]] < Rank[s]
<1> DEFINE Ending == Ends \ {"superseded"}
<1>1. /\ Rank["guard"] = 1 /\ Rank["deploy"] = 2 /\ Rank["assert"] = 3
      /\ Rank["smoke"] = 4 /\ Rank["smoke_fbt"] = 5 /\ Rank["promote"] = 6
      /\ \A e \in Ending : Rank[e] = 7
  BY DEF Rank, Steps, Ends
<1>2. {"refused", "failed", "promoted"} \subseteq Ending
  BY DEF Ends
<1> DEFINE Goal == /\ pc[c] \in Steps /\ tree' = tree
                   /\ \E s \in Steps \cup Ending :
                        pc' = [pc EXCEPT ![c] = s] /\ Rank[pc[c]] < Rank[s]
<1>3. ASSUME NEW s \in Steps \cup Ending, Goto(c, s), pc[c] \in Steps,
             tree' = tree, Rank[pc[c]] < Rank[s]
      PROVE  Goal
  BY <1>3 DEF Goto
<1> SUFFICES Goal
  OBVIOUS
<1> HIDE DEF Ending, Goal
<1>4. CASE Guard(c)
  <2>1. /\ pc[c] = "guard" /\ tree' = tree
        /\ Goto(c, "refused") \/ Goto(c, "deploy")
    BY <1>4 DEF Guard
  <2>2. /\ "refused" \in Steps \cup Ending /\ Rank["guard"] < Rank["refused"]
        /\ "deploy" \in Steps \cup Ending /\ Rank["guard"] < Rank["deploy"]
        /\ "guard" \in Steps
    BY <1>1, <1>2 DEF Steps
  <2> QED  BY <1>3, <2>1, <2>2
<1>5. CASE Deploy(c)
  <2>1. /\ pc[c] = "deploy" /\ tree' = tree
        /\ Goto(c, "assert") \/ Goto(c, "failed")
    BY <1>5 DEF Deploy
  <2>2. /\ "assert" \in Steps \cup Ending /\ Rank["deploy"] < Rank["assert"]
        /\ "failed" \in Steps \cup Ending /\ Rank["deploy"] < Rank["failed"]
        /\ "deploy" \in Steps
    BY <1>1, <1>2 DEF Steps
  <2> QED  BY <1>3, <2>1, <2>2
<1>6. CASE Assert(c)
  <2>1. pc[c] = "assert" /\ tree' = tree /\ Goto(c, "smoke")
    BY <1>6 DEF Assert
  <2>2. /\ "smoke" \in Steps \cup Ending /\ Rank["assert"] < Rank["smoke"]
        /\ "assert" \in Steps
    BY <1>1 DEF Steps
  <2> QED  BY <1>3, <2>1, <2>2
<1>7. CASE Smoke(c)
  <2>1. /\ tree' = tree
        /\ \/ pc[c] = "smoke" /\ Goto(c, "smoke_fbt")
           \/ pc[c] = "smoke_fbt" /\ Goto(c, "promote")
    BY <1>7 DEF Smoke, Probe
  <2>2. /\ "smoke_fbt" \in Steps /\ Rank["smoke"] < Rank["smoke_fbt"]
        /\ "promote" \in Steps /\ Rank["smoke_fbt"] < Rank["promote"]
        /\ "smoke" \in Steps
    BY <1>1 DEF Steps
  <2> QED  BY <1>3, <2>1, <2>2
<1>8. CASE Promote(c)
  <2>1. /\ pc[c] = "promote" /\ tree' = tree
        /\ Goto(c, "promoted") \/ Goto(c, "failed")
    BY <1>8 DEF Promote
  <2>2. /\ "promoted" \in Steps \cup Ending /\ Rank["promote"] < Rank["promoted"]
        /\ "failed" \in Steps \cup Ending /\ Rank["promote"] < Rank["failed"]
        /\ "promote" \in Steps
    BY <1>1, <1>2 DEF Steps
  <2> QED  BY <1>3, <2>1, <2>2
<1>9. CASE Fail(c)
  <2>1. pc[c] \in Steps /\ tree' = tree /\ Goto(c, "failed")
    BY <1>9 DEF Fail
  <2>2. Rank[pc[c]] < Rank["failed"] /\ "failed" \in Ending
    BY <1>1, <1>2, <2>1 DEF Steps
  <2> QED  BY <1>3, <2>1, <2>2
<1> QED  BY <1>4, <1>5, <1>6, <1>7, <1>8, <1>9 DEF Job

\* The start of a job makes it the one in progress.
LEMMA StartFact ==
  ASSUME NEW c \in Pushed, Start(c)
  PROVE  /\ pc[c] = "pending" /\ tree' = tree /\ InProgress = {}
         /\ pc' = [pc EXCEPT ![c] = "guard"] /\ Rank[pc[c]] < Rank["guard"]
BY DEF Start, Goto, Rank, Steps, Ends

\* Nothing else but a push moves a job.
LEMMA JobsStay ==
  ASSUME GetsReady \/ Operator \/ UNCHANGED vars
  PROVE  UNCHANGED <<tree, pc>>
BY DEF GetsReady, Operator, MakeDeploy, SetEnvVars, RollBack, ByHand, vars

\* A push supersedes the job that waits, and queues its own.
LEMMA PushFact ==
  ASSUME ServiceInv, Push
  PROVE  /\ Len(tree) \in Nat /\ Len(tree') = Len(tree) + 1
         /\ Pushed' = Pushed \cup {Len(tree) + 1}
         /\ \A c \in Pushed : c \in Nat /\ c < Len(tree')
         /\ \A c \in Pushed :
              pc'[c] = IF pc[c] = "pending" THEN "superseded" ELSE pc[c]
         /\ pc'[Len(tree')] = "pending"
<1> DEFINE kept == [c \in Pushed |-> IF pc[c] = "pending" THEN "superseded" ELSE pc[c]]
           steps == Steps \cup Ends \cup {"pending"}
<1>1. tree \in Seq(Trees) /\ pc \in Seq(steps) /\ Len(pc) = Len(tree)
  BY DEF ServiceInv, TypeOK
<1>2. Len(tree) \in Nat /\ Len(tree') = Len(tree) + 1
  BY <1>1 DEF Push
<1>3. kept \in Seq(steps) /\ Len(kept) = Len(tree)
  <2>1. \A c \in Pushed : pc[c] \in steps
    BY <1>1 DEF Pushed
  <2>2. kept \in [1..Len(tree) -> steps]
    BY <2>1 DEF Pushed, Ends
  <2> HIDE DEF kept, steps
  <2> QED  BY <1>2, <2>2
<1>4. pc' = Append(kept, "pending")
  BY DEF Push
<1>5. \A c \in Pushed : kept[c] = IF pc[c] = "pending" THEN "superseded" ELSE pc[c]
  OBVIOUS
<1> HIDE DEF kept, steps
<1>6. (\A c \in Pushed : pc'[c] = kept[c]) /\ pc'[Len(tree) + 1] = "pending"
  BY <1>2, <1>3, <1>4 DEF Pushed
<1> QED  BY <1>2, <1>5, <1>6 DEF Pushed

LEMMA PushQueues ==
  ASSUME ServiceInv, QueueInv, Push
  PROVE  QueueInv'
<1> DEFINE N == Len(tree) + 1
<1>1. /\ N \in Nat /\ Len(tree') = N /\ Pushed' = Pushed \cup {N}
      /\ \A c \in Pushed : c \in Nat /\ c < N
      /\ \A c \in Pushed :
           pc'[c] = IF pc[c] = "pending" THEN "superseded" ELSE pc[c]
      /\ pc'[N] = "pending"
  BY PushFact
<1> HIDE DEF N
<1>2. ASSUME NEW c \in Pushed', pc'[c] = "superseded" PROVE c < Len(tree')
  BY <1>1, <1>2
<1>3. ASSUME NEW c \in Pushed', pc'[c] = "pending" PROVE c = Len(tree')
  BY <1>1, <1>3
<1>4. ASSUME NEW c \in Pushed', NEW d \in Pushed', c < d,
             pc'[d] \notin {"pending", "superseded"}
      PROVE  pc'[c] \in Ends
  <2>1. d \in Pushed /\ pc'[d] = pc[d] /\ pc[d] # "pending"
    BY <1>1, <1>4
  <2>2. c \in Pushed
    BY <1>1, <1>4, <2>1
  <2>3. pc[c] \in Ends
    BY <1>4, <2>1, <2>2 DEF QueueInv
  <2> QED  BY <1>1, <2>2, <2>3 DEF Ends
<1> QED  BY <1>2, <1>3, <1>4 DEF QueueInv

LEMMA StartQueues ==
  ASSUME ServiceInv, QueueInv, NEW c \in Pushed, Start(c)
  PROVE  QueueInv'
<1>1. /\ pc[c] = "pending" /\ tree' = tree /\ InProgress = {} /\ Pushed' = Pushed
      /\ pc' = [pc EXCEPT ![c] = "guard"]
  BY StartFact DEF Pushed
<1>2. /\ DOMAIN pc = Pushed /\ Len(tree) \in Nat
      /\ \A d \in Pushed : pc[d] \in Steps \cup Ends \cup {"pending"}
  BY DEF ServiceInv, TypeOK, Pushed
<1>3. c = Len(tree) /\ \A d \in Pushed : d # c => d < c /\ pc[d] \in Ends
  <2>1. c = Len(tree)
    BY <1>1 DEF QueueInv
  <2>2. ASSUME NEW d \in Pushed, d # c PROVE d < c /\ pc[d] \in Ends
    <3>1. d < c
      BY <1>2, <2>1, <2>2 DEF Pushed
    <3>2. pc[d] # "pending" /\ pc[d] \notin Steps
      BY <1>1, <2>1, <2>2 DEF QueueInv, InProgress
    <3> QED  BY <1>2, <3>1, <3>2
  <2> QED  BY <2>1, <2>2
<1>4. pc'[c] = "guard" /\ \A d \in Pushed : d # c => pc'[d] = pc[d]
  BY <1>1, <1>2
<1> QED  BY <1>1, <1>2, <1>3, <1>4 DEF QueueInv, Pushed, Ends

LEMMA JobQueues ==
  ASSUME ServiceInv, QueueInv, NEW c \in Pushed, Job(c)
  PROVE  QueueInv'
<1>1. PICK s \in Steps \cup (Ends \ {"superseded"}) : pc' = [pc EXCEPT ![c] = s]
  BY JobFact
<1>2. pc[c] \in Steps /\ tree' = tree /\ Pushed' = Pushed
  BY JobFact DEF Pushed
<1>3. DOMAIN pc = Pushed
  BY DEF ServiceInv, TypeOK, Pushed
<1>4. pc'[c] = s /\ \A d \in Pushed : d # c => pc'[d] = pc[d]
  BY <1>1, <1>3
<1>5. s # "pending" /\ s # "superseded" /\ pc[c] \notin Ends \cup {"pending"}
  BY <1>2 DEF Steps, Ends
<1>6. ASSUME NEW b \in Pushed, NEW d \in Pushed, b < d,
             pc'[d] \notin {"pending", "superseded"}
      PROVE  pc'[b] \in Ends
  <2>1. pc[d] \notin {"pending", "superseded"}
    BY <1>4, <1>5, <1>6 DEF Ends
  <2>2. pc[b] \in Ends
    BY <1>6, <2>1 DEF QueueInv
  <2> QED  BY <1>4, <1>5, <2>2
<1>7. \A d \in Pushed : /\ pc'[d] = "superseded" => d < Len(tree)
                        /\ pc'[d] = "pending" => d = Len(tree)
  BY <1>4, <1>5 DEF QueueInv
<1> QED  BY <1>2, <1>6, <1>7 DEF QueueInv

LEMMA NextQueue == ServiceInv /\ QueueInv /\ [Next]_vars => QueueInv'
<1>1. ASSUME ServiceInv, QueueInv, UNCHANGED <<tree, pc>> PROVE QueueInv'
  BY <1>1 DEF QueueInv, Pushed
<1> QED  BY <1>1, PushQueues, StartQueues, JobQueues, JobsStay DEF Next

\* The inductive invariant, whatever is pushed, whichever jobs fail and whatever
\* is done by hand. Of the queue it says that the job of the last push is never
\* passed over.
THEOREM InvariantHolds == Spec => []IInv
<1>1. Init => QueueInv
  BY DEF Init, QueueInv, Pushed
<1> QED  BY <1>1, ServiceHolds, NextQueue, PTL DEF Spec, IInv

\* The safety half of LastPushIsTried: no job is taken back or taken up again, so
\* each comes to its end after seven steps at most.
THEOREM JobsDoMoveOn == Spec => JobsMoveOn
<1> DEFINE A == /\ \A c \in Pushed : pc'[c] # pc[c] => Rank[pc[c]] < Rank[pc'[c]]
                /\ \A c \in Pushed : Start(c) \/ Job(c) => pc'[c] # pc[c]
<1>1. ASSUME ServiceInv, NEW c \in Pushed, Start(c) \/ Job(c)
      PROVE  A
  <2>1. PICK s : pc' = [pc EXCEPT ![c] = s] /\ Rank[pc[c]] < Rank[s]
    BY <1>1, JobFact, StartFact
  <2>2. DOMAIN pc = Pushed /\ \A d \in Pushed : Rank[pc[d]] \in Nat
    <3>1. \A d \in Pushed : pc[d] \in Steps \cup Ends \cup {"pending"}
      BY <1>1 DEF ServiceInv, TypeOK, Pushed
    <3> QED  BY <1>1, <3>1 DEF ServiceInv, TypeOK, Pushed, Rank, Steps, Ends
  <2>3. ASSUME NEW d \in Pushed, pc'[d] # pc[d] PROVE Rank[pc[d]] < Rank[pc'[d]]
    BY <2>1, <2>2, <2>3
  <2>4. ASSUME NEW d \in Pushed, Start(d) \/ Job(d) PROVE pc'[d] # pc[d]
    <3>1. PICK u : pc' = [pc EXCEPT ![d] = u] /\ Rank[pc[d]] < Rank[u]
      BY <2>4, JobFact, StartFact
    <3> QED  BY <2>2, <3>1
  <2> QED  BY <2>3, <2>4
<1>2. ASSUME ServiceInv, Push
      PROVE  \A c \in Pushed : /\ pc'[c] # pc[c] => Rank[pc[c]] < Rank[pc'[c]]
                               /\ ~Start(c) /\ ~Job(c)
  <2>1. Rank["pending"] < Rank["superseded"]
    BY DEF Rank, Steps, Ends
  <2>2. tree' # tree
    BY <1>2, PushFact
  <2> QED  BY <1>2, <2>1, <2>2, PushFact, JobFact, StartFact
<1>3. ASSUME UNCHANGED <<tree, pc>>
      PROVE  \A c \in Pushed : pc'[c] = pc[c]
  BY <1>3
<1>4. ServiceInv /\ [Next]_vars => [A]_vars
  <2> SUFFICES ASSUME ServiceInv, Next PROVE A
    OBVIOUS
  <2>1. CASE \E c \in Pushed : Start(c) \/ Job(c)
    BY <1>1, <2>1
  <2>2. CASE ~ \E c \in Pushed : Start(c) \/ Job(c)
    <3>1. Push \/ UNCHANGED <<tree, pc>>
      BY <2>2, JobsStay DEF Next
    <3> QED  BY <1>2, <1>3, <2>2, <3>1
  <2> QED  BY <2>1, <2>2
<1> QED  BY <1>4, ServiceHolds, PTL DEF Spec, JobsMoveOn
=============================================================================
