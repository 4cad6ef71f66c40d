-------------------------- MODULE AuthProbeProofs --------------------------
(***************************************************************************)
(* Theorems about AuthProbe, for any environments of a revision, any       *)
(* requests to the probe and any number of changes of what mints.          *)
(***************************************************************************)
EXTENDS AuthProbeInvariant, SequenceTheorems, TLAPS

\* The audiences of a report.
ReportedOn(reports) == [i \in DOMAIN reports |-> reports[i].audience]

\* They are a sequence as long as the report.
LEMMA ReportedOnSeq ==
  ASSUME NEW reports \in Seq(Result)
  PROVE  /\ ReportedOn(reports) \in Seq(Audiences)
         /\ Len(ReportedOn(reports)) = Len(reports)
         /\ \A i \in 1..Len(reports) : ReportedOn(reports)[i] = reports[i].audience
<1> DEFINE n == Len(reports)
           f == [i \in 1..n |-> reports[i].audience]
<1>1. n \in Nat /\ DOMAIN reports = 1..n /\ \A i \in 1..n : reports[i] \in Result
  BY LenProperties, ElementOfSeq
<1>2. ReportedOn(reports) = f
  BY <1>1 DEF ReportedOn
<1> HIDE DEF n
<1>3. f \in [1..n -> Audiences]
  BY <1>1 DEF Result
<1>4. f \in Seq(Audiences) /\ Len(f) = n
  BY <1>1, <1>3
<1> QED  BY <1>2, <1>4 DEF n

\* A sequence is its head before its tail.
LEMMA HeadBeforeTail ==
  ASSUME NEW S, NEW s \in Seq(S), s # <<>>
  PROVE  Head(s) \in S /\ <<Head(s)>> \o Tail(s) = s
<1> DEFINE h == <<Head(s)>>
           t == Tail(s)
<1>1. /\ t \in Seq(S) /\ Len(t) = Len(s) - 1 /\ Head(s) \in S
      /\ \A i \in 1..Len(t) : t[i] = s[i + 1]
  BY HeadTailProperties
<1>2. /\ h \in Seq(S) /\ Len(h) = 1 /\ h[1] = s[1]
      /\ Len(s) \in Nat \ {0}
  BY <1>1, EmptySeq
<1> HIDE DEF h, t
<1>3. /\ h \o t \in Seq(S) /\ Len(h \o t) = Len(s)
      /\ \A i \in 1..Len(h) + Len(t) :
           (h \o t)[i] = IF i <= Len(h) THEN h[i] ELSE t[i - Len(h)]
  <2>1. h \in Seq(S) /\ t \in Seq(S)
    BY <1>1, <1>2
  <2>2. /\ h \o t \in Seq(S) /\ Len(h \o t) = Len(h) + Len(t)
        /\ \A i \in 1..Len(h) + Len(t) :
             (h \o t)[i] = IF i <= Len(h) THEN h[i] ELSE t[i - Len(h)]
    BY <2>1, ConcatProperties, Zenon
  <2> QED  BY <1>1, <1>2, <2>2
<1>4. \A i \in 1..Len(s) : (h \o t)[i] = s[i]
  BY <1>1, <1>2, <1>3
<1>5. h \o t = s
  BY <1>3, <1>4, SeqEqual
<1> QED  BY <1>1, <1>5 DEF h, t

\* With a result for the first audience to do, that audience is done.
LEMMA OneDone ==
  ASSUME NEW reports \in Seq(Result), NEW left \in Seq(Audiences), left # <<>>,
         NEW one \in Result, one.audience = Head(left)
  PROVE  ReportedOn(Append(reports, one)) \o Tail(left) = ReportedOn(reports) \o left
<1> DEFINE more == Append(reports, one)
           a    == ReportedOn(reports)
           b    == ReportedOn(more)
           h    == Head(left)
<1>1. /\ more \in Seq(Result) /\ Len(more) = Len(reports) + 1
      /\ \A i \in 1..Len(reports) : more[i] = reports[i]
      /\ more[Len(reports) + 1] = one
      /\ Len(reports) \in Nat
  BY AppendProperties, LenProperties
<1>2. /\ a \in Seq(Audiences) /\ Len(a) = Len(reports)
      /\ \A i \in 1..Len(reports) : a[i] = reports[i].audience
  BY ReportedOnSeq
<1>3. /\ b \in Seq(Audiences) /\ Len(b) = Len(more)
      /\ \A i \in 1..Len(more) : b[i] = more[i].audience
  <2> HIDE DEF more
  <2> QED  BY <1>1, ReportedOnSeq
<1>4. h \in Audiences /\ <<h>> \o Tail(left) = left /\ Tail(left) \in Seq(Audiences)
  BY HeadBeforeTail, HeadTailProperties
<1> HIDE DEF more, a, b, h
<1>5. b = Append(a, h)
  <2>1. /\ Append(a, h) \in Seq(Audiences) /\ Len(Append(a, h)) = Len(a) + 1
        /\ \A i \in 1..Len(a) : Append(a, h)[i] = a[i]
        /\ Append(a, h)[Len(a) + 1] = h
    BY <1>2, <1>4, AppendProperties
  <2>2. one.audience = h
    BY DEF h
  <2>3. \A i \in 1..Len(b) : b[i] = Append(a, h)[i]
    BY <1>1, <1>2, <1>3, <2>1, <2>2
  <2> QED  BY <1>1, <1>2, <1>3, <2>1, <2>3, SeqEqual
<1>6. b = a \o <<h>>
  BY <1>2, <1>4, <1>5, AppendIsConcat
<1>7. (a \o <<h>>) \o Tail(left) = a \o (<<h>> \o Tail(left))
  <2>1. <<h>> \in Seq(Audiences)
    BY <1>4
  <2> QED  BY <1>2, <1>4, <2>1, ConcatAssociative
<1> QED  BY <1>4, <1>6, <1>7 DEF more, a, b

-----------------------------------------------------------------------------
\* What the configuration and the call give the probe to do.
LEMMA Given ==
  ASSUME Typed
  PROVE  /\ config.urls \in [Engines -> Audiences]
         /\ Asked \in Seq(Audiences) /\ Asked # <<>>
<1>1. config \in Config /\ call \in Call \cup {NoCall}
  BY AuthProbeAssumption DEF Typed
<1>2. config.urls \in [Engines -> Audiences]
  BY <1>1 DEF Config
<1>3. call.audiences \in Seq(Audiences)
  <2>1. CASE call = NoCall
    BY <2>1, EmptySeq DEF NoCall
  <2>2. CASE call \in Call
    BY <2>2 DEF Call
  <2> QED  BY <1>1, <2>1, <2>2
<1>4. /\ ConfiguredEngineAudiences \in Seq(Audiences)
      /\ ConfiguredEngineAudiences # <<>>
  BY <1>2 DEF ConfiguredEngineAudiences, Engines
<1> QED  BY <1>2, <1>3, <1>4 DEF Asked

\* The tokens issued for the i-th result.
By(i) == {t.by : t \in {x \in issued : x.n = i}}

\* The report on one result is true of the tokens issued for it.
TrueOf(one, by) ==
  CASE one.path = "none"            -> one.status = "FAIL" /\ by = {}
    [] one.path = "direct_metadata" -> one.status = "OK" /\ by = {"direct"}
    [] one.path = "fetch_id_token"  ->
         one.status = "OK" /\ by \in {{"direct_metadata"}, {"fetch_id_token"}}

LEMMA ReportIsTrueOf ==
  ReportIsTrue <=> /\ \A i \in DOMAIN results : TrueOf(results[i], By(i))
                   /\ issued # {} => call.header = config.secret
BY DEF ReportIsTrue, TrueOf, By

\* A token issued for the next result leaves those of the others alone.
LEMMA IssueFact ==
  ASSUME TokensReported, NEW n \in Nat, n = Len(results), NEW b, Issue(b)
  PROVE  /\ \A i \in 1..n : By(i)' = By(i)
         /\ By(n + 1)' = {b}
         /\ \A x \in issued' : x.n \in 1..(n + 1)
<1> DEFINE new == [n |-> n + 1, by |-> b]
<1>1. /\ issued' = issued \cup {new}
      /\ \A x \in issued : x.n \in 1..n
  BY DEF Issue, TokensReported
<1>2. new.n = n + 1 /\ new.by = b
  OBVIOUS
<1> HIDE DEF new
<1>3. ASSUME NEW i \in 1..n PROVE By(i)' = By(i)
  <2>1. {x \in issued' : x.n = i} = {x \in issued : x.n = i}
    BY <1>1, <1>2
  <2> QED  BY <2>1 DEF By
<1>4. By(n + 1)' = {b}
  <2>1. {x \in issued' : x.n = n + 1} = {new}
    BY <1>1, <1>2
  <2> QED  BY <1>2, <2>1 DEF By
<1>5. \A x \in issued' : x.n \in 1..(n + 1)
  BY <1>1, <1>2
<1> QED  BY <1>3, <1>4, <1>5

\* What a result for the first audience to do leaves.
LEMMA Appended ==
  ASSUME Typed, todo # <<>>, NEW one \in Result, one.audience = Head(todo),
         results' = Append(results, one), todo' = Tail(todo)
  PROVE  /\ results' \in Seq(Result) /\ todo' \in Seq(Audiences)
         /\ Len(results) \in Nat /\ Len(results') = Len(results) + 1
         /\ DOMAIN results = 1..Len(results) /\ DOMAIN results' = 1..Len(results')
         /\ \A i \in 1..Len(results) : results'[i] = results[i]
         /\ results'[Len(results) + 1] = one
         /\ todo' = <<>> <=> Len(todo) = 1
         /\ ReportedOn(results') \o todo' = ReportedOn(results) \o todo
<1>1. results \in Seq(Result) /\ todo \in Seq(Audiences)
  BY DEF Typed
<1>2. /\ results' \in Seq(Result)
      /\ Len(results) \in Nat /\ Len(results') = Len(results) + 1
      /\ \A i \in 1..Len(results) : results'[i] = results[i]
      /\ results'[Len(results) + 1] = one
  BY <1>1, AppendProperties, LenProperties
<1>3. DOMAIN results = 1..Len(results) /\ DOMAIN results' = 1..Len(results')
  BY <1>1, <1>2, LenProperties
<1>4. todo' \in Seq(Audiences) /\ Len(todo') = Len(todo) - 1 /\ Len(todo) \in Nat \ {0}
  BY <1>1, HeadTailProperties, EmptySeq
<1>5. todo' = <<>> <=> Len(todo) = 1
  BY <1>4, EmptySeq
<1>6. ReportedOn(results') \o todo' = ReportedOn(results) \o todo
  BY <1>1, OneDone
<1> QED  BY <1>2, <1>3, <1>4, <1>5, <1>6

\* A result keeps the invariant if it is true of the token just issued, or of
\* none, and, as long as nothing has changed, names the fixed path.
LEMMA ReportKeeps ==
  ASSUME IInv, pc["probe"] \in ProbeStages,
         NEW status \in {"OK", "FAIL"}, NEW by \in Paths, Report(status, by),
         UNCHANGED <<config, mints, flips, path, call>>,
         \/ status = "FAIL" /\ by = "none" /\ issued' = issued
         \/ status = "OK" /\ by = "direct_metadata" /\ Issue("direct")
         \/ /\ status = "OK" /\ by = "fetch_id_token"
            /\ \E b \in {"direct_metadata", "fetch_id_token"} : Issue(b),
         flips = 0 /\ ~IsLocalhostAudience(Head(todo)) => by = FixedPath(Head(todo))
  PROVE  IInv'
<1> DEFINE one == [audience |-> Head(todo), status |-> status, path |-> by]
<1>1. /\ Typed /\ TypeOK /\ LoopHeld /\ TokensReported /\ ReportIsTrue /\ PathsFixed
      /\ loop = "probe" /\ todo # <<>> /\ http = 0
      /\ call.header = config.secret
      /\ ReportedOn(results) \o todo = Asked
  BY DEF IInv, LoopHeld, TypeOK, Tasks, ReportedOn
<1>2. one \in Result
  <2>1. Head(todo) \in Audiences
    BY <1>1, HeadTailProperties DEF Typed
  <2> QED  BY <2>1 DEF Result
<1>3. results' = Append(results, one) /\ todo' = Tail(todo)
  BY DEF Report
<1>4. one.audience = Head(todo) /\ one.status = status /\ one.path = by
  OBVIOUS
<1> HIDE DEF one
<1>5. PICK n \in Nat : n = Len(results)
  BY <1>1, LenProperties DEF Typed
<1>6. /\ results' \in Seq(Result) /\ todo' \in Seq(Audiences)
      /\ DOMAIN results = 1..n /\ DOMAIN results' = 1..(n + 1)
      /\ Len(results') = n + 1
      /\ \A i \in 1..n : results'[i] = results[i]
      /\ results'[n + 1] = one
      /\ todo' = <<>> <=> Len(todo) = 1
      /\ ReportedOn(results') \o todo' = Asked
  BY <1>1, <1>2, <1>3, <1>4, <1>5, Appended
<1>7. /\ pc' = [pc EXCEPT !["probe"] = IF todo' = <<>> THEN "done" ELSE "direct_1"]
      /\ loop' = IF todo' = <<>> THEN Free ELSE "probe"
      /\ http' = IF todo' = <<>> THEN 200 ELSE 0
  BY <1>1, <1>6 DEF Report, Goto
<1>8. /\ pc'["probe"] = IF todo' = <<>> THEN "done" ELSE "direct_1"
      /\ \A e \in Engines : pc'[e] = pc[e] /\ pc[e] \notin ProbeStages
      /\ Engines \subseteq Tasks /\ Tasks = Engines \cup {"probe"}
      /\ "probe" \notin Engines /\ Free \notin Tasks
  BY <1>1, <1>7, AuthProbeAssumption DEF Typed, LoopHeld, Tasks, Engines
<1>9. /\ \A i \in 1..n : By(i)' = By(i)
      /\ TrueOf(one, By(n + 1)')
      /\ \A x \in issued' : x.n \in 1..(n + 1)
      /\ issued' \in SUBSET Issued
  <2>1. CASE status = "FAIL" /\ by = "none" /\ issued' = issued
    <3>1. \A x \in issued : x.n \in 1..n
      BY <1>1, <1>5 DEF TokensReported
    <3>2. By(n + 1) = {}
      BY <3>1 DEF By
    <3>3. \A i \in Nat : By(i)' = By(i)
      BY <2>1 DEF By
    <3>4. TrueOf(one, {})
      BY <1>4, <2>1 DEF TrueOf
    <3>5. By(n + 1)' = {}
      BY <3>2, <3>3
    <3>6. issued' \in SUBSET Issued
      BY <1>1, <2>1 DEF Typed
    <3>7. \A x \in issued' : x.n \in 1..(n + 1)
      BY <2>1, <3>1
    <3>8. \A i \in 1..n : By(i)' = By(i)
      BY <3>3
    <3> QED  BY <3>4, <3>5, <3>6, <3>7, <3>8
  <2>2. ASSUME NEW b, Issue(b), status = "OK",
               \/ by = "direct_metadata" /\ b = "direct"
               \/ by = "fetch_id_token" /\ b \in {"direct_metadata", "fetch_id_token"}
        PROVE  /\ \A i \in 1..n : By(i)' = By(i)
               /\ TrueOf(one, By(n + 1)')
               /\ \A x \in issued' : x.n \in 1..(n + 1)
               /\ issued' \in SUBSET Issued
    <3>1. /\ \A i \in 1..n : By(i)' = By(i)
          /\ By(n + 1)' = {b}
          /\ \A x \in issued' : x.n \in 1..(n + 1)
      BY <1>1, <1>5, <2>2, IssueFact
    <3>2. issued' \in SUBSET Issued
      BY <1>1, <1>5, <2>2 DEF Issue, Typed, Issued
    <3> QED  BY <1>4, <2>2, <3>1, <3>2 DEF TrueOf
  <2> QED  BY <2>1, <2>2
<1>10. Asked' = Asked
  BY DEF Asked, ConfiguredEngineAudiences
<1>11. TypeOK'
  <2>1. loop' \in Tasks \cup {Free} /\ http' \in {0, 200, 404, 500}
    BY <1>7, <1>8
  <2>2. /\ mints' \in [Sources -> BOOLEAN]
        /\ path' \in [Engines -> {"none", "direct_metadata", "fetch_id_token"}]
    BY <1>1 DEF TypeOK
  <2>3. (loop' = "probe") <=> (todo' # <<>>)
    BY <1>7, <1>8
  <2>4. [i \in DOMAIN results' |-> results'[i].audience] \o todo' = Asked'
    BY <1>6, <1>10 DEF ReportedOn
  <2> QED  BY <2>1, <2>2, <2>3, <2>4 DEF TypeOK
<1>12. Typed'
  <2>1. pc' \in [Tasks -> UNION {StagesOf(t) : t \in Tasks}]
    BY <1>1, <1>7, <1>8 DEF Typed, StagesOf, ProbeStages
  <2>2. \A t \in Tasks : pc'[t] \in StagesOf(t)
    BY <1>1, <1>8 DEF Typed, StagesOf, ProbeStages
  <2> QED  BY <1>1, <1>6, <1>9, <2>1, <2>2 DEF Typed
<1>13. LoopHeld'
  <2>1. \A t \in Tasks : loop' = t <=> pc'[t] \in ProbeStages
    BY <1>7, <1>8 DEF ProbeStages, MintStages
  <2> QED  BY <1>1, <1>7, <1>8, <2>1 DEF LoopHeld, ProbeStages, MintStages
<1>14. TokensReported'
  BY <1>6, <1>9 DEF TokensReported
<1>15. ReportIsTrue'
  <2>1. \A i \in 1..n : TrueOf(results[i], By(i))
    BY <1>1, <1>6, ReportIsTrueOf
  <2>2. \A i \in 1..(n + 1) : TrueOf(results'[i], By(i)')
    BY <1>6, <1>9, <2>1
  <2>3. \A i \in DOMAIN results' :
          CASE results'[i].path = "none" ->
                 results'[i].status = "FAIL" /\ By(i)' = {}
            [] results'[i].path = "direct_metadata" ->
                 results'[i].status = "OK" /\ By(i)' = {"direct"}
            [] results'[i].path = "fetch_id_token" ->
                 /\ results'[i].status = "OK"
                 /\ By(i)' \in {{"direct_metadata"}, {"fetch_id_token"}}
    BY <1>6, <2>2 DEF TrueOf
  <2> QED  BY <1>1, <2>3 DEF ReportIsTrue, By
<1>16. PathsFixed'
  <2> SUFFICES ASSUME flips = 0 PROVE PathsFixed'
    BY DEF PathsFixed
  <2>1. \A a : FixedPath(a)' = FixedPath(a)
    BY DEF FixedPath, HostMints
  <2>2. \A i \in DOMAIN results' : ~IsLocalhostAudience(results'[i].audience) =>
          results'[i].path = FixedPath(results'[i].audience)
    <3>1. \A i \in 1..n : ~IsLocalhostAudience(results[i].audience) =>
            results[i].path = FixedPath(results[i].audience)
      BY <1>1, <1>6 DEF PathsFixed
    <3>2. ~IsLocalhostAudience(one.audience) => one.path = FixedPath(one.audience)
      BY <1>4
    <3>3. ASSUME NEW i \in 1..(n + 1), ~IsLocalhostAudience(results'[i].audience)
          PROVE  results'[i].path = FixedPath(results'[i].audience)
      <4>1. CASE i \in 1..n
        BY <1>6, <3>1, <3>3, <4>1
      <4>2. CASE i = n + 1
        BY <1>6, <3>2, <3>3, <4>2
      <4> QED  BY <4>1, <4>2
    <3> QED  BY <1>6, <3>3
  <2> QED  BY <1>1, <1>8, <2>1, <2>2
           DEF PathsFixed, NoHostMints, HostMints, MintStages
<1> QED  BY <1>11, <1>12, <1>13, <1>14, <1>15, <1>16 DEF IInv

-----------------------------------------------------------------------------
\* What was reported stays true if nothing is issued or reported.
LEMMA ReportStays ==
  ASSUME IInv, UNCHANGED <<config, call, results, issued>>
  PROVE  /\ TokensReported' /\ ReportIsTrue'
         /\ Asked' = Asked /\ ReportedOn(results)' = ReportedOn(results)
<1>1. TokensReported'
  BY DEF IInv, TokensReported
<1>2. ReportIsTrue'
  BY DEF IInv, ReportIsTrue
<1>3. Asked' = Asked /\ ReportedOn(results)' = ReportedOn(results)
  BY DEF Asked, ConfiguredEngineAudiences, ReportedOn
<1> QED  BY <1>1, <1>2, <1>3

\* What was reported stays the fixed path if what mints does not change.
LEMMA PathsStay ==
  ASSUME IInv, UNCHANGED <<config, mints, flips, results>>, flips = 0
  PROVE  /\ \A a : FixedPath(a)' = FixedPath(a)
         /\ \A i \in DOMAIN results' : ~IsLocalhostAudience(results'[i].audience) =>
              results'[i].path = FixedPath(results'[i].audience)
<1>1. \A a : FixedPath(a)' = FixedPath(a)
  BY DEF FixedPath, HostMints
<1>2. \A i \in DOMAIN results : ~IsLocalhostAudience(results[i].audience) =>
        results[i].path = FixedPath(results[i].audience)
  BY DEF IInv, PathsFixed
<1> QED  BY <1>1, <1>2

\* The tasks: the engines' and the probe's, and the free loop is neither.
LEMMA TaskFacts ==
  /\ Tasks = Engines \cup {"probe"} /\ "probe" \notin Engines /\ Free \notin Tasks
BY AuthProbeAssumption DEF Tasks, Engines

\* The probe goes on to another attempt for the same audience.
LEMMA ProbeMoves ==
  ASSUME IInv, pc["probe"] \in ProbeStages,
         NEW stage \in ProbeStages, Goto("probe", stage),
         UNCHANGED <<config, mints, flips, loop, path, probe>>,
         stage \in MintStages => ~IsLocalhostAudience(Head(todo)),
         flips = 0 =>
           /\ stage = "direct_2" => ~HostMints("host_1", Head(todo))
           /\ stage \in {"shared"} \cup MintStages => NoHostMints(Head(todo))
  PROVE  IInv'
<1>1. /\ Typed /\ TypeOK /\ LoopHeld /\ PathsFixed
      /\ UNCHANGED <<call, todo, results, http, issued>>
      /\ pc' = [pc EXCEPT !["probe"] = stage]
  BY DEF IInv, Goto, probe
<1>2. pc'["probe"] = stage /\ \A e \in Engines : pc'[e] = pc[e]
  BY <1>1, TaskFacts DEF Typed
<1>3. TypeOK'
  BY <1>1, ReportStays DEF TypeOK, ReportedOn
<1>4. Typed'
  <2>1. pc' \in [Tasks -> UNION {StagesOf(t) : t \in Tasks}]
    BY <1>1, TaskFacts DEF Typed, StagesOf
  <2>2. \A t \in Tasks : pc'[t] \in StagesOf(t)
    BY <1>1, <1>2, TaskFacts DEF Typed, StagesOf
  <2> QED  BY <1>1, <2>1, <2>2 DEF Typed
<1>5. LoopHeld'
  <2>1. stage \notin {"idle", "queued", "done"}
    BY DEF ProbeStages, MintStages
  <2> QED  BY <1>1, <1>2, <2>1, TaskFacts DEF LoopHeld
<1>6. PathsFixed'
  <2> SUFFICES ASSUME flips = 0 PROVE PathsFixed'
    BY DEF PathsFixed
  <2> QED  BY <1>1, <1>2, PathsStay DEF PathsFixed, NoHostMints, HostMints
<1> QED  BY <1>1, <1>3, <1>4, <1>5, <1>6, ReportStays DEF IInv

\* An engine call goes on to another attempt, or ends with its path known.
LEMMA EngineMoves ==
  ASSUME IInv, NEW e \in Engines, NEW stage \in MintStages \cup {"done"},
         Goto(e, stage), NEW by \in Paths, path' = [path EXCEPT ![e] = by],
         loop \in {Free, e}, loop' = IF stage = "done" THEN Free ELSE e,
         UNCHANGED <<config, mints, flips, probe>>,
         stage # "done" => ~IsLocalhostAudience(config.urls[e]),
         flips = 0 =>
           LET a == config.urls[e] IN
             /\ stage # "done" => by = "none"
             /\ stage = "host_2" => ~HostMints("host_1", a)
             /\ stage = "google_auth" => NoHostMints(a)
             /\ stage = "done" /\ ~IsLocalhostAudience(a) => by = FixedPath(a)
  PROVE  IInv'
<1>1. /\ Typed /\ TypeOK /\ LoopHeld /\ PathsFixed
      /\ UNCHANGED <<call, todo, results, http, issued>>
      /\ pc' = [pc EXCEPT ![e] = stage]
      /\ e # "probe" /\ e \in Tasks /\ e # Free /\ "probe" # Free
  BY TaskFacts DEF IInv, Goto, probe
<1>2. /\ pc'[e] = stage /\ path'[e] = by
      /\ \A t \in Tasks \ {e} : pc'[t] = pc[t]
      /\ \A d \in Engines \ {e} : path'[d] = path[d]
      /\ pc'["probe"] = pc["probe"]
  BY <1>1, TaskFacts DEF Typed, TypeOK
<1>3. TypeOK'
  <2>1. path' \in [Engines -> {"none", "direct_metadata", "fetch_id_token"}]
    BY <1>1 DEF TypeOK, Paths
  <2> QED  BY <1>1, <2>1, ReportStays, TaskFacts DEF TypeOK, ReportedOn
<1>4. Typed'
  <2>1. stage \in StagesOf(e)
    BY DEF StagesOf, ProbeStages
  <2>2. pc' \in [Tasks -> UNION {StagesOf(t) : t \in Tasks}]
    BY <1>1, <2>1, TaskFacts DEF Typed
  <2>3. \A t \in Tasks : pc'[t] \in StagesOf(t)
    BY <1>1, <1>2, <2>1 DEF Typed
  <2> QED  BY <1>1, <2>2, <2>3 DEF Typed
<1>5. LoopHeld'
  <2>1. "done" \notin ProbeStages /\ MintStages \subseteq ProbeStages
    BY DEF ProbeStages, MintStages
  <2>2. \A t \in Tasks : loop' = t <=> pc'[t] \in ProbeStages
    BY <1>1, <1>2, <2>1, TaskFacts DEF LoopHeld
  <2> QED  BY <1>1, <1>2, <2>2 DEF LoopHeld
<1>6. PathsFixed'
  <2> SUFFICES ASSUME flips = 0 PROVE PathsFixed'
    BY DEF PathsFixed
  <2>1. \A d \in Engines :
          LET a == config.urls[d] IN
            /\ pc'[d] # "done" => path'[d] = "none"
            /\ pc'[d] = "host_2" => ~HostMints("host_1", a)
            /\ pc'[d] = "google_auth" => NoHostMints(a)
            /\ pc'[d] = "done" /\ ~IsLocalhostAudience(a) => path'[d] = FixedPath(a)
    BY <1>1, <1>2, TaskFacts DEF PathsFixed
  <2> QED  BY <1>1, <1>2, <2>1, PathsStay DEF PathsFixed, NoHostMints, HostMints
<1> QED  BY <1>1, <1>3, <1>4, <1>5, <1>6, ReportStays DEF IInv

-----------------------------------------------------------------------------
\* Initially nobody mints.
LEMMA InitIInv == Init => IInv
<1> SUFFICES ASSUME Init PROVE IInv
  OBVIOUS
<1>1. /\ results = <<>> /\ todo = <<>> /\ issued = {} /\ DOMAIN results = {}
      /\ \A t \in Tasks : pc[t] = "idle"
  BY DEF Init
<1>2. TypeOK
  BY <1>1, TaskFacts DEF Init, TypeOK
<1>3. Typed
  <2>1. todo \in Seq(Audiences) /\ results \in Seq(Result)
    BY <1>1, EmptySeq
  <2> QED  BY <1>1, <2>1 DEF Init, Typed, StagesOf
<1>4. LoopHeld
  BY <1>1, TaskFacts DEF Init, LoopHeld, ProbeStages, MintStages
<1>5. TokensReported /\ ReportIsTrue
  BY <1>1 DEF TokensReported, ReportIsTrue
<1>6. PathsFixed
  BY <1>1, TaskFacts DEF Init, PathsFixed, MintStages
<1> QED  BY <1>2, <1>3, <1>4, <1>5, <1>6 DEF IInv

\* A request to the probe arrives.
LEMMA ArriveKeeps ==
  ASSUME IInv, Arrive
  PROVE  IInv'
<1>1. /\ Typed /\ TypeOK /\ LoopHeld /\ PathsFixed
      /\ pc["probe"] = "idle" /\ call' \in Calls
      /\ pc' = [pc EXCEPT !["probe"] = "queued"]
      /\ UNCHANGED <<config, mints, flips, loop, path, todo, results, http, issued>>
      /\ http = 0 /\ results = <<>> /\ issued = {}
  BY DEF IInv, Arrive, Goto, LoopHeld
<1>2. pc'["probe"] = "queued" /\ \A e \in Engines : pc'[e] = pc[e]
  BY <1>1, TaskFacts DEF Typed
<1>3. loop # "probe"
  BY <1>1, TaskFacts DEF LoopHeld, ProbeStages, MintStages
<1>4. TypeOK'
  BY <1>1, <1>3 DEF TypeOK
<1>5. Typed'
  <2>1. \A t \in Tasks : pc'[t] \in StagesOf(t)
    BY <1>1, <1>2, TaskFacts DEF Typed, StagesOf
  <2>2. pc' \in [Tasks -> UNION {StagesOf(t) : t \in Tasks}]
    BY <1>1, TaskFacts DEF Typed, StagesOf
  <2> QED  BY <1>1, <2>1, <2>2 DEF Typed
<1>6. LoopHeld'
  BY <1>1, <1>2, <1>3, TaskFacts DEF LoopHeld, ProbeStages, MintStages
<1>7. TokensReported' /\ ReportIsTrue'
  BY <1>1 DEF TokensReported, ReportIsTrue
<1>8. PathsFixed'
  <2> SUFFICES ASSUME flips = 0 PROVE PathsFixed'
    BY <1>1 DEF PathsFixed
  <2> QED  BY <1>1, <1>2, PathsStay DEF PathsFixed, NoHostMints, HostMints, MintStages
<1> QED  BY <1>4, <1>5, <1>6, <1>7, <1>8 DEF IInv

\* The gate opens only for the right header.
LEMMA GateFact ==
  Gate \in {200, 404, 500} /\ (Gate = 200 => call.header = config.secret)
<1> DEFINE shut  == config.secret = "none" \/ call.header = "none"
           odd   == call.header = "not ascii"
           right == call.header = config.secret
<1>1. shut \in BOOLEAN /\ odd \in BOOLEAN /\ right \in BOOLEAN
  OBVIOUS
<1>2. Gate = IF shut THEN 404 ELSE IF odd THEN 500 ELSE IF right THEN 200 ELSE 404
  BY DEF Gate
<1> HIDE DEF shut, odd, right
<1>3. /\ Gate \in {200, 404, 500}
      /\ Gate = 200 => right
  BY <1>1, <1>2
<1> QED  BY <1>3 DEF right

\* The probe is refused, or begins with the first audience.
LEMMA StartProbeKeeps ==
  ASSUME IInv, StartProbe
  PROVE  IInv'
<1> DEFINE begins == Gate = 200 /\ call.iterable
<1>1. /\ Typed /\ TypeOK /\ LoopHeld /\ PathsFixed
      /\ pc["probe"] = "queued" /\ loop = Free
      /\ UNCHANGED <<config, mints, flips, path, call, results, issued>>
      /\ http = 0 /\ results = <<>> /\ issued = {} /\ todo = <<>>
  BY TaskFacts DEF IInv, StartProbe, LoopHeld, TypeOK
<1>2. /\ Asked \in Seq(Audiences) /\ Asked # <<>> /\ Asked' = Asked
      /\ TokensReported' /\ ReportIsTrue'
  BY <1>1, Given, ReportStays
<1>3. Gate \in {200, 404, 500} /\ (Gate = 200 => call.header = config.secret)
  BY GateFact
<1>4. /\ begins => /\ pc' = [pc EXCEPT !["probe"] = "direct_1"]
                   /\ loop' = "probe" /\ todo' = Asked /\ http' = 0
      /\ ~begins => /\ pc' = [pc EXCEPT !["probe"] = "done"]
                    /\ loop' = Free /\ todo' = <<>> /\ http' \in {404, 500}
  BY <1>1, <1>3 DEF StartProbe, Goto
<1>5. /\ pc'["probe"] = IF begins THEN "direct_1" ELSE "done"
      /\ \A e \in Engines : pc'[e] = pc[e]
  BY <1>1, <1>4, TaskFacts DEF Typed
<1>6. begins => call.header = config.secret
  BY <1>3
<1>7. TypeOK'
  <2>1. ReportedOn(results) = <<>> /\ <<>> \o Asked = Asked
    BY <1>1, <1>2, ConcatEmptySeq DEF ReportedOn
  <2>2. ReportedOn(results)' = <<>>
    BY <1>1, <2>1 DEF ReportedOn
  <2>3. loop' = "probe" <=> begins
    BY <1>4, TaskFacts
  <2> QED  BY <1>1, <1>2, <1>4, <2>1, <2>2, <2>3, TaskFacts DEF TypeOK, ReportedOn
<1>8. Typed'
  <2>1. \A t \in Tasks : pc'[t] \in StagesOf(t)
    BY <1>1, <1>5, TaskFacts DEF Typed, StagesOf, ProbeStages
  <2>2. pc' \in [Tasks -> UNION {StagesOf(t) : t \in Tasks}]
    BY <1>1, <1>4, TaskFacts DEF Typed, StagesOf, ProbeStages
  <2>3. todo' \in Seq(Audiences)
    <3>1. todo' = Asked \/ todo' = <<>>
      BY <1>4
    <3> QED  BY <1>2, <3>1, EmptySeq
  <2> QED  BY <1>1, <2>1, <2>2, <2>3 DEF Typed
<1>9. LoopHeld'
  <2>1. "done" \notin ProbeStages /\ "queued" \notin ProbeStages
        /\ "direct_1" \in ProbeStages \ MintStages
    BY DEF ProbeStages, MintStages
  <2>2. \A t \in Tasks : loop' = t <=> pc'[t] \in ProbeStages
    BY <1>1, <1>4, <1>5, <2>1, TaskFacts DEF LoopHeld
  <2>3. pc'["probe"] \in {"direct_1", "done"}
    BY <1>5
  <2>4. pc'["probe"] \in ProbeStages =>
          http' = 0 /\ call'.header = config'.secret
    BY <1>1, <1>4, <1>5, <1>6, <2>1
  <2>5. pc'["probe"] \notin {"idle", "queued"} \cup MintStages
    BY <2>3 DEF MintStages
  <2> HIDE DEF begins
  <2> QED  BY <1>1, <1>5, <2>2, <2>4, <2>5 DEF LoopHeld
<1>10. PathsFixed'
  <2> SUFFICES ASSUME flips = 0 PROVE PathsFixed'
    BY <1>1 DEF PathsFixed
  <2> QED  BY <1>1, <1>5, PathsStay DEF PathsFixed, NoHostMints, HostMints, MintStages
<1> QED  BY <1>2, <1>7, <1>8, <1>9, <1>10 DEF IInv

\* The probe's own direct mint.
LEMMA ProbeDirectKeeps ==
  ASSUME IInv, ProbeDirect
  PROVE  IInv'
<1> DEFINE host == IF pc["probe"] = "direct_1" THEN "host_1" ELSE "host_2"
<1>1. /\ pc["probe"] \in {"direct_1", "direct_2"} /\ pc["probe"] \in ProbeStages
      /\ UNCHANGED <<config, mints, flips, path, call>>
      /\ PathsFixed
  BY DEF IInv, ProbeDirect, ProbeStages
<1>2. CASE HostMints(host, Head(todo))
  <2>1. Issue("direct") /\ Report("OK", "direct_metadata")
    BY <1>2 DEF ProbeDirect
  <2>2. FixedPath(Head(todo)) = "direct_metadata"
    BY <1>2 DEF FixedPath
  <2> QED  BY <1>1, <2>1, <2>2, ReportKeeps DEF Paths
<1>3. CASE ~HostMints(host, Head(todo))
  <2> DEFINE stage == IF pc["probe"] = "direct_1" THEN "direct_2" ELSE "shared"
  <2>1. Goto("probe", stage) /\ UNCHANGED <<loop, todo, results, http, issued>>
    BY <1>3 DEF ProbeDirect
  <2>2. stage \in ProbeStages \ MintStages
    BY DEF ProbeStages, MintStages
  <2>3. flips = 0 =>
          /\ stage = "direct_2" => ~HostMints("host_1", Head(todo))
          /\ stage \in {"shared"} \cup MintStages => NoHostMints(Head(todo))
    BY <1>1, <1>3 DEF PathsFixed, NoHostMints, MintStages
  <2> HIDE DEF stage
  <2> QED  BY <1>1, <2>1, <2>2, <2>3, ProbeMoves DEF probe
<1> QED  BY <1>2, <1>3

\* The shared path, which a local audience does not enter.
LEMMA EnterSharedKeeps ==
  ASSUME IInv, EnterShared
  PROVE  IInv'
<1>1. /\ pc["probe"] = "shared" /\ pc["probe"] \in ProbeStages
      /\ UNCHANGED <<config, mints, flips, path, call, issued>>
      /\ PathsFixed
  BY DEF IInv, EnterShared, ProbeStages
<1>2. CASE IsLocalhostAudience(Head(todo))
  <2>1. Report("FAIL", "none")
    BY <1>2 DEF EnterShared
  <2> QED  BY <1>1, <1>2, <2>1, ReportKeeps DEF Paths
<1>3. CASE ~IsLocalhostAudience(Head(todo))
  <2>1. Goto("probe", "host_1") /\ UNCHANGED <<loop, todo, results, http>>
    BY <1>3 DEF EnterShared
  <2>2. "host_1" \in ProbeStages
    BY DEF ProbeStages, MintStages
  <2>3. flips = 0 => NoHostMints(Head(todo))
    BY <1>1 DEF PathsFixed
  <2> QED  BY <1>1, <1>3, <2>1, <2>2, <2>3, ProbeMoves DEF probe
<1> QED  BY <1>2, <1>3

\* The shared path for the probe: a token is reported as google-auth's.
LEMMA ProbeSharedKeeps ==
  ASSUME IInv, TryMetadataHost("probe") \/ FetchIdToken("probe")
  PROVE  IInv'
<1>1. /\ pc["probe"] \in MintStages /\ pc["probe"] \in ProbeStages
      /\ UNCHANGED <<config, mints, flips>>
      /\ PathsFixed /\ LoopHeld
  BY DEF IInv, TryMetadataHost, FetchIdToken, ProbeStages, MintStages
<1>2. /\ flips = 0 => NoHostMints(Head(todo))
      /\ ~IsLocalhostAudience(Head(todo))
  BY <1>1 DEF PathsFixed, LoopHeld
<1>3. ASSUME NEW b \in {"direct_metadata", "fetch_id_token"}, Token("probe", b),
             flips = 0 => FixedPath(Head(todo)) = "fetch_id_token"
      PROVE  IInv'
  <2>1. Issue(b) /\ Report("OK", "fetch_id_token") /\ UNCHANGED <<path, call>>
    BY <1>3 DEF Token
  <2> QED  BY <1>1, <1>3, <2>1, ReportKeeps DEF Paths
<1>4. CASE TryMetadataHost("probe")
  <2>1. CASE HostMints(pc["probe"], Head(todo))
    <3>1. Token("probe", "direct_metadata") /\ pc["probe"] \in {"host_1", "host_2"}
      BY <1>4, <2>1 DEF TryMetadataHost, AudienceOf
    <3>2. flips # 0
      BY <1>2, <2>1, <3>1 DEF NoHostMints
    <3> QED  BY <1>3, <3>1, <3>2
  <2>2. CASE ~HostMints(pc["probe"], Head(todo))
    <3> DEFINE stage == IF pc["probe"] = "host_1" THEN "host_2" ELSE "google_auth"
    <3>1. Goto("probe", stage) /\ UNCHANGED <<loop, path, probe>>
      BY <1>4, <2>2 DEF TryMetadataHost, AudienceOf
    <3>2. stage \in ProbeStages /\ stage # "direct_2"
      BY DEF ProbeStages, MintStages
    <3> HIDE DEF stage
    <3> QED  BY <1>1, <1>2, <3>1, <3>2, ProbeMoves
  <2> QED  BY <2>1, <2>2
<1>5. CASE FetchIdToken("probe")
  <2>1. CASE mints["google_auth"]
    <3>1. Token("probe", "fetch_id_token")
      BY <1>5, <2>1 DEF FetchIdToken
    <3>2. flips = 0 => FixedPath(Head(todo)) = "fetch_id_token"
      BY <1>2, <2>1 DEF FixedPath, NoHostMints
    <3> QED  BY <1>3, <3>1, <3>2
  <2>2. CASE ~mints["google_auth"]
    <3>1. Report("FAIL", "none") /\ UNCHANGED <<path, call, issued>>
      BY <1>5, <2>2 DEF FetchIdToken, NoToken
    <3>2. flips = 0 => FixedPath(Head(todo)) = "none"
      BY <1>2, <2>2 DEF FixedPath, NoHostMints
    <3> QED  BY <1>1, <3>1, <3>2, ReportKeeps DEF Paths
  <2> QED  BY <2>1, <2>2
<1> QED  BY <1>4, <1>5

\* An engine call begins: without a token for a local URL, else in the mint.
LEMMA DispatchKeeps ==
  ASSUME IInv, NEW e \in Engines, Dispatch(e)
  PROVE  IInv'
<1>1. /\ Typed /\ TypeOK /\ PathsFixed
      /\ loop = Free /\ pc[e] = "idle"
      /\ UNCHANGED <<config, mints, flips, path, probe>>
  BY DEF IInv, Dispatch
<1>2. /\ path[e] \in Paths
      /\ path' = [path EXCEPT ![e] = path[e]]
      /\ flips = 0 => path[e] = "none"
  BY <1>1 DEF TypeOK, Paths, PathsFixed
<1>3. CASE IsLocalhostAudience(config.urls[e])
  <2>1. Goto(e, "done") /\ loop' = Free
    BY <1>1, <1>3 DEF Dispatch
  <2> QED  BY <1>1, <1>2, <1>3, <2>1, EngineMoves
<1>4. CASE ~IsLocalhostAudience(config.urls[e])
  <2> DEFINE stage == "host_1"
  <2>1. /\ Goto(e, stage) /\ loop' = e /\ stage \in MintStages
        /\ stage \notin {"host_2", "google_auth", "done"}
    BY <1>4 DEF Dispatch, MintStages
  <2> HIDE DEF stage
  <2> QED  BY <1>1, <1>2, <1>4, <2>1, EngineMoves
<1> QED  BY <1>3, <1>4

\* The shared path for an engine call.
LEMMA EngineSharedKeeps ==
  ASSUME IInv, NEW e \in Engines, TryMetadataHost(e) \/ FetchIdToken(e)
  PROVE  IInv'
<1> DEFINE a == config.urls[e]
<1>1. /\ TypeOK /\ PathsFixed /\ LoopHeld
      /\ loop = e /\ pc[e] \in MintStages /\ e # "probe"
      /\ UNCHANGED <<config, mints, flips>>
  BY TaskFacts DEF IInv, TryMetadataHost, FetchIdToken, MintStages
<1>2. /\ ~IsLocalhostAudience(a)
      /\ path[e] \in Paths
      /\ flips = 0 => /\ path[e] = "none"
                      /\ pc[e] = "host_2" => ~HostMints("host_1", a)
                      /\ pc[e] = "google_auth" => NoHostMints(a)
  BY <1>1 DEF LoopHeld, TypeOK, Paths, PathsFixed, MintStages
<1>3. ASSUME NEW by \in Paths, Goto(e, "done"), loop' = Free,
             path' = [path EXCEPT ![e] = by], UNCHANGED probe,
             flips = 0 => by = FixedPath(a)
      PROVE  IInv'
  BY <1>1, <1>2, <1>3, EngineMoves
<1>4. path' = path => path' = [path EXCEPT ![e] = path[e]]
  BY <1>1 DEF TypeOK
<1>5. CASE TryMetadataHost(e)
  <2>1. CASE HostMints(pc[e], a)
    <3>1. Token(e, "direct_metadata") /\ pc[e] \in {"host_1", "host_2"}
      BY <1>1, <1>5, <2>1 DEF TryMetadataHost, AudienceOf
    <3>2. FixedPath(a) = "direct_metadata"
      BY <2>1, <3>1 DEF FixedPath
    <3>3. /\ path' = [path EXCEPT ![e] = "direct_metadata"]
          /\ Goto(e, "done") /\ loop' = Free /\ UNCHANGED probe
      BY <1>1, <3>1 DEF Token
    <3> QED  BY <1>3, <3>2, <3>3 DEF Paths
  <2>2. CASE ~HostMints(pc[e], a)
    <3> DEFINE stage == IF pc[e] = "host_1" THEN "host_2" ELSE "google_auth"
    <3>1. /\ Goto(e, stage) /\ UNCHANGED <<loop, path, probe>>
          /\ pc[e] \in {"host_1", "host_2"}
      BY <1>1, <1>5, <2>2 DEF TryMetadataHost, AudienceOf
    <3>2. /\ stage \in MintStages /\ stage # "done"
          /\ flips = 0 => /\ stage = "host_2" => ~HostMints("host_1", a)
                          /\ stage = "google_auth" => NoHostMints(a)
      BY <1>2, <2>2, <3>1 DEF MintStages, NoHostMints
    <3> HIDE DEF stage
    <3> QED  BY <1>1, <1>2, <1>4, <3>1, <3>2, EngineMoves
  <2> QED  BY <2>1, <2>2
<1>6. CASE FetchIdToken(e)
  <2>1. pc[e] = "google_auth"
    BY <1>6 DEF FetchIdToken
  <2>2. CASE mints["google_auth"]
    <3>1. /\ path' = [path EXCEPT ![e] = "fetch_id_token"]
          /\ Goto(e, "done") /\ loop' = Free /\ UNCHANGED probe
      BY <1>1, <1>6, <2>2 DEF FetchIdToken, Token
    <3>2. flips = 0 => FixedPath(a) = "fetch_id_token"
      BY <1>2, <2>1, <2>2 DEF FixedPath, NoHostMints
    <3> QED  BY <1>3, <3>1, <3>2 DEF Paths
  <2>3. CASE ~mints["google_auth"]
    <3>1. Goto(e, "done") /\ loop' = Free /\ UNCHANGED <<path, probe>>
      BY <1>1, <1>6, <2>3 DEF FetchIdToken, NoToken
    <3>2. flips = 0 => FixedPath(a) = "none"
      BY <1>2, <2>1, <2>3 DEF FixedPath, NoHostMints
    <3> QED  BY <1>2, <1>3, <1>4, <3>1, <3>2
  <2> QED  BY <2>2, <2>3
<1> QED  BY <1>5, <1>6

\* What mints changes: from then on no path is fixed.
LEMMA FlipKeeps ==
  ASSUME IInv, Flip
  PROVE  IInv'
<1>1. /\ Typed /\ TypeOK /\ LoopHeld
      /\ flips' = flips + 1 /\ flips' \in Nat \ {0}
      /\ UNCHANGED <<config, loop, pc, path, call, todo, results, http, issued>>
  BY DEF IInv, Typed, Flip, probe
<1>2. mints' \in [Sources -> BOOLEAN]
  BY <1>1 DEF Typed, Flip
<1>3. TypeOK' /\ Typed'
  BY <1>1, <1>2, ReportStays DEF TypeOK, Typed, ReportedOn
<1>4. LoopHeld'
  BY <1>1 DEF LoopHeld
<1>5. PathsFixed'
  BY <1>1 DEF PathsFixed
<1> QED  BY <1>1, <1>3, <1>4, <1>5, ReportStays DEF IInv

-----------------------------------------------------------------------------
\* Every step, and every stuttering step, keeps the invariant.
LEMMA NextIInv == IInv /\ [Next]_vars => IInv'
<1> SUFFICES ASSUME IInv, [Next]_vars PROVE IInv'
  OBVIOUS
<1>1. CASE Arrive
  BY <1>1, ArriveKeeps
<1>2. CASE ProbeStep
  BY <1>2, StartProbeKeeps, ProbeDirectKeeps, EnterSharedKeeps DEF ProbeStep
<1>3. CASE SharedStep
  <2>1. PICK t \in Tasks : TryMetadataHost(t) \/ FetchIdToken(t)
    BY <1>3 DEF SharedStep
  <2>2. CASE t = "probe"
    BY <2>1, <2>2, ProbeSharedKeeps
  <2>3. CASE t \in Engines
    BY <2>1, <2>3, EngineSharedKeeps
  <2> QED  BY <2>2, <2>3, TaskFacts
<1>4. ASSUME NEW e \in Engines, Dispatch(e) PROVE IInv'
  BY <1>4, DispatchKeeps
<1>5. CASE Flip
  BY <1>5, FlipKeeps
<1>6. CASE UNCHANGED vars
  <2>1. UNCHANGED <<config, mints, flips, loop, pc, path,
                    call, todo, results, http, issued>>
    BY <1>6 DEF vars, probe
  <2>2. TypeOK' /\ Typed' /\ LoopHeld'
    <3>1. TypeOK'
      BY <2>1, ReportStays DEF IInv, TypeOK, ReportedOn
    <3>2. Typed'
      BY <2>1 DEF IInv, Typed
    <3>3. LoopHeld'
      BY <2>1 DEF IInv, LoopHeld
    <3> QED  BY <3>1, <3>2, <3>3
  <2>3. PathsFixed'
    BY <2>1 DEF IInv, PathsFixed, FixedPath, NoHostMints, HostMints
  <2> QED  BY <2>1, <2>2, <2>3, ReportStays DEF IInv
<1> QED  BY <1>1, <1>2, <1>3, <1>4, <1>5, <1>6 DEF Next

\* In every reachable state the loop, the report and the tokens are what the
\* stages of probe and engine calls say.
THEOREM InvariantHolds == Spec => []IInv
<1>1. Init => IInv
  BY InitIInv
<1>2. IInv /\ [Next]_vars => IInv'
  BY NextIInv
<1> QED  BY <1>1, <1>2, PTL DEF Spec

\* The probe's report is true of its own mints, for any audiences asked for and
\* however often the metadata server and google-auth come and go meanwhile.
THEOREM ReportsAreTrue == Spec => []ReportIsTrue
<1>1. IInv => ReportIsTrue
  BY DEF IInv
<1> QED  BY <1>1, InvariantHolds, PTL

\* What an operator promotes on, for any revision: as long as nothing changes an
\* engine call gets its token by the path the report names for its URL.
THEOREM VerdictsForeseeDispatch == Spec => []VerdictForeseesDispatch
<1>1. IInv => VerdictForeseesDispatch
  <2> SUFFICES ASSUME IInv, flips = 0, NEW i \in DOMAIN results, NEW e \in Engines,
                      results[i].audience = config.urls[e],
                      ~IsLocalhostAudience(config.urls[e]), pc[e] = "done"
               PROVE  results[i].path = path[e]
    BY DEF VerdictForeseesDispatch
  <2>1. /\ results[i].path = FixedPath(config.urls[e])
        /\ path[e] = FixedPath(config.urls[e])
    BY DEF IInv, PathsFixed
  <2> QED  BY <2>1
<1> QED  BY <1>1, InvariantHolds, PTL

\* The safety half of EveryTaskEnds, for any audiences and changes: neither the
\* probe nor a call's mint tries a source of one audience twice.
THEOREM TasksDoMoveOn == Spec => TasksMoveOn
<1> DEFINE A == /\ \A t \in Tasks : pc'[t] # pc[t] => MovesOn(t)
                /\ \A t \in Tasks : TryMetadataHost(t) \/ FetchIdToken(t) => MovesOn(t)
                /\ ProbeStep => MovesOn("probe")
<1>1. ASSUME IInv, NEW t \in Tasks, NEW stage, Goto(t, stage),
             Rank[pc[t]] < Rank[stage]
      PROVE  MovesOn(t) /\ \A s \in Tasks \ {t} : pc'[s] = pc[s]
  <2>1. pc' = [pc EXCEPT ![t] = stage] /\ DOMAIN pc = Tasks
    BY <1>1 DEF Goto, IInv, Typed
  <2> QED  BY <1>1, <2>1 DEF MovesOn
<1>2. ASSUME IInv, loop = "probe", NEW status, NEW by, Report(status, by)
      PROVE  MovesOn("probe") /\ \A s \in Tasks \ {"probe"} : pc'[s] = pc[s]
  <2>1. todo # <<>> /\ todo' = Tail(todo)
    BY <1>2 DEF IInv, TypeOK, Report
  <2>2. \A s \in Tasks \ {"probe"} : pc'[s] = pc[s]
    BY <1>2 DEF IInv, Typed, Report, Goto
  <2> QED  BY <2>1, <2>2 DEF MovesOn
<1>3. ASSUME IInv, ProbeStep
      PROVE  MovesOn("probe") /\ \A s \in Tasks \ {"probe"} : pc'[s] = pc[s]
  <2>1. "probe" \in Tasks
    BY DEF Tasks
  <2>2. CASE StartProbe
    BY <1>1, <1>3, <2>1, <2>2 DEF StartProbe, Rank
  <2>3. CASE ProbeDirect
    <3>1. CASE \E status, by : Report(status, by)
      BY <1>2, <1>3, <2>3, <3>1 DEF ProbeDirect
    <3>2. CASE \E stage : Goto("probe", stage) /\ Rank[pc["probe"]] < Rank[stage]
      BY <1>1, <1>3, <2>1, <3>2
    <3> QED  BY <2>3, <3>1, <3>2 DEF ProbeDirect, Rank
  <2>4. CASE EnterShared
    <3>1. CASE \E status, by : Report(status, by)
      BY <1>2, <1>3, <2>4, <3>1 DEF EnterShared
    <3>2. CASE \E stage : Goto("probe", stage) /\ Rank[pc["probe"]] < Rank[stage]
      BY <1>1, <1>3, <2>1, <3>2
    <3> QED  BY <2>4, <3>1, <3>2 DEF EnterShared, Rank
  <2> QED  BY <1>3, <2>2, <2>3, <2>4 DEF ProbeStep
<1>4. ASSUME IInv, NEW t \in Tasks, TryMetadataHost(t) \/ FetchIdToken(t)
      PROVE  MovesOn(t) /\ \A s \in Tasks \ {t} : pc'[s] = pc[s]
  <2>1. loop = t /\ pc[t] \in {"host_1", "host_2", "google_auth"}
    BY <1>4 DEF TryMetadataHost, FetchIdToken
  <2>2. CASE t = "probe" /\ \E status, by : Report(status, by)
    BY <1>2, <1>4, <2>1, <2>2
  <2>3. CASE \E stage : Goto(t, stage) /\ Rank[pc[t]] < Rank[stage]
    BY <1>1, <1>4, <2>3
  <2>4. CASE TryMetadataHost(t)
    BY <2>1, <2>2, <2>3, <2>4 DEF TryMetadataHost, Token, Rank
  <2>5. CASE FetchIdToken(t)
    BY <2>1, <2>2, <2>3, <2>5 DEF FetchIdToken, Token, NoToken, Rank
  <2> QED  BY <1>4, <2>4, <2>5
<1>5. ASSUME IInv, [Next]_vars
      PROVE  \A t \in Tasks : pc'[t] # pc[t] => MovesOn(t)
  <2>1. CASE Arrive
    <3>1. "probe" \in Tasks /\ Goto("probe", "queued")
          /\ Rank[pc["probe"]] < Rank["queued"]
      BY <2>1 DEF Arrive, Tasks, Rank
    <3> QED  BY <1>1, <1>5, <3>1
  <2>2. CASE ProbeStep
    BY <1>3, <1>5, <2>2
  <2>3. CASE SharedStep
    BY <1>4, <1>5, <2>3 DEF SharedStep
  <2>4. ASSUME NEW e \in Engines, Dispatch(e)
        PROVE  \A t \in Tasks : pc'[t] # pc[t] => MovesOn(t)
    <3>1. e \in Tasks /\ \E stage : Goto(e, stage) /\ Rank[pc[e]] < Rank[stage]
      BY <2>4 DEF Dispatch, Tasks, Rank
    <3> QED  BY <1>1, <1>5, <3>1
  <2>5. CASE UNCHANGED pc
    BY <2>5
  <2> QED
    BY <1>5, <2>1, <2>2, <2>3, <2>4, <2>5 DEF Next, Flip, vars
<1>6. IInv /\ [Next]_vars => [A]_vars
  BY <1>3, <1>4, <1>5
<1>7. Spec => [][A]_vars
  BY <1>6, InvariantHolds, PTL DEF Spec
<1> QED  BY <1>7 DEF TasksMoveOn
=============================================================================
