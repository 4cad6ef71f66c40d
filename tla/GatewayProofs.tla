---------------------------- MODULE GatewayProofs ----------------------------
(***************************************************************************)
(* Theorems about Gateway, for any number of requests, any mix of request  *)
(* kinds and any set of engine answers.  First what the error mapper and   *)
(* the tails of the routes return, then the inductive invariant.           *)
(***************************************************************************)
EXTENDS GatewayInvariant, TLAPS

\* A 400 or 422 with no slug of an authentication failure.
Blames(rep) ==
  /\ rep \in ReplyType
  /\ rep.status \in {400, 422}
  /\ rep.error \notin {"engine_auth_local_fail", "engine_auth_failed"}

\* A reply that blames no caller and reports no success.
Excuses(rep) ==
  /\ rep \in ReplyType
  /\ rep.status \in {500, 502, 503, 504}
  /\ rep.error \notin {"engine_auth_local_fail", "engine_auth_failed"}

\* _classify_engine_error_term on a recognised term: the caller is blamed, and
\* shown no field of the engine's.
LEMMA ClassifyRecognised ==
  ASSUME NEW outerTerm, NEW cohort, NEW payload \in Payloads, NEW typed, NEW echoed,
         cohort = TRUE \/ outerTerm \in RecognisedTerms
  PROVE  LET found == ClassifyTerm(outerTerm, cohort, payload, typed, echoed)
         IN  Blames(found) /\ found.echoed = {}
<1> DEFINE found == ClassifyTerm(outerTerm, cohort, payload, typed, echoed)
           term  == IF cohort THEN "fbt_year_outside_cohort" ELSE outerTerm
<1> USE DEF Blames, Reply, ReplyType, Statuses, Slugs
<1>1. CASE term = "non_cent_boundary"
  <2>1. \/ found = Reply(422, "non_cent_boundary", {}, TRUE)
        \/ found = Reply(400, "money_not_cent_quantised", {}, FALSE)
    BY <1>1 DEF ClassifyTerm
  <2>2. CASE found = Reply(422, "non_cent_boundary", {}, TRUE)
    BY <2>2
  <2>3. CASE found = Reply(400, "money_not_cent_quantised", {}, FALSE)
    BY <2>3
  <2> QED  BY <2>1, <2>2, <2>3
<1>2. CASE term = "conflicting_inputs"
  <2>1. found = Reply(422, "conflicting_inputs", {},
                      payload \in {"request_field", "engine_field"})
    BY <1>2 DEF ClassifyTerm
  <2> QED  BY <2>1
<1>3. CASE term = "fbt_year_outside_cohort"
  <2>1. found = Reply(400, "fbt_year_outside_cohort", {}, FALSE)
    BY <1>3 DEF ClassifyTerm
  <2> QED  BY <2>1
<1> QED  BY <1>1, <1>2, <1>3 DEF RecognisedTerms

\* On another term, if the error does not count as typed, it falls through; a term
\* that cannot be looked up raises.
LEMMA ClassifyUntold ==
  ASSUME NEW outerTerm, outerTerm \notin RecognisedTerms,
         NEW payload, NEW typed, NEW echoed,
         ~typed \/ outerTerm \in {"none", "structured"}
  PROVE  ClassifyTerm(outerTerm, FALSE, payload, typed, echoed)
           \in {Unclassified, Bare500}
BY DEF ClassifyTerm, RecognisedTerms

\* A refusal found typed is one the caller is blamed for.
LEMMA TypedBlames ==
  ASSUME NEW echoed \in SUBSET Places
  PROVE  LET rep == Reply(400, "engine_bad_request", echoed, FALSE)
         IN  Blames(rep) /\ rep.echoed = echoed
BY DEF Blames, Reply, ReplyType, Statuses, Slugs

\* What is echoed of an engine body is some of its internal fields.
LEMMA SanitisedTyped ==
  ASSUME NEW b \in Body
  PROVE  Sanitised(b) \in SUBSET Places
BY DEF Sanitised, Body

\* The fields of a body.
LEMMA BodyFields ==
  ASSUME NEW b \in Body
  PROVE  /\ b.error \in Terms \cup {"empty", "none"}
         /\ b.refusal_class \in Terms \cup {"empty", "none"}
         /\ b.payload \in Payloads
         /\ b.mention \in BOOLEAN
         /\ b.cohort \in BOOLEAN
         /\ b.internal \in SUBSET Places
BY DEF Body

\* An unhandled exception blames nobody, nor is it what the mapper falls through
\* with.
LEMMA Bare500Excuses == Excuses(Bare500) /\ Bare500 # Unclassified
BY DEF Bare500, Unclassified, Excuses, Reply, ReplyType, Statuses, Slugs

\* A reply that excuses the caller is sound if the answer is not its fault or
\* cannot be told to be.
LEMMA SoundExcuse ==
  ASSUME NEW k, NEW a, NEW rep, Excuses(rep), CallersFault(k, a) => Untold(k, a)
  PROVE  Sound(k, a, rep)
BY DEF Excuses, Sound

\* A reply that blames the caller is sound if the answer is its fault or is taken
\* for it, and the reply leaks only where the scrub does not reach.
LEMMA SoundBlame ==
  ASSUME NEW k, NEW a, NEW rep, Blames(rep),
         ~(a.kind = "http" /\ a.status \in CallerFault4xx),
         CallersFault(k, a) \/ Mentions(a),
         rep.echoed \cap {"top", "request"} # {} => Unscrubbed(k, a)
  PROVE  Sound(k, a, rep)
BY DEF Blames, Sound, PassedOn

\* Branch 1f: an engine 5xx is blamed on the caller exactly if its term is
\* recognised, or if the word refusal_class occurs beside a payload and the term
\* can be looked up.
LEMMA MapEngine5xxFact ==
  ASSUME NEW b \in Body, NEW label \in {"engine_unavailable", "div7a_engine_unavailable"}
  PROVE  LET rep        == MapEngine5xx(b, label)
             recognised == b.cohort \/ EngineTerm(b) \in RecognisedTerms
             told       == /\ b.payload # "absent" /\ b.mention
                           /\ EngineTerm(b) \notin {"none", "structured"}
         IN  /\ recognised => Blames(rep) /\ rep.echoed = {}
             /\ ~recognised /\ told => Blames(rep)
             /\ ~recognised /\ ~told => Excuses(rep)
<1> DEFINE typed == b.payload # "absent" /\ b.mention
           rep   == MapEngine5xx(b, label)
           found == ClassifyTerm(EngineTerm(b), b.cohort, b.payload, typed, b.internal)
           slug  == IF Truthy(EngineTerm(b))
                    THEN "unrecognised_engine_error" ELSE label
           recognised == b.cohort \/ EngineTerm(b) \in RecognisedTerms
           told  == typed /\ EngineTerm(b) \notin {"none", "structured"}
<1>1. /\ EngineTerm(b) \in Terms \cup {"empty", "none"}
      /\ typed \in BOOLEAN
  BY BodyFields DEF EngineTerm, Or
<1>2. rep = IF found # Unclassified THEN found ELSE Reply(502, slug, b.internal, FALSE)
  BY DEF MapEngine5xx
<1>3. slug \in Slugs \ {"engine_auth_local_fail", "engine_auth_failed"}
  BY DEF Slugs
<1>4. Excuses(Reply(502, slug, b.internal, FALSE))
  <2> HIDE DEF slug
  <2> QED  BY <1>3, BodyFields DEF Excuses, Reply, ReplyType, Statuses
<1>5. \A x : Blames(x) => x # Unclassified
  BY DEF Blames, Unclassified, Reply
<1> HIDE DEF typed, slug
<1>6. recognised => Blames(found) /\ found.echoed = {}
  BY BodyFields, ClassifyRecognised
<1>7. ASSUME ~recognised
      PROVE  /\ told => Blames(found)
             /\ ~told => found \in {Unclassified, Bare500}
  <2>1. /\ b.cohort = FALSE
        /\ EngineTerm(b) \in (Terms \cup {"empty", "none"}) \ RecognisedTerms
    BY <1>1, <1>7, BodyFields
  <2>2. found = ClassifyTerm(EngineTerm(b), FALSE, b.payload, typed, b.internal)
    BY <2>1
  <2>3. /\ told => found = Reply(400, "engine_bad_request", b.internal, FALSE)
        /\ ~told => found \in {Unclassified, Bare500}
    <3>1. CASE told
      <4>1. typed = TRUE
        BY <1>1, <3>1
      <4>2. found = ClassifyTerm(EngineTerm(b), FALSE, b.payload, TRUE, b.internal)
        BY <2>2, <4>1
      <4>3. found = Reply(400, "engine_bad_request", b.internal, FALSE)
        <5> HIDE DEF found
        <5> QED  BY <2>1, <3>1, <4>2 DEF ClassifyTerm, RecognisedTerms
      <4> HIDE DEF told, found
      <4> QED  BY <3>1, <4>3
    <3>2. CASE ~told
      BY <2>1, <2>2, <3>2, ClassifyUntold
    <3> HIDE DEF told, found
    <3> QED  BY <3>1, <3>2
  <2>4. Blames(Reply(400, "engine_bad_request", b.internal, FALSE))
    BY BodyFields, TypedBlames
  <2> QED  BY <2>3, <2>4, Zenon
<1> HIDE DEF found
<1>8. \/ rep = found /\ found # Unclassified
      \/ (found = Unclassified /\ Excuses(rep))
  BY <1>2, <1>4
<1> HIDE DEF rep
<1>9. /\ recognised => Blames(rep) /\ rep.echoed = {}
      /\ ~recognised /\ told => Blames(rep)
      /\ ~recognised /\ ~told => Excuses(rep)
  <2>1. CASE recognised
    BY <1>5, <1>6, <1>8, <2>1
  <2>2. CASE ~recognised /\ told
    BY <1>5, <1>7, <1>8, <2>2
  <2>3. CASE ~recognised /\ ~told
    <3>1. found \in {Unclassified, Bare500}
      BY <1>7, <2>3
    <3> QED  BY <1>8, <2>3, <3>1, Bare500Excuses
  <2> HIDE DEF recognised, told
  <2> QED  BY <2>1, <2>2, <2>3
<1> QED  BY <1>9 DEF rep, typed

\* map_engine_error_to_http on an HTTP status of the engine.
LEMMA MapHttpStatusSound ==
  ASSUME NEW k, NEW a \in HttpError,
         NEW label \in {"engine_unavailable", "div7a_engine_unavailable"}
  PROVE  Sound(k, a, MapHttpStatus(a.status, a.body, label))
<1> DEFINE rep == MapHttpStatus(a.status, a.body, label)
<1>1. /\ a.kind = "http"
      /\ a.status \in 300..599
      /\ a.body \in Body /\ WellFormed(a.body)
  BY DEF HttpError, WellFormedBody
<1>2. /\ a.body.internal \in SUBSET Places
      /\ Sanitised(a.body) \in SUBSET Places
  BY <1>1, BodyFields, SanitisedTyped
<1>3. label \in Slugs \ {"engine_auth_local_fail", "engine_auth_failed"}
  BY DEF Slugs
<1>9. a.status \in 400..499 \ CallerFault4xx => ~CallersFault(k, a)
  BY <1>1 DEF CallersFault, Errs
<1>4. CASE a.status \in CallerFault4xx
  <2>1. \/ a.status = 400 /\ rep = Reply(400, "refusal", Sanitised(a.body), FALSE)
        \/ rep = Reply(a.status, CallerFaultSlug(a.status), Sanitised(a.body), FALSE)
    BY <1>4 DEF MapHttpStatus
  <2>2. PICK slug \in {"refusal", CallerFaultSlug(a.status)} :
          rep = Reply(a.status, slug, Sanitised(a.body), FALSE)
    BY <2>1
  <2>3. /\ CallerFaultSlug(a.status) \in
             Slugs \ {"engine_auth_local_fail", "engine_auth_failed"}
        /\ a.status \in Statuses \ {0, 200} /\ a.status \in 400..499
    BY <1>4 DEF CallerFaultSlug, CallerFault4xx, Slugs, Statuses
  <2>4. slug \in Slugs \ {"engine_auth_local_fail", "engine_auth_failed"}
    BY <2>2, <2>3 DEF Slugs
  <2>5. /\ rep \in ReplyType /\ rep.status = a.status
        /\ rep.error \notin {"engine_auth_local_fail", "engine_auth_failed"}
        /\ rep.echoed = Sanitised(a.body)
    BY <1>2, <2>2, <2>3, <2>4 DEF Reply, ReplyType
  <2>6. rep.echoed \cap {"top", "request"} # {} => Unscrubbed(k, a)
    BY <1>1, <1>4, <2>5 DEF Sanitised, Unscrubbed
  <2>7. CallersFault(k, a) /\ PassedOn(a, rep)
    BY <1>1, <1>4, <2>5 DEF CallersFault, PassedOn
  <2>8. rep.status \notin {0, 200}
    BY <2>3, <2>5
  <2> HIDE DEF rep
  <2>9. Sound(k, a, rep)
    BY <2>3, <2>5, <2>6, <2>7, <2>8 DEF Sound
  <2> QED  BY <2>9 DEF rep
<1>5. CASE a.status \in AuthFailure4xx
  <2>1. a.status # 400 /\ a.status \notin CallerFault4xx
    BY <1>1, <1>5 DEF CallerFault4xx, AuthFailure4xx
  <2>2. rep = Reply(502, "engine_auth_failed", a.body.internal, FALSE)
    BY <1>5, <2>1 DEF MapHttpStatus
  <2>3. a.kind = "http" /\ a.status \in {401, 403}
    BY <1>1, <1>5 DEF AuthFailure4xx
  <2>4. /\ rep \in ReplyType
        /\ rep.status = 502
        /\ rep.error # "engine_auth_local_fail"
    BY <1>2, <2>2 DEF Reply, ReplyType, Statuses, Slugs
  <2>5. ~CallersFault(k, a) /\ rep.status \notin 400..499
    BY <1>5, <1>9, <2>1, <2>4 DEF AuthFailure4xx
  <2> QED  BY <2>3, <2>4, <2>5 DEF Sound
<1>6. CASE a.status \in RateLimited4xx
  <2>1. a.status # 400 /\ a.status \notin CallerFault4xx \cup AuthFailure4xx \cup GatewayFault4xx
    BY <1>1, <1>6 DEF CallerFault4xx, AuthFailure4xx, GatewayFault4xx, RateLimited4xx
  <2>2. rep = Reply(503, "engine_rate_limited", Sanitised(a.body), FALSE)
    BY <1>6, <2>1 DEF MapHttpStatus
  <2>3. "engine_rate_limited" \in
           Slugs \ {"engine_auth_local_fail", "engine_auth_failed"}
    BY DEF Slugs
  <2>4. Excuses(rep)
    BY <1>2, <2>2, <2>3 DEF Excuses, Reply, ReplyType, Statuses
  <2>5. ~CallersFault(k, a)
    BY <1>6, <1>9, <2>1 DEF RateLimited4xx
  <2> QED  BY <2>4, <2>5, SoundExcuse
<1>7. CASE /\ a.status \in 400..499
           /\ a.status \notin CallerFault4xx \cup AuthFailure4xx \cup RateLimited4xx
  <2>1. a.status # 400
    BY <1>1, <1>7 DEF CallerFault4xx
  <2>2. rep = Reply(502, label, a.body.internal, FALSE)
    BY <1>7, <2>1 DEF MapHttpStatus
  <2>3. Excuses(rep)
    BY <1>2, <1>3, <2>2 DEF Excuses, Reply, ReplyType, Statuses
  <2> QED  BY <1>7, <1>9, <2>3, SoundExcuse
<1>8. CASE a.status \notin 400..499
  <2> DEFINE b == a.body
  <2>1. /\ a.status # 400
        /\ a.status \notin CallerFault4xx \cup AuthFailure4xx
                            \cup GatewayFault4xx \cup RateLimited4xx
    BY <1>1, <1>8 DEF CallerFault4xx, AuthFailure4xx, GatewayFault4xx, RateLimited4xx
  <2>2. rep = MapEngine5xx(b, label)
    BY <1>8, <2>1 DEF MapHttpStatus
  <2>3. /\ Errs(a) /\ ErrorTerm(a) = EngineTerm(b)
        /\ Recognised(a) <=> b.cohort \/ EngineTerm(b) \in RecognisedTerms
    BY <1>1, <1>8 DEF Errs, ErrorBody, ErrorTerm, EngineTerm, Or, Recognised
  <2>4. CASE Recognised(a)
    <3>1. Blames(rep) /\ rep.echoed = {}
      BY <1>1, <2>2, <2>3, <2>4, MapEngine5xxFact
    <3>2. CallersFault(k, a)
      BY <2>3, <2>4 DEF CallersFault
    <3> QED  BY <2>1, <3>1, <3>2, SoundBlame
  <2>5. CASE /\ ~Recognised(a) /\ b.payload # "absent" /\ b.mention
             /\ EngineTerm(b) \notin {"none", "structured"}
    <3>1. Blames(rep)
      BY <1>1, <2>2, <2>3, <2>5, MapEngine5xxFact
    <3>2. Mentions(a) /\ Unscrubbed(k, a)
      BY <1>1, <1>8, <2>3, <2>5 DEF Mentions, ErrorBody, Unscrubbed
    <3> QED  BY <2>1, <3>1, <3>2, SoundBlame
  <2>6. CASE /\ ~Recognised(a)
             /\ ~ /\ b.payload # "absent" /\ b.mention
                  /\ EngineTerm(b) \notin {"none", "structured"}
    <3>1. Excuses(rep)
      BY <1>1, <2>2, <2>3, <2>6, MapEngine5xxFact
    <3>2. CallersFault(k, a) => Typed(a)
      BY <1>1, <2>1, <2>6 DEF CallersFault
    <3>3. Typed(a) => /\ b.mention
                      /\ EngineTerm(b) # "none"
      BY <1>1 DEF Typed, ErrorBody, Truthy, Terms, WellFormed, EngineTerm, Or
    <3>4. Typed(a) => b.payload = "absent" \/ EngineTerm(b) = "structured"
      BY <2>6, <3>3
    <3>5. CallersFault(k, a) => Untold(k, a)
      BY <1>1, <2>3, <2>6, <3>2, <3>4 DEF Untold
    <3> QED  BY <3>1, <3>5, SoundExcuse
  <2> QED  BY <2>4, <2>5, <2>6
<1> QED  BY <1>4, <1>5, <1>6, <1>7, <1>8

\* map_engine_error_to_http without an answer: the caller is never at fault.
LEMMA MapTransportSound ==
  ASSUME NEW k, NEW a \in Fault, a.code # "engine_auth_local_fail"
  PROVE  Sound(k, a, MapTransport(a.code, k.calc))
<1>1. LabelOf(k.calc) \in Slugs \ {"engine_auth_local_fail", "engine_auth_failed"}
  BY DEF LabelOf, Slugs
<1>2. "engine_timeout" \in Slugs \ {"engine_auth_local_fail", "engine_auth_failed"}
  BY DEF Slugs
<1>6. ~CallersFault(k, a)
  BY DEF CallersFault, Errs, Fault
<1>3. CASE a.code = "engine_timeout" /\ k.calc = "div7a"
  <2>1. MapTransport(a.code, k.calc) = Reply(504, LabelOf(k.calc), {}, FALSE)
    BY <1>3 DEF MapTransport
  <2>2. Excuses(MapTransport(a.code, k.calc))
    BY <1>1, <2>1 DEF Excuses, Reply, ReplyType, Statuses
  <2> QED  BY <2>2, <1>6, SoundExcuse
<1>4. CASE a.code = "engine_timeout" /\ k.calc # "div7a"
  <2>1. MapTransport(a.code, k.calc) = Reply(504, "engine_timeout", {}, FALSE)
    BY <1>4 DEF MapTransport
  <2>2. Excuses(MapTransport(a.code, k.calc))
    BY <1>2, <2>1 DEF Excuses, Reply, ReplyType, Statuses
  <2> QED  BY <2>2, <1>6, SoundExcuse
<1>5. CASE a.code # "engine_timeout"
  <2>1. MapTransport(a.code, k.calc) = Reply(502, LabelOf(k.calc), {}, FALSE)
    BY <1>5 DEF MapTransport
  <2>2. Excuses(MapTransport(a.code, k.calc))
    BY <1>1, <2>1 DEF Excuses, Reply, ReplyType, Statuses
  <2> QED  BY <2>2, <1>6, SoundExcuse
<1> QED  BY <1>3, <1>4, <1>5

\* The term map_calculation_error_to_http looks at.
CalcTerm(error, d) == IF d.shape = "object" /\ d.error # "none"
                      THEN Or(d.error, d.refusal_class) ELSE error

\* When it takes an error for a typed refusal.
CalcTyped(d) == /\ d.shape = "object"
                /\ Truthy(d.refusal_class) \/ (d.payload # "absent" /\ d.mention)

\* map_calculation_error_to_http blames the caller exactly if the term is
\* recognised, or if the detail has a refusal_class, or the word beside a
\* payload, and the term can be looked up.
LEMMA MapCalculationErrorFact ==
  ASSUME NEW error \in Terms, NEW d \in Body, NEW copied \in BOOLEAN
  PROVE  LET rep        == MapCalculationError(error, d, copied)
             recognised == d.cohort \/ CalcTerm(error, d) \in RecognisedTerms
             told       == /\ CalcTyped(d)
                           /\ CalcTerm(error, d) \notin {"none", "structured"}
         IN  /\ recognised => Blames(rep) /\ rep.echoed = {}
             /\ ~recognised /\ told =>
                  /\ Blames(rep)
                  /\ rep.echoed = IF copied THEN d.internal ELSE Sanitised(d)
             /\ ~recognised /\ ~told => Excuses(rep)
<1> DEFINE rep   == MapCalculationError(error, d, copied)
           shown == IF copied THEN d.internal ELSE Sanitised(d)
           found == ClassifyTerm(CalcTerm(error, d), d.cohort, d.payload,
                                 CalcTyped(d), shown)
           recognised == d.cohort \/ CalcTerm(error, d) \in RecognisedTerms
           told  == CalcTyped(d) /\ CalcTerm(error, d) \notin {"none", "structured"}
<1>1. /\ CalcTerm(error, d) \in Terms \cup {"empty", "none"}
      /\ CalcTyped(d) \in BOOLEAN
      /\ shown \in SUBSET Places
  BY BodyFields, SanitisedTyped DEF CalcTerm, CalcTyped, Or
<1>2. rep = IF found # Unclassified THEN found
            ELSE Reply(502, "unrecognised_engine_error", Sanitised(d), FALSE)
  BY DEF MapCalculationError, CalcTerm, CalcTyped
<1>3. Excuses(Reply(502, "unrecognised_engine_error", Sanitised(d), FALSE))
  BY SanitisedTyped DEF Excuses, Reply, ReplyType, Statuses, Slugs
<1>4. \A x : Blames(x) => x # Unclassified
  BY DEF Blames, Unclassified, Reply
<1> HIDE DEF shown
<1>5. recognised => Blames(found) /\ found.echoed = {}
  BY BodyFields, ClassifyRecognised
<1>6. ASSUME ~recognised
      PROVE  /\ told => Blames(found) /\ found.echoed = shown
             /\ ~told => found \in {Unclassified, Bare500}
  <2>1. /\ d.cohort = FALSE
        /\ CalcTerm(error, d) \in (Terms \cup {"empty", "none"}) \ RecognisedTerms
    BY <1>1, <1>6, BodyFields
  <2>2. found = ClassifyTerm(CalcTerm(error, d), FALSE, d.payload, CalcTyped(d), shown)
    BY <2>1
  <2>3. /\ told => found = Reply(400, "engine_bad_request", shown, FALSE)
        /\ ~told => found \in {Unclassified, Bare500}
    <3>1. CASE told
      <4>1. CalcTyped(d) = TRUE
        BY <1>1, <3>1
      <4>2. found = ClassifyTerm(CalcTerm(error, d), FALSE, d.payload, TRUE, shown)
        BY <2>2, <4>1
      <4>3. found = Reply(400, "engine_bad_request", shown, FALSE)
        <5> HIDE DEF found
        <5> QED  BY <2>1, <3>1, <4>2 DEF ClassifyTerm, RecognisedTerms
      <4> HIDE DEF told, found
      <4> QED  BY <3>1, <4>3
    <3>2. CASE ~told
      BY <2>1, <2>2, <3>2, ClassifyUntold
    <3> HIDE DEF told, found
    <3> QED  BY <3>1, <3>2
  <2>4. /\ Blames(Reply(400, "engine_bad_request", shown, FALSE))
        /\ Reply(400, "engine_bad_request", shown, FALSE).echoed = shown
    BY <1>1, TypedBlames
  <2> QED  BY <2>3, <2>4, Zenon
<1> HIDE DEF found
<1> QED  BY <1>2, <1>3, <1>4, <1>5, <1>6, Bare500Excuses DEF shown

\* The fields of an engine result.
LEMMA ResultFields ==
  ASSUME NEW res \in Result
  PROVE  /\ res.error \in Terms \cup {"none"}
         /\ res.detail \in Body /\ WellFormed(res.detail)
         /\ res.copied \in BOOLEAN
         /\ res.internal \in SUBSET Places
BY DEF Result, WellFormedBody

\* What the routes answer on their own is a fault of the gateway or the engine.
LEMMA OwnFaults ==
  ASSUME NEW internal \in SUBSET Places
  PROVE  /\ Excuses(Bare500)
         /\ Excuses(BadGateway("manifest_rate_table_unavailable"))
         /\ Excuses(BadGateway("engine_response_missing_gross_up_trio"))
         /\ Excuses(BadGateway("engine_response_missing_field"))
         /\ Excuses(Reply(502, "engine_response_missing_field", internal, FALSE))
         /\ Excuses(Reply(502, "engine_response_missing_taxable_value", internal, FALSE))
<1> USE DEF Bare500, BadGateway, Excuses, Reply, ReplyType, Statuses, Slugs
<1>1. Excuses(Bare500)
  OBVIOUS
<1>2. Excuses(BadGateway("manifest_rate_table_unavailable"))
  OBVIOUS
<1>3. Excuses(BadGateway("engine_response_missing_gross_up_trio"))
  OBVIOUS
<1>4. Excuses(BadGateway("engine_response_missing_field"))
  OBVIOUS
<1>5. Excuses(Reply(502, "engine_response_missing_field", internal, FALSE))
  OBVIOUS
<1>6. Excuses(Reply(502, "engine_response_missing_taxable_value", internal, FALSE))
  OBVIOUS
<1> QED  BY <1>1, <1>2, <1>3, <1>4, <1>5, <1>6

\* Past the manifest the cited rate tables are there.
LEMMA AfterManifestFact ==
  ASSUME NEW engine, NEW taxonomy, NEW uris, NEW next
  PROVE  \/ Excuses(AfterManifest(engine, taxonomy, uris, next))
         \/ /\ AfterManifest(engine, taxonomy, uris, next) = next
            /\ ManifestBuilt(engine, taxonomy, uris)
<1>1. CASE ManifestBuilt(engine, taxonomy, uris)
  BY <1>1 DEF AfterManifest
<1>2. CASE ~ManifestBuilt(engine, taxonomy, uris)
  <2>1. \/ AfterManifest(engine, taxonomy, uris, next) = Bare500
        \/ AfterManifest(engine, taxonomy, uris, next) =
             BadGateway("manifest_rate_table_unavailable")
    BY <1>2 DEF AfterManifest
  <2> QED  BY <2>1, OwnFaults
<1> QED  BY <1>1, <1>2

\* A 200 that rests on its answer.
LEMMA OkSound ==
  ASSUME NEW k, NEW a, a.result \in Result, Backs(k, a)
  PROVE  Sound(k, a, Ok(a.result))
<1>1. /\ Ok(a.result) \in ReplyType
      /\ Ok(a.result).status = 200
      /\ Ok(a.result).error = "none"
  BY ResultFields DEF Ok, Reply, ReplyType, Statuses, Slugs
<1>2. ~CallersFault(k, a)
  BY DEF CallersFault, Errs, Backs
<1> QED  BY <1>1, <1>2 DEF Sound

\* The tail of a route on a result with no `error`: 200 only if the result backs
\* it, else a 5xx.
LEMMA SuccessReplySound ==
  ASSUME NEW k, k.calc \in Engines, NEW a \in Success,
         a.result.shape = "object", a.result.error = "none"
  PROVE  Sound(k, a, SuccessReply(k.calc, k.taxonomy, a.result))
<1> DEFINE res  == a.result
           uris == CitedUris(k.calc, res)
           rep  == SuccessReply(k.calc, k.taxonomy, res)
<1>1. a.kind = "result" /\ res \in Result
  BY DEF Success
<1>2. res.internal \in SUBSET Places
  BY <1>1, ResultFields
<1>6. ~CallersFault(k, a)
  BY <1>1 DEF CallersFault, Errs
<1>3. CASE k.calc = "fbt"
  <2> DEFINE next == IF UndercountsFbt(res, uris)
                       THEN BadGateway("engine_response_missing_gross_up_trio")
                     ELSE IF ValidFbtResponse(res) THEN Ok(res) ELSE Bare500
  <2>1. \/ rep = Reply(502, "engine_response_missing_taxable_value", res.internal, FALSE)
        \/ rep = AfterManifest("fbt", k.taxonomy, uris, next)
    BY <1>3, Zenon DEF SuccessReply, FbtReply
  <2>2. CASE Excuses(rep)
    BY <1>6, <2>2, SoundExcuse
  <2>3. CASE ~Excuses(rep)
    <3>1. Excuses(Reply(502, "engine_response_missing_taxable_value",
                        res.internal, FALSE))
      BY <1>2 DEF Excuses, Reply, ReplyType, Statuses, Slugs
    <3> HIDE DEF next
    <3>2. rep = AfterManifest("fbt", k.taxonomy, uris, next)
      BY <2>1, <2>3, <3>1
    <3>3. rep = next /\ ManifestBuilt("fbt", k.taxonomy, uris)
      BY <2>3, <3>2, AfterManifestFact
    <3>4. ValidFbtResponse(res) /\ rep = Ok(res)
      BY <1>2, <2>3, <3>3, OwnFaults, Bare500Excuses DEF next
    <3>5. Backs(k, a)
      BY <1>1, <1>3, <3>3, <3>4 DEF Backs, ValidFbtResponse
    <3> QED  BY <1>1, <3>4, <3>5, OkSound
  <2> QED  BY <2>2, <2>3
<1>4. CASE k.calc = "div7a"
  <2>1. rep = AfterManifest("div7a", k.taxonomy, uris, Ok(res))
    BY <1>4 DEF SuccessReply, Div7aReply
  <2>2. CASE Excuses(rep)
    BY <1>6, <2>2, SoundExcuse
  <2>3. CASE ~Excuses(rep)
    <3>1. rep = Ok(res) /\ ManifestBuilt("div7a", k.taxonomy, uris)
      BY <2>1, <2>3, AfterManifestFact
    <3>2. Backs(k, a)
      BY <1>1, <1>4, <3>1 DEF Backs
    <3> QED  BY <1>1, <3>1, <3>2, OkSound
  <2> QED  BY <2>2, <2>3
<1>5. CASE k.calc = "depreciation"
  <2>1. \/ rep = Reply(502, "engine_response_missing_field", res.internal, FALSE)
        \/ res.complete /\ rep = AfterManifest("depreciation", k.taxonomy, uris, Ok(res))
    BY <1>5 DEF SuccessReply, DepreciationReply
  <2>2. CASE Excuses(rep)
    BY <1>6, <2>2, SoundExcuse
  <2>3. CASE ~Excuses(rep)
    <3>1. Excuses(Reply(502, "engine_response_missing_field", res.internal, FALSE))
      BY <1>2, OwnFaults
    <3>2. /\ res.complete
          /\ rep = AfterManifest("depreciation", k.taxonomy, uris, Ok(res))
      BY <2>1, <2>3, <3>1
    <3>3. rep = Ok(res) /\ ManifestBuilt("depreciation", k.taxonomy, uris)
      BY <2>3, <3>2, AfterManifestFact
    <3>4. Backs(k, a)
      BY <1>1, <1>5, <3>2, <3>3 DEF Backs
    <3> QED  BY <1>1, <3>3, <3>4, OkSound
  <2> QED  BY <2>2, <2>3
<1> QED  BY <1>3, <1>4, <1>5 DEF Engines

\* From resp.json() on, whatever the engine returned.
LEMMA ResultReplySound ==
  ASSUME NEW k, k.calc \in Engines, NEW a \in Success
  PROVE  Sound(k, a, ResultReply(k.calc, k.taxonomy, a.result))
<1> DEFINE res == a.result
           rep == ResultReply(k.calc, k.taxonomy, res)
<1>1. a.kind = "result" /\ res \in Result
  BY DEF Success
<1>2. /\ res.shape \in {"object", "list", "not_json"}
      /\ res.internal \in SUBSET Places
      /\ res.error \in Terms \cup {"none"}
      /\ res.detail \in Body /\ WellFormed(res.detail)
      /\ res.copied \in BOOLEAN
  BY <1>1, ResultFields DEF Result
<1>3. CASE res.shape # "object"
  <2>1. rep = Bare500 \/ rep = BadGateway("engine_response_missing_field")
    BY <1>2, <1>3 DEF ResultReply
  <2>2. Excuses(rep)
    BY <1>2, <2>1, OwnFaults
  <2>3. ~CallersFault(k, a)
    BY <1>1, <1>3 DEF CallersFault, Errs
  <2> QED  BY <2>2, <2>3, SoundExcuse
<1>4. CASE res.shape = "object" /\ res.error = "none"
  <2>1. rep = SuccessReply(k.calc, k.taxonomy, res)
    BY <1>4 DEF ResultReply
  <2> QED  BY <1>4, <2>1, SuccessReplySound
<1>5. CASE res.shape = "object" /\ res.error # "none"
  <2>1. rep = CalculationErrorReply(k.calc, res)
    BY <1>5 DEF ResultReply
  <2>2. CASE k.calc = "div7a"
    <3>1. rep = Reply(422, "div7a_calculation_error", res.detail.internal, FALSE)
      BY <2>1, <2>2 DEF CalculationErrorReply
    <3>2. Blames(rep)
      BY <1>2, <3>1, BodyFields DEF Blames, Reply, ReplyType, Statuses, Slugs
    <3>3. CallersFault(k, a) /\ Unscrubbed(k, a)
      BY <1>1, <1>5, <2>2 DEF CallersFault, Errs, Unscrubbed
    <3> QED  BY <1>1, <3>2, <3>3, SoundBlame
  <2>3. CASE k.calc # "div7a"
    <3> DEFINE d    == res.detail
               term == CalcTerm(res.error, d)
    <3>1. rep = MapCalculationError(res.error, d, res.copied)
      BY <2>1, <2>3 DEF CalculationErrorReply
    <3>2. /\ Errs(a) /\ ErrorBody(a) = d /\ ErrorTerm(a) = term
          /\ Recognised(a) <=> d.cohort \/ term \in RecognisedTerms
      BY <1>1, <1>2, <1>5
      DEF Errs, ErrorBody, ErrorTerm, CalcTerm, Or, Recognised, WellFormed
    <3>3. res.error \in Terms
      BY <1>2, <1>5
    <3> HIDE DEF term
    <3>4. CASE Recognised(a)
      <4>1. Blames(rep) /\ rep.echoed = {}
        BY <1>2, <3>1, <3>2, <3>3, <3>4, MapCalculationErrorFact DEF term
      <4>2. CallersFault(k, a)
        BY <3>2, <3>4 DEF CallersFault
      <4> QED  BY <1>1, <4>1, <4>2, SoundBlame
    <3>5. CASE /\ ~Recognised(a) /\ CalcTyped(d)
               /\ term \notin {"none", "structured"}
      <4>1. Blames(rep) /\ rep.echoed = IF res.copied THEN d.internal ELSE Sanitised(d)
        BY <1>2, <3>1, <3>2, <3>3, <3>5, MapCalculationErrorFact DEF term
      <4>2. CallersFault(k, a) \/ Mentions(a)
        BY <3>2, <3>5 DEF CallersFault, Mentions, CalcTyped, Typed
      <4>3. rep.echoed \cap {"top", "request"} # {} => Unscrubbed(k, a)
        BY <1>1, <3>5, <4>1 DEF CalcTyped, Sanitised, Unscrubbed
      <4> QED  BY <1>1, <4>1, <4>2, <4>3, SoundBlame
    <3>6. CASE /\ ~Recognised(a)
               /\ ~(CalcTyped(d) /\ term \notin {"none", "structured"})
      <4>1. Excuses(rep)
        BY <1>2, <3>1, <3>2, <3>3, <3>6, MapCalculationErrorFact DEF term
      <4>2. CallersFault(k, a) => Typed(a)
        BY <1>1, <2>3, <3>6 DEF CallersFault
      <4>3. Truthy(d.refusal_class) => CalcTyped(d) /\ term # "none"
        BY <1>2, <3>3 DEF Truthy, Terms, WellFormed, CalcTyped, CalcTerm, Or, term
      <4>4. Typed(a) => ~Truthy(d.refusal_class) \/ term = "structured"
        BY <3>6, <4>3
      <4>5. CallersFault(k, a) => Untold(k, a)
        BY <1>1, <2>3, <3>2, <3>6, <4>2, <4>4 DEF Untold
      <4> QED  BY <4>1, <4>5, SoundExcuse
    <3> QED  BY <3>4, <3>5, <3>6
  <2> QED  BY <2>2, <2>3
<1> QED  BY <1>3, <1>4, <1>5

\* Whatever the call came back with, the handler's answer is sound.
LEMMA HandlerReplySound ==
  ASSUME NEW k, k.calc \in Engines, NEW a \in Comeback
  PROVE  Sound(k, a, HandlerReply(k, a))
<1>1. CASE a \in HttpError
  <2>1. HandlerReply(k, a) = MapHttpStatus(a.status, a.body, LabelOf(k.calc))
    BY <1>1 DEF HttpError, HandlerReply
  <2>2. LabelOf(k.calc) \in {"engine_unavailable", "div7a_engine_unavailable"}
    BY DEF LabelOf
  <2> QED  BY <1>1, <2>1, <2>2, MapHttpStatusSound
<1>2. CASE a \in Success
  <2>1. HandlerReply(k, a) = ResultReply(k.calc, k.taxonomy, a.result)
    BY <1>2 DEF Success, HandlerReply
  <2> QED  BY <1>2, <2>1, ResultReplySound
<1>3. CASE a \in Fault /\ a.code # "engine_auth_local_fail"
  <2>1. HandlerReply(k, a) = MapTransport(a.code, k.calc)
    BY <1>3 DEF Fault, HandlerReply
  <2> QED  BY <1>3, <2>1, MapTransportSound
<1> QED  BY <1>1, <1>2, <1>3, GatewayAssumption DEF Comeback, Answer
-----------------------------------------------------------------------------
\* The record of request s is left alone.
Same(s) ==
  /\ pc'[s] = pc[s] /\ req'[s] = req[s] /\ header'[s] = header[s]
  /\ calls'[s] = calls[s] /\ answer'[s] = answer[s] /\ reply'[s] = reply[s]

Fine(s) == Staged(s) /\ Tokened(s) /\ Replied(s)

\* A request whose record is left alone keeps its part of the invariant.
LEMMA Frame ==
  ASSUME NEW s \in Requests, Fine(s), Same(s), env' = env
  PROVE  Fine(s)'
<1> USE DEF Same, Fine
<1>1. Staged(s)'
  BY DEF Staged
<1>2. Tokened(s)'
  BY DEF Tokened
<1>3. Replied(s)'
  <2>1. RepliedLocally(s) => RepliedLocally(s)'
    BY DEF RepliedLocally
  <2>2. MintFailed(s) => MintFailed(s)'
    BY DEF MintFailed
  <2>3. RepliedAfterCall(s) => RepliedAfterCall(s)'
    BY DEF RepliedAfterCall
  <2>4. reply[s] \in {NoReply, PlatformTimeout, PlatformError} =>
          (reply[s] \in {NoReply, PlatformTimeout, PlatformError})'
    OBVIOUS
  <2> QED  BY <2>1, <2>2, <2>3, <2>4 DEF Replied
<1> QED  BY <1>1, <1>2, <1>3

\* A step that touches request r only keeps the invariant if it keeps r's part.
LEMMA OneRequest ==
  ASSUME RecordsInv, NEW r \in Requests, TypeOK', Fine(r)', env' = env,
         \A s \in Requests \ {r} : Same(s)
  PROVE  RecordsInv'
<1>1. ASSUME NEW s \in Requests PROVE Fine(s)'
  <2>1. CASE s = r
    BY <2>1
  <2>2. CASE s # r
    <3>1. Fine(s) /\ Same(s)
      BY <2>2 DEF RecordsInv, Fine
    <3> QED  BY <3>1, Frame
  <2> QED  BY <2>1, <2>2
<1> QED  BY <1>1 DEF RecordsInv, Fine

\* The replies the gateway and the platform make up are replies.
LEMMA MadeUpReplies ==
  /\ NoReply \in ReplyType
  /\ PlatformTimeout \in ReplyType
  /\ PlatformError \in ReplyType
  /\ Reply(503, "engine_auth_local_fail", {}, FALSE) \in ReplyType
<1> USE DEF Reply, ReplyType, Statuses, Slugs
<1>1. NoReply \in ReplyType
  BY DEF NoReply
<1>2. PlatformTimeout \in ReplyType
  BY DEF PlatformTimeout
<1>3. PlatformError \in ReplyType
  BY DEF PlatformError
<1>4. Reply(503, "engine_auth_local_fail", {}, FALSE) \in ReplyType
  OBVIOUS
<1> QED  BY <1>1, <1>2, <1>3, <1>4

\* The invariant holds initially.
LEMMA InitRecords == Init => RecordsInv
<1> SUFFICES ASSUME Init PROVE RecordsInv
  OBVIOUS
<1>1. TypeOK
  BY MadeUpReplies DEF Init, TypeOK, Stages
<1>2. ASSUME NEW r \in Requests PROVE Staged(r) /\ Tokened(r) /\ Replied(r)
  <2>1. Staged(r)
    BY DEF Init, Staged, EngineStages, MintSteps, NoAnswer
  <2>2. Tokened(r)
    BY DEF Init, Tokened
  <2>3. Replied(r)
    BY DEF Init, Replied
  <2> QED  BY <2>1, <2>2, <2>3
<1> QED  BY <1>1, <1>2 DEF RecordsInv

\* A request arrives.
LEMMA ArriveKeeps ==
  ASSUME RecordsInv, NEW r \in Requests, Arrive(r)
  PROVE  RecordsInv'
<1>1. TypeOK'
  BY DEF RecordsInv, TypeOK, Arrive, Goto, Stages
<1>2. Fine(r) /\ pc[r] = "idle" /\ pc'[r] = "queued" /\ req'[r] \in Kinds
  BY DEF RecordsInv, Fine, TypeOK, Arrive, Goto
<1>3. \A s \in Requests \ {r} : Same(s)
  BY DEF RecordsInv, TypeOK, Arrive, Goto, Same
<1>4. Fine(r)'
  <2>1. Staged(r)'
    BY <1>2 DEF Arrive, Fine, Staged, BeforeCall, EngineStages, MintSteps
  <2>2. Tokened(r)'
    BY <1>2 DEF Arrive, Fine, Staged, Tokened, BeforeCall
  <2>3. Replied(r)'
    BY <1>2 DEF Arrive, Fine, Replied
  <2> QED  BY <2>1, <2>2, <2>3 DEF Fine
<1> QED  BY <1>1, <1>3, <1>4, OneRequest DEF Arrive

\* A handler responds: the invariant holds after if its reply is one of the
\* three kinds; what Cloud Run answered before stays.
LEMMA RespondKeeps ==
  ASSUME RecordsInv, NEW r \in Requests, NEW rep \in ReplyType,
         NEW a \in Answer \cup Fault \cup {NoAnswer},
         Respond(r, rep), pc[r] \notin {"idle", "done"},
         loop' \in Requests \cup {Free}, UNCHANGED <<env, req, header, calls>>,
         answer' = [answer EXCEPT ![r] = a],
         a.kind \in {"http", "result"} => calls[r] = 1,
         reply'[r] = rep => RepliedLocally(r)' \/ MintFailed(r)' \/ RepliedAfterCall(r)'
  PROVE  RecordsInv'
<1>1. /\ pc'[r] = "done"
      /\ answer'[r] = a
      /\ reply'[r] = IF reply[r] = NoReply THEN rep ELSE reply[r]
  BY DEF RecordsInv, TypeOK, Respond, Goto
<1>2. TypeOK'
  BY DEF RecordsInv, TypeOK, Respond, Goto, Stages
<1>3. \A s \in Requests \ {r} : Same(s)
  BY DEF RecordsInv, TypeOK, Respond, Goto, Same
<1>4. Staged(r)'
  BY <1>1 DEF RecordsInv, Staged, BeforeCall, EngineStages, MintSteps
<1>5. Tokened(r)'
  BY <1>1 DEF RecordsInv, Tokened
<1>6. Replied(r)'
  <2>1. CASE reply[r] = NoReply
    BY <1>1, <2>1 DEF Replied
  <2>2. CASE reply[r] # NoReply
    <3>1. reply[r] \in {NoReply, PlatformTimeout, PlatformError}
      BY DEF RecordsInv, Replied
    <3> QED  BY <1>1, <2>2, <3>1 DEF Replied
  <2> QED  BY <2>1, <2>2
<1> QED  BY <1>2, <1>3, <1>4, <1>5, <1>6, OneRequest DEF Fine

\* What the handler answers without an engine is a reply of its own.
LEMMA LocalReplies ==
  ASSUME NEW rep \in {Rejection(i) : i \in Inputs \ {"valid"}} \cup HpReplies
  PROVE  /\ rep \in ReplyType
         /\ rep.error \notin {"engine_auth_local_fail", "engine_auth_failed"}
         /\ rep.echoed = {}
         /\ rep \in {Rejection(i) : i \in Inputs \ {"valid"}} => rep.status # 200
<1> USE DEF Reply, ReplyType, Statuses, Slugs
<1>1. ASSUME NEW i \in Inputs \ {"valid"}, rep = Rejection(i)
      PROVE  /\ rep \in ReplyType
             /\ rep.error \notin {"engine_auth_local_fail", "engine_auth_failed"}
             /\ rep.echoed = {}
             /\ rep.status # 200
  <2>1. CASE i = "bad_uri"
    BY <1>1, <2>1 DEF Rejection
  <2>2. CASE i = "bad_taxonomy"
    BY <1>1, <2>2 DEF Rejection
  <2>3. CASE i = "unknown_calculator"
    BY <1>1, <2>3 DEF Rejection
  <2>4. CASE i = "unsupported_period"
    BY <1>1, <2>4 DEF Rejection
  <2>5. CASE i = "bad_body"
    BY <1>1, <2>5 DEF Rejection
  <2> QED  BY <1>1, <2>1, <2>2, <2>3, <2>4, <2>5 DEF Inputs
<1>2. ASSUME rep \in HpReplies
      PROVE  /\ rep \in ReplyType
             /\ rep.error \notin {"engine_auth_local_fail", "engine_auth_failed"}
             /\ rep.echoed = {}
  <2>1. CASE rep = Reply(200, "none", {}, FALSE)
    BY <2>1
  <2>2. CASE rep = Reply(400, "hp_refusal", {}, FALSE)
    BY <2>2
  <2>3. CASE rep = Reply(422, "hp_refusal", {}, FALSE)
    BY <2>3
  <2>4. CASE rep = Bare500
    BY <2>4 DEF Bare500
  <2> QED  BY <1>2, <2>1, <2>2, <2>3, <2>4 DEF HpReplies
<1> QED  BY <1>1, <1>2

\* The handler answers without an engine.
LEMMA StartLocalKeeps ==
  ASSUME RecordsInv, NEW r \in Requests, StartLocal(r)
  PROVE  RecordsInv'
<1> DEFINE Local == {Rejection(i) : i \in Inputs \ {"valid"}} \cup HpReplies
<1>1. /\ TypeOK /\ pc[r] = "queued" /\ answer[r] = NoAnswer /\ calls[r] = 0
      /\ req[r].input \in Inputs
  BY GatewayAssumption
  DEF RecordsInv, StartLocal, TypeOK, Staged, BeforeCall, Request
<1>2. PICK rep \in Local :
        /\ Respond(r, rep)
        /\ req[r].input # "valid" \/ req[r].calc = "hp"
        /\ req[r].calc = "hp" \/ rep \in {Rejection(i) : i \in Inputs \ {"valid"}}
  BY <1>1 DEF StartLocal
<1>3. /\ rep \in ReplyType
      /\ rep.error \notin {"engine_auth_local_fail", "engine_auth_failed"}
      /\ rep.echoed = {}
      /\ rep.status = 200 => req[r].calc = "hp"
  BY <1>2, LocalReplies
<1>4. /\ loop' \in Requests \cup {Free}
      /\ UNCHANGED <<env, req, header, calls>>
      /\ answer' = [answer EXCEPT ![r] = NoAnswer]
  BY <1>1 DEF TypeOK, StartLocal
<1>5. reply'[r] = rep => RepliedLocally(r)'
  BY <1>1, <1>2, <1>3, <1>4 DEF RepliedLocally, StartLocal
<1>6. NoAnswer \in Answer \cup Fault \cup {NoAnswer} /\ NoAnswer.kind = "none"
  BY DEF NoAnswer
<1> HIDE DEF Local
<1> QED  BY <1>1, <1>2, <1>3, <1>4, <1>5, <1>6, RespondKeeps
-----------------------------------------------------------------------------
\* The handler goes on to the mint or to the POST.
LEMMA StartEngineKeeps ==
  ASSUME RecordsInv, NEW r \in Requests, StartEngine(r)
  PROVE  RecordsInv'
<1>1. /\ TypeOK /\ pc[r] = "queued" /\ Fine(r)
      /\ req[r] \in Kinds /\ req[r].calc # "hp"
  BY DEF RecordsInv, StartEngine, Fine, Staged
<1>2. req[r].calc \in Engines
  BY <1>1, GatewayAssumption DEF Request
<1>3. /\ req[r].input = "valid"
      /\ pc' = [pc EXCEPT ![r] = IF req[r].calc \in CloudRun
                                 THEN "host_1" ELSE "connecting"]
      /\ UNCHANGED <<env, req, header, calls, answer, reply>>
      /\ loop' \in Requests \cup {Free}
  BY <1>1 DEF StartEngine, Goto, TypeOK
<1>4. pc'[r] = IF req[r].calc \in CloudRun THEN "host_1" ELSE "connecting"
  BY <1>1, <1>3 DEF TypeOK
<1>5. TypeOK'
  BY <1>1, <1>3 DEF TypeOK, Stages, MintSteps
<1>6. \A s \in Requests \ {r} : Same(s)
  BY <1>1, <1>3 DEF Same, TypeOK
<1>7. Fine(r)'
  <2>1. Staged(r)'
    BY <1>1, <1>2, <1>3, <1>4
    DEF Fine, Staged, BeforeCall, EngineStages, MintSteps
  <2>2. Tokened(r)'
    BY <1>1, <1>3, <1>4 DEF Fine, Staged, Tokened, BeforeCall
  <2>3. Replied(r)'
    BY <1>1, <1>3 DEF Fine, Replied
  <2> QED  BY <2>1, <2>2, <2>3 DEF Fine
<1> QED  BY <1>3, <1>5, <1>6, <1>7, OneRequest

\* The handler moves on without answering: what is left to show is what its new
\* stage says.
LEMMA MoveKeeps ==
  ASSUME RecordsInv, NEW r \in Requests, pc[r] # "done", UNCHANGED <<env, req, reply>>,
         TypeOK', \A s \in Requests \ {r} : Same(s), Staged(r)', Tokened(r)'
  PROVE  RecordsInv'
<1>1. Replied(r)'
  BY DEF RecordsInv, Replied
<1> QED  BY <1>1, OneRequest DEF Fine

\* One path of the mint gives a token.
LEMMA MintedKeeps ==
  ASSUME RecordsInv, NEW r \in Requests, pc[r] \in MintSteps, Minted(r)
  PROVE  RecordsInv'
<1>1. TypeOK /\ Staged(r)
  BY DEF RecordsInv
<1>2. /\ pc' = [pc EXCEPT ![r] = "connecting"]
      /\ header' = [header EXCEPT ![r] = "bearer"]
      /\ loop' = Free
      /\ UNCHANGED <<env, req, calls, answer, reply>>
  BY DEF Minted, Goto
<1>3. pc'[r] = "connecting" /\ header'[r] = "bearer"
  BY <1>1, <1>2 DEF TypeOK
<1>4. TypeOK'
  BY <1>1, <1>2 DEF TypeOK, Stages
<1>5. \A s \in Requests \ {r} : Same(s)
  BY <1>1, <1>2 DEF Same, TypeOK
<1>6. Staged(r)'
  BY <1>1, <1>2, <1>3 DEF Staged, BeforeCall, EngineStages, MintSteps
<1>7. Tokened(r)'
  BY <1>3 DEF Tokened
<1>8. pc[r] # "done"
  BY DEF MintSteps
<1> QED  BY <1>2, <1>4, <1>5, <1>6, <1>7, <1>8, MoveKeeps

\* The mint: a token, the next path, or the end of the paths.
LEMMA MintKeeps ==
  ASSUME RecordsInv, NEW r \in Requests, Mint(r)
  PROVE  RecordsInv'
<1>1. TypeOK /\ Staged(r) /\ Tokened(r)
  BY DEF RecordsInv
<1>2. pc[r] \in MintSteps
  BY DEF Mint, TryMetadataHost, FetchIdToken, AuthUnavailable, MintSteps
<1>3. CASE Minted(r)
  BY <1>2, <1>3, MintedKeeps
<1>4. CASE /\ pc[r] \in {"host_1", "host_2"}
           /\ Goto(r, IF pc[r] = "host_1" THEN "host_2" ELSE "fetch_id_token")
           /\ UNCHANGED <<env, loop, req, header, calls, answer, reply>>
  <2>1. /\ pc' = [pc EXCEPT ![r] = IF pc[r] = "host_1" THEN "host_2"
                                                       ELSE "fetch_id_token"]
        /\ pc'[r] \in {"host_2", "fetch_id_token"}
    BY <1>1, <1>4 DEF Goto, TypeOK
  <2>2. TypeOK'
    BY <1>1, <1>4, <2>1 DEF TypeOK, Stages, MintSteps
  <2>3. \A s \in Requests \ {r} : Same(s)
    BY <1>1, <1>4, <2>1 DEF Same, TypeOK
  <2>4. Staged(r)'
    BY <1>1, <1>4, <2>1 DEF Staged, BeforeCall, EngineStages, MintSteps
  <2>5. Tokened(r)'
    BY <1>1, <1>4, <2>1 DEF Staged, Tokened, BeforeCall, MintSteps
  <2> QED  BY <1>4, <2>2, <2>3, <2>4, <2>5, MoveKeeps
<1>5. CASE AuthUnavailable(r) /\ env.soft
  <2>1. /\ pc' = [pc EXCEPT ![r] = "connecting"]
        /\ loop' = Free /\ pc[r] = "fetch_id_token"
        /\ UNCHANGED <<env, req, header, calls, answer, reply>>
    BY <1>5 DEF AuthUnavailable, Goto
  <2>2. pc'[r] = "connecting"
    BY <1>1, <2>1 DEF TypeOK
  <2>3. TypeOK'
    BY <1>1, <2>1 DEF TypeOK, Stages
  <2>4. \A s \in Requests \ {r} : Same(s)
    BY <1>1, <2>1 DEF Same, TypeOK
  <2>5. Staged(r)'
    BY <1>1, <2>1, <2>2 DEF Staged, BeforeCall, EngineStages, MintSteps
  <2>6. Tokened(r)'
    BY <1>5, <2>1 DEF Tokened
  <2> QED  BY <2>1, <2>3, <2>4, <2>5, <2>6, MoveKeeps
<1>6. CASE AuthUnavailable(r) /\ ~env.soft
  <2> DEFINE a   == [kind |-> "fault", code |-> "engine_auth_local_fail"]
             rep == Reply(503, "engine_auth_local_fail", {}, FALSE)
  <2>1. /\ loop' = Free /\ pc[r] = "fetch_id_token"
        /\ UNCHANGED <<env, req, header, calls>>
        /\ answer' = [answer EXCEPT ![r] = a]
        /\ Respond(r, MapTransport("engine_auth_local_fail", req[r].calc))
    BY <1>6 DEF AuthUnavailable
  <2>2. MapTransport("engine_auth_local_fail", req[r].calc) = rep
    BY DEF MapTransport
  <2>3. Respond(r, rep) /\ rep \in ReplyType
    BY <2>1, <2>2, MadeUpReplies
  <2>4. a \in Fault /\ a.kind = "fault"
    BY DEF Fault, TransportCodes
  <2>5. calls'[r] = 0 /\ answer'[r].kind = "fault"
    BY <1>1, <2>1, <2>4 DEF Staged, BeforeCall, MintSteps, TypeOK
  <2>6. reply'[r] = rep => MintFailed(r)'
    BY <2>5 DEF MintFailed
  <2> HIDE DEF a, rep
  <2> QED  BY <2>1, <2>3, <2>4, <2>6, RespondKeeps
<1> QED  BY <1>3, <1>4, <1>5, <1>6 DEF Mint, TryMetadataHost, FetchIdToken

\* An engine call comes back: with a, which the engine stages allow.
LEMMA ComesBackKeeps ==
  ASSUME RecordsInv, NEW r \in Requests, NEW a \in Comeback, ComesBack(r, a),
         \/ pc[r] = "connecting" /\ a \in Fault
         \/ pc[r] = "awaiting"
  PROVE  RecordsInv'
<1>1. TypeOK /\ Staged(r) /\ Tokened(r)
  BY DEF RecordsInv
<1>2. /\ pc' = [pc EXCEPT ![r] = "resumable"]
      /\ answer' = [answer EXCEPT ![r] = a]
      /\ UNCHANGED <<env, loop, req, header, calls, reply>>
  BY DEF ComesBack, Goto
<1>3. pc'[r] = "resumable" /\ answer'[r] = a
  BY <1>1, <1>2 DEF TypeOK
<1>4. a \in Answer \cup Fault \cup {NoAnswer}
  BY GatewayAssumption DEF Comeback
<1>5. TypeOK'
  BY <1>1, <1>2, <1>4 DEF TypeOK, Stages
<1>6. \A s \in Requests \ {r} : Same(s)
  BY <1>1, <1>2 DEF Same, TypeOK
<1>7. Staged(r)'
  <2>1. a.kind \in {"http", "result"} => calls[r] = 1
    BY <1>1 DEF Staged, Fault
  <2> QED  BY <1>1, <1>2, <1>3, <2>1 DEF Staged, BeforeCall, EngineStages, MintSteps
<1>8. Tokened(r)'
  BY <1>1, <1>2, <1>3 DEF Tokened
<1> QED  BY <1>2, <1>5, <1>6, <1>7, <1>8, MoveKeeps

\* The engine call: refused, delivered, answered or broken.
LEMMA TransferKeeps ==
  ASSUME RecordsInv, NEW r \in Requests, Transfer(r)
  PROVE  RecordsInv'
<1>1. CASE ConnectFails(r)
  <2>1. PICK c \in {"engine_unreachable", "engine_timeout",
                    "engine_transport_error"} :
          ComesBack(r, [kind |-> "fault", code |-> c])
    BY <1>1 DEF ConnectFails
  <2>2. /\ [kind |-> "fault", code |-> c] \in Fault
        /\ [kind |-> "fault", code |-> c] \in Comeback
    BY DEF Comeback, Fault, TransportCodes
  <2> QED  BY <1>1, <2>1, <2>2, ComesBackKeeps DEF ConnectFails
<1>2. CASE Deliver(r)
  <2>1. TypeOK /\ Staged(r) /\ Tokened(r)
    BY DEF RecordsInv
  <2>2. /\ pc' = [pc EXCEPT ![r] = "awaiting"]
        /\ calls' = [calls EXCEPT ![r] = @ + 1]
        /\ UNCHANGED <<env, loop, req, header, answer, reply>>
        /\ pc[r] = "connecting"
    BY <1>2 DEF Deliver, Goto
  <2>3. calls[r] = 0 /\ calls'[r] = 1 /\ pc'[r] = "awaiting"
    BY <2>1, <2>2 DEF TypeOK, Staged, BeforeCall
  <2>4. TypeOK'
    BY <2>1, <2>2 DEF TypeOK, Stages
  <2>5. \A s \in Requests \ {r} : Same(s)
    BY <2>1, <2>2 DEF Same, TypeOK
  <2>6. Staged(r)'
    BY <2>1, <2>2, <2>3 DEF Staged, BeforeCall, EngineStages, MintSteps, NoAnswer
  <2>7. Tokened(r)'
    BY <2>1, <2>2 DEF Tokened
  <2> QED  BY <2>2, <2>4, <2>5, <2>6, <2>7, MoveKeeps
<1>3. CASE EngineAnswers(r)
  BY <1>3, ComesBackKeeps DEF EngineAnswers, Comeback
<1>4. CASE CallFails(r)
  <2>1. PICK c \in {"engine_timeout", "engine_transport_error"} :
          ComesBack(r, [kind |-> "fault", code |-> c])
    BY <1>4 DEF CallFails
  <2>2. [kind |-> "fault", code |-> c] \in Comeback
    BY DEF Comeback, Fault, TransportCodes
  <2> QED  BY <1>4, <2>1, <2>2, ComesBackKeeps DEF CallFails
<1> QED  BY <1>1, <1>2, <1>3, <1>4 DEF Transfer

\* The handler resumes after the await and answers.
LEMMA ResumeKeeps ==
  ASSUME RecordsInv, NEW r \in Requests, Resume(r)
  PROVE  RecordsInv'
<1> DEFINE rep == HandlerReply(req[r], answer[r])
<1>1. /\ TypeOK /\ Staged(r) /\ pc[r] = "resumable"
      /\ req[r].calc \in Engines /\ answer[r] \in Comeback
  BY DEF RecordsInv, Resume, Staged, EngineStages
<1>2. Sound(req[r], answer[r], rep)
  BY <1>1, HandlerReplySound
<1>3. rep \in ReplyType
  BY <1>2 DEF Sound
<1>4. /\ Respond(r, rep)
      /\ UNCHANGED <<env, loop, req, header, calls, answer>>
  BY DEF Resume
<1> HIDE DEF rep
<1>5. /\ answer' = [answer EXCEPT ![r] = answer[r]]
      /\ answer[r] \in Answer \cup Fault \cup {NoAnswer}
      /\ loop' \in Requests \cup {Free}
      /\ answer[r].kind \in {"http", "result"} => calls[r] = 1
  BY <1>1, <1>4 DEF TypeOK, Staged
<1>6. reply'[r] = rep => RepliedAfterCall(r)'
  BY <1>1, <1>2, <1>4 DEF RepliedAfterCall, rep
<1> QED  BY <1>1, <1>3, <1>4, <1>5, <1>6, RespondKeeps

\* Cloud Run answers in the handler's place.
LEMMA DeadlineKeeps ==
  ASSUME RecordsInv, NEW r \in Requests, DeadlinePasses(r)
  PROVE  RecordsInv'
<1>1. /\ TypeOK /\ Staged(r) /\ Tokened(r)
      /\ reply' = [reply EXCEPT ![r] = PlatformTimeout]
      /\ UNCHANGED <<env, loop, req, pc, header, calls, answer>>
  BY DEF RecordsInv, DeadlinePasses, handler
<1>2. TypeOK'
  BY <1>1, MadeUpReplies DEF TypeOK
<1>3. \A s \in Requests \ {r} : Same(s)
  BY <1>1 DEF Same, TypeOK
<1>4. Fine(r)'
  <2>1. Staged(r)'
    BY <1>1 DEF Staged
  <2>2. Tokened(r)'
    BY <1>1 DEF Tokened
  <2>3. Replied(r)'
    BY <1>1 DEF TypeOK, Replied
  <2> QED  BY <2>1, <2>2, <2>3 DEF Fine
<1> QED  BY <1>1, <1>2, <1>3, <1>4, OneRequest

\* The container goes: every handler in flight ends, its caller answered by
\* Cloud Run.
LEMMA ContainerLostKeeps ==
  ASSUME RecordsInv, ContainerLost
  PROVE  RecordsInv'
<1>1. TypeOK /\ loop' = Free /\ UNCHANGED <<env, req, header, calls, answer>>
  BY DEF RecordsInv, ContainerLost
<1>2. \A r \in Requests :
        /\ pc'[r] = IF InFlight(r) THEN "done" ELSE pc[r]
        /\ reply'[r] = IF InFlight(r) /\ reply[r] = NoReply
                       THEN PlatformError ELSE reply[r]
  BY DEF ContainerLost
<1>3. TypeOK'
  <2>1. pc' \in [Requests -> Stages]
    BY <1>1 DEF ContainerLost, TypeOK, Stages
  <2>2. reply' \in [Requests -> ReplyType]
    BY <1>1, MadeUpReplies DEF ContainerLost, TypeOK
  <2> QED  BY <1>1, <2>1, <2>2 DEF TypeOK
<1>4. ASSUME NEW r \in Requests PROVE Fine(r)'
  <2>1. Fine(r)
    BY DEF RecordsInv, Fine
  <2>2. CASE ~InFlight(r)
    <3>1. Same(r)
      BY <1>1, <1>2, <2>2 DEF Same
    <3> QED  BY <1>1, <2>1, <3>1, Frame
  <2>3. CASE InFlight(r)
    <3>1. /\ pc'[r] = "done" /\ pc[r] \notin {"idle", "done"}
          /\ reply'[r] = IF reply[r] = NoReply THEN PlatformError ELSE reply[r]
      BY <1>2, <2>3 DEF InFlight
    <3>2. Staged(r)'
      BY <1>1, <2>1, <3>1
      DEF Fine, Staged, BeforeCall, EngineStages, MintSteps
    <3>3. Tokened(r)'
      BY <1>1, <2>1, <3>1 DEF Fine, Tokened
    <3>4. Replied(r)'
      BY <2>1, <3>1 DEF Fine, Replied
    <3> QED  BY <3>2, <3>3, <3>4 DEF Fine
  <2> QED  BY <2>2, <2>3
<1> QED  BY <1>3, <1>4 DEF RecordsInv, Fine
-----------------------------------------------------------------------------
\* Every step, and every stuttering step, keeps the invariant.
LEMMA NextRecords == RecordsInv /\ [Next]_vars => RecordsInv'
<1> SUFFICES ASSUME RecordsInv, [Next]_vars PROVE RecordsInv'
  OBVIOUS
<1>1. ASSUME NEW r \in Requests, Arrive(r) PROVE RecordsInv'
  BY <1>1, ArriveKeeps
<1>2. ASSUME NEW r \in Requests, Handle(r) PROVE RecordsInv'
  <2>1. CASE StartLocal(r)
    BY <2>1, StartLocalKeeps
  <2>2. CASE StartEngine(r)
    BY <2>2, StartEngineKeeps
  <2>3. CASE Mint(r)
    BY <2>3, MintKeeps
  <2>4. CASE Resume(r)
    BY <2>4, ResumeKeeps
  <2> QED  BY <1>2, <2>1, <2>2, <2>3, <2>4 DEF Handle
<1>3. ASSUME NEW r \in Requests, Transfer(r) PROVE RecordsInv'
  BY <1>3, TransferKeeps
<1>4. ASSUME NEW r \in Requests, DeadlinePasses(r) PROVE RecordsInv'
  BY <1>4, DeadlineKeeps
<1>5. CASE ContainerLost
  BY <1>5, ContainerLostKeeps
<1>6. CASE UNCHANGED vars
  <2>1. TypeOK'
    BY <1>6 DEF RecordsInv, vars, handler, TypeOK
  <2>2. ASSUME NEW r \in Requests PROVE Fine(r)'
    BY <1>6, Frame DEF RecordsInv, Fine, Same, vars, handler
  <2> QED  BY <2>1, <2>2 DEF RecordsInv, Fine
<1> QED  BY <1>1, <1>2, <1>3, <1>4, <1>5, <1>6 DEF Next

\* In every reachable state each handler's record is what its stage says.
THEOREM RecordsHold == Spec => []RecordsInv
<1>1. Init => RecordsInv
  BY InitRecords
<1>2. RecordsInv /\ [Next]_vars => RecordsInv'
  BY NextRecords
<1> QED  BY <1>1, <1>2, PTL DEF Spec

\* Type correctness; in it, that no error slug and no status outside the closed
\* vocabulary ever reaches a caller, whatever an engine answers.
THEOREM TypeCorrect == Spec => []TypeOK
<1>1. RecordsInv => TypeOK
  BY DEF RecordsInv
<1> QED  BY <1>1, RecordsHold, PTL

\* D22 for any number of requests: an engine behind Cloud Run is not called
\* without an ID token unless the soft mode is on.
THEOREM TokensAreDisciplined == Spec => []TokenDiscipline
<1>1. RecordsInv => TokenDiscipline
  BY DEF RecordsInv, TypeOK, Tokened, TokenDiscipline
<1> QED  BY <1>1, RecordsHold, PTL

\* The three replies that no handler made.
LEMMA NotFromHandler ==
  ASSUME NEW rep \in {NoReply, PlatformTimeout, PlatformError}
  PROVE  /\ rep.error \notin {"engine_auth_local_fail", "engine_auth_failed"}
         /\ rep.status \notin 400..499
         /\ rep.status # 200
BY DEF NoReply, PlatformTimeout, PlatformError, Reply

\* The slug engine_auth_local_fail is only for calls that were never made,
\* engine_auth_failed only for calls the engine answered 401 or 403.
THEOREM AuthFaultsArePartitioned == Spec => []AuthFaultsPartition
<1>1. ASSUME RecordsInv, NEW r \in Requests
      PROVE  /\ reply[r].error = "engine_auth_local_fail" => calls[r] = 0
             /\ reply[r].error = "engine_auth_failed" =>
                  /\ calls[r] = 1 /\ answer[r].kind = "http"
                  /\ answer[r].status \in {401, 403}
  <2>1. Staged(r) /\ Replied(r)
    BY <1>1 DEF RecordsInv
  <2>2. CASE reply[r] \in {NoReply, PlatformTimeout, PlatformError}
    BY <2>2, NotFromHandler
  <2>3. CASE RepliedLocally(r)
    BY <2>3 DEF RepliedLocally
  <2>4. CASE MintFailed(r)
    BY <2>4 DEF MintFailed, Reply
  <2>5. CASE RepliedAfterCall(r)
    BY <2>1, <2>5 DEF RepliedAfterCall, Sound, Staged
  <2> QED  BY <2>1, <2>2, <2>3, <2>4, <2>5 DEF Replied
<1>2. RecordsInv => AuthFaultsPartition
  BY <1>1 DEF AuthFaultsPartition
<1> QED  BY <1>2, RecordsHold, PTL

\* D8a for any engine answers: a caller is never told that its request is at
\* fault when what failed is the mint, the transport, the engine or a manifest;
\* but for an error with a payload in whose text the word refusal_class occurs,
\* which the mapper takes for a refusal.
THEOREM CallersAreBlamedJustly == Spec => []CallerBlamedJustly
<1>1. ASSUME RecordsInv, NEW r \in Requests, reply[r].status \in 400..499
      PROVE  \/ calls[r] = 0 /\ (req[r].input # "valid" \/ req[r].calc = "hp")
             \/ /\ calls[r] = 1
                /\ CallersFault(req[r], answer[r]) \/ Mentions(answer[r])
  <2>1. Staged(r) /\ Replied(r)
    BY <1>1 DEF RecordsInv
  <2>2. reply[r] \notin {NoReply, PlatformTimeout, PlatformError}
    BY <1>1, NotFromHandler
  <2>3. CASE RepliedLocally(r)
    BY <2>3 DEF RepliedLocally
  <2>4. CASE MintFailed(r)
    BY <1>1, <2>4 DEF MintFailed, Reply
  <2>5. CASE RepliedAfterCall(r)
    <3>1. CallersFault(req[r], answer[r]) \/ Mentions(answer[r])
      BY <1>1, <2>5 DEF RepliedAfterCall, Sound
    <3>2. calls[r] = 1
      BY <2>1, <3>1 DEF CallersFault, Mentions, Errs, Staged
    <3> QED  BY <3>1, <3>2
  <2> QED  BY <2>1, <2>2, <2>3, <2>4, <2>5 DEF Replied
<1>2. RecordsInv => CallerBlamedJustly
  BY <1>1 DEF CallerBlamedJustly
<1> QED  BY <1>2, RecordsHold, PTL

\* No figures without an engine answer that backs them: a 200 never follows an
\* error, an incomplete answer or a rate table that is not shipped.
THEOREM SuccessesAreBacked == Spec => []SuccessIsBacked
<1>1. ASSUME RecordsInv, NEW r \in Requests, reply[r].status = 200, req[r].calc # "hp"
      PROVE  calls[r] = 1 /\ Backs(req[r], answer[r])
  <2>1. Staged(r) /\ Replied(r)
    BY <1>1 DEF RecordsInv
  <2>2. reply[r] \notin {NoReply, PlatformTimeout, PlatformError}
    BY <1>1, NotFromHandler
  <2>3. ~RepliedLocally(r)
    BY <1>1 DEF RepliedLocally
  <2>4. ~MintFailed(r)
    BY <1>1 DEF MintFailed, Reply
  <2>5. RepliedAfterCall(r)
    BY <2>1, <2>2, <2>3, <2>4 DEF Replied
  <2>6. Backs(req[r], answer[r])
    BY <1>1, <2>5 DEF RepliedAfterCall, Sound
  <2>7. calls[r] = 1
    BY <2>1, <2>6 DEF Backs, Staged
  <2> QED  BY <2>6, <2>7
<1>2. RecordsInv => SuccessIsBacked
  BY <1>1 DEF SuccessIsBacked
<1> QED  BY <1>2, RecordsHold, PTL

\* A reply of a handler whose engine answered is sound.
LEMMA FromAnswer ==
  ASSUME RecordsInv, NEW r \in Requests, FromHandler(r),
         answer[r].kind \in {"http", "result"}
  PROVE  Sound(req[r], answer[r], reply[r])
<1>1. Replied(r) /\ reply[r] \notin {NoReply, PlatformTimeout, PlatformError}
  BY DEF RecordsInv, FromHandler
<1>2. RepliedLocally(r) => answer[r].kind = "none"
  BY DEF RepliedLocally, NoAnswer
<1> QED  BY <1>1, <1>2 DEF Replied, MintFailed, RepliedAfterCall

\* D8a, D54, D62 for any engine answers: what is the caller's to fix reaches the
\* caller as such, never as a fault that invites a retry; but for the typed
\* refusals of Untold, which the mapper cannot tell.
THEOREM CallerFaultsReachCaller == Spec => []CallerFaultReachesCaller
<1>1. ASSUME RecordsInv, NEW r \in Requests, FromHandler(r),
             CallersFault(req[r], answer[r]), ~Untold(req[r], answer[r])
      PROVE  PassedOn(answer[r], reply[r])
  <2>1. answer[r].kind \in {"http", "result"}
    BY <1>1 DEF CallersFault, Errs
  <2>2. Sound(req[r], answer[r], reply[r])
    BY <1>1, <2>1, FromAnswer
  <2> QED  BY <1>1, <2>2 DEF Sound
<1>2. RecordsInv => CallerFaultReachesCaller
  BY <1>1 DEF CallerFaultReachesCaller
<1> QED  BY <1>2, RecordsHold, PTL

\* D8b for any engine answers: no answer that blames the caller shows an internal
\* field at the top of the engine's body or under its request / payload, unless
\* the scrub does not reach it (Unscrubbed: text bodies, body strings of a 5xx,
\* copied details, Division 7A).
THEOREM RefusalsAreAlwaysScrubbed == Spec => []RefusalsAreScrubbed
<1>1. ASSUME RecordsInv, NEW r \in Requests, FromHandler(r),
             reply[r].status \in 400..499,
             reply[r].echoed \cap {"top", "request"} # {}
      PROVE  Unscrubbed(req[r], answer[r])
  <2>1. reply[r] \notin {NoReply, PlatformTimeout, PlatformError} /\ Replied(r)
    BY <1>1 DEF RecordsInv, FromHandler
  <2>2. ~RepliedLocally(r)
    BY <1>1 DEF RepliedLocally
  <2>3. ~MintFailed(r)
    BY <1>1 DEF MintFailed, Reply
  <2>4. Sound(req[r], answer[r], reply[r])
    BY <2>1, <2>2, <2>3 DEF Replied, RepliedAfterCall
  <2> QED  BY <1>1, <2>4 DEF Sound
<1>2. RecordsInv => RefusalsAreScrubbed
  BY <1>1 DEF RefusalsAreScrubbed
<1> QED  BY <1>2, RecordsHold, PTL

-----------------------------------------------------------------------------
(***************************************************************************)
(* The loop, and the way of a request to its end.                          *)
(***************************************************************************)
\* A mint takes the loop where it begins and gives it back where it ends.
LEMMA NextLoop == RecordsInv /\ LoopInv /\ [Next]_vars => LoopInv'
<1> SUFFICES ASSUME RecordsInv, LoopInv, [Next]_vars PROVE LoopInv'
  OBVIOUS
<1>1. /\ pc \in [Requests -> Stages] /\ loop \in Requests \cup {Free}
      /\ Free \notin Requests
  BY GatewayAssumption DEF RecordsInv, TypeOK
<1>2. CASE UNCHANGED <<loop, pc>>
  BY <1>2 DEF LoopInv
<1>3. ASSUME NEW r \in Requests, NEW stage, Goto(r, stage),
             \/ loop = Free /\ loop' = IF stage \in MintSteps THEN r ELSE Free
             \/ loop = r /\ loop' = IF stage \in MintSteps THEN r ELSE Free
             \/ /\ pc[r] \notin MintSteps /\ stage \notin MintSteps
                /\ loop' = loop
      PROVE  LoopInv'
  <2> SUFFICES ASSUME NEW s \in Requests
               PROVE  loop' = s <=> pc'[s] \in MintSteps
    BY DEF LoopInv
  <2>1. /\ pc'[s] = IF s = r THEN stage ELSE pc[s]
        /\ loop = s <=> pc[s] \in MintSteps
        /\ loop = r <=> pc[r] \in MintSteps
    BY <1>1, <1>3 DEF Goto, LoopInv
  <2>2. CASE s = r
    BY <1>1, <1>3, <2>1, <2>2
  <2>3. CASE s # r
    BY <1>1, <1>3, <2>1, <2>3
  <2> QED  BY <2>2, <2>3
<1>4. ASSUME NEW r \in Requests, Arrive(r) PROVE LoopInv'
  BY <1>3, <1>4 DEF Arrive, MintSteps
<1>5. ASSUME NEW r \in Requests, Handle(r) PROVE LoopInv'
  <2>1. CASE StartLocal(r)
    BY <1>3, <2>1 DEF StartLocal, Respond, MintSteps
  <2>2. CASE StartEngine(r)
    BY <1>3, <2>2 DEF StartEngine, MintSteps
  <2>3. CASE Minted(r) /\ loop = r
    BY <1>3, <2>3 DEF Minted, MintSteps
  <2>4. CASE TryMetadataHost(r) /\ ~Minted(r)
    BY <1>3, <2>4 DEF TryMetadataHost, MintSteps
  <2>5. CASE AuthUnavailable(r)
    BY <1>3, <2>5 DEF AuthUnavailable, Respond, MintSteps
  <2>6. CASE Resume(r)
    BY <1>3, <2>6 DEF Resume, Respond, MintSteps
  <2> QED
    BY <1>5, <2>1, <2>2, <2>3, <2>4, <2>5, <2>6
    DEF Handle, Mint, TryMetadataHost, FetchIdToken
<1>6. ASSUME NEW r \in Requests, Transfer(r) PROVE LoopInv'
  <2>1. /\ pc[r] \in {"connecting", "awaiting"} /\ loop' = loop
        /\ Goto(r, "awaiting") \/ Goto(r, "resumable")
    BY <1>6 DEF Transfer, ConnectFails, Deliver, EngineAnswers, CallFails, ComesBack
  <2> QED  BY <1>3, <2>1 DEF MintSteps
<1>7. CASE ContainerLost
  <2>1. loop' = Free /\ \A r \in Requests : pc'[r] \in {"idle", "done"}
    BY <1>7 DEF ContainerLost, InFlight
  <2> QED  BY <1>1, <2>1 DEF LoopInv, MintSteps
<1> QED
  BY <1>2, <1>4, <1>5, <1>6, <1>7
  DEF Next, DeadlinePasses, vars, handler

\* The replies a handler may make are replies.
LEMMA RepliesAreMade ==
  /\ NoReply.status = 0 /\ PlatformTimeout # NoReply /\ PlatformError # NoReply
  /\ \A rep \in {Rejection(i) : i \in Inputs \ {"valid"}} \cup HpReplies :
       rep # NoReply
  /\ \A calc : MapTransport("engine_auth_local_fail", calc) # NoReply
<1> USE DEF NoReply, Reply
<1>1. ASSUME NEW i \in Inputs \ {"valid"} PROVE Rejection(i) # NoReply
  BY <1>1 DEF Rejection, Inputs
<1>2. ASSUME NEW rep \in HpReplies PROVE rep # NoReply
  BY <1>2 DEF HpReplies, Bare500
<1>3. ASSUME NEW calc PROVE MapTransport("engine_auth_local_fail", calc) # NoReply
  BY DEF MapTransport
<1> QED  BY <1>1, <1>2, <1>3 DEF PlatformTimeout, PlatformError

\* A handler ends by responding or with its container.
LEMMA NextAnswered == RecordsInv /\ AnsweredInv /\ [Next]_vars => AnsweredInv'
<1> SUFFICES ASSUME RecordsInv, AnsweredInv, [Next]_vars PROVE AnsweredInv'
  OBVIOUS
<1>1. TypeOK /\ \A r \in Requests : Staged(r)
  BY DEF RecordsInv
<1>2. CASE UNCHANGED <<pc, reply>>
  BY <1>2 DEF AnsweredInv
<1>3. ASSUME NEW r \in Requests, NEW rep, Respond(r, rep), rep # NoReply
      PROVE  AnsweredInv'
  BY <1>1, <1>3 DEF AnsweredInv, Respond, Goto, TypeOK
<1>4. ASSUME NEW r \in Requests, NEW stage, Goto(r, stage), stage # "done",
             reply' = reply
      PROVE  AnsweredInv'
  BY <1>1, <1>4 DEF AnsweredInv, Goto, TypeOK
<1>5. ASSUME NEW r \in Requests, Arrive(r) PROVE AnsweredInv'
  BY <1>4, <1>5 DEF Arrive
<1>6. ASSUME NEW r \in Requests, Handle(r) PROVE AnsweredInv'
  <2>1. CASE StartLocal(r)
    <3>1. req[r].input \in Inputs
      BY <1>1, <2>1, GatewayAssumption DEF StartLocal, Staged, Request
    <3>2. PICK rep \in {Rejection(i) : i \in Inputs \ {"valid"}} \cup HpReplies :
            Respond(r, rep)
      BY <2>1, <3>1 DEF StartLocal
    <3> QED  BY <1>3, <3>2, RepliesAreMade
  <2>2. CASE StartEngine(r)
    BY <1>4, <2>2 DEF StartEngine
  <2>3. CASE Minted(r)
    BY <1>4, <2>3 DEF Minted
  <2>4. CASE TryMetadataHost(r) /\ ~Minted(r)
    BY <1>4, <2>4 DEF TryMetadataHost
  <2>5. CASE AuthUnavailable(r)
    BY <1>3, <1>4, <2>5, RepliesAreMade DEF AuthUnavailable
  <2>6. CASE Resume(r)
    <3>1. /\ req[r].calc \in Engines /\ answer[r] \in Comeback
          /\ Respond(r, HandlerReply(req[r], answer[r]))
      BY <1>1, <2>6 DEF Resume, Staged, EngineStages
    <3>2. HandlerReply(req[r], answer[r]).status # 0
      BY <3>1, HandlerReplySound DEF Sound
    <3> QED  BY <1>3, <3>1, <3>2, RepliesAreMade
  <2> QED
    BY <1>6, <2>1, <2>2, <2>3, <2>4, <2>5, <2>6
    DEF Handle, Mint, TryMetadataHost, FetchIdToken
<1>7. ASSUME NEW r \in Requests, Transfer(r) PROVE AnsweredInv'
  BY <1>4, <1>7
  DEF Transfer, ConnectFails, Deliver, EngineAnswers, CallFails, ComesBack
<1>8. ASSUME NEW r \in Requests, DeadlinePasses(r) PROVE AnsweredInv'
  BY <1>1, <1>8, RepliesAreMade DEF AnsweredInv, DeadlinePasses, handler, TypeOK
<1>9. CASE ContainerLost
  BY <1>9, RepliesAreMade DEF AnsweredInv, ContainerLost, InFlight
<1> QED
  BY <1>2, <1>5, <1>6, <1>7, <1>8, <1>9 DEF Next, vars, handler

\* The whole invariant: the records of the requests, the loop, and that no
\* handler ends without an answer to its caller, whichever mints fail and
\* whenever the deadline passes or the container goes.
THEOREM InvariantHolds == Spec => []IInv
<1>1. Init => LoopInv /\ AnsweredInv
  BY GatewayAssumption DEF Init, LoopInv, AnsweredInv, MintSteps
<1> QED  BY <1>1, RecordsHold, NextLoop, NextAnswered, PTL DEF Spec, IInv

\* The safety half of EveryRequestAnswered: no handler is taken back, by a retry
\* or otherwise, so it ends after eight steps at most.
THEOREM HandlersDoMoveOn == Spec => HandlersMoveOn
<1> DEFINE A == /\ \A r \in Requests : pc'[r] # pc[r] => Rank[pc[r]] < Rank[pc'[r]]
                /\ \A r \in Requests : Handle(r) \/ Transfer(r) => pc'[r] # pc[r]
<1>1. ASSUME RecordsInv, NEW r \in Requests, NEW stage, Goto(r, stage),
             stage \in Stages, Rank[pc[r]] < Rank[stage]
      PROVE  /\ pc'[r] # pc[r]
             /\ \A s \in Requests : pc'[s] # pc[s] => Rank[pc[s]] < Rank[pc'[s]]
  <2>1. pc \in [Requests -> Stages]
    BY <1>1 DEF RecordsInv, TypeOK
  <2>2. pc' = [pc EXCEPT ![r] = stage]
    BY <1>1 DEF Goto
  <2>3. stage # pc[r]
    <3>1. Rank[pc[r]] \in Nat
      BY <2>1 DEF Rank, Stages, MintSteps
    <3> QED  BY <1>1, <3>1
  <2> QED  BY <1>1, <2>1, <2>2, <2>3
<1>2. ASSUME RecordsInv, NEW r \in Requests, Handle(r)
      PROVE  \E stage \in Stages : Goto(r, stage) /\ Rank[pc[r]] < Rank[stage]
  BY <1>2
  DEF Handle, StartLocal, StartEngine, Mint, TryMetadataHost, FetchIdToken,
      AuthUnavailable, Resume, Minted, Respond, Rank, Stages, MintSteps
<1>3. ASSUME RecordsInv, NEW r \in Requests, Transfer(r)
      PROVE  \E stage \in Stages : Goto(r, stage) /\ Rank[pc[r]] < Rank[stage]
  BY <1>3
  DEF Transfer, ConnectFails, Deliver, EngineAnswers, CallFails, ComesBack, Rank,
      Stages
<1>4. ASSUME RecordsInv, NEW r \in Requests, Handle(r) \/ Transfer(r)
      PROVE  /\ pc'[r] # pc[r]
             /\ \A s \in Requests : pc'[s] # pc[s] => Rank[pc[s]] < Rank[pc'[s]]
  BY <1>1, <1>2, <1>3, <1>4
<1>5. ASSUME RecordsInv, [Next]_vars
      PROVE  \A r \in Requests : pc'[r] # pc[r] => Rank[pc[r]] < Rank[pc'[r]]
  <2>1. ASSUME NEW r \in Requests, Arrive(r)
        PROVE  \A s \in Requests : pc'[s] # pc[s] => Rank[pc[s]] < Rank[pc'[s]]
    <3>1. Goto(r, "queued") /\ "queued" \in Stages /\ Rank[pc[r]] < Rank["queued"]
      BY <2>1 DEF Arrive, Stages, Rank
    <3> QED  BY <1>1, <1>5, <3>1
  <2>2. CASE ContainerLost
    <3> SUFFICES ASSUME NEW s \in Requests, pc'[s] # pc[s]
                 PROVE  Rank[pc[s]] < Rank[pc'[s]]
      OBVIOUS
    <3>1. pc'[s] = "done" /\ pc[s] \in Stages \ {"idle", "done"}
      BY <1>5, <2>2 DEF RecordsInv, TypeOK, ContainerLost, InFlight
    <3> QED  BY <3>1 DEF Rank, Stages, MintSteps
  <2>3. CASE UNCHANGED pc
    BY <2>3
  <2> QED
    BY <1>4, <1>5, <2>1, <2>2, <2>3 DEF Next, DeadlinePasses, vars, handler
<1>6. RecordsInv /\ [Next]_vars => [A]_vars
  BY <1>4, <1>5
<1>7. Spec => [][A]_vars
  BY <1>6, RecordsHold, PTL DEF Spec
<1> QED  BY <1>7 DEF HandlersMoveOn
=============================================================================
