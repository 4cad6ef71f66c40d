------------------------- MODULE EngineErrorMapper -------------------------
(***************************************************************************)
(* api/lib/engine_error_mapper.py: what the gateway tells its caller when  *)
(* an engine call fails.  Pure operators, no state.                        *)
(*                                                                         *)
(* An engine body is abstracted to what the mapper can tell apart:         *)
(*   shape          how _parse_engine_body sees the (truncated) text       *)
(*   error          the top-level key: absent, "empty" (there, but falsy)  *)
(*   refusal_class  the same, but a null one is "none" like an absent one  *)
(*   payload        what the classifier reads as refusal_payload: absent   *)
(*                  (or no dict), or the kind of field it names            *)
(*   mention        the text "refusal_class" occurs anywhere in it: as a   *)
(*                  key, null or nested or not, or within some string      *)
(*   cohort         the text contains "fbt_year_outside_cohort("           *)
(*   internal       where numeric_mode / events occur in it                *)
(***************************************************************************)
EXTENDS Naturals

CallerFault4xx    == {400, 409, 413, 422}
GatewayFault4xx   == {404, 405}
AuthFailure4xx    == {401, 403}
RateLimited4xx    == {429}

\* "structured": an object or a list where a term is expected.
Terms == {"conflicting_inputs", "non_cent_boundary", "fbt_year_outside_cohort",
          "other_term", "structured"}

\* "top": a key of the body; "request": a key of its request / payload
\* sub-dict; "deeper": anywhere below.
Places == {"top", "request", "deeper"}

\* "request_field": the payload names a field of an input model (so an alias
\* exists); "engine_field": it names some other field; "unnamed": no field key.
Payloads == {"absent", "unnamed", "request_field", "engine_field"}

Body ==
  [shape : {"object", "list", "text"}, error : Terms \cup {"empty", "none"},
   refusal_class : Terms \cup {"empty", "none"}, payload : Payloads,
   mention : BOOLEAN, cohort : BOOLEAN, internal : SUBSET Places]

\* A body that did not parse to an object has no keys to read, and a key that
\* is there is in the text.
WellFormed(b) ==
  /\ b.shape # "object" => /\ b.error = "none"
                           /\ b.refusal_class = "none"
                           /\ b.payload = "absent"
  /\ b.refusal_class # "none" => b.mention

WellFormedBody == {b \in Body : WellFormed(b)}

\* The answer a handler gives its caller: HTTP status, error slug, the internal
\* engine fields its detail echoes, whether a 422 names a field in `loc`.
Reply(status, error, echoed, loc) ==
  [status |-> status, error |-> error, echoed |-> echoed, loc |-> loc]

\* _classify_engine_error_term returning None.
Unclassified == Reply(0, "unclassified", {}, FALSE)

\* An exception no handler catches: Starlette's plain-text 500.
Bare500 == Reply(500, "internal_server_error", {}, FALSE)

Truthy(term) == term \in Terms

\* `a or b`
Or(a, b) == IF Truthy(a) THEN a ELSE b

\* Mutant of Sanitised: the sub-dicts are not entered.
SanitisedTopOnly(b) == b.internal \ {"top"}

(***************************************************************************)
(* _sanitise_engine_body on a parsed body: drops the internal fields at    *)
(* the top and one level down under request / payload (for a list, of each *)
(* item); text that is no JSON passes verbatim.                            *)
(***************************************************************************)
Sanitised(b) == IF b.shape = "text" THEN b.internal
                                    ELSE b.internal \ {"top", "request"}

(***************************************************************************)
(* _classify_engine_error_term once the term is extracted.  `typed` is the *)
(* final test for a refusal_class, `echoed` what its envelope would show.  *)
(* A term that cannot be hashed raises a TypeError at the set of terms.    *)
(***************************************************************************)
ClassifyTerm(outerTerm, cohort, payload, typed, echoed) ==
  LET term == IF cohort THEN "fbt_year_outside_cohort" ELSE outerTerm
  IN  IF term = "none" THEN Unclassified
      ELSE IF term = "non_cent_boundary"
      THEN IF payload = "request_field"
           THEN Reply(422, "non_cent_boundary", {}, TRUE)
           ELSE Reply(400, "money_not_cent_quantised", {}, FALSE)
      ELSE IF term = "structured" THEN Bare500
      ELSE IF term = "conflicting_inputs"
      THEN Reply(422, "conflicting_inputs", {},
                 payload \in {"request_field", "engine_field"})
      ELSE IF term = "fbt_year_outside_cohort"
      THEN Reply(400, "fbt_year_outside_cohort", {}, FALSE)
      ELSE IF typed THEN Reply(400, "engine_bad_request", echoed, FALSE)
      ELSE Unclassified

\* Mutant of EngineTerm: the body string is not parsed again.
EngineTermUnparsed(b) == "none"

\* _engine_term_and_payload on {"status_code", "body"}: the term is found by
\* parsing the body string again.
EngineTerm(b) == Or(b.error, b.refusal_class)

(***************************************************************************)
(* Branch 1f: engine 5xx (and any status outside 4xx).  The detail is      *)
(* {"status_code", "body": <text>}, whose scrub never enters the body      *)
(* string.  It has no refusal_class key of its own: the refusal counts as  *)
(* typed if a refusal_payload came along and the text mentions the word.   *)
(***************************************************************************)
MapEngine5xx(b, label) ==
  LET typed == b.payload # "absent" /\ b.mention
      found == ClassifyTerm(EngineTerm(b), b.cohort, b.payload, typed,
                            b.internal)
  IN  IF found # Unclassified THEN found
      ELSE Reply(502, IF Truthy(EngineTerm(b))
                      THEN "unrecognised_engine_error" ELSE label,
                 b.internal, FALSE)

CallerFaultSlug(status) ==
  CASE status = 422 -> "engine_validation_error"
    [] status = 400 -> "engine_bad_request"
    [] status = 409 -> "engine_conflict"
    [] status = 413 -> "engine_payload_too_large"

\* Mutants of MapHttpStatus: any 4xx is the caller's; one slug for both kinds of
\* authentication failure.
MapHttpStatusVerbatim(status, b, label) ==
  IF status \in 400..499
  THEN Reply(status, "engine_bad_request", Sanitised(b), FALSE)
  ELSE MapEngine5xx(b, label)

MapHttpStatusOneAuthSlug(status, b, label) ==
  IF status \in AuthFailure4xx
  THEN Reply(503, "engine_auth_local_fail", {}, FALSE)
  ELSE MapHttpStatusVerbatim(status, b, label)

\* Path 1: the engine answered with a non-2xx status.
MapHttpStatus(status, b, label) ==
  IF status = 400 /\ Truthy(b.refusal_class)
    THEN Reply(400, "refusal", Sanitised(b), FALSE)
  ELSE IF status \in CallerFault4xx
    THEN Reply(status, CallerFaultSlug(status), Sanitised(b), FALSE)
  ELSE IF status \in AuthFailure4xx
    THEN Reply(502, "engine_auth_failed", b.internal, FALSE)
  ELSE IF status \in GatewayFault4xx
    THEN Reply(502, label, b.internal, FALSE)
  ELSE IF status \in RateLimited4xx
    THEN Reply(503, "engine_rate_limited", Sanitised(b), FALSE)
  ELSE IF status \in 400..499
    THEN Reply(502, label, b.internal, FALSE)
  ELSE MapEngine5xx(b, label)

\* A route may pass its own slug for the unavailable classes.
LabelOf(engine) == IF engine = "div7a" THEN "div7a_engine_unavailable"
                                       ELSE "engine_unavailable"

TransportCodes == {"engine_timeout", "engine_auth_local_fail",
                   "engine_unreachable", "engine_transport_error"}

\* Paths 2, 2b and 3: no HTTP answer at all.
MapTransport(code, engine) ==
  IF code = "engine_timeout"
    THEN Reply(504, IF engine = "div7a" THEN LabelOf(engine)
                                        ELSE "engine_timeout", {}, FALSE)
  ELSE IF code = "engine_auth_local_fail"
    THEN Reply(503, "engine_auth_local_fail", {}, FALSE)
  ELSE Reply(502, LabelOf(engine), {}, FALSE)

(***************************************************************************)
(* map_calculation_error_to_http: a 200 whose JSON has a truthy `error`.   *)
(* Only `error` and `detail` reach it (the exception carries nothing       *)
(* else), and an `error` key of the detail goes first, falsy or not.  d is *)
(* the detail, its mention and cohort also those of `error`; `copied`: it  *)
(* is a dict without refusal_payload of its own, so the whole dict is      *)
(* copied in as the payload, internal fields included.  (A detail that in  *)
(* turn holds a body string is not modelled.)                              *)
(***************************************************************************)
MapCalculationError(error, d, copied) ==
  LET term  == IF d.shape = "object" /\ d.error # "none"
               THEN Or(d.error, d.refusal_class) ELSE error
      typed == /\ d.shape = "object"
               /\ Truthy(d.refusal_class) \/ (d.payload # "absent" /\ d.mention)
      found == ClassifyTerm(term, d.cohort, d.payload, typed,
                            IF copied THEN d.internal ELSE Sanitised(d))
  IN  IF found # Unclassified THEN found
      ELSE Reply(502, "unrecognised_engine_error", Sanitised(d), FALSE)
=============================================================================
