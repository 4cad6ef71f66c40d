---------------------------- MODULE EngineResult ----------------------------
(***************************************************************************)
(* The tail of the three kinds of route in api/routes/calculators.py: from *)
(* an engine's 2xx answer to the caller's reply.  Between the two come the *)
(* JSON parse of dispatch(), the `error` key, the response checks, the     *)
(* manifest of rate tables and, on the FBT route, the response model.      *)
(***************************************************************************)
EXTENDS EngineErrorMapper, Sequences

Engines    == {"fbt", "div7a", "depreciation"}
Taxonomies == {"lodgeit_au_sbrm", "hoffman_base"}

\* A rate URI names a table of the shipped lodgeit_au_sbrm bundle, a table
\* that is not there, or has no colon at all.
RateUris == {"shipped", "missing", "malformed"}

\* taxable_value on the wire: absent, a 2dp decimal string of zero or of
\* another amount, a bare JSON number, or a string that is no number.
TaxableValues == {"absent", "zero", "nonzero", "number", "junk"}

\* gross_up_factor, grossed_up_taxable_value, fbt_payable: all there as decimal
\* strings, all there but one as a bare number, or not all there.
Trios == {"strings", "number", "incomplete"}

(***************************************************************************)
(* A 2xx body.  `typed`: beside its `error` it has a refusal_class of its  *)
(* own, which dispatch() leaves behind.  `complete`: every field the       *)
(* depreciation routes require is there.  `traced` and `consumed` are      *)
(* trace.applied_rate_table_uris and rate_uris_consumed; `internal` is as  *)
(* in Body, of the result itself.                                          *)
(***************************************************************************)
Result ==
  [shape : {"object", "list", "not_json"}, error : Terms \cup {"none"},
   typed : BOOLEAN, detail : WellFormedBody, copied : BOOLEAN,
   taxable : TaxableValues, trio : Trios, complete : BOOLEAN,
   traced : Seq(RateUris), consumed : Seq(RateUris), internal : SUBSET Places]

\* {**engine_response, ...}: the engine's own fields pass through.
Ok(res) == Reply(200, "none", res.internal, FALSE)

BadGateway(error) == Reply(502, error, {}, FALSE)

\* Empty lists are falsy.
OrSeq(s, t) == IF s # <<>> THEN s ELSE t

\* The rate URIs the manifest will cite.
CitedUris(engine, res) ==
  CASE engine = "fbt"          -> OrSeq(res.traced, res.consumed)
    [] engine = "div7a"        -> OrSeq(res.consumed, <<"shipped">>)
    [] engine = "depreciation" -> res.consumed

(***************************************************************************)
(* rate_table_root_for + build_manifest.  Only lodgeit_au_sbrm is shipped, *)
(* and nothing is shipped for the one depreciation period, `unscoped`.     *)
(* URIs are resolved in order; the first that fails decides the outcome: a *)
(* file that is not there is caught by the route, a malformed URI is not.  *)
(***************************************************************************)
Resolves(engine, taxonomy, uri) ==
  /\ uri = "shipped"
  /\ taxonomy = "lodgeit_au_sbrm"
  /\ engine # "depreciation"

ManifestBuilt(engine, taxonomy, uris) ==
  \A i \in DOMAIN uris : Resolves(engine, taxonomy, uris[i])

ManifestCrashes(engine, taxonomy, uris) ==
  \E i \in DOMAIN uris : /\ uris[i] = "malformed"
                         /\ \A j \in 1..(i - 1) :
                              Resolves(engine, taxonomy, uris[j])

\* Mutant of AfterManifest: a table that cannot be read is passed over.
AfterManifestIgnored(engine, taxonomy, uris, next) == next

\* The common end of the routes: build the manifest, then what follows it.
AfterManifest(engine, taxonomy, uris, next) ==
  IF ManifestBuilt(engine, taxonomy, uris) THEN next
  ELSE IF ManifestCrashes(engine, taxonomy, uris) THEN Bare500
  ELSE BadGateway("manifest_rate_table_unavailable")

\* CalculatorInvocationResponse.model_validate: taxable_value and the trio are
\* required strings with a decimal pattern.
ValidFbtResponse(res) ==
  /\ res.taxable \in {"zero", "nonzero"}
  /\ res.trio = "strings"

\* The D21 check: a real benefit, no complete trio and no rate cited.
UndercountsFbt(res, uris) ==
  /\ res.taxable \in {"nonzero", "number"}
  /\ res.trio = "incomplete"
  /\ uris = <<>>

FbtReply(taxonomy, res) ==
  LET uris == CitedUris("fbt", res)
  IN  IF res.taxable = "absent"
      THEN Reply(502, "engine_response_missing_taxable_value",
                 res.internal, FALSE)
      ELSE AfterManifest("fbt", taxonomy, uris,
             IF UndercountsFbt(res, uris)
               THEN BadGateway("engine_response_missing_gross_up_trio")
             ELSE IF ValidFbtResponse(res) THEN Ok(res) ELSE Bare500)

Div7aReply(taxonomy, res) ==
  AfterManifest("div7a", taxonomy, CitedUris("div7a", res), Ok(res))

DepreciationReply(taxonomy, res) ==
  IF ~res.complete
  THEN Reply(502, "engine_response_missing_field", res.internal, FALSE)
  ELSE AfterManifest("depreciation", taxonomy, CitedUris("depreciation", res),
                     Ok(res))

SuccessReply(engine, taxonomy, res) ==
  CASE engine = "fbt"          -> FbtReply(taxonomy, res)
    [] engine = "div7a"        -> Div7aReply(taxonomy, res)
    [] engine = "depreciation" -> DepreciationReply(taxonomy, res)

\* except PrologCalculationError: the div7a route has an answer of its own.
CalculationErrorReply(engine, res) ==
  IF engine = "div7a"
  THEN Reply(422, "div7a_calculation_error", res.detail.internal, FALSE)
  ELSE MapCalculationError(res.error, res.detail, res.copied)

(***************************************************************************)
(* From resp.json() on.  A list has no `error` key; `field not in list`    *)
(* holds on the depreciation routes, list.get fails on the others.         *)
(***************************************************************************)
ResultReply(engine, taxonomy, res) ==
  IF res.shape = "not_json" THEN Bare500
  ELSE IF res.shape = "list"
    THEN IF engine = "depreciation"
         THEN BadGateway("engine_response_missing_field")
         ELSE Bare500
  ELSE IF res.error # "none" THEN CalculationErrorReply(engine, res)
  ELSE SuccessReply(engine, taxonomy, res)
=============================================================================
