----------------------------- MODULE FrontDoor -----------------------------
(***************************************************************************)
(* From what a caller wants calculated to what an engine is asked for, by  *)
(* every way in: the generic route, the calculator's own route, or a tool  *)
(* call and the redirect it answers with (api/routes/calculators.py,       *)
(* api/routes/mcp.py).  The engine call itself is module Gateway.          *)
(*                                                                         *)
(* One caller, who knows what it wants or takes it from a listing, and     *)
(* asks for the same thing through each door in any order.                 *)
(***************************************************************************)
EXTENDS InputRules, Mcp

CONSTANTS
  Wishes,    \* what callers come with: members of Wish
  Samples,   \* per input model, a body that it accepts
  StrayRpcs  \* JSON-RPC requests, with every mistake

RatifiedTaxonomies == {"lodgeit_au_sbrm", "hoffman_base"}
DefaultTaxonomy    == "lodgeit_au_sbrm"

Wish(calc, period, taxonomy, body) ==
  [calc |-> calc, period |-> period, taxonomy |-> taxonomy, body |-> body]

Nothing == [f \in {} |-> "null"]
NoWish  == Wish(NoCalc, NoPeriod, DefaultTaxonomy, Nothing)

ASSUME FrontDoorAssumption ==
  /\ \A w \in Wishes : DOMAIN w = {"calc", "period", "taxonomy", "body"}
  /\ \A m \in DOMAIN Samples : Accepts(m, Samples[m])
  /\ DOMAIN Samples = DOMAIN Models

VARIABLES
  wish,      \* what the caller wants
  source,    \* the listing it took that from, or "own"
  redirect,  \* where the tool call sent it
  answers,   \* what each door has answered
  rpc        \* its last JSON-RPC request, with the reply

vars == <<wish, source, redirect, answers, rpc>>

Doors == {"generic", "native", "redirect"}

-----------------------------------------------------------------------------
(* What a handler makes of a request, up to the engine call.               *)

Answer(outcome, calc, period, payload) ==
  [outcome |-> outcome, calc |-> calc, period |-> period, payload |-> payload]

\* 422 for the URIs, the taxonomy and the body, 404 for the others.
Refused(why) == Answer(why, NoCalc, NoPeriod, Nothing)
NotAsked     == Refused("not asked")

Forwarded(calc, period, payload) == Answer("forwarded", calc, period, payload)

InvokeHpSchedule(body) ==
  IF ~Accepts("HpScheduleInput", body) THEN Refused("body")
  ELSE Forwarded(Calculator("hp", "schedule"), NoPeriod,
                 Dump("HpScheduleInput", body))

\* The depreciation routes and div7a: FastAPI checks the body first.
InvokeNative(calc, model, period, taxonomy, body) ==
  IF ~Accepts(model, body) THEN Refused("body")
  ELSE IF ~WellFormed(period) THEN Refused("uri")
  ELSE IF taxonomy \notin RatifiedTaxonomies THEN Refused("taxonomy")
  ELSE IF ~Supports(Meta(calc), period) THEN Refused("period")
  ELSE Forwarded(calc, period, Dump(model, body))

InvokeDepreciationAt(period, taxonomy, body) ==
  InvokeNative(Calculator("depreciation", "at"), "DepreciationAtInput",
               period, taxonomy, body)
InvokeDepreciationRange(period, taxonomy, body) ==
  InvokeNative(Calculator("depreciation", "range"), "DepreciationRangeInput",
               period, taxonomy, body)
InvokeDiv7aAt(period, taxonomy, body) ==
  InvokeNative(Calculator("div7a", "at"), "Div7aAtInput",
               period, taxonomy, body)

\* The payload names the calculation: the registry's word is the last one.
InvokeFbt(row, period, body) ==
  Forwarded(row.calc, period,
    Joined([benefit_category |-> row.category, method |-> row.method],
           Dump(InputModelRest(row.calc), body)))

\* Mutant: hire purchase goes the way of the FBT calculators.
DispatchWithoutHp(calc, period, taxonomy, body) ==
  CASE calc = Calculator("depreciation", "at") ->
         InvokeDepreciationAt(period, taxonomy, body)
    [] calc = Calculator("depreciation", "range") ->
         InvokeDepreciationRange(period, taxonomy, body)
    [] calc = Calculator("div7a", "at") ->
         InvokeDiv7aAt(period, taxonomy, body)
    [] OTHER -> InvokeFbt(Meta(calc), period, body)

\* After every check of the generic route: to the calculator's own handler.
Dispatch(calc, period, taxonomy, body) ==
  CASE calc = Calculator("depreciation", "at") ->
         InvokeDepreciationAt(period, taxonomy, body)
    [] calc = Calculator("depreciation", "range") ->
         InvokeDepreciationRange(period, taxonomy, body)
    [] calc = Calculator("div7a", "at") ->
         InvokeDiv7aAt(period, taxonomy, body)
    [] calc = Calculator("hp", "schedule") -> InvokeHpSchedule(body)
    [] OTHER -> InvokeFbt(Meta(calc), period, body)

InvokeCalculator(calc, period, taxonomy, body) ==
  IF ~WellFormed(calc) \/ ~WellFormed(period) THEN Refused("uri")
  ELSE IF taxonomy \notin RatifiedTaxonomies THEN Refused("taxonomy")
  ELSE IF ~Registered(calc) THEN Refused("calculator")
  ELSE IF ~Supports(Meta(calc), period) THEN Refused("period")
  ELSE IF ~Accepts(InputModelRest(calc), body) THEN Refused("body")
  ELSE Dispatch(calc, period, taxonomy, body)

\* A calculator with a route of its own.
HasRoute(calc) == Registered(calc) /\ calc.module # "fbt"

AtItsRoute(w) ==
  CASE w.calc = Calculator("depreciation", "at") ->
         InvokeDepreciationAt(w.period, w.taxonomy, w.body)
    [] w.calc = Calculator("depreciation", "range") ->
         InvokeDepreciationRange(w.period, w.taxonomy, w.body)
    [] w.calc = Calculator("div7a", "at") ->
         InvokeDiv7aAt(w.period, w.taxonomy, w.body)
    [] w.calc = Calculator("hp", "schedule") -> InvokeHpSchedule(w.body)

-----------------------------------------------------------------------------
(* The caller. *)

NoRpc == [request |-> Rpc("none", "none", TRUE,
                          Params("none", "none", "none", NoPeriod, NoResource)),
          reply   |-> NoContent]

Init ==
  /\ wish \in Wishes \cup {NoWish}
  /\ source = IF wish = NoWish THEN "undecided" ELSE "own"
  /\ redirect = NoRedirect
  /\ answers = [d \in Doors |-> NotAsked]
  /\ rpc = NoRpc

Decided == source \notin {"undecided", "rpc", "resources"}

Take(offer, listing) ==
  /\ source = "undecided"
  /\ wish' = Wish(offer.calc, offer.period, DefaultTaxonomy,
                  Samples[offer.schema])
  /\ source' = listing
  /\ UNCHANGED <<redirect, answers, rpc>>

BrowseCalculators ==
  \E m \in KnownModules : \E o \in ListCalculators(m) : Take(o, "calculators")

\* A calculator that a module names, over a period of that module.
BrowseModules ==
  \E m \in KnownModules :
    \E c \in CalculatorsNamedBy(m), o \in ListCalculators(m) :
      Take(Offer(c, o.period, InputModelRest(c), NoTool), "modules")

BrowseTools == \E o \in ListTools : Take(o, "tools")

Exchange(q) == rpc' = [request |-> q, reply |-> McpEndpoint(q)]

ReadListedResource ==
  \E uri \in ListResources :
    /\ source = "undecided"
    /\ source' = "resources"
    /\ Exchange(Rpc("2.0", "resources/read", TRUE,
                    Params("object", "none", "none", NoPeriod, uri)))
    /\ UNCHANGED <<wish, redirect, answers>>

SendStray ==
  \E q \in StrayRpcs :
    /\ source = "undecided"
    /\ source' = "rpc"
    /\ Exchange(q)
    /\ UNCHANGED <<wish, redirect, answers>>

AskGeneric ==
  /\ Decided /\ answers["generic"] = NotAsked
  /\ answers' = [answers EXCEPT !["generic"] =
       InvokeCalculator(wish.calc, wish.period, wish.taxonomy, wish.body)]
  /\ UNCHANGED <<wish, source, redirect, rpc>>

AskNative ==
  /\ Decided /\ answers["native"] = NotAsked
  /\ HasRoute(wish.calc)
  /\ answers' = [answers EXCEPT !["native"] = AtItsRoute(wish)]
  /\ UNCHANGED <<wish, source, redirect, rpc>>

\* tools/call by the name that tools/list gives the calculator, with the
\* period or without one.
CallTool ==
  \E o \in ListTools, period \in {wish.period, NoPeriod} :
    LET p == Params("object", o.tool, "object", period, NoResource)
        q == Rpc("2.0", "tools/call", TRUE, p)
    IN  /\ Decided /\ redirect = NoRedirect
        /\ o.calc = wish.calc
        /\ Exchange(q)
        /\ redirect' = IF McpEndpoint(q).result = "dispatch"
                       THEN Redirect(p) ELSE NoRedirect
        /\ UNCHANGED <<wish, source, answers>>

\* The path it was sent to has no taxonomy.
FollowRedirect ==
  /\ redirect # NoRedirect /\ answers["redirect"] = NotAsked
  /\ answers' = [answers EXCEPT !["redirect"] =
       IF redirect.native
       THEN InvokeDepreciationAt(redirect.period, DefaultTaxonomy, wish.body)
       ELSE InvokeCalculator(redirect.calc, redirect.period, DefaultTaxonomy,
                             wish.body)]
  /\ UNCHANGED <<wish, source, redirect, rpc>>

Next ==
  \/ BrowseCalculators \/ BrowseModules \/ BrowseTools
  \/ ReadListedResource \/ SendStray
  \/ AskGeneric \/ AskNative \/ CallTool \/ FollowRedirect

Spec == Init /\ [][Next]_vars

-----------------------------------------------------------------------------
(***************************************************************************)
(* The car engine's choice among the ways to a deemed amount, as the       *)
(* gateway's comments quote it: what it skips it counts as zero.           *)
(***************************************************************************)
FbtOcDeemedDispatch(car) ==
  LET Has(f) == f \in DOMAIN car
  IN  IF car.form_of_finance \notin {"owned", "hire_purchase"}
        THEN "not applicable"
      ELSE IF Has("acquisition_cost") /\ Has("opening_depreciated_value")
        THEN "conflicting_inputs"
      ELSE IF Has("deemed_total") THEN "override"
      ELSE IF Has("acquisition_cost") /\ Has("acquisition_date")
        THEN "computed_chained"
      ELSE IF /\ Has("opening_depreciated_value")
              /\ Has("days_held_in_fbt_year") /\ Has("acquisition_date")
        THEN "computed"
      ELSE "skipped_no_acquisition"

Complete(call) ==
  /\ call.calc = Calculator("fbt", "car-operating-cost") =>
       FbtOcDeemedDispatch(call.payload) \notin
         {"skipped_no_acquisition", "conflicting_inputs"}
  /\ call.calc.module = "depreciation" =>
       /\ {"accounting_useful_life_years", "accounting_method"}
            \subseteq DOMAIN call.payload
       /\ "tax_asset_class" \notin DOMAIN call.payload

IsForwarded(d) == answers[d].outcome = "forwarded"
Asked(d)       == answers[d] # NotAsked

PeriodOf(d) == IF d = "redirect" THEN redirect.period ELSE wish.period

(***************************************************************************)
(* The type invariant: nothing is answered before the caller has decided,  *)
(* and a payload has neither nulls nor holes where a required field was    *)
(* not given.                                                              *)
(***************************************************************************)
TypeOK ==
  /\ source \in {"undecided", "own", "calculators", "modules", "tools",
                 "resources", "rpc"}
  /\ DOMAIN answers = Doors
  /\ ~Decided => redirect = NoRedirect /\ \A d \in Doors : ~Asked(d)
  /\ redirect # NoRedirect => Registered(redirect.calc)
  /\ \A d \in Doors : IsForwarded(d) =>
       \A f \in DOMAIN answers[d].payload :
         answers[d].payload[f] \notin {"null", "required"}

(***************************************************************************)
(* No door lets an owned or hire-purchase car through to an engine that    *)
(* would count its depreciation and interest as zero or refuse two bases,  *)
(* nor an asset without what the accounting basis needs, whatever else the *)
(* body leaves out, nulls or sends as zero.                                *)
(***************************************************************************)
NoSilentZero ==
  \A d \in Doors : IsForwarded(d) => Complete(answers[d])

(***************************************************************************)
(* The doors agree: what one makes of a request over a period and under a  *)
(* taxonomy that are good, every other one makes of it too, to the last    *)
(* field of the payload.                                                   *)
(***************************************************************************)
DoorsAgree ==
  \A d, e \in Doors :
    ( /\ Asked(d) /\ Asked(e) /\ PeriodOf(d) = PeriodOf(e)
      /\ Registered(wish.calc) /\ Supports(Meta(wish.calc), PeriodOf(d))
      /\ wish.taxonomy \in RatifiedTaxonomies )
    => answers[d] = answers[e]

(***************************************************************************)
(* The engine is asked for the calculation the caller meant: of all FBT    *)
(* calculators only the wanted one goes by the payload's category and      *)
(* method, every value that was given is in the payload (a null field is   *)
(* left out, even of a model where absence means zero), every other field  *)
(* is the model's default, and nothing that was given was dropped but by   *)
(* the two models that ignore what they do not know.                       *)
(***************************************************************************)
CallIsForTheWish ==
  \A d \in Doors :
    LET call   == answers[d]
        model  == InputModelRest(wish.calc)
        fields == Models[model]
    IN  IsForwarded(d) =>
          /\ call.calc = wish.calc
          /\ call.period \in {PeriodOf(d), NoPeriod}
          /\ wish.calc.module = "fbt" =>
               {r \in Rows : /\ r.calc.module = "fbt"
                             /\ r.category = call.payload.benefit_category
                             /\ r.method = call.payload.method}
                 = {Meta(wish.calc)}
          /\ \A f \in DOMAIN wish.body :
               IF wish.body[f] = "null" THEN f \notin DOMAIN call.payload
               ELSE IF f \in DOMAIN call.payload
               THEN call.payload[f] = Read(fields[f], wish.body[f])
               ELSE model \in IgnoresExtras /\ f \notin DOMAIN fields
          /\ \A f \in DOMAIN fields \ DOMAIN wish.body :
               IF f \in DOMAIN call.payload
               THEN call.payload[f] = fields[f].default
               ELSE fields[f].default = "null"

(***************************************************************************)
(* What the gateway advertises can be had: a calculator from a listing, a  *)
(* module's elections or the tools, over an advertised period and with a   *)
(* body its input model accepts, gets to its engine by every door, and a   *)
(* resource it lists can be read.  The JSON schemas published with the     *)
(* tools allow more: they leave out the rules between fields.              *)
(***************************************************************************)
AdvertisedIsCallable ==
  /\ source \in {"calculators", "modules", "tools"} =>
       /\ \A d \in Doors : Asked(d) =>
            IsForwarded(d) /\ answers[d].calc = wish.calc
       /\ rpc # NoRpc => rpc.reply.error = 0
  /\ source = "resources" => rpc.reply.result = "contents"
=============================================================================
