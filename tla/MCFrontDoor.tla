---------------------------- MODULE MCFrontDoor ----------------------------
(***************************************************************************)
(* Bodies for every input model: a full and a minimal good one, each with  *)
(* one field changed to every value its kind tells apart, left out or      *)
(* joined by a field nobody knows, and for the car every combination of    *)
(* the fields its deemed amounts depend on.                                *)
(***************************************************************************)
EXTENDS FrontDoorInvariant, TLC

AnyOf(set) == CHOOSE v \in set : TRUE

\* Values that satisfy the rules between fields as well.
GoodValue(model, f) ==
  CASE f = "form_of_finance"  -> "leased"
    [] f = "tax_asset_class"  -> "null"
    [] Models[model][f].kind.number -> "some"
    [] OTHER -> AnyOf(Models[model][f].kind.takes)

Full(model) == [f \in DOMAIN Models[model] |-> GoodValue(model, f)]

Needed(model) ==
  {f \in DOMAIN Models[model] : Models[model][f].default = "required"}
  \cup (DOMAIN Models[model] \cap
        {"accounting_useful_life_years", "accounting_method"})

Restricted(body, fields) == [f \in DOMAIN body \cap fields |-> body[f]]
Minimal(model) == Restricted(Full(model), Needed(model))

MCSamples == [m \in DOMAIN Models |-> Minimal(m)]

Values(field) == field.kind.takes \cup field.kind.refuses \cup {"null"}

Perturbed(model, body) ==
  {(f :> v) @@ body : <<f, v>> \in
     UNION {{g} \X Values(Models[model][g]) : g \in DOMAIN Models[model]}}
  \cup {Restricted(body, DOMAIN body \ {f}) : f \in DOMAIN body}
  \cup {("unknown_field" :> "some") @@ body}

Bodies(model) ==
  Perturbed(model, Full(model)) \cup Perturbed(model, Minimal(model))

TriadFields == {"opening_depreciated_value", "acquisition_cost",
  "acquisition_date", "days_held_in_fbt_year", "deemed_total"}

CarBodies ==
  LET car == Minimal("FBTCarOperatingCostInput")
      value(f) == IF f = "acquisition_date" THEN "date" ELSE "zero"
  IN  {("form_of_finance" :> form)
         @@ [f \in given |-> value(f)] @@ [f \in nulls |-> "null"] @@ car :
       form \in {"owned", "hire_purchase", "unspecified"},
       given \in SUBSET TriadFields, nulls \in {{}, TriadFields}}

FirstPeriod(row) == row.periods[1]

OwnWishes(row) ==
  {Wish(row.calc, FirstPeriod(row), DefaultTaxonomy, b) :
     b \in Bodies(row.schema)}
  \cup {Wish(row.calc, p, t, b) :
     p \in {row.periods[i] : i \in DOMAIN row.periods}
           \cup {Period("fbt", "fy2025"), Period("fbt", Malformed)},
     t \in RatifiedTaxonomies \cup {"unratified"},
     b \in {Minimal(row.schema), Nothing}}

MCWishes ==
  UNION {OwnWishes(r) : r \in Rows}
  \cup {Wish(Meta(Calculator("fbt", "car-operating-cost")).calc,
             Period("fbt", "fy2026"), DefaultTaxonomy, b) : b \in CarBodies}
  \cup {Wish(Calculator("fbt", n), Period("fbt", "fy2026"), t,
             Minimal("FBTLoanInput")) :
       n \in {"unknown", Malformed}, t \in {DefaultTaxonomy, "unratified"}}

MCStrayRpcs ==
  {Rpc(v, m, id, p) :
     v \in {"2.0", "1.0"}, m \in Methods \cup {"initialize", NotAString},
     id \in BOOLEAN,
     p \in {Params(s, n, a, q, u) :
       s \in Shapes, n \in {"fbt-loan", "fbt_loan", NotAString},
       a \in Shapes, q \in {NoPeriod, Period("x", NotAString)},
       u \in {NoResource, Resource("standalone", NoCalc, "unknown"),
              Resource("calc", Calculator("fbt", "loan"), "none")}}}

=============================================================================
