----------------------------- MODULE InputRules -----------------------------
(***************************************************************************)
(* The input models of the calculators (api/schemas/*.py): which fields a  *)
(* body may and must have, what each takes, what stands in for one that is *)
(* left out, and the rules between fields.                                 *)
(*                                                                         *)
(* A body is a function from the fields that were given.  A value is one   *)
(* of the classes the models tell apart: the amounts "zero", "some" (12),  *)
(* "cents" (12.34), "mills" (12.345), "excess" (400, over every upper      *)
(* bound) and "negative", the strings "numeral" ("12") and "word", the     *)
(* members of the literal types, and "null".                               *)
(***************************************************************************)
EXTENDS Naturals

-----------------------------------------------------------------------------
(***************************************************************************)
(* Kinds of field: the classes each takes and refuses, and whether it      *)
(* reads a numeral as the number it spells.                                *)
(***************************************************************************)
Number(refused) ==
  [takes   |-> {"zero", "some", "cents", "mills", "excess", "negative",
                "numeral"} \ refused,
   refuses |-> refused \cup {"word"},
   number  |-> TRUE]

String(taken, refused) ==
  [takes |-> taken, refuses |-> refused, number |-> FALSE]

Money         == Number({"mills", "negative"})
PositiveMoney == Number({"mills", "negative", "zero"})
Percentage    == Number({"negative", "excess"})
Days          == Number({"negative", "excess"})
WholeDays     == Number({"negative", "excess", "cents", "mills"})
Quantity      == Number({"negative"})
Factor        == Number({"negative", "zero"})
Count         == Number({"negative", "cents", "mills"})
PositiveCount == Number({"negative", "cents", "mills", "zero"})
Month         == Number({"negative", "cents", "mills", "zero", "excess"})

Text         == String({"word", "numeral"}, {"some"})
MoneyText    == String({"numeral"}, {"word", "mills text", "some"})
IsoDate      == String({"date"}, {"word", "numeral"})
Literal(set) == String(set, {"word"})
FbtType      == Literal({"Type 1", "Type 2"})
DayCount     == Literal({"actual/actual", "actual/365", "monthly"})

\* A list of records; an event's amount may be left out but not be null.
EventInput      == String({"empty", "events"},
                          {"bad event", "null amount", "word"})
Div7aRepayment  == String({"empty", "repayments"}, {"bad repayment", "word"})
HpBalloonInput  == String({"balloon"}, {"no mode", "word"})

Field(kind, default, nullable) ==
  [kind |-> kind, default |-> default, nullable |-> nullable]

Required(kind) == Field(kind, "required", FALSE)
Optional(kind) == Field(kind, "null", TRUE)
OrZero(kind)   == Field(kind, "zero", TRUE)    \* null stays null

-----------------------------------------------------------------------------
(* The models: a class and the fields that a subclass adds. *)

Joined(f, g) ==
  [x \in DOMAIN f \cup DOMAIN g |-> IF x \in DOMAIN f THEN f[x] ELSE g[x]]

NoContribution ==
  [employee_contribution |-> Field(Money, "zero", FALSE)]

FBTCarOperatingCostInput ==
  Joined(NoContribution,
    [business_use_percentage   |-> Required(Percentage),
     form_of_finance           |-> Required(Literal(
        {"owned", "hire_purchase", "leased", "unspecified"})),
     lease_payments            |-> Optional(Money),
     fuel_repairs_servicing    |-> Optional(Money),
     registration_insurance    |-> Optional(Money),
     no_private_use_reduction  |-> Optional(Money),
     acquisition_date          |-> Optional(IsoDate),
     opening_depreciated_value |-> Optional(Money),
     acquisition_cost          |-> Optional(Money),
     days_held_in_fbt_year     |-> Optional(WholeDays),
     deemed_total              |-> Optional(Money),
     fbt_type                  |-> Optional(FbtType)])

FBTLoanInput ==
  [fbt_benchmark_interest_amount   |-> Optional(Money),
   interest_charged_by_employer    |-> Required(Money),
   otherwise_deductible_percentage |-> Required(Percentage),
   original_loan_amount            |-> Optional(Money),
   fbt_type                        |-> Optional(Text)]

FBTDebtWaiverInput ==
  [amount_waived              |-> Required(Money),
   interest_no_longer_charged |-> Optional(Money)]

Deductible ==
  Joined(NoContribution,
    [otherwise_deductible_percentage |-> Required(Percentage),
     inhouse_benefit_claimed         |-> Optional(Money),
     fbt_type                        |-> Required(FbtType)])

ExpensePaymentBase == Joined(Deductible, [expense_value |-> Required(Money)])
PropertyBase       == Joined(Deductible, [gst_inclusive_value |-> Required(Money)])
ResidualBase       == Joined(Deductible, [residual_value |-> Required(Money)])

FBTBoardInput ==
  [members_under_twelve           |-> OrZero(Count),
   under_12_meals_per_child       |-> OrZero(Count),
   members_over_twelve            |-> OrZero(Count),
   over_12_meals_per_child        |-> OrZero(Count),
   over_12_employee_contributions |-> OrZero(Money)]

FBTHousingInput ==
  [housing_benefit_value |-> Required(Money),
   indexation_factor     |-> Field(Quantity, "one", TRUE),
   recipient_rent        |-> OrZero(Money),
   fbt_type              |-> Required(FbtType)]

FBTLafhaInput ==
  [weeks_lived_away               |-> Required(Quantity),
   accommodation_per_week         |-> Required(Money),
   meals_per_week                 |-> Required(Money),
   exempt_accommodation_component |-> OrZero(Money),
   exempt_food_component          |-> OrZero(Money)]

FBTTebeInput ==
  [salary_packaged_meal_efle |-> Required(Money),
   recreation                |-> Required(Money),
   fbt_type                  |-> Required(FbtType)]

FBTCarParkingActualInput ==
  [spaces_provided       |-> Required(Quantity),
   valuation_method_rate |-> Required(Money),
   employee_contribution |-> OrZero(Money),
   fbt_type              |-> Optional(Text)]

FBTCarParkingStatutory228Input ==
  [days_car_parking_available |-> Required(Days),
   valuation_method_rate      |-> Required(Money),
   employee_contribution      |-> OrZero(Money),
   fbt_type                   |-> Optional(Text)]

FBTCarParkingRegister12WkInput ==
  [benefits_in_period    |-> Required(Quantity),
   valuation_method_rate |-> Required(Money),
   days_space_available  |-> Required(Days),
   employee_contribution |-> OrZero(Money),
   fbt_type              |-> Optional(Text)]

MealEntertainmentBase ==
  [employees               |-> Required(Money),
   employees_associates    |-> Required(Money),
   employees_nonassociates |-> Required(Money),
   staff_amenities         |-> OrZero(Money),
   tea_items               |-> OrZero(Money),
   overnight_meals         |-> OrZero(Money),
   recreation_expenses     |-> OrZero(Money),
   eligible_meals          |-> OrZero(Money),
   seminar_meals           |-> OrZero(Money),
   fbt_type                |-> Required(FbtType)]

FBTMealEntertainmentRegister12WkInput ==
  Joined(MealEntertainmentBase, [register_percentage |-> Required(Percentage)])

FBTCarStatutoryFormulaInput ==
  [base_value            |-> Required(Money),
   days_available        |-> Required(Days),
   accessories           |-> OrZero(Money),
   employee_contribution |-> OrZero(Money),
   fbt_type              |-> Optional(FbtType)]

\* The asset of a depreciation body, its fields beside those of the body.
AssetCreatedInput ==
  [cost                         |-> Required(PositiveMoney),
   acquisition_date             |-> Required(IsoDate),
   accounting_useful_life_years |-> Optional(PositiveCount),
   accounting_method            |-> Optional(Literal(
      {"prime_cost", "diminishing_value"})),
   tax_asset_class              |-> Optional(Text),
   dv_rate_factor               |-> Optional(Factor),
   pool_type                    |-> Optional(Text)]

DepreciationAtInput ==
  Joined(AssetCreatedInput,
    [basis     |-> Required(Literal({"accounting"})),
     at_date   |-> Required(IsoDate),
     events    |-> Field(EventInput, "empty", FALSE),
     day_count |-> Optional(DayCount)])

DepreciationRangeInput ==
  Joined(AssetCreatedInput,
    [basis     |-> Required(Literal({"accounting"})),
     from_date |-> Required(IsoDate),
     to_date   |-> Required(IsoDate),
     day_count |-> Required(DayCount),
     events    |-> Field(EventInput, "empty", FALSE)])

Div7aAtInput ==
  [amalgamated_base       |-> Required(PositiveMoney),
   loan_term_years        |-> Required(PositiveCount),
   loan_origination_date  |-> Required(Text),
   income_year_start_date |-> Required(Text),
   is_first_real_myr_year |-> Optional(Literal({"true", "false"})),
   repayments             |-> Field(Div7aRepayment, "empty", FALSE)]

HpScheduleInput ==
  [amount_financed          |-> Required(MoneyText),
   annual_rate_pct          |-> Required(Text),
   term_regular_instalments |-> Required(PositiveCount),
   instalment               |-> Required(MoneyText),
   timing                   |-> Required(Literal({"in_arrears", "in_advance"})),
   frequency                |-> Required(Text),
   begin_date               |-> Required(Text),
   contract_form            |-> Required(Literal(
      {"hire_purchase", "chattel_mortgage", "equipment_loan"})),
   balloon                  |-> Optional(HpBalloonInput),
   fy_end_month             |-> Field(Month, "june", FALSE)]

Models ==
  [FBTCarOperatingCostInput              |-> FBTCarOperatingCostInput,
   FBTLoanInput                          |-> FBTLoanInput,
   FBTDebtWaiverInput                    |-> FBTDebtWaiverInput,
   FBTExpensePaymentInput                |-> ExpensePaymentBase,
   FBTExpensePaymentInHouseInput         |-> ExpensePaymentBase,
   FBTPropertyInput                      |-> PropertyBase,
   FBTPropertyInHouseInput               |-> PropertyBase,
   FBTResidualInput                      |-> ResidualBase,
   FBTResidualInHouseInput               |-> ResidualBase,
   FBTBoardInput                         |-> FBTBoardInput,
   FBTHousingInput                       |-> FBTHousingInput,
   FBTLafhaInput                         |-> FBTLafhaInput,
   FBTTebeInput                          |-> FBTTebeInput,
   FBTCarParkingActualInput              |-> FBTCarParkingActualInput,
   FBTCarParkingStatutory228Input        |-> FBTCarParkingStatutory228Input,
   FBTCarParkingRegister12WkInput        |-> FBTCarParkingRegister12WkInput,
   FBTMealEntertainment5050Input         |-> MealEntertainmentBase,
   FBTMealEntertainmentRegister12WkInput |->
      FBTMealEntertainmentRegister12WkInput,
   FBTCarStatutoryFormulaInput           |-> FBTCarStatutoryFormulaInput,
   DepreciationAtInput                   |-> DepreciationAtInput,
   DepreciationRangeInput                |-> DepreciationRangeInput,
   Div7aAtInput                          |-> Div7aAtInput,
   HpScheduleInput                       |-> HpScheduleInput]

\* Every other model forbids fields it does not have.
IgnoresExtras == {"Div7aAtInput", "HpScheduleInput"}

-----------------------------------------------------------------------------
(* Validation. *)

Fits(field, value) ==
  \/ value = "null" /\ field.nullable
  \/ value \in field.kind.takes

Read(field, value) ==
  IF field.kind.number /\ value = "numeral" THEN "some" ELSE value

\* Mutant: a required field that is left out goes unnoticed.
FieldsFitPartly(fields, body) ==
  \A f \in DOMAIN fields \cap DOMAIN body : Fits(fields[f], body[f])

FieldsFit(fields, body) ==
  \A f \in DOMAIN fields :
    IF f \in DOMAIN body THEN Fits(fields[f], body[f])
                         ELSE fields[f].default # "required"

Validated(fields, body) ==
  [f \in DOMAIN fields |->
     IF f \in DOMAIN body THEN Read(fields[f], body[f])
                          ELSE fields[f].default]

\* Mutant: an explicit total is enough, before the two bases are looked at.
DeemedAmountsTotalFirst(car) ==
  LET Has(f) == car[f] # "null"
  IN  \/ car.form_of_finance \notin {"owned", "hire_purchase"}
      \/ Has("deemed_total")
      \/ /\ ~(Has("acquisition_cost") /\ Has("opening_depreciated_value"))
         /\ Has("acquisition_date")
         /\ \/ Has("acquisition_cost")
            \/ Has("opening_depreciated_value") /\ Has("days_held_in_fbt_year")

\* The car must come with one way to its deemed depreciation and interest.
DeemedAmountsTriad(car) ==
  LET Has(f) == car[f] # "null"
  IN  \/ car.form_of_finance \notin {"owned", "hire_purchase"}
      \/ /\ ~(Has("acquisition_cost") /\ Has("opening_depreciated_value"))
         /\ \/ Has("deemed_total")
            \/ /\ Has("opening_depreciated_value")
               /\ Has("days_held_in_fbt_year")
               /\ Has("acquisition_date")
            \/ Has("acquisition_cost") /\ Has("acquisition_date")

BasisConditionalAssetFields(v) ==
  v.basis = "accounting" =>
    /\ v.accounting_useful_life_years # "null"
    /\ v.accounting_method # "null"
    /\ v.tax_asset_class = "null"

\* The rules between the fields of a model.
ModelRules(model, v) ==
  /\ model = "FBTCarOperatingCostInput" => DeemedAmountsTriad(v)
  /\ model \in {"DepreciationAtInput", "DepreciationRangeInput"} =>
       BasisConditionalAssetFields(v)

Accepts(model, body) ==
  LET fields == Models[model]
  IN  /\ FieldsFit(fields, body)
      /\ DOMAIN body \subseteq DOMAIN fields \/ model \in IgnoresExtras
      /\ ModelRules(model, Validated(fields, body))

\* Mutant: exclude_unset, and the models' zeros never get to the engine.
DumpSet(model, body) ==
  LET v == Validated(Models[model], body)
  IN  [f \in {g \in DOMAIN v \cap DOMAIN body : v[g] # "null"} |-> v[f]]

\* model_dump(exclude_none=True) of the validated body.
Dump(model, body) ==
  LET v == Validated(Models[model], body)
  IN  [f \in {g \in DOMAIN v : v[g] # "null"} |-> v[f]]
=============================================================================
