------------------------------ MODULE Registry ------------------------------
(***************************************************************************)
(* What the gateway says it can calculate: the registry of calculators     *)
(* with the metadata merged into it (api/routes/calculators.py,            *)
(* api/lib/calculator_metadata.py), the tables that give each one its      *)
(* input model, and the listings over REST and over MCP                    *)
(* (api/services/mcp_tool_registry.py, widget_url_resolver.py).            *)
(*                                                                         *)
(* A calculator URN is its last two segments, a period URN likewise.       *)
(***************************************************************************)
EXTENDS Sequences, Naturals

Calculator(module, name) == [module |-> module, name |-> name]
Period(family, id)       == [module |-> family, name |-> id]

\* A URI the validators refuse: no match, or a jurisdiction smuggled in.
Malformed    == "malformed"
WellFormed(uri) == uri.name # Malformed

Row(calc, method, category, periods, schema) ==
  [calc |-> calc, method |-> method, category |-> category,
   periods |-> periods, schema |-> schema]

Fbt(name, method, category, schema) ==
  Row(Calculator("fbt", name), method, category,
      <<Period("fbt", "fy2026")>>, schema)

Unscoped(module) == <<Period(module, "unscoped")>>

\* _CALCULATOR_REGISTRY, in its order.
Registry == <<
  Fbt("car-operating-cost", "operating_cost", "car_operating_cost",
      "FBTCarOperatingCostInput"),
  Fbt("loan", "loan_benefit_type_2", "loan", "FBTLoanInput"),
  Fbt("debt-waiver", "debt_waiver", "debt_waiver", "FBTDebtWaiverInput"),
  Fbt("expense-payment", "expense_payment", "expense_payment",
      "FBTExpensePaymentInput"),
  Fbt("expense-payment-in-house", "in_house_expense_payment",
      "expense_payment_in_house", "FBTExpensePaymentInHouseInput"),
  Fbt("property", "property", "property", "FBTPropertyInput"),
  Fbt("property-in-house", "in_house_property", "property_in_house",
      "FBTPropertyInHouseInput"),
  Fbt("residual", "residual", "residual", "FBTResidualInput"),
  Fbt("residual-in-house", "in_house_residual", "residual_in_house",
      "FBTResidualInHouseInput"),
  Fbt("housing", "housing_non_remote", "housing", "FBTHousingInput"),
  Fbt("lafha", "lafha_std", "lafha", "FBTLafhaInput"),
  Fbt("board", "board_std", "board", "FBTBoardInput"),
  Fbt("tebe", "tebe_std", "tebe", "FBTTebeInput"),
  Fbt("car-parking-actual", "actual", "car_parking",
      "FBTCarParkingActualInput"),
  Fbt("car-parking-statutory-228", "statutory_228", "car_parking",
      "FBTCarParkingStatutory228Input"),
  Fbt("car-parking-register-12wk", "register_12wk", "car_parking",
      "FBTCarParkingRegister12WkInput"),
  Fbt("meal-entertainment-50-50", "50_50", "meal_entertainment",
      "FBTMealEntertainment5050Input"),
  Fbt("meal-entertainment-register-12wk", "register_12wk",
      "meal_entertainment", "FBTMealEntertainmentRegister12WkInput"),
  Fbt("car-statutory-formula", "car_statutory_formula",
      "car_statutory_formula", "FBTCarStatutoryFormulaInput"),
  Row(Calculator("depreciation", "at"), "at", "depreciation_at",
      Unscoped("depreciation"), "DepreciationAtInput"),
  Row(Calculator("depreciation", "range"), "range", "depreciation_range",
      Unscoped("depreciation"), "DepreciationRangeInput"),
  Row(Calculator("div7a", "at"), "at", "div7a_myr",
      <<Period("div7a", "fy2025"), Period("div7a", "fy2026")>>,
      "Div7aAtInput"),
  Row(Calculator("hp", "schedule"), "schedule", "hp_schedule",
      Unscoped("hp"), "HpScheduleInput") >>

Rows == {Registry[i] : i \in DOMAIN Registry}

Registered(calc) == \E r \in Rows : r.calc = calc
Meta(calc)       == CHOOSE r \in Rows : r.calc = calc

Supports(row, period) == \E i \in DOMAIN row.periods : row.periods[i] = period

\* _CALC_INPUT_MODEL_REST, keyed by the URN's last two segments.
CalcInputModelRest == {
  <<"fbt", "car-operating-cost", "FBTCarOperatingCostInput">>,
  <<"fbt", "loan", "FBTLoanInput">>,
  <<"fbt", "debt-waiver", "FBTDebtWaiverInput">>,
  <<"fbt", "expense-payment", "FBTExpensePaymentInput">>,
  <<"fbt", "expense-payment-in-house", "FBTExpensePaymentInHouseInput">>,
  <<"fbt", "property", "FBTPropertyInput">>,
  <<"fbt", "property-in-house", "FBTPropertyInHouseInput">>,
  <<"fbt", "residual", "FBTResidualInput">>,
  <<"fbt", "residual-in-house", "FBTResidualInHouseInput">>,
  <<"fbt", "housing", "FBTHousingInput">>,
  <<"fbt", "lafha", "FBTLafhaInput">>,
  <<"fbt", "board", "FBTBoardInput">>,
  <<"fbt", "tebe", "FBTTebeInput">>,
  <<"fbt", "car-parking-actual", "FBTCarParkingActualInput">>,
  <<"fbt", "car-parking-statutory-228", "FBTCarParkingStatutory228Input">>,
  <<"fbt", "car-parking-register-12wk", "FBTCarParkingRegister12WkInput">>,
  <<"fbt", "meal-entertainment-50-50", "FBTMealEntertainment5050Input">>,
  <<"fbt", "meal-entertainment-register-12wk",
    "FBTMealEntertainmentRegister12WkInput">>,
  <<"fbt", "car-statutory-formula", "FBTCarStatutoryFormulaInput">>,
  <<"depreciation", "at", "DepreciationAtInput">>,
  <<"depreciation", "range", "DepreciationRangeInput">>,
  <<"div7a", "at", "Div7aAtInput">>,
  <<"hp", "schedule", "HpScheduleInput">>}

\* _CALC_INPUT_MODEL, the table tools/list takes its schemas from: kept by
\* hand beside the other.
CalcInputModel == {
  <<"fbt", "car-operating-cost", "FBTCarOperatingCostInput">>,
  <<"fbt", "loan", "FBTLoanInput">>,
  <<"fbt", "debt-waiver", "FBTDebtWaiverInput">>,
  <<"fbt", "expense-payment", "FBTExpensePaymentInput">>,
  <<"fbt", "expense-payment-in-house", "FBTExpensePaymentInHouseInput">>,
  <<"fbt", "property", "FBTPropertyInput">>,
  <<"fbt", "property-in-house", "FBTPropertyInHouseInput">>,
  <<"fbt", "residual", "FBTResidualInput">>,
  <<"fbt", "residual-in-house", "FBTResidualInHouseInput">>,
  <<"fbt", "housing", "FBTHousingInput">>,
  <<"fbt", "lafha", "FBTLafhaInput">>,
  <<"fbt", "board", "FBTBoardInput">>,
  <<"fbt", "tebe", "FBTTebeInput">>,
  <<"fbt", "car-parking-actual", "FBTCarParkingActualInput">>,
  <<"fbt", "car-parking-statutory-228", "FBTCarParkingStatutory228Input">>,
  <<"fbt", "car-parking-register-12wk", "FBTCarParkingRegister12WkInput">>,
  <<"fbt", "meal-entertainment-50-50", "FBTMealEntertainment5050Input">>,
  <<"fbt", "meal-entertainment-register-12wk",
    "FBTMealEntertainmentRegister12WkInput">>,
  <<"fbt", "car-statutory-formula", "FBTCarStatutoryFormulaInput">>,
  <<"depreciation", "at", "DepreciationAtInput">>,
  <<"div7a", "at", "Div7aAtInput">>,
  <<"depreciation", "range", "DepreciationRangeInput">>,
  <<"hp", "schedule", "HpScheduleInput">>}

ModelIn(table, calc) ==
  (CHOOSE e \in table : e[1] = calc.module /\ e[2] = calc.name)[3]

InputModelRest(calc) == ModelIn(CalcInputModelRest, calc)

-----------------------------------------------------------------------------
(* The metadata document: its modules and the groups of elections.         *)

ElectionGroups ==
  [fbt |-> {
     [default |-> {"car-statutory-formula"},
      alternatives |-> {"car-operating-cost"}],
     [default |-> {},
      alternatives |-> {"meal-entertainment-50-50",
                        "meal-entertainment-register-12wk"}],
     [default |-> {"car-parking-actual"},
      alternatives |-> {"car-parking-statutory-228",
                        "car-parking-register-12wk"}]},
   div7a        |-> {},
   depreciation |-> {},
   hp           |-> {}]

KnownModules == DOMAIN ElectionGroups

\* The module of a calculator is the second-last segment of its URN: the
\* merge at import time refuses metadata that says otherwise.
ModuleOf(row) == row.calc.module

-----------------------------------------------------------------------------
(***************************************************************************)
(* The listings, as the offers a caller can take up: a calculator with a   *)
(* period, the name of its input model and, for a tool, its own name.      *)
(***************************************************************************)
NoTool == "none"
Offer(calc, period, schema, tool) ==
  [calc |-> calc, period |-> period, schema |-> schema, tool |-> tool]

\* GET /v1/calculators, filtered by a module that is known (else 404).
ListCalculators(module) ==
  UNION {{Offer(r.calc, r.periods[i], r.schema, NoTool) :
          i \in DOMAIN r.periods} : r \in {q \in Rows : ModuleOf(q) = module}}

\* GET /v1/modules: the calculators one of them names.
CalculatorsNamedBy(module) ==
  {r.calc : r \in {q \in Rows : ModuleOf(q) = module}}
  \cup UNION {{Calculator(module, n) : n \in g.default \cup g.alternatives} :
              g \in ElectionGroups[module]}

ToolNameFor(calc) == calc.module \o "-" \o calc.name

\* The tool's schema has the supported periods as an enumeration.
ListTools ==
  UNION {{Offer(r.calc, r.periods[i], ModelIn(CalcInputModel, r.calc),
                ToolNameFor(r.calc)) : i \in DOMAIN r.periods} : r \in Rows}

\* The first calculator in the registry's order whose tool has the name.
ToolsNamed(name) ==
  {i \in DOMAIN Registry : ToolNameFor(Registry[i].calc) = name}
ToolCalcUriForName(name) ==
  Registry[CHOOSE i \in ToolsNamed(name) : \A j \in ToolsNamed(name) : i <= j]

-----------------------------------------------------------------------------
(* Widgets, listed and read as MCP resources. *)

StandaloneWidgets == {"gl-detail-csv-uploader"}
CalcToWidgetSlug  == {Calculator("fbt", "car-operating-cost")}

Resource(scheme, calc, slug) == [scheme |-> scheme, calc |-> calc, slug |-> slug]
NoCalc == Calculator("none", "none")

ListResources ==
  {Resource("standalone", NoCalc, s) : s \in StandaloneWidgets}
  \cup {Resource("calc", c, "none") : c \in CalcToWidgetSlug}

\* ValueError, and so an invalid-params error, when it is FALSE.
CanReadResource(uri) ==
  \/ uri.scheme = "calc" /\ uri.calc \in CalcToWidgetSlug
  \/ uri.scheme = "standalone" /\ uri.slug \in StandaloneWidgets
=============================================================================
