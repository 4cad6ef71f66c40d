--------------------------- MODULE FrontDoorProofs ---------------------------
(***************************************************************************)
(* The doors of the gateway, for every wish: each of them answers to what  *)
(* was wanted, they agree, what is advertised can be had, and no request   *)
(* gets to an engine that would count what it lacks as zero.  The registry *)
(* and the models are those of the source; the wishes, the bodies and the  *)
(* stray requests are any.                                                 *)
(***************************************************************************)
EXTENDS FrontDoorInvariant, TLAPS

-----------------------------------------------------------------------------
(* The registry, its two tables of models and the names of its tools.      *)

LEMMA TablesAreKeyed ==
  /\ \A d, e \in CalcInputModelRest : d[1] = e[1] /\ d[2] = e[2] => d = e
  /\ \A d, e \in CalcInputModel : d[1] = e[1] /\ d[2] = e[2] => d = e
<1>1. \A d, e \in CalcInputModelRest : d[1] = e[1] /\ d[2] = e[2] => d = e
  BY DEF CalcInputModelRest
<1>2. \A d, e \in CalcInputModel : d[1] = e[1] /\ d[2] = e[2] => d = e
  BY DEF CalcInputModel
<1>3. QED  BY <1>1, <1>2

LEMMA EveryRowHasItsModel ==
  ASSUME NEW r \in Rows
  PROVE  /\ <<r.calc.module, r.calc.name, r.schema>> \in CalcInputModelRest
         /\ <<r.calc.module, r.calc.name, r.schema>> \in CalcInputModel
BY DEF Rows, Registry, Fbt, Row, Calculator, Unscoped, Period,
       CalcInputModelRest, CalcInputModel

LEMMA TableLookup ==
  ASSUME NEW table, NEW calc, NEW schema,
         \A d, e \in table : d[1] = e[1] /\ d[2] = e[2] => d = e,
         <<calc.module, calc.name, schema>> \in table
  PROVE  ModelIn(table, calc) = schema
<1> DEFINE e == <<calc.module, calc.name, schema>>
           found == CHOOSE d \in table : d[1] = calc.module /\ d[2] = calc.name
<1>1. e \in table /\ e[1] = calc.module /\ e[2] = calc.name /\ e[3] = schema
  OBVIOUS
<1>2. found \in table /\ found[1] = calc.module /\ found[2] = calc.name
  BY <1>1
<1>3. found = e  BY <1>1, <1>2
<1>4. QED  BY <1>1, <1>3 DEF ModelIn

\* The two tables, kept by hand beside the registry, say what it says.
LEMMA ModelOfRow ==
  ASSUME NEW r \in Rows
  PROVE  /\ InputModelRest(r.calc) = r.schema
         /\ ModelIn(CalcInputModel, r.calc) = r.schema
BY TablesAreKeyed, EveryRowHasItsModel, TableLookup DEF InputModelRest

LEMMA CalculatorsDiffer ==
  ASSUME NEW r \in Rows, NEW s \in Rows, r.calc = s.calc
  PROVE  r = s
BY ToolNamesAssumption DEF Rows

LEMMA MetaOfRow ==
  ASSUME NEW r \in Rows
  PROVE  Registered(r.calc) /\ Meta(r.calc) = r
<1>1. Registered(r.calc)  BY DEF Registered
<1>2. Meta(r.calc) \in Rows /\ Meta(r.calc).calc = r.calc
  BY DEF Meta
<1>3. QED  BY <1>1, <1>2, CalculatorsDiffer

\* A tool name leads back to its calculator.
LEMMA ToolOfRow ==
  ASSUME NEW r \in Rows
  PROVE  /\ ToolNameFor(r.calc) # NotAString
         /\ ToolsNamed(ToolNameFor(r.calc)) # {}
         /\ ToolCalcUriForName(ToolNameFor(r.calc)) = r
<1>1. PICK i \in DOMAIN Registry : r = Registry[i]  BY DEF Rows
<1>2. ToolsNamed(ToolNameFor(r.calc)) = {i}
  BY <1>1, ToolNamesAssumption DEF ToolsNamed
<1>3. i \in Nat  BY DEF Registry
<1> DEFINE named == ToolsNamed(ToolNameFor(r.calc))
           first == CHOOSE k \in named : \A j \in named : k <= j
<1>4. i \in named /\ \A j \in named : i <= j  BY <1>2, <1>3
<1>5. first \in named  BY <1>4
<1>6. first = i  BY <1>2, <1>5
<1>7. ToolCalcUriForName(ToolNameFor(r.calc)) = Registry[first]
  BY DEF ToolCalcUriForName
<1>8. ToolNameFor(r.calc) # NotAString  BY <1>1, ToolNamesAssumption
<1>9. QED  BY <1>1, <1>2, <1>6, <1>7, <1>8

\* Calculators of one module support the same periods.
LEMMA PeriodsAreTheModules ==
  ASSUME NEW r \in Rows
  PROVE  /\ r.calc.module = "fbt" => r.periods = <<Period("fbt", "fy2026")>>
         /\ r.calc.module = "div7a" =>
              r.periods
                = <<Period("div7a", "fy2025"), Period("div7a", "fy2026")>>
         /\ r.calc.module \in {"depreciation", "hp"} =>
              r.periods = Unscoped(r.calc.module)
         /\ r.calc.module \in {"fbt", "div7a", "depreciation", "hp"}
<1>1. r.calc.module = "fbt" => r.periods = <<Period("fbt", "fy2026")>>
   BY DEF Rows, Registry, Fbt, Row, Calculator, Unscoped
<1>2. r.calc.module = "div7a" =>
              r.periods
                = <<Period("div7a", "fy2025"), Period("div7a", "fy2026")>>
   BY DEF Rows, Registry, Fbt, Row, Calculator, Unscoped
<1>3. r.calc.module = "depreciation" => r.periods = Unscoped("depreciation")
   BY DEF Rows, Registry, Fbt, Row, Calculator
<1>4. r.calc.module = "hp" => r.periods = Unscoped("hp")
   BY DEF Rows, Registry, Fbt, Row, Calculator
<1>5.  r.calc.module \in {"fbt", "div7a", "depreciation", "hp"}
   BY DEF Rows, Registry, Fbt, Row, Calculator
<1>6. QED BY <1>1, <1>2, <1>3, <1>4, <1>5

LEMMA PeriodsOfRow ==
  ASSUME NEW r \in Rows
  PROVE  /\ Supports(r, r.periods[1])
         /\ \A p : Supports(r, p) => WellFormed(p) /\ p.name # NotAString
         /\ \A s \in Rows :
              s.calc.module = r.calc.module => s.periods = r.periods
<1>1. Supports(r, r.periods[1])
  BY PeriodsAreTheModules DEF Supports, Unscoped
<1>2. ASSUME NEW p, Supports(r, p)
      PROVE  WellFormed(p) /\ p.name # NotAString
  <2>1. PICK i \in DOMAIN r.periods : p = r.periods[i]  BY <1>2 DEF Supports
  <2>2. p \in {Period("fbt", "fy2026"), Period("div7a", "fy2025"),
               Period("div7a", "fy2026"), Period("depreciation", "unscoped"),
               Period("hp", "unscoped")}
    BY <2>1, PeriodsAreTheModules DEF Unscoped
  <2>3. p.name \in {"fy2025", "fy2026", "unscoped"}  BY <2>2 DEF Period
  <2>4. QED  BY <2>3 DEF WellFormed, Malformed, NotAString
<1>3. QED  BY <1>1, <1>2, PeriodsAreTheModules

\* Outside FBT every calculator has a route of its own.
LEMMA Routes ==
  ASSUME NEW r \in Rows, r.calc.module # "fbt"
  PROVE  \/ /\ r.calc = Calculator("depreciation", "at")
            /\ r.schema = "DepreciationAtInput"
         \/ /\ r.calc = Calculator("depreciation", "range")
            /\ r.schema = "DepreciationRangeInput"
         \/ /\ r.calc = Calculator("div7a", "at")
            /\ r.schema = "Div7aAtInput"
         \/ /\ r.calc = Calculator("hp", "schedule")
            /\ r.schema = "HpScheduleInput"
BY DEF Rows, Registry, Fbt, Row, Calculator

LEMMA RowIsWellFormed ==
  ASSUME NEW r \in Rows
  PROVE  /\ WellFormed(r.calc)
         /\ r.schema \in DOMAIN Models
         /\ r.calc.module \in KnownModules
         /\ r.category \notin {"null", "required"}
         /\ r.method \notin {"null", "required"}
         /\ r.calc.module = "fbt" => r.schema \notin IgnoresExtras
BY DEF Rows, Registry, Fbt, Row, Calculator, WellFormed, Malformed, Models,
       KnownModules, ElectionGroups, IgnoresExtras

\* Category and method name one FBT calculator.
LEMMA CalculationIsNamedOnce ==
  ASSUME NEW r \in Rows, NEW s \in Rows,
         r.calc.module = "fbt", s.calc.module = "fbt",
         r.category = s.category, r.method = s.method
  PROVE  r = s
BY DEF Rows, Registry, Fbt, Row, Calculator, Unscoped, Period

Elected == {"car-statutory-formula", "car-operating-cost",
  "meal-entertainment-50-50", "meal-entertainment-register-12wk",
  "car-parking-actual", "car-parking-statutory-228",
  "car-parking-register-12wk"}

LEMMA ElectedIsRegistered ==
  ASSUME NEW n \in Elected
  PROVE  Registered(Calculator("fbt", n))
<1>1. /\ Registry[1].calc = Calculator("fbt", "car-operating-cost")
      /\ Registry[14].calc = Calculator("fbt", "car-parking-actual")
      /\ Registry[15].calc = Calculator("fbt", "car-parking-statutory-228")
      /\ Registry[16].calc = Calculator("fbt", "car-parking-register-12wk")
      /\ Registry[17].calc = Calculator("fbt", "meal-entertainment-50-50")
      /\ Registry[18].calc
           = Calculator("fbt", "meal-entertainment-register-12wk")
      /\ Registry[19].calc = Calculator("fbt", "car-statutory-formula")
      /\ DOMAIN Registry = 1..23
  BY DEF Registry, Fbt, Row
<1>2. \A i \in 1..23 : Registered(Registry[i].calc)
  BY <1>1 DEF Registered, Rows
<1>3. QED  BY <1>1, <1>2 DEF Elected

LEMMA ElectionsAreElected ==
  ASSUME NEW m \in KnownModules, NEW g \in ElectionGroups[m],
         NEW n \in g.default \cup g.alternatives
  PROVE  m = "fbt" /\ n \in Elected
BY DEF KnownModules, ElectionGroups, Elected

\* A module names no calculator the registry does not have.
LEMMA NamedIsRegistered ==
  ASSUME NEW m \in KnownModules, NEW c \in CalculatorsNamedBy(m)
  PROVE  Registered(c) /\ c.module = m
<1>1. CASE c \in {r.calc : r \in {q \in Rows : ModuleOf(q) = m}}
  BY <1>1 DEF Registered, ModuleOf
<1>2. ASSUME NEW g \in ElectionGroups[m],
             NEW n \in g.default \cup g.alternatives, c = Calculator(m, n)
      PROVE  Registered(c) /\ c.module = m
  <2>1. m = "fbt" /\ n \in Elected  BY ElectionsAreElected
  <2>2. Registered(c)  BY <1>2, <2>1, ElectedIsRegistered
  <2>3. QED  BY <1>2, <2>2 DEF Calculator
<1>3. c \in {r.calc : r \in {q \in Rows : ModuleOf(q) = m}}
      \/ \E g \in ElectionGroups[m] :
           \E n \in g.default \cup g.alternatives : c = Calculator(m, n)
  BY DEF CalculatorsNamedBy
<1>4. QED  BY <1>1, <1>2, <1>3

-----------------------------------------------------------------------------
(* The models: what every field of every one of them has in common.        *)

\* The fields of a payload that are the gateway's own.
Words == {"benefit_category", "method"}

\* No kind of field takes the word that stands for a missing default.
CleanKind(kind) == "required" \notin kind.takes

Clean(fields) ==
  /\ Words \cap DOMAIN fields = {}
  /\ \A f \in DOMAIN fields : CleanKind(fields[f].kind)

LEMMA KindsAreClean ==
  /\ CleanKind(Money) /\ CleanKind(PositiveMoney) /\ CleanKind(Percentage)
  /\ CleanKind(Days) /\ CleanKind(WholeDays) /\ CleanKind(Quantity)
  /\ CleanKind(Factor) /\ CleanKind(Count) /\ CleanKind(PositiveCount)
  /\ CleanKind(Month)
  /\ CleanKind(Text) /\ CleanKind(MoneyText) /\ CleanKind(IsoDate)
  /\ CleanKind(FbtType) /\ CleanKind(DayCount)
  /\ CleanKind(EventInput) /\ CleanKind(Div7aRepayment)
  /\ CleanKind(HpBalloonInput)
  /\ CleanKind(Literal({"accounting"}))
  /\ CleanKind(Literal({"true", "false"}))
  /\ CleanKind(Literal({"prime_cost", "diminishing_value"}))
  /\ CleanKind(Literal({"in_arrears", "in_advance"}))
  /\ CleanKind(Literal(
       {"hire_purchase", "chattel_mortgage", "equipment_loan"}))
  /\ CleanKind(Literal({"owned", "hire_purchase", "leased", "unspecified"}))
<1>1. \A refused : CleanKind(Number(refused))  BY DEF CleanKind, Number
<1>2. \A taken, refused :
        "required" \notin taken => CleanKind(String(taken, refused))
  BY DEF CleanKind, String
<1>3. \A set : "required" \notin set => CleanKind(Literal(set))
  BY <1>2 DEF Literal
<1>4. QED
  BY <1>1, <1>2, <1>3
  DEF Money, PositiveMoney, Percentage, Days, WholeDays, Quantity, Factor,
      Count, PositiveCount, Month, Text, MoneyText, IsoDate, FbtType, DayCount,
      EventInput, Div7aRepayment, HpBalloonInput

LEMMA JoinedIsClean ==
  ASSUME NEW f, NEW g, Clean(f), Clean(g)
  PROVE  Clean(Joined(f, g))
BY DEF Clean, Joined

LEMMA ModelsAreClean == \A m \in DOMAIN Models : Clean(Models[m])
<1> USE KindsAreClean
    DEF Words, Required, Optional, OrZero, Field
<1>0. Clean(NoContribution)  BY DEF NoContribution, Clean
<1>1. Clean(FBTCarOperatingCostInput)  
  <2>2. \A f \in DOMAIN FBTCarOperatingCostInput :
          CleanKind(FBTCarOperatingCostInput[f].kind)
    BY <1>0 DEF FBTCarOperatingCostInput, Joined, Clean
  <2>3. Words \cap DOMAIN FBTCarOperatingCostInput = {}
    BY DEF FBTCarOperatingCostInput, Joined, NoContribution
  <2>4. QED BY <2>2, <2>3 DEF Clean
<1>2. Clean(FBTLoanInput)  BY DEF FBTLoanInput, Clean
<1>3. Clean(FBTDebtWaiverInput)  BY DEF FBTDebtWaiverInput, Clean
<1>4. Clean(Deductible)  BY <1>0, JoinedIsClean DEF Deductible, Clean
<1>5. Clean(ExpensePaymentBase)
  BY <1>4, JoinedIsClean DEF ExpensePaymentBase, Clean
<1>6. Clean(PropertyBase)  BY <1>4, JoinedIsClean DEF PropertyBase, Clean
<1>7. Clean(ResidualBase)  BY <1>4, JoinedIsClean DEF ResidualBase, Clean
<1>8. Clean(FBTBoardInput)  BY DEF FBTBoardInput, Clean
<1>9. Clean(FBTHousingInput)  BY DEF FBTHousingInput, Clean
<1>10. Clean(FBTLafhaInput)  BY DEF FBTLafhaInput, Clean
<1>11. Clean(FBTTebeInput)  BY DEF FBTTebeInput, Clean
<1>12. Clean(FBTCarParkingActualInput)  BY DEF FBTCarParkingActualInput, Clean
<1>13. Clean(FBTCarParkingStatutory228Input)
  BY DEF FBTCarParkingStatutory228Input, Clean
<1>14. Clean(FBTCarParkingRegister12WkInput)
  BY DEF FBTCarParkingRegister12WkInput, Clean
<1>15. Clean(MealEntertainmentBase)  BY DEF MealEntertainmentBase, Clean
<1>16. Clean(FBTMealEntertainmentRegister12WkInput)
  BY <1>15, JoinedIsClean DEF FBTMealEntertainmentRegister12WkInput, Clean
<1>17. Clean(FBTCarStatutoryFormulaInput)
  BY DEF FBTCarStatutoryFormulaInput, Clean
<1>18. Clean(AssetCreatedInput)  BY DEF AssetCreatedInput, Clean
<1>19. Clean(DepreciationAtInput)
  BY <1>18, JoinedIsClean DEF DepreciationAtInput, Clean
<1>20. Clean(DepreciationRangeInput)
  BY <1>18, JoinedIsClean DEF DepreciationRangeInput, Clean
<1>21. Clean(Div7aAtInput)  BY DEF Div7aAtInput, Clean
<1>22. Clean(HpScheduleInput)  BY DEF HpScheduleInput, Clean
<1>23. QED
  BY <1>1, <1>2, <1>3, <1>4, <1>5, <1>6, <1>7, <1>8, <1>9, <1>10, <1>11, <1>12,
     <1>13, <1>14, <1>15, <1>16, <1>17, <1>18, <1>19, <1>20, <1>21, <1>22
  DEF Models

-----------------------------------------------------------------------------
(* What a model makes of a body it accepts.                                *)

\* A payload says what the body says, the defaults apart, and has no holes.
IsOfTheBody(payload, model, body) ==
  LET fields == Models[model]
  IN  /\ \A f \in DOMAIN body :
           IF body[f] = "null" THEN f \notin DOMAIN payload
           ELSE IF f \in DOMAIN payload
           THEN payload[f] = Read(fields[f], body[f])
           ELSE model \in IgnoresExtras /\ f \notin DOMAIN fields
      /\ \A f \in DOMAIN fields \ DOMAIN body :
           IF f \in DOMAIN payload
           THEN payload[f] = fields[f].default
           ELSE fields[f].default = "null"
      /\ \A f \in DOMAIN payload : payload[f] \notin {"null", "required"}

LEMMA DumpIsOfTheBody ==
  ASSUME NEW m \in DOMAIN Models, NEW body, Accepts(m, body)
  PROVE  IsOfTheBody(Dump(m, body), m, body)
<1> DEFINE fields == Models[m]
           v == Validated(fields, body)
           d == Dump(m, body)
<1>1. /\ FieldsFit(fields, body)
      /\ DOMAIN body \subseteq DOMAIN fields \/ m \in IgnoresExtras
  BY DEF Accepts
<1>2. /\ DOMAIN d = {g \in DOMAIN fields : v[g] # "null"}
      /\ \A f \in DOMAIN d : d[f] = v[f]
  BY DEF Dump, Validated
<1>3. \A f \in DOMAIN fields : "required" \notin fields[f].kind.takes
  BY ModelsAreClean DEF Clean, CleanKind
<1> HIDE DEF fields
<1>4. ASSUME NEW f \in DOMAIN fields, f \in DOMAIN body
      PROVE  /\ v[f] = Read(fields[f], body[f])
             /\ v[f] # "required"
             /\ v[f] = "null" <=> body[f] = "null"
  <2>1. v[f] = Read(fields[f], body[f])  BY <1>4 DEF Validated
  <2>2. Fits(fields[f], body[f])  BY <1>1, <1>4 DEF FieldsFit
  <2>3. body[f] # "required"  BY <1>3, <2>2 DEF Fits
  <2>4. QED  BY <2>1, <2>3 DEF Read
<1>5. ASSUME NEW f \in DOMAIN fields, f \notin DOMAIN body
      PROVE  v[f] = fields[f].default /\ v[f] # "required"
  BY <1>1, <1>5 DEF Validated, FieldsFit
<1> HIDE DEF v, d
<1>6. \A f \in DOMAIN d : d[f] \notin {"null", "required"}
  BY <1>2, <1>4, <1>5
<1>7. \A f \in DOMAIN body :
        IF body[f] = "null" THEN f \notin DOMAIN d
        ELSE IF f \in DOMAIN d THEN d[f] = Read(fields[f], body[f])
        ELSE m \in IgnoresExtras /\ f \notin DOMAIN fields
  BY <1>1, <1>2, <1>4
<1>8. \A f \in DOMAIN fields \ DOMAIN body :
        IF f \in DOMAIN d THEN d[f] = fields[f].default
        ELSE fields[f].default = "null"
  BY <1>2, <1>5
<1>9. QED  BY <1>6, <1>7, <1>8 DEF IsOfTheBody, d, fields

LEMMA JoinedIsOfTheBody ==
  ASSUME NEW m \in DOMAIN Models \ IgnoresExtras, NEW body, NEW d,
         NEW category, NEW method,
         Accepts(m, body), IsOfTheBody(d, m, body), 
         category \notin {"null", "required"},
         method \notin {"null", "required"}
  PROVE  IsOfTheBody(
           Joined([benefit_category |-> category, method |-> method], d),
           m, body)
<1> DEFINE fields == Models[m]
           q == [benefit_category |-> category, method |-> method]
           p == Joined(q, d)
<1>1. DOMAIN q = Words /\ \A f \in Words : q[f] \notin {"null", "required"}
  <2>1. q.benefit_category = category /\ q.method = method  OBVIOUS
  <2>2. DOMAIN q = Words  BY DEF Words
  <2>3. QED  BY <2>1, <2>2 DEF Words
<1>2. /\ DOMAIN p = Words \cup DOMAIN d
      /\ \A f \in Words : p[f] = q[f]
      /\ \A f \in DOMAIN d \ Words : p[f] = d[f]
  BY <1>1 DEF Joined
<1>3. Words \cap DOMAIN fields = {}  BY ModelsAreClean DEF Clean
<1>4. DOMAIN body \subseteq DOMAIN fields  BY DEF Accepts
<1> HIDE DEF q, p, fields
<1>5. \A f \in DOMAIN body \cup DOMAIN fields :
        /\ f \in DOMAIN p <=> f \in DOMAIN d
        /\ f \in DOMAIN p => p[f] = d[f]
  BY <1>2, <1>3, <1>4
<1>6. \A f \in DOMAIN p : p[f] \notin {"null", "required"}
  BY <1>1, <1>2 DEF IsOfTheBody
<1>7. IsOfTheBody(p, m, body)
  BY <1>5, <1>6 DEF IsOfTheBody, fields
<1>8. QED  BY <1>7 DEF p, q

-----------------------------------------------------------------------------
(* What every door makes of a request over a good period.                  *)

Settled(calc, period, body) ==
  CASE calc = Calculator("hp", "schedule") ->
         Forwarded(calc, NoPeriod, Dump("HpScheduleInput", body))
    [] calc \in {Calculator("depreciation", "at"),
                 Calculator("depreciation", "range"),
                 Calculator("div7a", "at")} ->
         Forwarded(calc, period, Dump(InputModelRest(calc), body))
    [] OTHER -> InvokeFbt(Meta(calc), period, body)

\* What every door answers to a request over a good period.
Settlement(calc, period, body) ==
  IF Accepts(InputModelRest(calc), body) THEN Settled(calc, period, body)
  ELSE Refused("body")

LEMMA ModelsOfTheRoutes ==
  /\ Registered(Calculator("depreciation", "at"))
  /\ InputModelRest(Calculator("depreciation", "at")) = "DepreciationAtInput"
  /\ InputModelRest(Calculator("depreciation", "range"))
       = "DepreciationRangeInput"
  /\ InputModelRest(Calculator("div7a", "at")) = "Div7aAtInput"
  /\ InputModelRest(Calculator("hp", "schedule")) = "HpScheduleInput"
<1>1. /\ DOMAIN Registry = 1..23
      /\ Registry[20].calc = Calculator("depreciation", "at")
      /\ Registry[20].schema = "DepreciationAtInput"
      /\ Registry[21].calc = Calculator("depreciation", "range")
      /\ Registry[21].schema = "DepreciationRangeInput"
      /\ Registry[22].calc = Calculator("div7a", "at")
      /\ Registry[22].schema = "Div7aAtInput"
      /\ Registry[23].calc = Calculator("hp", "schedule")
      /\ Registry[23].schema = "HpScheduleInput"
  BY DEF Registry, Row
<1>2. \A i \in 1..23 : Registry[i] \in Rows  BY <1>1 DEF Rows
<1>3. \A i \in 1..23 :
        /\ Registered(Registry[i].calc)
        /\ InputModelRest(Registry[i].calc) = Registry[i].schema
  BY <1>2, ModelOfRow, MetaOfRow
<1>4. QED  BY <1>1, <1>3

LEMMA RoutesDiffer ==
  /\ Calculator("depreciation", "at") # Calculator("depreciation", "range")
  /\ Calculator("depreciation", "at") # Calculator("div7a", "at")
  /\ Calculator("depreciation", "at") # Calculator("hp", "schedule")
  /\ Calculator("depreciation", "range") # Calculator("div7a", "at")
  /\ Calculator("depreciation", "range") # Calculator("hp", "schedule")
  /\ Calculator("div7a", "at") # Calculator("hp", "schedule")
BY DEF Calculator

LEMMA NativeSettles ==
  ASSUME NEW calc, NEW model, NEW period, NEW taxonomy, NEW body,
         Supports(Meta(calc), period), WellFormed(period),
         taxonomy \in RatifiedTaxonomies
  PROVE  InvokeNative(calc, model, period, taxonomy, body)
           = IF Accepts(model, body)
             THEN Forwarded(calc, period, Dump(model, body))
             ELSE Refused("body")
BY DEF InvokeNative

\* An answer of the dispatch is 
LEMMA DispatchSettles ==
  ASSUME NEW calc, NEW period, NEW taxonomy, NEW body,
         Registered(calc), Supports(Meta(calc), period),
         taxonomy \in RatifiedTaxonomies,
         Accepts(InputModelRest(calc), body)
  PROVE  Dispatch(calc, period, taxonomy, body) = Settled(calc, period, body)
<1> DEFINE at    == Calculator("depreciation", "at")
           range == Calculator("depreciation", "range")
           div7a == Calculator("div7a", "at")
           hp    == Calculator("hp", "schedule")
<1>1. Meta(calc) \in Rows  BY DEF Registered, Meta
<1>2. WellFormed(period)  BY <1>1, PeriodsOfRow
<1>3. CASE calc = at
  <2>1. Dispatch(calc, period, taxonomy, body)
          = InvokeDepreciationAt(period, taxonomy, body)
    BY <1>3, RoutesDiffer DEF Dispatch
  <2>2. Settled(calc, period, body)
          = Forwarded(calc, period, Dump(InputModelRest(calc), body))
    BY <1>3, RoutesDiffer DEF Settled
  <2>3. QED
    BY <1>2, <1>3, <2>1, <2>2, NativeSettles, ModelsOfTheRoutes
    DEF InvokeDepreciationAt
<1>4. CASE calc = range
  <2>1. Dispatch(calc, period, taxonomy, body)
          = InvokeDepreciationRange(period, taxonomy, body)
    BY <1>4, RoutesDiffer DEF Dispatch
  <2>2. Settled(calc, period, body)
          = Forwarded(calc, period, Dump(InputModelRest(calc), body))
    BY <1>4, RoutesDiffer DEF Settled
  <2>3. QED
    BY <1>2, <1>4, <2>1, <2>2, NativeSettles, ModelsOfTheRoutes
    DEF InvokeDepreciationRange
<1>5. CASE calc = div7a
  <2>1. Dispatch(calc, period, taxonomy, body)
          = InvokeDiv7aAt(period, taxonomy, body)
    BY <1>5, RoutesDiffer DEF Dispatch
  <2>2. Settled(calc, period, body)
          = Forwarded(calc, period, Dump(InputModelRest(calc), body))
    BY <1>5, RoutesDiffer DEF Settled
  <2>3. QED
    BY <1>2, <1>5, <2>1, <2>2, NativeSettles, ModelsOfTheRoutes
    DEF InvokeDiv7aAt
<1>6. CASE calc = hp
  <2>1. Dispatch(calc, period, taxonomy, body) = InvokeHpSchedule(body)
    BY <1>6, RoutesDiffer DEF Dispatch
  <2>2. Settled(calc, period, body)
          = Forwarded(hp, NoPeriod, Dump("HpScheduleInput", body))
    BY <1>6, RoutesDiffer DEF Settled
  <2>3. QED  BY <1>6, <2>1, <2>2, ModelsOfTheRoutes DEF InvokeHpSchedule
<1>7. CASE calc \notin {at, range, div7a, hp}
  BY <1>7 DEF Dispatch, Settled
<1>8. QED  BY <1>3, <1>4, <1>5, <1>6, <1>7

LEMMA GenericSettles ==
  ASSUME NEW calc, NEW period, NEW taxonomy, NEW body
  PROVE  /\ ( /\ Registered(calc) /\ Supports(Meta(calc), period)
              /\ taxonomy \in RatifiedTaxonomies )
            => InvokeCalculator(calc, period, taxonomy, body)
                 = Settlement(calc, period, body)
         /\ InvokeCalculator(calc, period, taxonomy, body).outcome
              = "forwarded"
            => /\ Registered(calc) /\ Accepts(InputModelRest(calc), body)
               /\ InvokeCalculator(calc, period, taxonomy, body)
                    = Settled(calc, period, body)
<1> DEFINE a == InvokeCalculator(calc, period, taxonomy, body)
<1>1. ASSUME Registered(calc), Supports(Meta(calc), period),
             taxonomy \in RatifiedTaxonomies
      PROVE  /\ a = Settlement(calc, period, body)
  <2>1. Meta(calc) \in Rows /\ Meta(calc).calc = calc
    BY <1>1 DEF Registered, Meta
  <2>2. WellFormed(calc) /\ WellFormed(period)
    BY <1>1, <2>1, PeriodsOfRow, RowIsWellFormed
  <2>3. a = IF Accepts(InputModelRest(calc), body)
            THEN Dispatch(calc, period, taxonomy, body)
            ELSE Refused("body")
    BY <1>1, <2>2 DEF InvokeCalculator
  <2>4. QED  BY <1>1, <2>3, DispatchSettles DEF Settlement
<1>2. ASSUME a.outcome = "forwarded"
      PROVE  /\ Registered(calc) /\ Accepts(InputModelRest(calc), body)
             /\ a = Settled(calc, period, body)
  <2>1. /\ Registered(calc) /\ Accepts(InputModelRest(calc), body)
        /\ Supports(Meta(calc), period) /\ taxonomy \in RatifiedTaxonomies
    BY <1>2 DEF InvokeCalculator, Refused, Answer
  <2>2. QED  BY <1>1, <2>1 DEF Settlement
<1>3. QED  BY <1>1, <1>2

LEMMA RouteSettles ==
  ASSUME NEW w, HasRoute(w.calc)
  PROVE  /\ ( /\ Supports(Meta(w.calc), w.period)
              /\ w.taxonomy \in RatifiedTaxonomies )
            => AtItsRoute(w) = Settlement(w.calc, w.period, w.body)
         /\ AtItsRoute(w).outcome = "forwarded"
            => /\ Registered(w.calc) /\ Accepts(InputModelRest(w.calc), w.body)
               /\ AtItsRoute(w) = Settled(w.calc, w.period, w.body)
<1> DEFINE at    == Calculator("depreciation", "at")
           range == Calculator("depreciation", "range")
           div7a == Calculator("div7a", "at")
           hp    == Calculator("hp", "schedule")
           m     == InputModelRest(w.calc)
<1>1. Meta(w.calc) \in Rows /\ Meta(w.calc).calc = w.calc /\ Registered(w.calc)
      /\ w.calc.module # "fbt"
  BY DEF HasRoute, Registered, Meta
<1>2. w.calc \in {at, range, div7a, hp}  BY <1>1, Routes
<1>3. Supports(Meta(w.calc), w.period) => WellFormed(w.period)
  BY <1>1, PeriodsOfRow
<1>4. CASE w.calc = hp
  <2>1. AtItsRoute(w) = InvokeHpSchedule(w.body)
    BY <1>4, RoutesDiffer DEF AtItsRoute
  <2>2. m = "HpScheduleInput"  BY <1>4, ModelsOfTheRoutes
  <2>3. AtItsRoute(w) = IF Accepts(m, w.body)
                        THEN Forwarded(w.calc, NoPeriod, Dump(m, w.body))
                        ELSE Refused("body")
    BY <1>4, <2>1, <2>2 DEF InvokeHpSchedule
  <2>4. Settled(w.calc, w.period, w.body)
          = Forwarded(w.calc, NoPeriod, Dump(m, w.body))
    BY <1>4, <2>2, RoutesDiffer DEF Settled
  <2>5. AtItsRoute(w).outcome = "forwarded" => Accepts(m, w.body)
    BY <2>3 DEF Refused, Answer
  <2>6. QED  BY <1>1, <2>3, <2>4, <2>5 DEF Settlement
<1>5. CASE w.calc \in {at, range, div7a}
  <2>1. AtItsRoute(w) = InvokeNative(w.calc, m, w.period, w.taxonomy, w.body)
    <3>1. CASE w.calc = at
      <4>1. AtItsRoute(w) = InvokeDepreciationAt(w.period, w.taxonomy, w.body)
        BY <3>1, RoutesDiffer DEF AtItsRoute
      <4>2. QED  BY <3>1, <4>1, ModelsOfTheRoutes DEF InvokeDepreciationAt
    <3>2. CASE w.calc = range
      <4>1. AtItsRoute(w)
              = InvokeDepreciationRange(w.period, w.taxonomy, w.body)
        BY <3>2, RoutesDiffer DEF AtItsRoute
      <4>2. QED  BY <3>2, <4>1, ModelsOfTheRoutes DEF InvokeDepreciationRange
    <3>3. CASE w.calc = div7a
      <4>1. AtItsRoute(w) = InvokeDiv7aAt(w.period, w.taxonomy, w.body)
        BY <3>3, RoutesDiffer DEF AtItsRoute
      <4>2. QED  BY <3>3, <4>1, ModelsOfTheRoutes DEF InvokeDiv7aAt
    <3>4. QED  BY <1>5, <3>1, <3>2, <3>3
  <2>2. Settled(w.calc, w.period, w.body)
          = Forwarded(w.calc, w.period, Dump(m, w.body))
    BY <1>5, RoutesDiffer DEF Settled
  <2>3. AtItsRoute(w).outcome = "forwarded" =>
          /\ Accepts(m, w.body)
          /\ AtItsRoute(w) = Forwarded(w.calc, w.period, Dump(m, w.body))
    BY <2>1 DEF InvokeNative, Refused, Answer
  <2>4. Supports(Meta(w.calc), w.period) /\ w.taxonomy \in RatifiedTaxonomies
        => AtItsRoute(w) = Settlement(w.calc, w.period, w.body)
    BY <1>3, <2>1, <2>2, NativeSettles DEF Settlement
  <2>5. QED  BY <1>1, <2>2, <2>3, <2>4
<1>6. QED  BY <1>2, <1>4, <1>5

LEMMA DepreciationAtHasRoute ==
  ASSUME NEW w, w.calc = Calculator("depreciation", "at")
  PROVE  /\ HasRoute(w.calc)
         /\ AtItsRoute(w) = InvokeDepreciationAt(w.period, w.taxonomy, w.body)
BY ModelsOfTheRoutes, RoutesDiffer DEF HasRoute, AtItsRoute, Calculator

LEMMA SettledIsForTheWish ==
  ASSUME NEW calc, NEW period, NEW body,
         Registered(calc), Accepts(InputModelRest(calc), body)
  PROVE  LET call == Settled(calc, period, body)
         IN  /\ call.calc = calc
             /\ call.period \in {period, NoPeriod}
             /\ IsOfTheBody(call.payload, InputModelRest(calc), body)
             /\ calc.module = "fbt" =>
               {r \in Rows : /\ r.calc.module = "fbt"
                             /\ r.category = call.payload.benefit_category
                             /\ r.method = call.payload.method}
                 = {Meta(calc)}
<1> DEFINE at    == Calculator("depreciation", "at")
           range == Calculator("depreciation", "range")
           div7a == Calculator("div7a", "at")
           hp    == Calculator("hp", "schedule")
           m     == InputModelRest(calc)
           call  == Settled(calc, period, body)
           row   == Meta(calc)
<1>1. row \in Rows /\ row.calc = calc  BY DEF Registered, Meta
<1>2. m = row.schema /\ m \in DOMAIN Models
  BY <1>1, ModelOfRow, RowIsWellFormed
<1>3. IsOfTheBody(Dump(m, body), m, body)  BY <1>2, DumpIsOfTheBody
<1>4. CASE calc \in {at, range, div7a, hp}
  <2>1. call = Forwarded(calc, IF calc = hp THEN NoPeriod ELSE period,
                         Dump(m, body))
    BY <1>4, RoutesDiffer, ModelsOfTheRoutes DEF Settled
  <2>2. calc.module # "fbt"  BY <1>4 DEF Calculator
  <2>3. QED  BY <1>3, <2>1, <2>2 DEF Forwarded, Answer
<1>5. CASE calc \notin {at, range, div7a, hp}
  <2> DEFINE q == [benefit_category |-> row.category, method |-> row.method]
             p == Joined(q, Dump(m, body))
  <2>1. calc.module = "fbt"  BY <1>1, <1>5, Routes
  <2>2. call = Forwarded(calc, period, p)
    BY <1>1, <1>5 DEF Settled, InvokeFbt
  <2>3. IsOfTheBody(p, m, body)
    BY <1>1, <1>2, <1>3, <2>1, RowIsWellFormed, JoinedIsOfTheBody
  <2>4. p.benefit_category = row.category /\ p.method = row.method
    BY DEF Joined
  <2>5. {r \in Rows : /\ r.calc.module = "fbt"
                      /\ r.category = p.benefit_category
                      /\ r.method = p.method} = {row}
    BY <1>1, <2>1, <2>4, CalculationIsNamedOnce
  <2> HIDE DEF p
  <2>6. call.calc = calc /\ call.period = period /\ call.payload = p
    BY <2>2 DEF Forwarded, Answer
  <2>7. QED  BY <2>3, <2>5, <2>6
<1>6. QED  BY <1>4, <1>5

-----------------------------------------------------------------------------
(* What is forwarded is complete.                                          *)

CarModel == "FBTCarOperatingCostInput"
DepreciationModels == {"DepreciationAtInput", "DepreciationRangeInput"}
Triad == {"acquisition_cost", "opening_depreciated_value", "deemed_total",
          "days_held_in_fbt_year", "acquisition_date"}

\* What the car's model says of the fields its deemed amounts rest on.
LEMMA CarFields ==
  /\ Triad \cup {"form_of_finance"} \subseteq DOMAIN Models[CarModel]
  /\ "benefit_category" \notin DOMAIN Models[CarModel]
  /\ "method" \notin DOMAIN Models[CarModel]
  /\ Models[CarModel].form_of_finance.default = "required"
  /\ Models[CarModel].form_of_finance.nullable = FALSE
  /\ Models[CarModel].form_of_finance.kind.number = FALSE
  /\ "null" \notin Models[CarModel].form_of_finance.kind.takes
<1>1. Models[CarModel] = FBTCarOperatingCostInput  BY DEF Models, CarModel
<1>2. /\ Triad \cup {"form_of_finance"}
           \subseteq DOMAIN FBTCarOperatingCostInput
      /\ "benefit_category" \notin DOMAIN FBTCarOperatingCostInput
      /\ "method" \notin DOMAIN FBTCarOperatingCostInput
  BY DEF FBTCarOperatingCostInput, NoContribution, Triad, Joined
<1>3. FBTCarOperatingCostInput.form_of_finance
        = Required(Literal(
            {"owned", "hire_purchase", "leased", "unspecified"}))
  BY DEF FBTCarOperatingCostInput, NoContribution, Joined
<1>4. QED  BY <1>1, <1>2, <1>3 DEF Required, Field, Literal, String

\* And the depreciation models of what the accounting basis rests on.
LEMMA DepreciationFields ==
  ASSUME NEW m \in DepreciationModels
  PROVE  /\ {"basis", "accounting_useful_life_years", "accounting_method",
             "tax_asset_class"} \subseteq DOMAIN Models[m]
         /\ Models[m].basis = Required(Literal({"accounting"}))
<1>1. CASE m = "DepreciationAtInput"
  <2>1. Models[m] = DepreciationAtInput  BY <1>1 DEF Models
  <2>2. QED
    BY <2>1 DEF DepreciationAtInput, AssetCreatedInput, Joined
<1>2. CASE m = "DepreciationRangeInput"
  <2>1. Models[m] = DepreciationRangeInput  BY <1>2 DEF Models
  <2>2. QED
    BY <2>1 DEF DepreciationRangeInput, AssetCreatedInput, Joined
<1>3. QED  BY <1>1, <1>2 DEF DepreciationModels

-----------------------------------------------------------------------------


\* A string that is required is in the validated body as it was given.
LEMMA RequiredIsGiven ==
  ASSUME NEW fields, NEW body, NEW f \in DOMAIN fields,
         FieldsFit(fields, body),
         fields[f].default = "required",
         fields[f].nullable = FALSE,
         fields[f].kind.number = FALSE
  PROVE  Validated(fields, body)[f] \in fields[f].kind.takes
<1>1. f \in DOMAIN body /\ Fits(fields[f], body[f])  BY DEF FieldsFit
<1>2. body[f] \in fields[f].kind.takes  BY <1>1 DEF Fits
<1>3. Validated(fields, body)[f] = body[f]  BY <1>1 DEF Validated, Read
<1>4. QED  BY <1>2, <1>3

LEMMA NativeCall ==
  ASSUME NEW calc, NEW m \in DepreciationModels, NEW period, NEW taxonomy,
         NEW body,
         calc # Calculator("fbt", "car-operating-cost"),
         InvokeNative(calc, m, period, taxonomy, body).outcome = "forwarded"
  PROVE  Complete(InvokeNative(calc, m, period, taxonomy, body))
<1> DEFINE v == Validated(Models[m], body)
<1>1. /\ Accepts(m, body)
      /\ InvokeNative(calc, m, period, taxonomy, body)
           = Forwarded(calc, period, Dump(m, body))
  BY DEF InvokeNative, Refused, Answer
<1>2. FieldsFit(Models[m], body) /\ BasisConditionalAssetFields(v)
  BY <1>1 DEF Accepts, ModelRules, DepreciationModels
<1>3. /\ Models[m].basis.default = "required"
      /\ Models[m].basis.nullable = FALSE
      /\ Models[m].basis.kind.number = FALSE
      /\ Models[m].basis.kind.takes = {"accounting"}
  BY DepreciationFields DEF Required, Field, Literal, String
<1>4. "basis" \in DOMAIN Models[m]  BY DepreciationFields
<1>5. v.basis = "accounting"  BY <1>2, <1>3, <1>4, RequiredIsGiven
<1>6. /\ v.accounting_useful_life_years # "null"
      /\ v.accounting_method # "null"
      /\ v.tax_asset_class = "null"
  BY <1>2, <1>5 DEF BasisConditionalAssetFields
<1>7. DOMAIN v = DOMAIN Models[m]  BY DEF Validated
<1>8. DOMAIN Dump(m, body) = {g \in DOMAIN v : v[g] # "null"}  BY DEF Dump
<1>9. /\ {"accounting_useful_life_years", "accounting_method"}
           \subseteq DOMAIN Dump(m, body)
      /\ "tax_asset_class" \notin DOMAIN Dump(m, body)
  BY <1>6, <1>7, <1>8, DepreciationFields
<1>10. QED  BY <1>1, <1>9 DEF Complete, Forwarded, Answer

LEMMA CarCall ==
  ASSUME NEW body, Accepts(CarModel, body), NEW category, NEW method
  PROVE  FbtOcDeemedDispatch(
           Joined([benefit_category |-> category, method |-> method],
                  Dump(CarModel, body)))
           \notin {"skipped_no_acquisition", "conflicting_inputs"}
<1> DEFINE v == Validated(Models[CarModel], body)
           d == Dump(CarModel, body)
           q == [benefit_category |-> category, method |-> method]
           p == Joined(q, d)
<1>1. FieldsFit(Models[CarModel], body) /\ DeemedAmountsTriad(v)
  BY DEF Accepts, ModelRules, CarModel
<1>2. DOMAIN v = DOMAIN Models[CarModel]  BY DEF Validated
<1>3. /\ DOMAIN d = {g \in DOMAIN v : v[g] # "null"}
      /\ \A f \in DOMAIN d : d[f] = v[f]
  BY DEF Dump
<1>4. DOMAIN q = {"benefit_category", "method"}  OBVIOUS
<1>5. /\ DOMAIN p = DOMAIN q \cup DOMAIN d
      /\ \A f \in DOMAIN d \ DOMAIN q : p[f] = d[f]
  BY DEF Joined
<1>6. v.form_of_finance \in Models[CarModel].form_of_finance.kind.takes
  BY <1>1, CarFields, RequiredIsGiven
<1>7. v.form_of_finance # "null"  BY <1>6, CarFields
<1> HIDE DEF v, d, q, p
<1>8. p.form_of_finance = v.form_of_finance
  <2>1. "form_of_finance" \in DOMAIN d  BY <1>2, <1>3, <1>7, CarFields
  <2>2. "form_of_finance" \notin DOMAIN q  BY <1>4
  <2>3. QED  BY <2>1, <2>2, <1>3, <1>5
<1>9. \A f \in Triad : f \in DOMAIN p <=> v[f] # "null"
  <2>1. \A f \in Triad : f \notin DOMAIN q  BY <1>4 DEF Triad
  <2>2. \A f \in Triad : f \in DOMAIN v  BY <1>2, CarFields
  <2>3. QED  BY <2>1, <2>2, <1>3, <1>5
<1>10. FbtOcDeemedDispatch(p)
         \notin {"skipped_no_acquisition", "conflicting_inputs"}
  BY <1>1, <1>8, <1>9 DEF FbtOcDeemedDispatch, DeemedAmountsTriad, Triad
<1>11. QED  BY <1>10 DEF p, q, d

-----------------------------------------------------------------------------
(* The registry and its table of models. *)

LEMMA Elsewhere ==
  ASSUME NEW r \in Rows, r.calc.module = "depreciation"
  PROVE  r.calc \in {Calculator("depreciation", "at"),
                     Calculator("depreciation", "range")}
BY DEF Rows, Registry, Fbt, Row, Calculator, Unscoped, Period

LEMMA MetaIsOfTheCalculator ==
  ASSUME NEW calc, Registered(calc)
  PROVE  Meta(calc) \in Rows /\ Meta(calc).calc = calc
BY DEF Registered, Meta

LEMMA CarHasItsModel ==
  InputModelRest(Calculator("fbt", "car-operating-cost")) = CarModel
<1>1. /\ Registry[1].calc = Calculator("fbt", "car-operating-cost")
      /\ Registry[1].schema = CarModel
      /\ 1 \in DOMAIN Registry
  BY DEF Registry, Fbt, Row, CarModel
<1>2. Registry[1] \in Rows  BY <1>1 DEF Rows
<1>3. QED  BY <1>1, <1>2, ModelOfRow

-----------------------------------------------------------------------------
(* Every door. *)

\* What an answer must be: no call, or a complete one.
Good(answer) == answer.outcome = "forwarded" => Complete(answer)

LEMMA RefusalIsGood ==
  ASSUME NEW why, why # "forwarded"
  PROVE  Good(Refused(why))
BY DEF Good, Refused, Answer

LEMMA HpIsGood ==
  ASSUME NEW body
  PROVE  Good(InvokeHpSchedule(body))
BY RefusalIsGood
   DEF Good, Complete, InvokeHpSchedule, Forwarded, Answer, Calculator

LEMMA Div7aIsGood ==
  ASSUME NEW period, NEW taxonomy, NEW body
  PROVE  Good(InvokeDiv7aAt(period, taxonomy, body))
BY RefusalIsGood
   DEF Good, Complete, InvokeDiv7aAt, InvokeNative, Forwarded, Answer,
       Calculator

LEMMA DepreciationIsGood ==
  ASSUME NEW period, NEW taxonomy, NEW body
  PROVE  /\ Good(InvokeDepreciationAt(period, taxonomy, body))
         /\ Good(InvokeDepreciationRange(period, taxonomy, body))
BY NativeCall DEF Good, InvokeDepreciationAt, InvokeDepreciationRange,
                  DepreciationModels, Calculator

LEMMA FbtIsGood ==
  ASSUME NEW calc, NEW period, NEW body,
         Registered(calc),
         calc \notin {Calculator("depreciation", "at"),
                      Calculator("depreciation", "range")},
         Accepts(InputModelRest(calc), body)
  PROVE  Good(InvokeFbt(Meta(calc), period, body))
<1> DEFINE a == InvokeFbt(Meta(calc), period, body)
<1>1. Meta(calc) \in Rows /\ Meta(calc).calc = calc
  BY MetaIsOfTheCalculator
<1>2. a.calc = calc /\ a.payload = Joined(
        [benefit_category |-> Meta(calc).category,
         method |-> Meta(calc).method],
        Dump(InputModelRest(calc), body))
  BY <1>1 DEF InvokeFbt, Forwarded, Answer
<1>3. calc.module # "depreciation"  BY <1>1, Elsewhere
<1>4. CASE calc = Calculator("fbt", "car-operating-cost")
  <2>1. InputModelRest(calc) = CarModel  BY <1>4, CarHasItsModel
  <2>2. FbtOcDeemedDispatch(a.payload)
          \notin {"skipped_no_acquisition", "conflicting_inputs"}
    BY <1>2, <2>1, CarCall
  <2>3. QED  BY <1>2, <1>3, <2>2 DEF Good, Complete
<1>5. CASE calc # Calculator("fbt", "car-operating-cost")
  BY <1>2, <1>3, <1>5 DEF Good, Complete
<1>6. QED  BY <1>4, <1>5

LEMMA DispatchIsGood ==
  ASSUME NEW calc, NEW period, NEW taxonomy, NEW body,
         Registered(calc), Accepts(InputModelRest(calc), body)
  PROVE  Good(Dispatch(calc, period, taxonomy, body))
<1> DEFINE at    == Calculator("depreciation", "at")
           range == Calculator("depreciation", "range")
           div7a == Calculator("div7a", "at")
           hp    == Calculator("hp", "schedule")
           d     == Dispatch(calc, period, taxonomy, body)
<1>1. /\ at # range /\ at # div7a /\ at # hp
      /\ range # div7a /\ range # hp /\ div7a # hp
  BY DEF Calculator
<1>2. d = CASE calc = at    -> InvokeDepreciationAt(period, taxonomy, body)
            [] calc = range -> InvokeDepreciationRange(period, taxonomy, body)
            [] calc = div7a -> InvokeDiv7aAt(period, taxonomy, body)
            [] calc = hp    -> InvokeHpSchedule(body)
            [] OTHER        -> InvokeFbt(Meta(calc), period, body)
  BY DEF Dispatch
<1> HIDE DEF at, range, div7a, hp, d
<1>3. CASE calc = at
  <2>1. d = InvokeDepreciationAt(period, taxonomy, body)  BY <1>1, <1>2, <1>3
  <2>2. QED  BY <2>1, DepreciationIsGood DEF d
<1>4. CASE calc = range
  <2>1. d = InvokeDepreciationRange(period, taxonomy, body)
    BY <1>1, <1>2, <1>4
  <2>2. QED  BY <2>1, DepreciationIsGood DEF d
<1>5. CASE calc = div7a
  <2>1. d = InvokeDiv7aAt(period, taxonomy, body)  BY <1>1, <1>2, <1>5
  <2>2. QED  BY <2>1, Div7aIsGood DEF d
<1>6. CASE calc = hp
  <2>1. d = InvokeHpSchedule(body)  BY <1>1, <1>2, <1>6
  <2>2. QED  BY <2>1, HpIsGood DEF d
<1>7. CASE calc \notin {at, range, div7a, hp}
  <2>1. d = InvokeFbt(Meta(calc), period, body)  BY <1>2, <1>7
  <2>2. Good(InvokeFbt(Meta(calc), period, body))
    BY <1>7, FbtIsGood DEF at, range
  <2>3. QED  BY <2>1, <2>2 DEF d
<1>8. QED  BY <1>3, <1>4, <1>5, <1>6, <1>7

LEMMA GenericIsGood ==
  ASSUME NEW calc, NEW period, NEW taxonomy, NEW body
  PROVE  Good(InvokeCalculator(calc, period, taxonomy, body))
BY DispatchIsGood, RefusalIsGood DEF InvokeCalculator

LEMMA NativeIsGood ==
  ASSUME NEW w, HasRoute(w.calc)
  PROVE  Good(AtItsRoute(w))
<1>1. Meta(w.calc) \in Rows /\ Meta(w.calc).calc = w.calc
      /\ w.calc.module # "fbt"
  BY DEF HasRoute, Registered, Meta
<1>2. w.calc \in {Calculator("depreciation", "at"),
                  Calculator("depreciation", "range"),
                  Calculator("div7a", "at"), Calculator("hp", "schedule")}
  BY <1>1, Routes
<1>3. AtItsRoute(w) \in
        {InvokeHpSchedule(w.body),
         InvokeDiv7aAt(w.period, w.taxonomy, w.body),
         InvokeDepreciationAt(w.period, w.taxonomy, w.body),
         InvokeDepreciationRange(w.period, w.taxonomy, w.body)}
  BY <1>2, RoutesDiffer DEF AtItsRoute
<1>4. QED  BY <1>3, HpIsGood, Div7aIsGood, DepreciationIsGood

-----------------------------------------------------------------------------
(* The listings and the tool calls. *)

LEMMA OfferOfTool ==
  ASSUME NEW o \in ListTools
  PROVE  /\ Registered(o.calc)
         /\ o.tool = ToolNameFor(o.calc)
         /\ o.schema = InputModelRest(o.calc)
         /\ Supports(Meta(o.calc), o.period)
<1>1. PICK r \in Rows : \E i \in DOMAIN r.periods :
        o = Offer(r.calc, r.periods[i], ModelIn(CalcInputModel, r.calc),
                  ToolNameFor(r.calc))
  BY DEF ListTools
<1> PICK i \in DOMAIN r.periods :
        o = Offer(r.calc, r.periods[i], ModelIn(CalcInputModel, r.calc),
                  ToolNameFor(r.calc))
  BY <1>1
<1>2. Supports(r, r.periods[i])  BY DEF Supports
<1>3. QED  BY <1>1, <1>2, MetaOfRow, ModelOfRow DEF Offer

LEMMA OfferOfList ==
  ASSUME NEW m \in KnownModules, NEW o \in ListCalculators(m)
  PROVE  /\ Registered(o.calc)
         /\ o.calc.module = m
         /\ o.schema = InputModelRest(o.calc)
         /\ Supports(Meta(o.calc), o.period)
<1>1. PICK r \in Rows : \E i \in DOMAIN r.periods :
        /\ r.calc.module = m
        /\ o = Offer(r.calc, r.periods[i], r.schema, NoTool)
  BY DEF ListCalculators, ModuleOf
<1> PICK i \in DOMAIN r.periods :
        /\ r.calc.module = m
        /\ o = Offer(r.calc, r.periods[i], r.schema, NoTool)
  BY <1>1
<1>2. Supports(r, r.periods[i])  BY DEF Supports
<1>3. QED  BY <1>1, <1>2, MetaOfRow, ModelOfRow DEF Offer

\* A period of one calculator is one of every calculator of its module.
LEMMA NamedIsSupported ==
  ASSUME NEW c, Registered(c), NEW m \in KnownModules, c.module = m,
         NEW o \in ListCalculators(m)
  PROVE  Supports(Meta(c), o.period)
<1>1. /\ Meta(c) \in Rows /\ Meta(c).calc = c
      /\ Meta(o.calc) \in Rows /\ Meta(o.calc).calc = o.calc
  BY OfferOfList DEF Registered, Meta
<1>2. Meta(c).periods = Meta(o.calc).periods
  BY <1>1, OfferOfList, PeriodsOfRow
<1>3. QED  BY <1>2, OfferOfList DEF Supports

LEMMA RedirectOfTool ==
  ASSUME NEW calc, Registered(calc), NEW period,
         NEW p, p = Params("object", ToolNameFor(calc), "object", period,
                           NoResource)
  PROVE  /\ Redirect(p).calc = calc
         /\ Redirect(p).native <=> calc = Calculator("depreciation", "at")
         /\ Redirect(p).period \in {period, Meta(calc).periods[1]}
         /\ period = NoPeriod => Redirect(p).period = Meta(calc).periods[1]
<1>1. Meta(calc) \in Rows /\ Meta(calc).calc = calc  BY DEF Registered, Meta
<1>2. p.name = ToolNameFor(calc) /\ p.period = period /\ p.arguments = "object"
  BY DEF Params
<1>3. ToolCalcUriForName(p.name) = Meta(calc)  BY <1>1, <1>2, ToolOfRow
<1>4. QED  BY <1>1, <1>2, <1>3 DEF Redirect

LEMMA ToolCallIsAnswered ==
  ASSUME NEW calc, Registered(calc), NEW period, period.name # NotAString,
         NEW p, p = Params("object", ToolNameFor(calc), "object", period,
                           NoResource)
  PROVE  /\ McpEndpoint(Rpc("2.0", "tools/call", TRUE, p)).result = "dispatch"
         /\ McpEndpoint(Rpc("2.0", "tools/call", TRUE, p)).error = 0
<1> DEFINE q == Rpc("2.0", "tools/call", TRUE, p)
<1>1. /\ p.shape = "object" /\ p.name = ToolNameFor(calc)
      /\ p.arguments = "object" /\ p.period = period
  BY DEF Params
<1>2. ToolNameFor(calc) # NotAString /\ ToolsNamed(ToolNameFor(calc)) # {}
  <2>1. Meta(calc) \in Rows /\ Meta(calc).calc = calc  BY DEF Registered, Meta
  <2>2. QED  BY <2>1, ToolOfRow
<1>3. HandleToolsCall(p) = Result("dispatch")
  BY <1>1, <1>2 DEF HandleToolsCall
<1>4. /\ q.version = "2.0" /\ q.method = "tools/call"
      /\ q.id = TRUE /\ q.params = p
  BY DEF Rpc
<1>5. Handle(q) = Result("dispatch")  BY <1>3, <1>4 DEF Handle
<1>6. McpEndpoint(q) = Result("dispatch")
  BY <1>4, <1>5 DEF McpEndpoint, Methods, NotAString
<1> HIDE DEF q
<1>7. McpEndpoint(q).result = "dispatch" /\ McpEndpoint(q).error = 0
  BY <1>6 DEF Result, Reply
<1>8. QED  BY <1>7 DEF q

LEMMA ListedResourceIsRead ==
  ASSUME NEW uri \in ListResources
  PROVE  McpEndpoint(Rpc("2.0", "resources/read", TRUE,
             Params("object", "none", "none", NoPeriod, uri))).result
           = "contents"
<1> DEFINE p == Params("object", "none", "none", NoPeriod, uri)
           q == Rpc("2.0", "resources/read", TRUE, p)
<1>1. CanReadResource(uri)
  BY DEF ListResources, CanReadResource, Resource
<1>2. HandleResourcesRead(p) = Result("contents")
  BY <1>1 DEF HandleResourcesRead, Params
<1>3. /\ q.version = "2.0" /\ q.method = "resources/read"
      /\ q.id = TRUE /\ q.params = p
  BY DEF Rpc
<1>4. Handle(q) = Result("contents")  BY <1>2, <1>3 DEF Handle
<1>5. McpEndpoint(q) = Result("contents")
  BY <1>3, <1>4 DEF McpEndpoint, Methods, NotAString
<1> HIDE DEF q
<1>6. McpEndpoint(q).result = "contents"  BY <1>5 DEF Result, Reply
<1>7. QED  BY <1>6 DEF q

-----------------------------------------------------------------------------
(* The invariant. *)

LEMMA Start == Init => IInv
<1> SUFFICES ASSUME Init PROVE IInv  OBVIOUS
<1>1. /\ source \in {"undecided", "own"} /\ redirect = NoRedirect
      /\ answers = [d \in Doors |-> NotAsked] /\ rpc = NoRpc
  BY DEF Init
<1>2. \A d \in Doors : ~Asked(d)  BY <1>1 DEF Asked
<1>3. SourceIsKnown  BY <1>1, <1>2 DEF SourceIsKnown, Listings
<1>4. AnswersAreForTheWish  BY <1>1, <1>2 DEF AnswersAreForTheWish, Doors
<1>5. RepliesAreForTheSource  BY <1>1 DEF RepliesAreForTheSource, Listings
<1>6. RedirectIsForTheWish  BY <1>1 DEF RedirectIsForTheWish
<1>7. QED  BY <1>3, <1>4, <1>5, <1>6 DEF IInv

\* Before the caller has decided, no door was asked.
LEMMA FreshStart ==
  ASSUME IInv, source = "undecided"
  PROVE  /\ redirect = NoRedirect /\ rpc = NoRpc
         /\ \A d \in Doors : answers[d] = NotAsked
BY DEF IInv, SourceIsKnown, RepliesAreForTheSource, Decided, Asked

LEMMA TakeKeeps ==
  ASSUME IInv, NEW o, NEW listing \in Listings, Take(o, listing),
         Registered(o.calc), Supports(Meta(o.calc), o.period),
         o.schema = InputModelRest(o.calc)
  PROVE  IInv'
<1>1. /\ redirect' = NoRedirect /\ rpc' = NoRpc /\ answers' = answers
      /\ \A d \in Doors : ~Asked(d)'
  BY FreshStart DEF Take, Asked
<1>2. /\ source' = listing
      /\ wish' = Wish(o.calc, o.period, DefaultTaxonomy, Samples[o.schema])
  BY DEF Take
<1>3. Advertised(wish)'  BY <1>2 DEF Advertised, Wish
<1>4. SourceIsKnown'
  BY <1>1, <1>2, <1>3 DEF SourceIsKnown, Listings
<1>5. RedirectIsForTheWish'  BY <1>1 DEF RedirectIsForTheWish
<1>6. AnswersAreForTheWish'
  BY <1>1 DEF IInv, AnswersAreForTheWish, Doors
<1>7. RepliesAreForTheSource'
  BY <1>1, <1>2 DEF RepliesAreForTheSource, Listings
<1>8. QED  BY <1>4, <1>5, <1>6, <1>7 DEF IInv

\* A caller that only exchanges an RPC asks no door.
LEMMA ExchangeKeeps ==
  ASSUME IInv, source = "undecided", NEW s \in {"rpc", "resources"},
         source' = s, s = "resources" => rpc'.reply.result = "contents",
         UNCHANGED <<wish, redirect, answers>>
  PROVE  IInv'
<1>1. /\ redirect' = NoRedirect /\ answers' = answers
      /\ \A d \in Doors : ~Asked(d)'
  BY FreshStart DEF Asked
<1>2. SourceIsKnown'  BY <1>1 DEF SourceIsKnown, Listings
<1>3. RedirectIsForTheWish'  BY <1>1 DEF RedirectIsForTheWish
<1>4. AnswersAreForTheWish'
  BY <1>1 DEF IInv, AnswersAreForTheWish, Doors
<1>5. RepliesAreForTheSource'
  BY DEF RepliesAreForTheSource, Listings
<1>6. QED  BY <1>2, <1>3, <1>4, <1>5 DEF IInv

LEMMA AnswerKeeps ==
  ASSUME IInv, NEW door \in Doors, Decided,
         answers' = [answers EXCEPT ![door] = ToBeAnswered(door)],
         door = "native" => HasRoute(wish.calc),
         door = "redirect" => redirect # NoRedirect,
         UNCHANGED <<wish, source, redirect, rpc>>
  PROVE  IInv'
<1>1. /\ answers' = [d \in Doors |-> answers'[d]]
      /\ \A d \in Doors :
           answers'[d] = IF d = door THEN ToBeAnswered(door) ELSE answers[d]
  BY DEF IInv, AnswersAreForTheWish
<1>2. \A d \in Doors : ToBeAnswered(d)' = ToBeAnswered(d)
  BY DEF ToBeAnswered
<1>3. AnswersAreForTheWish'
  BY <1>1, <1>2 DEF IInv, AnswersAreForTheWish, Asked, Doors
<1>4. SourceIsKnown'  BY DEF IInv, SourceIsKnown, Decided
<1>5. RedirectIsForTheWish' /\ RepliesAreForTheSource'
  BY DEF IInv, RedirectIsForTheWish, RepliesAreForTheSource
<1>6. QED  BY <1>3, <1>4, <1>5 DEF IInv

LEMMA CallToolKeeps ==
  ASSUME IInv, CallTool
  PROVE  IInv'
<1>1. PICK o \in ListTools, period \in {wish.period, NoPeriod} :
        LET p == Params("object", o.tool, "object", period, NoResource)
            q == Rpc("2.0", "tools/call", TRUE, p)
        IN  /\ Decided /\ redirect = NoRedirect
            /\ o.calc = wish.calc
            /\ Exchange(q)
            /\ redirect' = IF McpEndpoint(q).result = "dispatch"
                           THEN Redirect(p) ELSE NoRedirect
            /\ UNCHANGED <<wish, source, answers>>
  BY DEF CallTool
<1> DEFINE p == Params("object", o.tool, "object", period, NoResource)
           q == Rpc("2.0", "tools/call", TRUE, p)
<1>2. Registered(wish.calc) /\ o.tool = ToolNameFor(wish.calc)
  BY <1>1, OfferOfTool
<1>3. redirect' # NoRedirect => redirect' = Redirect(p)  BY <1>1
<1>4. RedirectIsForTheWish'
  <2>1. wish' = wish /\ period \in {wish.period, NoPeriod}  BY <1>1
  <2>2. /\ Redirect(p).calc = wish.calc
        /\ Redirect(p).native <=> wish.calc = Calculator("depreciation", "at")
        /\ Redirect(p).period \in {wish.period, Meta(wish.calc).periods[1]}
    BY <1>2, <2>1, RedirectOfTool
  <2>3. QED  BY <1>2, <1>3, <2>1, <2>2 DEF RedirectIsForTheWish
<1>5. SourceIsKnown'  BY <1>1 DEF IInv, SourceIsKnown, Decided
<1>6. ~Asked("redirect") /\ answers' = answers /\ wish' = wish
  BY <1>1 DEF IInv, AnswersAreForTheWish
<1>7. AnswersAreForTheWish'
  BY <1>6 DEF IInv, AnswersAreForTheWish, Asked, ToBeAnswered, Doors
<1>8. RepliesAreForTheSource'
  <2>1. source' = source /\ source \notin {"undecided", "resources"}
    BY <1>1 DEF Decided
  <2>2. ASSUME source \in Listings
        PROVE  rpc'.reply.error = 0
    <3>1. Supports(Meta(wish.calc), wish.period)
      BY <2>2 DEF IInv, SourceIsKnown, Advertised
    <3>2. Meta(wish.calc) \in Rows  BY <1>2 DEF Registered, Meta
    <3>3. period.name # NotAString
      <4>1. wish.period.name # NotAString  BY <3>1, <3>2, PeriodsOfRow
      <4>2. NoPeriod.name # NotAString  BY DEF NoPeriod, Period, NotAString
      <4>3. QED  BY <4>1, <4>2
    <3>4. McpEndpoint(q).error = 0  BY <1>2, <3>3, ToolCallIsAnswered
    <3>5. QED  BY <1>1, <3>4 DEF Exchange
  <2>3. QED  BY <2>1, <2>2 DEF RepliesAreForTheSource
<1>9. QED  BY <1>4, <1>5, <1>7, <1>8 DEF IInv

LEMMA BrowseKeeps ==
  ASSUME IInv, BrowseCalculators \/ BrowseModules \/ BrowseTools
  PROVE  IInv'
<1>1. CASE BrowseCalculators
  <2>1. PICK m \in KnownModules :
          \E o \in ListCalculators(m) : Take(o, "calculators")
    BY <1>1 DEF BrowseCalculators
  <2>2. PICK o \in ListCalculators(m) : Take(o, "calculators")  BY <2>1
  <2>3. QED  BY <2>2, OfferOfList, TakeKeeps DEF Listings
<1>2. CASE BrowseModules
  <2>1. PICK m \in KnownModules :
          \E c \in CalculatorsNamedBy(m), o \in ListCalculators(m) :
            Take(Offer(c, o.period, InputModelRest(c), NoTool), "modules")
    BY <1>2 DEF BrowseModules
  <2>2. PICK c \in CalculatorsNamedBy(m), o \in ListCalculators(m) :
          Take(Offer(c, o.period, InputModelRest(c), NoTool), "modules")
    BY <2>1
  <2> DEFINE offer == Offer(c, o.period, InputModelRest(c), NoTool)
  <2>3. Registered(c) /\ c.module = m  BY NamedIsRegistered
  <2>4. Supports(Meta(c), o.period)  BY <2>3, NamedIsSupported
  <2>5. /\ offer.calc = c /\ offer.period = o.period
        /\ offer.schema = InputModelRest(c)
    BY DEF Offer
  <2> HIDE DEF offer
  <2>6. Take(offer, "modules")  BY <2>2 DEF offer
  <2>7. QED  BY <2>3, <2>4, <2>5, <2>6, TakeKeeps DEF Listings
<1>3. CASE BrowseTools
  <2>1. PICK o \in ListTools : Take(o, "tools")  BY <1>3 DEF BrowseTools
  <2>2. QED  BY <2>1, OfferOfTool, TakeKeeps DEF Listings
<1>4. QED  BY <1>1, <1>2, <1>3

LEMMA RpcKeeps ==
  ASSUME IInv, ReadListedResource \/ SendStray
  PROVE  IInv'
<1>1. CASE ReadListedResource
  <2>1. PICK uri \in ListResources :
          /\ source = "undecided" /\ source' = "resources"
          /\ Exchange(Rpc("2.0", "resources/read", TRUE,
                          Params("object", "none", "none", NoPeriod, uri)))
          /\ UNCHANGED <<wish, redirect, answers>>
    BY <1>1 DEF ReadListedResource
  <2>2. rpc'.reply.result = "contents"
    BY <2>1, ListedResourceIsRead DEF Exchange
  <2>3. QED  BY <2>1, <2>2, ExchangeKeeps
<1>2. CASE SendStray
  <2>1. /\ source = "undecided" /\ source' = "rpc"
        /\ UNCHANGED <<wish, redirect, answers>>
    BY <1>2 DEF SendStray
  <2>2. QED  BY <2>1, ExchangeKeeps
<1>3. QED  BY <1>1, <1>2

LEMMA AskKeeps ==
  ASSUME IInv, AskGeneric \/ AskNative \/ FollowRedirect
  PROVE  IInv'
<1>1. CASE AskGeneric
  <2>1. /\ Decided
        /\ answers' = [answers EXCEPT !["generic"] = ToBeAnswered("generic")]
        /\ UNCHANGED <<wish, source, redirect, rpc>>
    BY <1>1 DEF AskGeneric, ToBeAnswered
  <2>2. QED  BY <2>1, AnswerKeeps DEF Doors
<1>2. CASE AskNative
  <2>1. /\ Decided /\ HasRoute(wish.calc)
        /\ answers' = [answers EXCEPT !["native"] = ToBeAnswered("native")]
        /\ UNCHANGED <<wish, source, redirect, rpc>>
    BY <1>2 DEF AskNative, ToBeAnswered
  <2>2. QED  BY <2>1, AnswerKeeps DEF Doors
<1>3. CASE FollowRedirect
  <2>1. /\ redirect # NoRedirect
        /\ answers' = [answers EXCEPT !["redirect"] = ToBeAnswered("redirect")]
        /\ UNCHANGED <<wish, source, redirect, rpc>>
    BY <1>3 DEF FollowRedirect, ToBeAnswered
  <2>2. Decided  BY <2>1 DEF IInv, SourceIsKnown
  <2>3. QED  BY <2>1, <2>2, AnswerKeeps DEF Doors
<1>4. QED  BY <1>1, <1>2, <1>3

LEMMA Step == IInv /\ [Next]_vars => IInv'
<1> SUFFICES ASSUME IInv, [Next]_vars PROVE IInv'  OBVIOUS
<1>1. CASE UNCHANGED vars
  BY <1>1 DEF vars, IInv, SourceIsKnown, Decided, RedirectIsForTheWish,
     AnswersAreForTheWish, ToBeAnswered, Asked, RepliesAreForTheSource
<1>2. QED
  BY <1>1, BrowseKeeps, RpcKeeps, AskKeeps, CallToolKeeps DEF Next

(***************************************************************************)
(* The inductive invariant of the front door: every answer, redirect and   *)
(* reply is the handlers' own answer to the wish, for any wishes.          *)
(***************************************************************************)
THEOREM InvariantHolds == Spec => []IInv
BY Start, Step, PTL DEF Spec

-----------------------------------------------------------------------------
(* What it means for the caller. *)

\* What a door has answered, it has answered to the wish.
LEMMA AnswerSettles ==
  ASSUME IInv, NEW d \in Doors, Asked(d)
  PROVE  /\ ( /\ Registered(wish.calc)
              /\ Supports(Meta(wish.calc), PeriodOf(d))
              /\ wish.taxonomy \in RatifiedTaxonomies )
            => answers[d] = Settlement(wish.calc, PeriodOf(d), wish.body)
         /\ IsForwarded(d) =>
              /\ Registered(wish.calc)
              /\ Accepts(InputModelRest(wish.calc), wish.body)
              /\ answers[d] = Settled(wish.calc, PeriodOf(d), wish.body)
<1>1. answers[d] = ToBeAnswered(d)  BY DEF IInv, AnswersAreForTheWish
<1>2. DefaultTaxonomy \in RatifiedTaxonomies
  BY DEF DefaultTaxonomy, RatifiedTaxonomies
<1>3. CASE d = "generic"
  <2>1. /\ answers[d] = InvokeCalculator(wish.calc, wish.period,
                                          wish.taxonomy, wish.body)
        /\ PeriodOf(d) = wish.period
    BY <1>1, <1>3 DEF ToBeAnswered, PeriodOf
  <2>2. QED  BY <2>1, GenericSettles DEF IsForwarded
<1>4. CASE d = "native"
  <2>1. /\ answers[d] = AtItsRoute(wish) /\ PeriodOf(d) = wish.period
        /\ HasRoute(wish.calc)
    BY <1>1, <1>4 DEF ToBeAnswered, PeriodOf, IInv, AnswersAreForTheWish
  <2>2. QED  BY <2>1, RouteSettles DEF IsForwarded
<1>5. CASE d = "redirect"
  <2>1. /\ PeriodOf(d) = redirect.period
        /\ Registered(wish.calc) /\ redirect.calc = wish.calc
        /\ redirect.native <=> wish.calc = Calculator("depreciation", "at")
    BY <1>5 DEF PeriodOf, IInv, AnswersAreForTheWish, RedirectIsForTheWish
  <2>2. CASE ~redirect.native
    <3>1. answers[d] = InvokeCalculator(wish.calc, redirect.period,
                                        DefaultTaxonomy, wish.body)
      BY <1>1, <1>5, <2>1, <2>2 DEF ToBeAnswered
    <3>2. QED  BY <1>2, <2>1, <3>1, GenericSettles DEF IsForwarded
  <2>3. CASE redirect.native
    <3> DEFINE w == Wish(wish.calc, redirect.period, DefaultTaxonomy,
                         wish.body)
    <3>1. answers[d] = InvokeDepreciationAt(redirect.period, DefaultTaxonomy,
                                            wish.body)
      BY <1>1, <1>5, <2>3 DEF ToBeAnswered
    <3>2. /\ w.calc = wish.calc /\ w.period = redirect.period
          /\ w.taxonomy = DefaultTaxonomy /\ w.body = wish.body
      BY DEF Wish
    <3> HIDE DEF w
    <3>3. HasRoute(w.calc) /\ answers[d] = AtItsRoute(w)
      BY <2>1, <2>3, <3>1, <3>2, DepreciationAtHasRoute
    <3>4. QED  BY <1>2, <2>1, <3>2, <3>3, RouteSettles DEF IsForwarded
  <2>4. QED  BY <2>2, <2>3
<1>6. QED  BY <1>3, <1>4, <1>5 DEF Doors

LEMMA ForwardedWasAsked ==
  ASSUME NEW d, IsForwarded(d)
  PROVE  Asked(d)
<1>1. NotAsked.outcome = "not asked"  BY DEF NotAsked, Refused, Answer
<1>2. QED  BY <1>1 DEF IsForwarded, Asked

LEMMA TypeCorrectFollows ==
  ASSUME IInv
  PROVE  TypeOK
<1>1. ASSUME NEW d \in Doors, IsForwarded(d)
      PROVE  \A f \in DOMAIN answers[d].payload :
               answers[d].payload[f] \notin {"null", "required"}
  <2>1. /\ Registered(wish.calc)
        /\ Accepts(InputModelRest(wish.calc), wish.body)
        /\ answers[d] = Settled(wish.calc, PeriodOf(d), wish.body)
    BY <1>1, ForwardedWasAsked, AnswerSettles
  <2>2. IsOfTheBody(answers[d].payload, InputModelRest(wish.calc), wish.body)
    BY <2>1, SettledIsForTheWish
  <2>3. QED  BY <2>2 DEF IsOfTheBody
<1>2. /\ source \in {"undecided", "own", "calculators", "modules", "tools",
                     "resources", "rpc"}
      /\ ~Decided => redirect = NoRedirect /\ \A d \in Doors : ~Asked(d)
  BY DEF IInv, SourceIsKnown, Listings
<1>3. DOMAIN answers = Doors  BY DEF IInv, AnswersAreForTheWish
<1>4. redirect # NoRedirect => Registered(redirect.calc)
  BY DEF IInv, RedirectIsForTheWish
<1>5. QED  BY <1>1, <1>2, <1>3, <1>4 DEF TypeOK

(***************************************************************************)
(* Type correctness: nothing is answered before the caller has decided, a  *)
(* redirect goes to a registered calculator, and no payload has a null or a*)
(* hole where a required field was not given.                              *)
(***************************************************************************)
THEOREM TypeCorrect == Spec => []TypeOK
BY InvariantHolds, TypeCorrectFollows, PTL

LEMMA DoorsDoAgreeFollows ==
  ASSUME IInv
  PROVE  DoorsAgree
BY AnswerSettles DEF DoorsAgree

(***************************************************************************)
(* The doors agree, whatever was wished for: the generic route, the        *)
(* calculator's own route and the redirect of a tool call make the same of a*)
(* request over a good period and taxonomy.                                *)
(***************************************************************************)
THEOREM DoorsDoAgree == Spec => []DoorsAgree
BY InvariantHolds, DoorsDoAgreeFollows, PTL

LEMMA CallsAreForTheWishFollows ==
  ASSUME IInv
  PROVE  CallIsForTheWish
<1> SUFFICES ASSUME NEW d \in Doors, IsForwarded(d)
             PROVE  LET call == answers[d]
                    IN  /\ call.calc = wish.calc
                        /\ call.period \in {PeriodOf(d), NoPeriod}
                        /\ wish.calc.module = "fbt" =>
                             {r \in Rows :
                                /\ r.calc.module = "fbt"
                                /\ r.category = call.payload.benefit_category
                                /\ r.method = call.payload.method}
                               = {Meta(wish.calc)}
                        /\ IsOfTheBody(call.payload, InputModelRest(wish.calc),
                                       wish.body)
  BY DEF CallIsForTheWish, IsOfTheBody
<1>1. /\ Registered(wish.calc)
      /\ Accepts(InputModelRest(wish.calc), wish.body)
      /\ answers[d] = Settled(wish.calc, PeriodOf(d), wish.body)
  BY ForwardedWasAsked, AnswerSettles
<1>2. QED  BY <1>1, SettledIsForTheWish

(***************************************************************************)
(* The engine is asked for the calculation the caller meant, with every    *)
(* value it gave and the model's defaults, by whatever door.               *)
(***************************************************************************)
THEOREM CallsAreForTheWish == Spec => []CallIsForTheWish
BY InvariantHolds, CallsAreForTheWishFollows, PTL

LEMMA AdvertisedCanBeHadFollows ==
  ASSUME IInv
  PROVE  AdvertisedIsCallable
<1>1. ASSUME source \in Listings, NEW d \in Doors, Asked(d)
      PROVE  IsForwarded(d) /\ answers[d].calc = wish.calc
  <2> DEFINE m == InputModelRest(wish.calc)
  <2>1. Advertised(wish)  BY <1>1 DEF IInv, SourceIsKnown
  <2>2. Meta(wish.calc) \in Rows /\ Meta(wish.calc).calc = wish.calc
    BY <2>1 DEF Advertised, Registered, Meta
  <2>3. Accepts(m, wish.body)
    <3>1. m \in DOMAIN Models  BY <2>2, ModelOfRow, RowIsWellFormed
    <3>2. QED  BY <2>1, <3>1, FrontDoorAssumption DEF Advertised
  <2>4. Supports(Meta(wish.calc), PeriodOf(d))
    <3>1. Supports(Meta(wish.calc), wish.period)  BY <2>1 DEF Advertised
    <3>2. Supports(Meta(wish.calc), Meta(wish.calc).periods[1])
      BY <2>2, PeriodsOfRow
    <3>3. PeriodOf(d) \in {wish.period, Meta(wish.calc).periods[1]}
      BY <1>1 DEF IInv, AnswersAreForTheWish, RedirectIsForTheWish, PeriodOf
    <3>4. QED  BY <3>1, <3>2, <3>3
  <2>5. wish.taxonomy \in RatifiedTaxonomies
    BY <2>1 DEF Advertised, DefaultTaxonomy, RatifiedTaxonomies
  <2>6. Registered(wish.calc)  BY <2>1 DEF Advertised
  <2>7. answers[d] = Settled(wish.calc, PeriodOf(d), wish.body)
    BY <1>1, <2>3, <2>4, <2>5, <2>6, AnswerSettles DEF Settlement
  <2>8. answers[d].calc = wish.calc
    BY <2>3, <2>6, <2>7, SettledIsForTheWish
  <2>9. answers[d].outcome = "forwarded"
    BY <2>7 DEF Settled, InvokeFbt, Forwarded, Answer
  <2>10. QED  BY <2>8, <2>9 DEF IsForwarded
<1>2. /\ source \in Listings /\ rpc # NoRpc => rpc.reply.error = 0
      /\ source = "resources" => rpc.reply.result = "contents"
  BY DEF IInv, RepliesAreForTheSource
<1>3. QED  BY <1>1, <1>2 DEF AdvertisedIsCallable, Listings

(***************************************************************************)
(* What a listing offers gets to its engine by every door, with any sample *)
(* body its input model accepts, and a listed resource can be read.  Of a  *)
(* body its JSON schema alone allows this says nothing.                    *)
(***************************************************************************)
THEOREM AdvertisedCanBeHad == Spec => []AdvertisedIsCallable
BY InvariantHolds, AdvertisedCanBeHadFollows, PTL

LEMMA NoSilentZeroFollows ==
  ASSUME IInv
  PROVE  NoSilentZero
<1> SUFFICES ASSUME NEW d \in Doors PROVE Good(answers[d])
  BY DEF NoSilentZero, Good, IsForwarded
<1>1. CASE ~Asked(d)
  <2>1. answers[d] = Refused("not asked")  BY <1>1 DEF Asked, NotAsked
  <2>2. QED  BY <2>1, RefusalIsGood
<1>2. CASE Asked(d)
  <2>1. answers[d] = ToBeAnswered(d)
    BY <1>2 DEF IInv, AnswersAreForTheWish
  <2>2. QED
    BY <1>2, <2>1, GenericIsGood, NativeIsGood, DepreciationIsGood
    DEF ToBeAnswered, Doors, IInv, AnswersAreForTheWish
<1>3. QED  BY <1>1, <1>2

(***************************************************************************)
(* No door of the gateway lets a car or an asset through to an engine      *)
(* that would count what it lacks as zero or refuse what it has.           *)
(***************************************************************************)
THEOREM NoSilentZeroHolds == Spec => []NoSilentZero
BY InvariantHolds, NoSilentZeroFollows, PTL

=============================================================================
