----------------------------- MODULE HpSchedule -----------------------------
(***************************************************************************)
(* compute_schedule of api/engines/hp/schedule.py: the hire purchase       *)
(* amortisation schedule of one contract, its totals and its liability     *)
(* split at each balance date.                                             *)
(*                                                                         *)
(* Money is counted in grains, `Grains` of them to the cent.  The code's   *)
(* Decimal keeps 28 digits: sums are exact and interest is rounded far     *)
(* below the cent.  Here too sums are exact and interest is rounded to the *)
(* grain.  A date is a number of months: the code compares row dates only  *)
(* with the last day of a month, so their days tell nothing apart.         *)
(***************************************************************************)
EXTENDS Integers, Sequences, Functions

CONSTANTS
  Contracts,   \* the requests the route validated: members of Contract
  Grains,      \* grains to the cent
  LastMonth,   \* the last month Python's date has (December 9999)
  MaxFigure    \* the largest amount quantize() can write with 28 digits

\* annual_rate_pct / 100 / 12 as a fraction, or a string Decimal takes and a
\* rate is not, or one that Decimal refuses.
Rate == [kind : {"finite", "nan", "infinite", "invalid"},
         num : Int, den : Nat \ {0}]

Balloon == [mode : {"replace", "add"}, row : Nat \ {0}, amount : Int]

\* parsed_balloon = None and balloon_row = 0.
NoBalloon == [mode |-> "none", row |-> 0, amount |-> 0]

\* Amounts are in cents: the request model refuses any other.
Contract ==
  [amount : Int, rate : Rate, term : Nat \ {0}, instalment : Int,
   advance : BOOLEAN, monthly : BOOLEAN, dated : BOOLEAN, begin : Nat,
   balloon : Balloon \cup {NoBalloon}, fyEnd : 1..12]

ASSUME HpAssumption ==
  /\ Contracts \subseteq Contract
  /\ Grains \in Nat \ {0}
  /\ LastMonth \in Nat /\ MaxFigure \in Nat

VARIABLES
  contract,   \* the request
  pc,         \* where compute_schedule is
  balance,    \* carried unrounded from row to row
  rows,       \* the rows so far, with their unrounded figures
  nan,        \* the balance is NaN; no figure below means anything then
  n,          \* the rows the sums have taken in
  exact,      \* exact_total_interest
  footed,     \* total_interest
  paid,       \* total_payments
  buckets,    \* of _fy_interest_map: rounded interest by year
  positions   \* of _fy_position_map: the split at the end of each year

sums == <<n, exact, footed, paid, buckets, positions>>
vars == <<contract, pc, balance, rows, nan, sums>>

-----------------------------------------------------------------------------
(***************************************************************************)
(* Rounding.                                                               *)
(***************************************************************************)
Magnitude(v) == IF v < 0 THEN -v ELSE v

\* quantize(0.01, ROUND_HALF_UP): to the nearest cent, ties away from zero.
RoundCents(v) ==
  LET up == Grains * ((2 * Magnitude(v) + Grains) \div (2 * Grains))
  IN  IF v < 0 THEN -up ELSE up

\* quantize() raises on a result of more than 28 digits.
Fits(figures) == \A v \in figures : Magnitude(RoundCents(v)) <= MaxFigure

(***************************************************************************)
(* The schedule.                                                           *)
(***************************************************************************)
Principal(c) == Grains * c.amount

\* total_rows = max(term, balloon_row).
TotalRows(c) == IF c.balloon.row > c.term THEN c.balloon.row ELSE c.term

\* Mutant of Payment: an added balloon goes with the regular payment.
PaymentRegular(c, k) ==
  Grains * (IF k = c.balloon.row
            THEN IF c.balloon.mode = "replace" \/ k > c.term
                 THEN c.balloon.amount
                 ELSE c.instalment + c.balloon.amount
            ELSE IF k <= c.term THEN c.instalment ELSE 0)

\* What is paid with row k: an added balloon brings an instalment with it even
\* beyond the regular term.
Payment(c, k) ==
  Grains * (IF k = c.balloon.row
            THEN IF c.balloon.mode = "replace"
                 THEN c.balloon.amount
                 ELSE c.instalment + c.balloon.amount
            ELSE IF k <= c.term THEN c.instalment ELSE 0)

\* In advance, nothing has accrued on row 1.
Accrues(c, k) == ~(c.advance /\ k = 1)

\* balance * rate_periodic, to the nearest grain.
Interest(c, k, bal) ==
  IF Accrues(c, k) /\ c.rate.kind = "finite"
  THEN (2 * bal * c.rate.num + c.rate.den) \div (2 * c.rate.den)
  ELSE 0

\* The month of _start_date of row k.
Month(c, k) == c.begin + k - 1

(***************************************************************************)
(* Financial years, named by the calendar year they end in.                *)
(***************************************************************************)
\* Mutant of FyYear: the last month falls into the next year.
FyYearEarly(c, m) == IF (m % 12) + 1 >= c.fyEnd THEN (m \div 12) + 1 ELSE m \div 12

FyYear(c, m) == IF (m % 12) + 1 > c.fyEnd THEN (m \div 12) + 1 ELSE m \div 12

\* The month of _fy_end_date.
BalanceMonth(c, y) == 12 * y + c.fyEnd - 1

Years(c) == {FyYear(c, Month(c, k)) : k \in 1..TotalRows(c)}

\* Mutant of BucketAmount: the defect D60 removed.
BucketAmountRaw(row) == row.interest

\* What a row adds to its year's interest.
BucketAmount(row) == RoundCents(row.interest)

\* Mutant of Split: the twelfth month after the balance date is not current.
SplitElevenMonths(c, y, i, row, p) ==
  LET monthsOut == Month(c, i) - BalanceMonth(c, y)
  IN  IF monthsOut <= 0 THEN [p EXCEPT !.principal = row.closing]
      ELSE IF monthsOut < 12
      THEN [p EXCEPT !.anyAfter = TRUE, !.currentGross = @ + row.payment,
                     !.currentUnexpired = @ + row.interest]
      ELSE [p EXCEPT !.anyAfter = TRUE, !.nonCurrentGross = @ + row.payment,
                     !.nonCurrentUnexpired = @ + row.interest]

\* Mutant of Split: the principal is that of the row before.
SplitOpening(c, y, i, row, p) ==
  IF Month(c, i) <= BalanceMonth(c, y)
  THEN [p EXCEPT !.principal = row.closing + row.payment - row.interest]
  ELSE SplitElevenMonths(c, y, i, row, p)

(***************************************************************************)
(* The body of the loops of _fy_position_map on row i, for the year y: up  *)
(* to the balance date a row moves the principal, after it its payment and *)
(* interest are current for twelve months and non-current from then on.    *)
(***************************************************************************)
Split(c, y, i, row, p) ==
  LET monthsOut == Month(c, i) - BalanceMonth(c, y)
  IN  IF monthsOut <= 0 THEN [p EXCEPT !.principal = row.closing]
      ELSE IF monthsOut <= 12
      THEN [p EXCEPT !.anyAfter = TRUE, !.currentGross = @ + row.payment,
                     !.currentUnexpired = @ + row.interest]
      ELSE [p EXCEPT !.anyAfter = TRUE, !.nonCurrentGross = @ + row.payment,
                     !.nonCurrentUnexpired = @ + row.interest]

CurrentNet(p)    == p.currentGross - p.currentUnexpired
NonCurrentNet(p) == p.nonCurrentGross - p.nonCurrentUnexpired

\* The figures of a split that is published.
SplitFigures(p) ==
  {p.principal, p.currentGross, p.currentUnexpired, CurrentNet(p),
   p.nonCurrentGross, p.nonCurrentUnexpired, NonCurrentNet(p)}

-----------------------------------------------------------------------------
Init ==
  /\ contract \in Contracts
  /\ pc = "start"
  /\ balance = Principal(contract)
  /\ rows = <<>>
  /\ nan = FALSE
  /\ n = 0 /\ exact = 0 /\ footed = 0 /\ paid = 0
  /\ buckets = [y \in Years(contract) |-> 0]
  /\ positions = [y \in Years(contract) |->
       [principal |-> Principal(contract), anyAfter |-> FALSE,
        currentGross |-> 0, currentUnexpired |-> 0,
        nonCurrentGross |-> 0, nonCurrentUnexpired |-> 0]]

\* The refusals the request model leaves to the engine, in its order.
Check ==
  /\ pc = "start"
  /\ pc' = IF ~contract.monthly THEN "refused_400"
           ELSE IF ~contract.dated \/ contract.rate.kind = "invalid"
           THEN "refused_422"
           ELSE "rows"
  /\ UNCHANGED <<contract, balance, rows, nan, sums>>

\* The row the loop is at, and whether its interest is no number.
This    == Len(rows) + 1
NoValue == Accrues(contract, This) /\ contract.rate.kind \in {"nan", "infinite"}

\* What the loop computes for it.
ThisRow ==
  LET interest == Interest(contract, This, balance)
      payment  == Payment(contract, This)
  IN  [interest |-> interest, payment |-> payment,
       closing |-> balance - (payment - interest)]

\* The row cannot be made: its dates pass the last year, an amount has too many
\* digits, the interest is infinite.
RowRaises ==
  \/ Month(contract, This + 1) > LastMonth
  \/ NoValue /\ contract.rate.kind = "infinite"
  \/ ~Fits({ThisRow.payment})
  \/ ~nan /\ ~Fits({balance})
  \/ ~nan /\ ~NoValue /\ ~Fits({ThisRow.interest, ThisRow.closing})

AddRow ==
  /\ pc = "rows" /\ ~RowRaises
  /\ rows' = Append(rows, ThisRow)
  /\ balance' = ThisRow.closing
  /\ nan' = (nan \/ NoValue)
  /\ pc' = IF This = TotalRows(contract) THEN "sums" ELSE "rows"
  /\ UNCHANGED <<contract, sums>>

(***************************************************************************)
(* The totals and the two financial-year maps, each a loop of its own over *)
(* the finished rows.  They are independent of each other: row by row, all *)
(* of them take the row in.                                                *)
(***************************************************************************)
SumRow ==
  /\ pc = "sums" /\ n < Len(rows)
  /\ n' = n + 1
  /\ LET row == rows[n']
         fy  == FyYear(contract, Month(contract, n'))
     IN  /\ exact' = exact + row.interest
         /\ footed' = footed + RoundCents(row.interest)
         /\ paid' = paid + RoundCents(row.payment)
         /\ buckets' = [buckets EXCEPT ![fy] = @ + BucketAmount(row)]
         /\ positions' = [y \in DOMAIN positions |->
                            Split(contract, y, n', row, positions[y])]
  /\ UNCHANGED <<contract, pc, balance, rows, nan>>

\* Mutant of Residual: the difference the other way round.
ResidualSwapped(total, sum) == sum - RoundCents(total)

\* Mutant of Residual: the other residual, rate_precision_residual.
ResidualOfRate(total, sum) == RoundCents(balance)

\* totals.rounding_residual
Residual(total, sum) == RoundCents(total) - sum

\* What is written when all sums are taken; a split only for a year after which
\* instalments remain.
Published == {y \in DOMAIN positions : positions[y].anyAfter}

\* Payments are numbers even where interest is NaN.
Payments == {paid} \cup {positions[y].currentGross : y \in Published}
                   \cup {positions[y].nonCurrentGross : y \in Published}

Figures == {footed, Residual(exact, footed), balance}
             \cup Range(buckets)
             \cup UNION {SplitFigures(positions[y]) : y \in Published}

\* _fy_end_date is taken of every year, also of one after the last.
YearsFit == \A y \in Years(contract) : BalanceMonth(contract, y) <= LastMonth

AllFit == YearsFit /\ Fits(Payments) /\ (nan \/ Fits(Figures))

Publish ==
  /\ pc = "sums" /\ n = Len(rows)
  /\ AllFit
  /\ pc' = "done"
  /\ UNCHANGED <<contract, balance, rows, nan, sums>>

\* An exception that is no HpEngineError: the route has no answer to it.
Raise ==
  /\ \/ pc = "rows" /\ RowRaises
     \/ pc = "sums" /\ n = Len(rows) /\ ~AllFit
  /\ pc' = "raised"
  /\ UNCHANGED <<contract, balance, rows, nan, sums>>

Next == Check \/ AddRow \/ SumRow \/ Publish \/ Raise

Spec == Init /\ [][Next]_vars

-----------------------------------------------------------------------------
(***************************************************************************)
(* What must hold of a published schedule.                                 *)
(***************************************************************************)
Answered == pc = "done" /\ ~nan

\* Two figures, in grains, are at most k cents apart.
Within(k, a, b) == a - b <= k * Grains /\ b - a <= k * Grains

\* D60 rule 5: the interest of the years and the interest of the published rows
\* both sum to totals.interest, wherever the balance dates cut the schedule.
InterestFoots ==
  Answered =>
    /\ SumFunction(buckets) = footed
    /\ SumFunction([k \in 1..Len(rows) |-> RoundCents(rows[k].interest)]) = footed

\* The published statement closes: amount financed + totals.interest +
\* totals.rounding_residual - totals.payments is final_balance to the cent
\* (not always exactly: a final balance of half a cent rounds away from zero).
StatementCloses ==
  Answered =>
    Within(1, Principal(contract) + footed + Residual(exact, footed) - paid,
              RoundCents(balance))

\* totals.rounding_residual is half a cent at most for each row and the total.
ResidualIsBounded ==
  Answered =>
    LET r == Residual(exact, footed)
    IN  2 * Magnitude(r) <= (Len(rows) + 1) * Grains

\* The identity of tests/test_hp_schedule_engine.py on the published figures of
\* every split, four of them rounded each on its own: what is current and what
\* is not make up the principal that is not in the final balance.
SplitsFoot ==
  Answered => \A y \in Published :
    LET p == positions[y]
    IN  Within(1, RoundCents(CurrentNet(p)) + RoundCents(NonCurrentNet(p)),
                  RoundCents(p.principal) - RoundCents(balance))

\* The principal of a year less its current part is the principal published
\* for the next year: twelve months of rows are current, and the same twelve
\* fall into the next year, whatever the day and month of the contract.
SplitsRollForward ==
  Answered => \A y \in Published :
    y + 1 \in Published =>
      Within(1, RoundCents(positions[y].principal)
                  - RoundCents(CurrentNet(positions[y])),
                RoundCents(positions[y + 1].principal))

\* The interest not yet expired at a balance date, as far as it is current, is
\* the interest of the next year in fy_interest, but for half a cent for each
\* of its twelve rows (only those are rounded) and for its own rounding.
UnexpiredIsNextYears ==
  Answered => \A y \in Published :
    LET d == RoundCents(positions[y].currentUnexpired) - buckets[y + 1]
    IN  2 * Magnitude(d) <= 13 * Grains

\* totals.payments is what the contract says is to be paid: a balloon takes the
\* place of the instalment of its row if it replaces one, and comes with one
\* instalment more than the term has if it is added beyond the term.
PaymentsAsAgreed ==
  pc = "done" =>
    LET b == contract.balloon
        instalments ==
          contract.term
            - (IF b.mode = "replace" /\ b.row <= contract.term THEN 1 ELSE 0)
            + (IF b.mode = "add" /\ b.row > contract.term THEN 1 ELSE 0)
    IN  paid = Grains * (instalments * contract.instalment + b.amount)
=============================================================================
