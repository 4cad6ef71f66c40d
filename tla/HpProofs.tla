------------------------------ MODULE HpProofs ------------------------------
(***************************************************************************)
(* Theorems about HpSchedule, for every contract, any grain and any last   *)
(* date: rounding and financial years; the balances, and what they say of  *)
(* a published schedule; then what is paid, and the interest of the years. *)
(***************************************************************************)
EXTENDS HpInvariant, SumProofs, TLAPS

\* Division by a positive number, which need not be a literal.
LEMMA DivFact ==
  ASSUME NEW a \in Nat, NEW b \in Nat, b > 0
  PROVE  /\ a \div b \in Nat
         /\ b * (a \div b) <= a
         /\ a < b * (a \div b) + b
OBVIOUS

\* Rounding goes to a whole cent at most half a cent away, and a tie away from
\* zero.
LEMMA RoundCentsFact ==
  ASSUME NEW v \in Int
  PROVE  /\ RoundCents(v) \in Int
         /\ \E k \in Int : RoundCents(v) = Grains * k
         /\ 2 * (RoundCents(v) - v) <= Grains
         /\ 2 * (v - RoundCents(v)) <= Grains
         /\ 2 * (RoundCents(v) - v) = Grains => v > 0
         /\ 2 * (v - RoundCents(v)) = Grains => v < 0
<1> DEFINE m == Magnitude(v)
           q == (2 * m + Grains) \div (2 * Grains)
<1>1. m \in Nat /\ Grains \in Nat /\ Grains > 0
  BY HpAssumption DEF Magnitude
<1>2. /\ q \in Nat
      /\ (2 * Grains) * q <= 2 * m + Grains
      /\ 2 * m + Grains < (2 * Grains) * q + 2 * Grains
  <2>1. 2 * m + Grains \in Nat /\ 2 * Grains \in Nat /\ 2 * Grains > 0
    BY <1>1
  <2> HIDE DEF m
  <2> QED  BY <2>1, DivFact
<1>3. RoundCents(v) = IF v < 0 THEN -(Grains * q) ELSE Grains * q
  BY DEF RoundCents
<1>4. (2 * Grains) * q = 2 * (Grains * q) /\ Grains * q \in Int
      /\ -(Grains * q) = Grains * (-q)
  BY <1>1, <1>2
<1>5. IF v < 0 THEN m = -v ELSE m = v
  BY DEF Magnitude
<1> HIDE DEF q, m
<1>6. CASE v < 0
  <2>1. RoundCents(v) = Grains * (-q) /\ -q \in Int
    BY <1>2, <1>3, <1>4, <1>6
  <2>2. /\ RoundCents(v) \in Int
        /\ 2 * (RoundCents(v) - v) <= Grains
        /\ 2 * (v - RoundCents(v)) <= Grains
        /\ 2 * (RoundCents(v) - v) # Grains
    BY <1>1, <1>2, <1>3, <1>4, <1>5, <1>6
  <2> QED  BY <1>6, <2>1, <2>2
<1>7. CASE ~(v < 0)
  <2>1. RoundCents(v) = Grains * q
    BY <1>3, <1>7
  <2>2. /\ RoundCents(v) \in Int
        /\ 2 * (RoundCents(v) - v) <= Grains
        /\ 2 * (v - RoundCents(v)) <= Grains
        /\ 2 * (v - RoundCents(v)) # Grains
        /\ 2 * (RoundCents(v) - v) = Grains => v # 0
    BY <1>1, <1>2, <1>4, <1>5, <1>7, <2>1
  <2>3. v > 0 \/ v = 0
    BY <1>7
  <2> QED  BY <1>2, <1>7, <2>1, <2>2, <2>3
<1> QED  BY <1>6, <1>7

\* What lies less than two cents from zero and is whole cents is one at most.
LEMMA OneCent ==
  ASSUME NEW k \in Int, Grains * k < 2 * Grains, -(Grains * k) < 2 * Grains
  PROVE  Grains * k <= 1 * Grains /\ -(Grains * k) <= 1 * Grains
<1>1. k < 2 /\ k > -2
  BY HpAssumption
<1>2. k \in {-1, 0, 1}
  BY <1>1
<1> QED  BY <1>2, HpAssumption

\* IsCents in the form arithmetic needs.
LEMMA CentsForm ==
  ASSUME NEW v \in Int
  PROVE  IsCents(v) <=> \E k \in Int : v = Grains * k
<1>1. ASSUME IsCents(v) PROVE \E k \in Int : v = Grains * k
  BY <1>1, RoundCentsFact DEF IsCents
<1>2. ASSUME NEW k \in Int, v = Grains * k PROVE IsCents(v)
  <2>1. PICK j \in Int : RoundCents(v) = Grains * j
    BY RoundCentsFact
  <2>2. 2 * (Grains * j - Grains * k) <= Grains /\ 2 * (Grains * k - Grains * j) <= Grains
    BY <1>2, <2>1, RoundCentsFact
  <2>3. Grains * j - Grains * k = Grains * (j - k)
    BY HpAssumption
  <2>4. j - k < 1 /\ j - k > -1
    BY <2>2, <2>3, HpAssumption
  <2>5. j = k
    BY <2>4
  <2> QED  BY <1>2, <2>1, <2>5 DEF IsCents
<1> QED  BY <1>1, <1>2

\* Sums and differences of whole cents are whole cents.
LEMMA CentsAdd ==
  ASSUME NEW a \in Int, NEW b \in Int, IsCents(a), IsCents(b)
  PROVE  IsCents(a + b) /\ IsCents(a - b)
<1>1. PICK j \in Int : a = Grains * j
  BY CentsForm
<1>2. PICK k \in Int : b = Grains * k
  BY CentsForm
<1>3. a + b = Grains * (j + k) /\ a - b = Grains * (j - k)
  BY <1>1, <1>2, HpAssumption
<1>4. j + k \in Int /\ j - k \in Int /\ a + b \in Int /\ a - b \in Int
  OBVIOUS
<1> QED  BY <1>3, <1>4, CentsForm

\* Whole cents less than two cents apart are within one.
LEMMA CentsApart ==
  ASSUME NEW a \in Int, NEW b \in Int, IsCents(a), IsCents(b),
         a - b < 2 * Grains, b - a < 2 * Grains
  PROVE  Within(1, a, b)
<1>1. a - b \in Int /\ IsCents(a - b)
  BY CentsAdd
<1>2. PICK k \in Int : a - b = Grains * k
  BY <1>1, CentsForm
<1>3. Grains * k < 2 * Grains /\ -(Grains * k) < 2 * Grains
  BY <1>2
<1>4. Grains * k <= 1 * Grains /\ -(Grains * k) <= 1 * Grains
  BY <1>3, OneCent
<1> QED  BY <1>2, <1>4 DEF Within

\* A rounded figure is whole cents.
LEMMA RoundedIsCents ==
  ASSUME NEW v \in Int
  PROVE  IsCents(RoundCents(v))
BY RoundCentsFact, CentsForm

-----------------------------------------------------------------------------
\* The fields of a contract, with the rows of its schedule.
LEMMA ContractFields ==
  ASSUME NEW c \in Contracts
  PROVE  /\ c.amount \in Int /\ c.instalment \in Int /\ c.begin \in Nat
         /\ c.term \in Nat \ {0} /\ c.fyEnd \in 1..12
         /\ c.balloon.row \in Nat /\ c.balloon.amount \in Int
         /\ c.rate.num \in Int /\ c.rate.den \in Nat \ {0}
         /\ TotalRows(c) \in Nat /\ TotalRows(c) >= 1
         /\ Principal(c) \in Int /\ IsCents(Principal(c))
<1>1. c \in Contract
  BY HpAssumption
<1>2. /\ c.amount \in Int /\ c.instalment \in Int /\ c.begin \in Nat
      /\ c.term \in Nat \ {0} /\ c.fyEnd \in 1..12
      /\ c.rate.num \in Int /\ c.rate.den \in Nat \ {0}
  BY <1>1 DEF Contract, Rate
<1>3. c.balloon.row \in Nat /\ c.balloon.amount \in Int
  BY <1>1 DEF Contract, Balloon, NoBalloon
<1>4. TotalRows(c) \in Nat /\ TotalRows(c) >= 1
  BY <1>2, <1>3 DEF TotalRows
<1>5. Principal(c) \in Int /\ IsCents(Principal(c))
  <2>1. Principal(c) = Grains * c.amount /\ Principal(c) \in Int
    BY <1>2, HpAssumption DEF Principal
  <2> QED  BY <1>2, <2>1, CentsForm
<1> QED  BY <1>2, <1>3, <1>4, <1>5

\* A payment is whole cents, interest is a number of grains.
LEMMA PaymentFact ==
  ASSUME NEW c \in Contracts, NEW k \in Nat, NEW bal \in Int
  PROVE  /\ Payment(c, k) \in Int /\ IsCents(Payment(c, k))
         /\ Interest(c, k, bal) \in Int
<1> DEFINE cents == IF k = c.balloon.row
                    THEN IF c.balloon.mode = "replace"
                         THEN c.balloon.amount
                         ELSE c.instalment + c.balloon.amount
                    ELSE IF k <= c.term THEN c.instalment ELSE 0
<1>1. cents \in Int
  BY ContractFields
<1>2. Payment(c, k) = Grains * cents
  BY DEF Payment
<1> HIDE DEF cents
<1>3. Payment(c, k) \in Int /\ IsCents(Payment(c, k))
  BY <1>1, <1>2, CentsForm, HpAssumption
<1>4. Interest(c, k, bal) \in Int
  <2>1. c.rate.num \in Int /\ c.rate.den \in Nat \ {0}
    BY ContractFields
  <2>2. /\ 2 * bal * c.rate.num + c.rate.den \in Int
        /\ 2 * c.rate.den \in Nat \ {0}
    BY <2>1
  <2>3. (2 * bal * c.rate.num + c.rate.den) \div (2 * c.rate.den) \in Int
    BY <2>2
  <2> QED  BY <2>3 DEF Interest
<1> QED  BY <1>3, <1>4

\* A month is one of the twelve up to the end of its financial year.
LEMMA FyYearFact ==
  ASSUME NEW c \in Contracts, NEW m \in Nat, NEW y \in Int
  PROVE  /\ FyYear(c, m) \in Int
         /\ FyYear(c, m) = y <=>
              BalanceMonth(c, y) - 11 <= m /\ m <= BalanceMonth(c, y)
<1>1. c.fyEnd \in 1..12
  BY ContractFields
<1>2. m \div 12 \in Int /\ m % 12 \in 0..11 /\ m = (12 * (m \div 12)) + (m % 12)
  OBVIOUS
<1> QED  BY <1>1, <1>2 DEF FyYear, BalanceMonth

\* The years of a schedule, and the rows up to the end of each: one at least.
LEMMA YearsFact ==
  ASSUME NEW c \in Contracts, NEW y \in Years(c)
  PROVE  y \in Int /\ BalanceMonth(c, y) \in Int /\ BalanceMonth(c, y) >= c.begin
<1>1. PICK k \in 1..TotalRows(c) : y = FyYear(c, Month(c, k))
  BY DEF Years
<1>2. /\ c.begin \in Nat /\ TotalRows(c) \in Nat /\ c.fyEnd \in 1..12
  BY ContractFields
<1>3. Month(c, k) \in Nat /\ Month(c, k) >= c.begin
  BY <1>2 DEF Month
<1>4. y \in Int
  BY <1>1, <1>3, FyYearFact
<1>5. Month(c, k) <= BalanceMonth(c, y)
  BY <1>1, <1>3, <1>4, FyYearFact
<1>6. BalanceMonth(c, y) \in Int
  BY <1>2, <1>4 DEF BalanceMonth
<1> QED  BY <1>2, <1>3, <1>4, <1>5, <1>6
-----------------------------------------------------------------------------
\* No sum goes further than the rows, and each year has a row before its end.
LEMMA Bounds ==
  ASSUME TypeOK, StagesHold
  PROVE  /\ Len(rows) \in Nat /\ n \in 0..Len(rows)
         /\ contract.begin \in Nat
         /\ \A y \in Years(contract) :
              RowsUpTo(y) \in Int /\ RowsUpTo(y) >= 1
<1>1. contract \in Contracts /\ rows \in Seq(Row) /\ n \in Nat
  BY DEF TypeOK
<1>2. Len(rows) \in Nat /\ n <= Len(rows)
  BY <1>1 DEF StagesHold
<1>3. contract.begin \in Nat
  BY <1>1, ContractFields
<1>4. ASSUME NEW y \in Years(contract)
      PROVE  RowsUpTo(y) \in Int /\ RowsUpTo(y) >= 1
  BY <1>1, <1>3, YearsFact DEF RowsUpTo
<1> QED  BY <1>1, <1>2, <1>3, <1>4

\* The balance after a row that is there is a number.
LEMMA AfterInt ==
  ASSUME TypeOK, NEW k \in 0..Len(rows)
  PROVE  After(k) \in Int
<1>1. contract \in Contracts /\ rows \in Seq(Row)
  BY DEF TypeOK
<1>2. CASE k = 0
  BY <1>1, <1>2, ContractFields DEF After
<1>3. CASE k # 0
  <2>1. k \in 1..Len(rows)
    BY <1>3
  <2>2. rows[k] \in Row
    BY <1>1, <2>1
  <2> QED  BY <1>3, <2>2 DEF After, Row
<1> QED  BY <1>2, <1>3

\* Before any row is summed the invariant of the sums says they are empty.
LEMMA NothingSummed ==
  ASSUME NEW y \in Years(contract), TypeOK, StagesHold, n = 0
  PROVE  /\ SplitHolds(y) <=>
              /\ positions[y].principal = Principal(contract)
              /\ CurrentNet(positions[y]) = 0
              /\ NonCurrentNet(positions[y]) = 0
              /\ positions[y].anyAfter = FALSE
         /\ Least(n, RowsUpTo(y)) = 0 /\ Least(n, RowsUpTo(y) + 12) = 0
<1>1. RowsUpTo(y) \in Int /\ RowsUpTo(y) >= 1
  BY Bounds
<1>2. Least(n, RowsUpTo(y)) = 0 /\ Least(n, RowsUpTo(y) + 12) = 0 /\ ~(n > RowsUpTo(y))
  BY <1>1 DEF Least
<1>3. After(0) = Principal(contract) /\ Principal(contract) - Principal(contract) = 0
  BY ContractFields DEF After, TypeOK
<1>4. positions[y].anyAfter \in BOOLEAN
  BY DEF TypeOK, Position
<1> QED  BY <1>2, <1>3, <1>4 DEF SplitHolds

LEMMA InitBalances == Init => BalancesInv
<1> SUFFICES ASSUME Init PROVE BalancesInv
  OBVIOUS
<1>1. contract \in Contracts /\ Principal(contract) \in Int /\ TotalRows(contract) \in Nat
      /\ TotalRows(contract) >= 1
  BY ContractFields DEF Init
<1>2. TypeOK
  <2> DEFINE p == [principal |-> Principal(contract), anyAfter |-> FALSE,
                   currentGross |-> 0, currentUnexpired |-> 0,
                   nonCurrentGross |-> 0, nonCurrentUnexpired |-> 0]
  <2>1. p \in Position
    BY <1>1 DEF Position
  <2>2. positions = [y \in Years(contract) |-> p]
    BY DEF Init
  <2> HIDE DEF p
  <2>3. positions \in [Years(contract) -> Position]
    BY <2>1, <2>2
  <2>4. buckets \in [Years(contract) -> Int]
    BY DEF Init
  <2>5. /\ contract \in Contracts /\ pc = "start" /\ balance = Principal(contract)
        /\ rows = <<>> /\ nan = FALSE
        /\ n = 0 /\ exact = 0 /\ footed = 0 /\ paid = 0
    BY DEF Init
  <2>6. rows \in Seq(Row) /\ balance \in Int
    BY <1>1, <2>5
  <2>7. n \in Nat /\ exact \in Int /\ footed \in Int /\ paid \in Int
    BY <2>5
  <2>8. nan \in BOOLEAN /\ pc \in {"start", "rows", "sums", "done", "refused_400",
                                   "refused_422", "raised"}
    BY <2>5
  <2> QED  BY <1>1, <2>3, <2>4, <2>6, <2>7, <2>8, Zenon DEF TypeOK
<1>3. RowsHold /\ StagesHold
  BY <1>1 DEF Init, RowsHold, StagesHold, After
<1>4. IsCents(0)
  BY CentsForm, HpAssumption
<1>5. TotalsHold
  BY <1>1, <1>4, HpAssumption DEF Init, TotalsHold, After
<1>6. ASSUME NEW y \in Years(contract) PROVE SplitHolds(y) /\ BucketHolds(y)
  <2>1. /\ positions[y].principal = Principal(contract)
        /\ positions[y].anyAfter = FALSE
        /\ positions[y].currentUnexpired = 0
        /\ CurrentNet(positions[y]) = 0 /\ NonCurrentNet(positions[y]) = 0
    BY <1>6 DEF Init, CurrentNet, NonCurrentNet
  <2>2. SplitHolds(y)
    BY <1>2, <1>3, <2>1, NothingSummed DEF Init
  <2>3. Least(n, RowsUpTo(y) + 12) - Least(n, RowsUpTo(y)) = 0
    <3>1. n = 0
      BY DEF Init
    <3>2. Least(n, RowsUpTo(y)) = 0 /\ Least(n, RowsUpTo(y) + 12) = 0
      BY <1>2, <1>3, <1>6, <3>1, NothingSummed
    <3> QED  BY <3>2
  <2>4. y + 1 \in Years(contract) => buckets[y + 1] = 0
    BY DEF Init
  <2>5. BucketHolds(y)
    BY <1>4, <2>1, <2>3, <2>4, HpAssumption DEF BucketHolds
  <2> QED  BY <2>2, <2>5
<1> QED  BY <1>2, <1>3, <1>5, <1>6 DEF BalancesInv

\* What stays when neither the contract, the rows nor the sums change.
LEMMA SumsStay ==
  ASSUME BalancesInv, UNCHANGED <<contract, balance, rows, sums>>
  PROVE  /\ RowsHold' /\ TotalsHold'
         /\ \A y \in Years(contract)' : SplitHolds(y)' /\ BucketHolds(y)'
<1>1. UNCHANGED <<contract, balance, rows, n, exact, footed, paid, buckets, positions>>
  BY DEF sums
<1>2. RowsHold'
  BY <1>1 DEF BalancesInv, RowsHold, After
<1>3. TotalsHold'
  BY <1>1 DEF BalancesInv, TotalsHold, After
<1>4. ASSUME NEW y \in Years(contract)' PROVE SplitHolds(y)' /\ BucketHolds(y)'
  <2>1. y \in Years(contract) /\ SplitHolds(y) /\ BucketHolds(y)
    BY <1>1, <1>4 DEF BalancesInv
  <2>2. SplitHolds(y)'
    BY <1>1, <2>1 DEF SplitHolds, After, RowsUpTo
  <2>3. BucketHolds(y)'
    BY <1>1, <2>1 DEF BucketHolds, RowsUpTo
  <2> QED  BY <2>2, <2>3
<1> QED  BY <1>2, <1>3, <1>4

\* The refusals, the publication and the exceptions.
LEMMA StageKeeps ==
  ASSUME BalancesInv, Check \/ Publish \/ Raise
  PROVE  BalancesInv'
<1>1. UNCHANGED <<contract, balance, rows, nan, sums>>
  BY DEF Check, Publish, Raise
<1>2. UNCHANGED <<n, exact, footed, paid, buckets, positions>>
  BY <1>1 DEF sums
<1>3. TotalRows(contract) \in Nat /\ TotalRows(contract) >= 1
  BY ContractFields DEF BalancesInv, TypeOK
<1>4. TypeOK'
  BY <1>1, <1>2 DEF BalancesInv, TypeOK, Check, Publish, Raise
<1>5. StagesHold'
  <2>1. CASE Check
    BY <1>1, <1>2, <1>3, <2>1 DEF BalancesInv, StagesHold, Check
  <2>2. CASE Publish
    BY <1>1, <1>2, <2>2 DEF BalancesInv, StagesHold, Publish
  <2>3. CASE Raise
    BY <1>1, <1>2, <2>3 DEF BalancesInv, StagesHold, Raise
  <2> QED  BY <2>1, <2>2, <2>3
<1>6. RowsHold' /\ TotalsHold' /\ \A y \in Years(contract)' : SplitHolds(y)' /\ BucketHolds(y)'
  BY <1>1, SumsStay
<1> QED  BY <1>4, <1>5, <1>6 DEF BalancesInv

\* The loop over the rows: one row more, nothing summed yet.
LEMMA AddRowKeeps ==
  ASSUME BalancesInv, AddRow
  PROVE  BalancesInv'
<1> DEFINE k == Len(rows) + 1
           i == Interest(contract, k, balance)
           p == Payment(contract, k)
           r == [interest |-> i, payment |-> p, closing |-> balance - (p - i)]
<1>1. /\ TypeOK /\ RowsHold /\ StagesHold /\ TotalsHold
      /\ contract \in Contracts /\ rows \in Seq(Row) /\ balance \in Int
      /\ pc = "rows"
      /\ \A y \in Years(contract) : SplitHolds(y) /\ BucketHolds(y)
  BY DEF BalancesInv, TypeOK, AddRow
<1>2. /\ rows' = Append(rows, r)
      /\ balance' = r.closing
      /\ pc' = IF k = TotalRows(contract) THEN "sums" ELSE "rows"
      /\ nan' = (nan \/ NoValue)
      /\ UNCHANGED <<contract, n, exact, footed, paid, buckets, positions>>
  BY DEF AddRow, ThisRow, This, sums
<1>3. Len(rows) \in Nat /\ n = 0 /\ Len(rows) < TotalRows(contract)
      /\ TotalRows(contract) \in Nat
  BY <1>1, ContractFields DEF StagesHold
<1>4. p \in Int /\ IsCents(p) /\ i \in Int
  <2>1. k \in Nat
    BY <1>3
  <2> HIDE DEF k
  <2> QED  BY <1>1, <2>1, PaymentFact
<1> HIDE DEF i, p
<1>5. r \in Row
  BY <1>1, <1>4 DEF Row
<1>6. /\ Len(rows') = k
      /\ rows'[k] = r
      /\ \A j \in 1..Len(rows) : rows'[j] = rows[j]
      /\ rows' \in Seq(Row)
  BY <1>1, <1>2, <1>3, <1>5
<1>7. TypeOK'
  <2>1. balance' \in Int
    BY <1>1, <1>2, <1>4
  <2>2. nan' \in BOOLEAN
    BY <1>1, <1>2 DEF TypeOK, NoValue
  <2> QED  BY <1>1, <1>2, <1>6, <2>1, <2>2 DEF TypeOK
<1>8. StagesHold'
  BY <1>1, <1>2, <1>3, <1>6 DEF StagesHold
<1>9. \A j \in 0..Len(rows) : After(j)' = After(j)
  BY <1>2, <1>3, <1>6 DEF After
<1>10. RowsHold'
  <2>1. balance = After(Len(rows))
    BY <1>1 DEF RowsHold
  <2>2. ASSUME NEW j \in 1..Len(rows')
        PROVE  /\ rows'[j].closing = After(j - 1)' - (rows'[j].payment - rows'[j].interest)
               /\ IsCents(rows'[j].payment)
    <3>1. CASE j = k
      <4>1. After(j - 1)' = balance
        BY <1>3, <1>9, <2>1, <3>1
      <4> QED  BY <1>4, <1>6, <3>1, <4>1
    <3>2. CASE j # k
      <4>1. j \in 1..Len(rows) /\ j - 1 \in 0..Len(rows)
        BY <1>3, <1>6, <3>2
      <4> QED  BY <1>1, <1>6, <1>9, <4>1 DEF RowsHold
    <3> QED  BY <3>1, <3>2
  <2>3. (balance = After(Len(rows)))'
    BY <1>2, <1>3, <1>6 DEF After
  <2> QED  BY <2>2, <2>3 DEF RowsHold
<1>11. TotalsHold'
  BY <1>1, <1>2, <1>3, <1>9 DEF TotalsHold
<1>12. ASSUME NEW y \in Years(contract) PROVE SplitHolds(y)' /\ BucketHolds(y)'
  <2>1. Least(n, RowsUpTo(y)) = 0 /\ Least(n, RowsUpTo(y) + 12) = 0
    BY <1>1, <1>3, NothingSummed
  <2>2. SplitHolds(y)'
    BY <1>1, <1>2, <1>3, <1>9, <2>1 DEF SplitHolds, RowsUpTo
  <2>3. BucketHolds(y)'
    BY <1>1, <1>2 DEF BucketHolds, RowsUpTo
  <2> QED  BY <2>2, <2>3
<1> QED  BY <1>2, <1>7, <1>8, <1>10, <1>11, <1>12 DEF BalancesInv

-----------------------------------------------------------------------------
\* Where row i lies as seen from the end of year y.
LEMMA MonthsOut ==
  ASSUME contract \in Contracts, NEW y \in Years(contract), NEW i \in Nat, i >= 1
  PROVE  /\ Month(contract, i) \in Nat
         /\ Month(contract, i) - BalanceMonth(contract, y) = i - RowsUpTo(y)
         /\ FyYear(contract, Month(contract, i)) = y + 1
              <=> i - RowsUpTo(y) \in 1..12
<1>1. /\ contract.begin \in Nat /\ contract.fyEnd \in 1..12
      /\ y \in Int /\ BalanceMonth(contract, y) \in Int
  BY ContractFields, YearsFact
<1>2. Month(contract, i) \in Nat
  BY <1>1 DEF Month
<1>3. Month(contract, i) - BalanceMonth(contract, y) = i - RowsUpTo(y)
  BY <1>1 DEF Month, RowsUpTo
<1>4. BalanceMonth(contract, y + 1) = BalanceMonth(contract, y) + 12
  BY <1>1 DEF BalanceMonth
<1>5. FyYear(contract, Month(contract, i)) = y + 1 <=>
        /\ BalanceMonth(contract, y + 1) - 11 <= Month(contract, i)
        /\ Month(contract, i) <= BalanceMonth(contract, y + 1)
  BY <1>1, <1>2, FyYearFact
<1>6. RowsUpTo(y) \in Int
  BY <1>1 DEF RowsUpTo
<1> QED  BY <1>1, <1>2, <1>3, <1>4, <1>5, <1>6

\* A split stays a split.
LEMMA SplitTyped ==
  ASSUME NEW c, NEW y, NEW i, NEW p \in Position, NEW row,
         row.closing \in Int, row.payment \in Int, row.interest \in Int
  PROVE  Split(c, y, i, row, p) \in Position
<1> DEFINE q == Split(c, y, i, row, p)
           out == Month(c, i) - BalanceMonth(c, y)
<1>0. /\ p.currentGross + row.payment \in Int
      /\ p.currentUnexpired + row.interest \in Int
      /\ p.nonCurrentGross + row.payment \in Int
      /\ p.nonCurrentUnexpired + row.interest \in Int
  BY DEF Position
<1>1. CASE out <= 0
  BY <1>1 DEF Split, Position
<1>2. CASE ~(out <= 0) /\ out <= 12
  <2>1. q = [p EXCEPT !.anyAfter = TRUE,
                      !.currentGross = p.currentGross + row.payment,
                      !.currentUnexpired = p.currentUnexpired + row.interest]
    BY <1>2 DEF Split, Position
  <2> QED  BY <1>0, <2>1 DEF Position
<1>3. CASE ~(out <= 0) /\ ~(out <= 12)
  <2>1. q = [p EXCEPT !.anyAfter = TRUE,
                      !.nonCurrentGross = p.nonCurrentGross + row.payment,
                      !.nonCurrentUnexpired = p.nonCurrentUnexpired + row.interest]
    BY <1>3 DEF Split, Position
  <2> QED  BY <1>0, <2>1 DEF Position
<1> QED  BY <1>1, <1>2, <1>3

\* The loop bodies of the sums keep the invariant: on each side of the balance
\* date, and twelve months after it, the sums are differences of balances.
LEMMA SumRowKeeps ==
  ASSUME BalancesInv, SumRow
  PROVE  BalancesInv'
<1> DEFINE i   == n + 1
           row == rows[i]
           fy  == FyYear(contract, Month(contract, i))
<1>1. /\ TypeOK /\ RowsHold /\ StagesHold /\ TotalsHold
      /\ \A y \in Years(contract) : SplitHolds(y) /\ BucketHolds(y)
      /\ contract \in Contracts /\ rows \in Seq(Row) /\ n \in Nat
      /\ exact \in Int /\ footed \in Int /\ paid \in Int
      /\ buckets \in [Years(contract) -> Int]
      /\ positions \in [Years(contract) -> Position]
  BY DEF BalancesInv, TypeOK
<1>2. /\ n' = i
      /\ exact' = exact + row.interest
      /\ footed' = footed + RoundCents(row.interest)
      /\ paid' = paid + RoundCents(row.payment)
      /\ buckets' = [buckets EXCEPT ![fy] = @ + BucketAmount(row)]
      /\ positions' = [y \in Years(contract) |->
                          Split(contract, y, i, row, positions[y])]
      /\ UNCHANGED <<contract, pc, balance, rows, nan>>
      /\ pc = "sums"
  BY <1>1 DEF SumRow
<1>3. /\ Len(rows) \in Nat /\ i \in 1..Len(rows) /\ n \in 0..Len(rows)
      /\ i \in Nat /\ i >= 1 /\ i - 1 = n
  BY <1>1, Bounds DEF SumRow
<1>4. /\ row.interest \in Int /\ row.payment \in Int /\ row.closing \in Int
      /\ row.closing = After(n) - (row.payment - row.interest)
      /\ IsCents(row.payment)
  <2>1. row \in Row
    BY <1>1, <1>3
  <2> QED  BY <1>1, <1>3, <2>1 DEF RowsHold, Row
<1>5. /\ After(i) = row.closing /\ After(n) \in Int
      /\ \A k \in Nat : After(k)' = After(k)
  BY <1>1, <1>2, <1>3, AfterInt DEF After
<1>6. RoundCents(row.interest) \in Int /\ RoundCents(row.payment) = row.payment
      /\ IsCents(RoundCents(row.interest))
  BY <1>4, RoundCentsFact, RoundedIsCents DEF IsCents
<1> HIDE DEF row, fy
<1>7. TypeOK'
  <2>1. positions' \in [Years(contract) -> Position]
    <3>1. ASSUME NEW y \in Years(contract)
          PROVE  Split(contract, y, i, row, positions[y]) \in Position
      BY <1>1, <1>4, SplitTyped
    <3> QED  BY <1>2, <3>1
  <2>2. buckets' \in [Years(contract) -> Int]
    <3>1. BucketAmount(row) \in Int /\ buckets \in [Years(contract) -> Int]
      BY <1>1, <1>6 DEF BucketAmount
    <3>2. buckets' = [buckets EXCEPT ![fy] = buckets[fy] + BucketAmount(row)]
      BY <1>2
    <3>3. fy \in Years(contract) => buckets[fy] + BucketAmount(row) \in Int
      BY <3>1
    <3> QED  BY <3>1, <3>2, <3>3
  <2>3. n' \in Nat /\ exact' \in Int /\ footed' \in Int /\ paid' \in Int
    <3>1. n' = i /\ i \in Nat
      BY <1>2, <1>3
    <3>2. /\ exact \in Int /\ row.interest \in Int
          /\ exact' = exact + row.interest
      BY <1>1, <1>2, <1>4
    <3>3. /\ footed \in Int /\ RoundCents(row.interest) \in Int
          /\ footed' = footed + RoundCents(row.interest)
      BY <1>1, <1>2, <1>6
    <3>4. /\ paid \in Int /\ row.payment \in Int
          /\ paid' = paid + row.payment
      BY <1>1, <1>2, <1>4, <1>6
    <3> QED  BY <3>1, <3>2, <3>3, <3>4
  <2>4. UNCHANGED <<contract, pc, balance, rows, nan>> /\ TypeOK
    BY <1>1, <1>2
  <2>5. Years(contract)' = Years(contract)
    BY <2>4
  <2> QED  BY <2>1, <2>2, <2>3, <2>4, <2>5, Zenon DEF TypeOK
<1>8. StagesHold'
  BY <1>1, <1>2, <1>3 DEF StagesHold
<1>9. RowsHold'
  BY <1>1, <1>2 DEF RowsHold, After
<1>10. TotalsHold'
  <2> DEFINE rounded == RoundCents(row.interest)
  <2>6. /\ Principal(contract) \in Int
        /\ After(n) = Principal(contract) + exact - paid
        /\ 2 * (exact - footed) <= n * Grains
        /\ 2 * (footed - exact) <= n * Grains
    BY <1>1, ContractFields DEF TotalsHold
  <2>7. /\ exact \in Int /\ footed \in Int /\ paid \in Int
        /\ exact' = exact + row.interest
        /\ footed' = footed + rounded /\ rounded \in Int
        /\ paid' = paid + row.payment
        /\ row.interest \in Int /\ row.payment \in Int
    BY <1>1, <1>2, <1>4, <1>6
  <2>8. /\ 2 * (rounded - row.interest) <= Grains
        /\ 2 * (row.interest - rounded) <= Grains
    BY <1>4, RoundCentsFact
  <2> HIDE DEF rounded
  <2>1. After(i) = Principal(contract) + exact' - paid'
    BY <1>4, <1>5, <2>6, <2>7
  <2>2. (After(n) = Principal(contract) + exact - paid)'
    BY <1>2, <1>3, <1>5, <2>1
  <2>3. IsCents(paid')
    BY <1>1, <1>2, <1>4, <1>6, CentsAdd DEF TotalsHold
  <2>4. i * Grains = n * Grains + Grains
    BY <1>1, HpAssumption
  <2>5. /\ 2 * (exact' - footed') <= i * Grains
        /\ 2 * (footed' - exact') <= i * Grains
    <3>1. n * Grains \in Int /\ Grains \in Int
      BY <1>1, HpAssumption
    <3> QED  BY <2>4, <2>6, <2>7, <2>8, <3>1
  <2> QED  BY <1>2, <2>2, <2>3, <2>5 DEF TotalsHold
<1>11. ASSUME NEW y \in Years(contract)
       PROVE  SplitHolds(y)' /\ BucketHolds(y)'
  <2> DEFINE k == RowsUpTo(y)
             p == positions[y]
             q == Split(contract, y, i, row, p)
  <2>1. k \in Int /\ k >= 1 /\ k' = k
    BY <1>1, <1>2, Bounds DEF RowsUpTo
  <2>2. p \in Position /\ positions'[y] = q
    BY <1>1, <1>2
  <2>3. /\ Month(contract, i) - BalanceMonth(contract, y) = i - k
        /\ fy = y + 1 <=> i - k \in 1..12
    BY <1>1, <1>3, MonthsOut DEF fy
  <2>4. /\ p.principal \in Int /\ p.anyAfter \in BOOLEAN
        /\ p.currentGross \in Int /\ p.currentUnexpired \in Int
        /\ p.nonCurrentGross \in Int /\ p.nonCurrentUnexpired \in Int
    BY <2>2 DEF Position
  <2>5. /\ p.principal = After(Least(n, k))
        /\ CurrentNet(p) = After(Least(n, k)) - After(Least(n, k + 12))
        /\ NonCurrentNet(p) = After(Least(n, k + 12)) - After(n)
        /\ p.anyAfter <=> n > k
    BY <1>1 DEF SplitHolds
  <2> DEFINE d   == buckets[y + 1] - p.currentUnexpired
             add == RoundCents(row.interest)
             m   == Least(n, k + 12) - Least(n, k)
  <2>6. /\ 2 * (add - row.interest) <= Grains /\ 2 * (row.interest - add) <= Grains
        /\ add \in Int /\ IsCents(add) /\ Grains \in Nat
    BY <1>4, <1>6, RoundCentsFact, HpAssumption
  <2>7. y + 1 \in Years(contract) =>
          /\ buckets[y + 1] \in Int /\ IsCents(buckets[y + 1])
          /\ 2 * d <= m * Grains /\ -(2 * d) <= m * Grains
          /\ buckets'[y + 1] = IF fy = y + 1 THEN buckets[y + 1] + add ELSE buckets[y + 1]
    BY <1>1, <1>2 DEF BucketHolds, BucketAmount
  \* What is left to show: the split q, and the next year's bucket against it.
  <2>8. SUFFICES
          /\ q.principal = After(Least(i, k))
          /\ CurrentNet(q) = After(Least(i, k)) - After(Least(i, k + 12))
          /\ NonCurrentNet(q) = After(Least(i, k + 12)) - After(i)
          /\ q.anyAfter <=> i > k
          /\ y + 1 \in Years(contract) =>
               LET e == buckets'[y + 1] - q.currentUnexpired
                   l == Least(i, k + 12) - Least(i, k)
               IN  /\ IsCents(buckets'[y + 1])
                   /\ 2 * e <= l * Grains /\ -(2 * e) <= l * Grains
    <3>1. /\ (After(Least(n, RowsUpTo(y))))' = After(Least(i, k))
          /\ (After(Least(n, RowsUpTo(y) + 12)))' = After(Least(i, k + 12))
          /\ (After(n))' = After(i)
      BY <1>2, <2>1 DEF After
    <3>2. SplitHolds(y)'
      BY <1>2, <2>1, <2>2, <3>1 DEF SplitHolds, CurrentNet, NonCurrentNet
    <3>3. BucketHolds(y)'
      BY <1>2, <2>1, <2>2 DEF BucketHolds, IsCents
    <3> QED  BY <3>2, <3>3
  <2> HIDE DEF k, p, q, d, m, add
  \* The row lies in the years up to the balance date.
  <2>9. CASE i <= k
    <3>1. /\ Least(n, k) = n /\ Least(n, k + 12) = n
          /\ Least(i, k) = i /\ Least(i, k + 12) = i
          /\ ~(n > k) /\ ~(i > k) /\ fy # y + 1
      BY <1>3, <2>1, <2>3, <2>9 DEF Least
    <3>2. q = [p EXCEPT !.principal = row.closing]
      BY <1>3, <2>1, <2>3, <2>9 DEF Split, q
    <3>3. /\ q.principal = row.closing /\ q.anyAfter = p.anyAfter
          /\ CurrentNet(q) = CurrentNet(p) /\ NonCurrentNet(q) = NonCurrentNet(p)
          /\ q.currentUnexpired = p.currentUnexpired
      BY <2>2, <3>2 DEF Position, CurrentNet, NonCurrentNet
    <3>4. q.currentUnexpired = p.currentUnexpired /\ m = 0
      BY <1>3, <3>1, <3>3 DEF m
    <3> QED  BY <1>3, <1>4, <1>5, <2>1, <2>4, <2>5, <2>6, <2>7, <3>1, <3>3, <3>4 DEF d
  \* In the twelve months after it.
  <2>10. CASE i > k /\ i <= k + 12
    <3>1. /\ Least(n, k) = k /\ Least(n, k + 12) = n
          /\ Least(i, k) = k /\ Least(i, k + 12) = i
          /\ i > k /\ fy = y + 1
      BY <1>3, <2>1, <2>3, <2>10 DEF Least
    <3>2. q = [p EXCEPT !.anyAfter = TRUE, !.currentGross = @ + row.payment,
                        !.currentUnexpired = @ + row.interest]
      BY <1>3, <2>1, <2>3, <2>10 DEF Split, q
    <3>3. /\ q.principal = p.principal /\ q.anyAfter = TRUE
          /\ CurrentNet(q) = CurrentNet(p) + row.payment - row.interest
          /\ NonCurrentNet(q) = NonCurrentNet(p)
          /\ q.currentUnexpired = p.currentUnexpired + row.interest
      BY <1>4, <2>2, <2>4, <3>2 DEF Position, CurrentNet, NonCurrentNet
    <3>4. /\ q.principal = After(Least(i, k))
          /\ CurrentNet(q) = After(Least(i, k)) - After(Least(i, k + 12))
          /\ NonCurrentNet(q) = After(Least(i, k + 12)) - After(i)
          /\ q.anyAfter <=> i > k
      <4>1. After(k) \in Int
        BY <1>1, <1>3, <2>1, <2>10, AfterInt
      <4> QED  BY <1>4, <1>5, <2>5, <3>1, <3>3, <4>1
    <3>5. ASSUME y + 1 \in Years(contract)
          PROVE  LET e == buckets'[y + 1] - q.currentUnexpired
                     l == Least(i, k + 12) - Least(i, k)
                 IN  /\ IsCents(buckets'[y + 1])
                     /\ 2 * e <= l * Grains /\ -(2 * e) <= l * Grains
      <4>1. IsCents(buckets'[y + 1])
        BY <2>6, <2>7, <3>1, <3>5, CentsAdd
      <4>2. (i - k) * Grains = (n - k) * Grains + Grains /\ (n - k) * Grains \in Int
        BY <1>1, <2>1, <2>6
      <4>3. /\ m = n - k
            /\ buckets'[y + 1] - q.currentUnexpired = d + add - row.interest
            /\ d \in Int
        BY <1>4, <2>4, <2>6, <2>7, <3>1, <3>3, <3>5 DEF m, d
      <4>4. 2 * d <= (n - k) * Grains /\ -(2 * d) <= (n - k) * Grains
        BY <2>7, <3>5, <4>3
      <4>5. /\ 2 * (d + add - row.interest) <= (i - k) * Grains
            /\ -(2 * (d + add - row.interest)) <= (i - k) * Grains
        BY <1>4, <2>6, <4>2, <4>3, <4>4
      <4> QED  BY <3>1, <4>1, <4>3, <4>5
    <3> QED  BY <3>4, <3>5
  \* Later.
  <2>11. CASE i > k + 12
    <3>1. /\ Least(n, k) = k /\ Least(n, k + 12) = k + 12
          /\ Least(i, k) = k /\ Least(i, k + 12) = k + 12
          /\ i > k /\ fy # y + 1
      BY <1>3, <2>1, <2>3, <2>11 DEF Least
    <3>2. q = [p EXCEPT !.anyAfter = TRUE, !.nonCurrentGross = @ + row.payment,
                        !.nonCurrentUnexpired = @ + row.interest]
      BY <1>3, <2>1, <2>3, <2>11 DEF Split, q
    <3>3. /\ q.principal = p.principal /\ q.anyAfter = TRUE
          /\ CurrentNet(q) = CurrentNet(p)
          /\ NonCurrentNet(q) = NonCurrentNet(p) + row.payment - row.interest
          /\ q.currentUnexpired = p.currentUnexpired
      BY <1>4, <2>2, <2>4, <3>2 DEF Position, CurrentNet, NonCurrentNet
    <3>4. After(k) \in Int /\ After(k + 12) \in Int
      BY <1>1, <1>3, <2>1, <2>11, AfterInt
    <3>5. m = Least(i, k + 12) - Least(i, k)
      BY <3>1 DEF m
    <3>6. y + 1 \in Years(contract) => buckets'[y + 1] - q.currentUnexpired = d
      BY <2>7, <3>1, <3>3 DEF d
    <3> QED  BY <1>4, <1>5, <2>5, <2>7, <3>1, <3>3, <3>4, <3>5, <3>6
  <2> QED  BY <1>3, <2>1, <2>9, <2>10, <2>11
<1> QED  BY <1>2, <1>7, <1>8, <1>9, <1>10, <1>11 DEF BalancesInv

-----------------------------------------------------------------------------
\* Every step, and every stuttering step, keeps the invariant.
LEMMA NextBalances == BalancesInv /\ [Next]_vars => BalancesInv'
<1> SUFFICES ASSUME BalancesInv, [Next]_vars PROVE BalancesInv'
  OBVIOUS
<1>1. CASE Check \/ Publish \/ Raise
  BY <1>1, StageKeeps
<1>2. CASE AddRow
  BY <1>2, AddRowKeeps
<1>3. CASE SumRow
  BY <1>3, SumRowKeeps
<1>4. CASE UNCHANGED vars
  <2>1. UNCHANGED <<contract, pc, balance, rows, nan, sums>>
    BY <1>4 DEF vars
  <2>2. TypeOK' /\ StagesHold'
    BY <2>1 DEF BalancesInv, TypeOK, StagesHold, sums
  <2> QED  BY <2>1, <2>2, SumsStay DEF BalancesInv
<1> QED  BY <1>1, <1>2, <1>3, <1>4 DEF Next

\* Every sum of a schedule is a difference of two of its balances.
THEOREM BalancesHold == Spec => []BalancesInv
<1>1. Init => BalancesInv
  BY InitBalances
<1>2. BalancesInv /\ [Next]_vars => BalancesInv'
  BY NextBalances
<1> QED  BY <1>1, <1>2, PTL DEF Spec

\* The figures of a published schedule.
LEMMA Finished ==
  ASSUME BalancesInv, Answered
  PROVE  /\ n = Len(rows) /\ n \in Nat /\ n >= 1
         /\ balance \in Int /\ exact \in Int /\ footed \in Int /\ paid \in Int
         /\ Principal(contract) \in Int /\ IsCents(Principal(contract))
         /\ balance = After(n)
         /\ balance = Principal(contract) + exact - paid
         /\ IsCents(paid)
<1>1. /\ TypeOK /\ RowsHold /\ StagesHold /\ TotalsHold /\ pc = "done"
      /\ contract \in Contracts
  BY DEF BalancesInv, Answered, TypeOK
<1>2. /\ n = Len(rows) /\ Len(rows) = TotalRows(contract)
  BY <1>1 DEF StagesHold
<1>3. n \in Nat /\ n >= 1
  BY <1>1, <1>2, ContractFields
<1>4. Principal(contract) \in Int /\ IsCents(Principal(contract))
  BY <1>1, ContractFields
<1>5. balance \in Int /\ exact \in Int /\ footed \in Int /\ paid \in Int
  BY <1>1 DEF TypeOK
<1>6. balance = After(n)
  BY <1>1, <1>2 DEF RowsHold
<1>7. After(n) = Principal(contract) + exact - paid /\ IsCents(paid)
  BY <1>1 DEF TotalsHold
<1> QED  BY <1>2, <1>3, <1>4, <1>5, <1>6, <1>7

\* For any contract, rate and length the statement closes to the cent, although
\* every figure of it is rounded on its own.
THEOREM StatementsClose == Spec => []StatementCloses
<1>1. ASSUME BalancesInv, Answered
      PROVE  Within(1, Principal(contract) + footed + Residual(exact, footed) - paid,
                       RoundCents(balance))
  <2> DEFINE a == RoundCents(exact)
             b == RoundCents(balance)
             c == Principal(contract) - paid
  <2>1. /\ balance \in Int /\ exact \in Int /\ footed \in Int
        /\ Principal(contract) \in Int /\ paid \in Int
        /\ IsCents(Principal(contract)) /\ IsCents(paid)
        /\ balance = exact + c
    BY <1>1, Finished
  <2>2. c \in Int /\ IsCents(c)
    <3>1. IsCents(Principal(contract) - paid)
      BY <2>1, CentsAdd
    <3> QED  BY <2>1, <3>1
  <2>3. a \in Int /\ IsCents(a) /\ b \in Int /\ IsCents(b)
    BY <2>1, RoundCentsFact, RoundedIsCents
  <2>4. /\ 2 * (a - exact) <= Grains /\ 2 * (exact - a) <= Grains
        /\ 2 * (b - balance) <= Grains /\ 2 * (balance - b) <= Grains
        /\ Grains \in Nat \ {0}
    BY <2>1, RoundCentsFact, HpAssumption
  <2>5. Principal(contract) + footed + Residual(exact, footed) - paid = c + a
    BY <2>1, <2>3 DEF Residual
  <2> HIDE DEF a, b, c
  <2>6. c + a \in Int /\ IsCents(c + a)
    BY <2>2, <2>3, CentsAdd
  <2>7. (c + a) - b < 2 * Grains /\ b - (c + a) < 2 * Grains
    BY <2>1, <2>2, <2>3, <2>4
  <2>8. Within(1, c + a, b)
    BY <2>3, <2>6, <2>7, CentsApart
  <2> QED  BY <2>5, <2>8 DEF b
<1>2. BalancesInv => StatementCloses
  BY <1>1 DEF StatementCloses
<1> QED  BY <1>2, BalancesHold, PTL

\* Products in a context of their own, where the prover finds them at once.
LEMMA OneTermMore ==
  ASSUME NEW k \in Nat, NEW g \in Nat
  PROVE  \E p \in Int : p = k * g /\ (k + 1) * g = p + g
<1>1. k * g \in Int /\ (k + 1) * g = k * g + g
  OBVIOUS
<1> QED  BY <1>1

LEMMA AtMostTwelve ==
  ASSUME NEW k \in 0..12, NEW g \in Nat
  PROVE  k * g \in Int /\ k * g <= 12 * g
<1>1. k \in {0, 1, 2, 3, 4, 5, 6, 7, 8, 9, 10, 11, 12}
  OBVIOUS
<1> QED  BY <1>1

\* The rounding residual of any schedule is at most half a cent for each of its
\* rows and half a cent for the total.
THEOREM ResidualsAreBounded == Spec => []ResidualIsBounded
<1>1. ASSUME BalancesInv, Answered
      PROVE  2 * Magnitude(Residual(exact, footed)) <= (Len(rows) + 1) * Grains
  <2>1. /\ exact \in Int /\ footed \in Int /\ n = Len(rows) /\ n \in Nat
        /\ Grains \in Nat
    BY <1>1, Finished, HpAssumption
  <2>2. 2 * (exact - footed) <= n * Grains /\ 2 * (footed - exact) <= n * Grains
    BY <1>1 DEF BalancesInv, TotalsHold
  <2>3. /\ RoundCents(exact) \in Int
        /\ 2 * (RoundCents(exact) - exact) <= Grains
        /\ 2 * (exact - RoundCents(exact)) <= Grains
    BY <2>1, RoundCentsFact
  <2>4. PICK p \in Int : p = n * Grains /\ (n + 1) * Grains = p + Grains
    BY <2>1, OneTermMore
  <2>5. /\ 2 * (RoundCents(exact) - footed) <= p + Grains
        /\ 2 * (footed - RoundCents(exact)) <= p + Grains
    <3>1. 2 * (exact - footed) <= p /\ 2 * (footed - exact) <= p
      BY <2>2, <2>4
    <3> QED  BY <2>1, <2>3, <3>1
  <2>6. 2 * Magnitude(Residual(exact, footed)) <= p + Grains
    BY <2>1, <2>3, <2>5 DEF Residual, Magnitude
  <2> QED  BY <2>1, <2>4, <2>6
<1>2. BalancesInv => ResidualIsBounded
  BY <1>1 DEF ResidualIsBounded
<1> QED  BY <1>2, BalancesHold, PTL

\* The figures of a split, as balances.
LEMMA SplitFact ==
  ASSUME BalancesInv, Answered, NEW y \in Published
  PROVE  LET p == positions[y]
             k == RowsUpTo(y)
         IN  /\ y \in Years(contract) /\ y \in Int
             /\ k \in Int /\ k >= 1 /\ n > k
             /\ p.principal \in Int /\ p.principal = After(k)
             /\ After(Least(n, k + 12)) \in Int
             /\ CurrentNet(p) = p.principal - After(Least(n, k + 12))
             /\ NonCurrentNet(p) = After(Least(n, k + 12)) - balance
             /\ p.currentUnexpired \in Int
<1> DEFINE p == positions[y]
           k == RowsUpTo(y)
<1>1. /\ TypeOK /\ StagesHold /\ contract \in Contracts
      /\ positions \in [Years(contract) -> Position]
      /\ \A z \in Years(contract) : SplitHolds(z)
  BY DEF BalancesInv, TypeOK
<1>2. y \in Years(contract) /\ p \in Position /\ p.anyAfter
  BY <1>1 DEF Published
<1>3. y \in Int /\ k \in Int /\ k >= 1 /\ n \in 0..Len(rows) /\ Len(rows) \in Nat
  BY <1>1, <1>2, Bounds, YearsFact
<1>4. /\ p.principal = After(Least(n, k))
      /\ CurrentNet(p) = After(Least(n, k)) - After(Least(n, k + 12))
      /\ NonCurrentNet(p) = After(Least(n, k + 12)) - After(n)
      /\ p.anyAfter <=> n > k
  BY <1>1, <1>2 DEF SplitHolds
<1>5. n > k /\ Least(n, k) = k /\ Least(n, k + 12) \in 0..Len(rows)
  BY <1>2, <1>3, <1>4 DEF Least
<1>6. After(Least(n, k + 12)) \in Int
  BY <1>1, <1>5, AfterInt
<1>7. balance = After(n)
  BY Finished
<1>8. p.principal \in Int /\ p.currentUnexpired \in Int
  BY <1>2 DEF Position
<1> QED  BY <1>2, <1>3, <1>4, <1>5, <1>6, <1>7, <1>8

\* At every balance date the published parts of the liability make up the whole
\* to the cent: four roundings cannot add up to two, because a tie goes away
\* from zero.
THEOREM SplitsDoFoot == Spec => []SplitsFoot
<1>1. ASSUME BalancesInv, Answered, NEW y \in Published
      PROVE  LET p == positions[y]
             IN  Within(1, RoundCents(CurrentNet(p)) + RoundCents(NonCurrentNet(p)),
                           RoundCents(p.principal) - RoundCents(balance))
  <2> DEFINE p == positions[y]
             c == CurrentNet(p)
             d == NonCurrentNet(p)
             e == p.principal
             m == After(Least(n, RowsUpTo(y) + 12))
  <2>1. balance \in Int /\ Grains \in Nat \ {0}
    BY <1>1, Finished, HpAssumption
  <2>2. e \in Int /\ m \in Int /\ c = e - m /\ d = m - balance
    BY <1>1, SplitFact
  <2> HIDE DEF c, d, e, m
  <2>3. c \in Int /\ d \in Int /\ c + d = e - balance
    BY <2>1, <2>2
  <2>4. /\ RoundCents(c) \in Int /\ RoundCents(d) \in Int
        /\ RoundCents(e) \in Int /\ RoundCents(balance) \in Int
        /\ IsCents(RoundCents(c)) /\ IsCents(RoundCents(d))
        /\ IsCents(RoundCents(e)) /\ IsCents(RoundCents(balance))
    BY <2>1, <2>2, <2>3, RoundCentsFact, RoundedIsCents
  <2>5. /\ IsCents(RoundCents(c) + RoundCents(d))
        /\ IsCents(RoundCents(e) - RoundCents(balance))
    BY <2>4, CentsAdd
  <2>6. ASSUME NEW v \in {c, d, e, balance}
        PROVE  /\ 2 * (RoundCents(v) - v) <= Grains
               /\ 2 * (v - RoundCents(v)) <= Grains
               /\ 2 * (RoundCents(v) - v) = Grains => v > 0
               /\ 2 * (v - RoundCents(v)) = Grains => v < 0
    BY <2>1, <2>2, <2>3, RoundCentsFact
  <2>7. /\ (RoundCents(c) + RoundCents(d)) - (RoundCents(e) - RoundCents(balance))
             < 2 * Grains
        /\ (RoundCents(e) - RoundCents(balance)) - (RoundCents(c) + RoundCents(d))
             < 2 * Grains
    BY <2>1, <2>2, <2>3, <2>4, <2>6
  <2>8. Within(1, RoundCents(c) + RoundCents(d), RoundCents(e) - RoundCents(balance))
    BY <2>4, <2>5, <2>7, CentsApart
  <2> QED  BY <2>8 DEF c, d, e
<1>2. BalancesInv => SplitsFoot
  BY <1>1 DEF SplitsFoot
<1> QED  BY <1>2, BalancesHold, PTL

\* From one balance date to the next the principal falls by what was current, to
\* the cent: no row is lost or counted twice at the end of a year.
THEOREM SplitsDoRollForward == Spec => []SplitsRollForward
<1>1. ASSUME BalancesInv, Answered, NEW y \in Published, y + 1 \in Published
      PROVE  Within(1, RoundCents(positions[y].principal)
                         - RoundCents(CurrentNet(positions[y])),
                       RoundCents(positions[y + 1].principal))
  <2> DEFINE e == positions[y].principal
             c == CurrentNet(positions[y])
             f == positions[y + 1].principal
             k == RowsUpTo(y)
  <2>1. /\ e \in Int /\ c = e - After(Least(n, k + 12))
        /\ After(Least(n, k + 12)) \in Int /\ k \in Int /\ y \in Int
    BY <1>1, SplitFact
  <2>2. /\ f \in Int /\ f = After(RowsUpTo(y + 1)) /\ n > RowsUpTo(y + 1)
    BY <1>1, SplitFact
  <2>3. RowsUpTo(y + 1) = k + 12
    <3>1. contract.begin \in Nat /\ contract.fyEnd \in 1..12
      BY <1>1, ContractFields DEF BalancesInv, TypeOK
    <3> QED  BY <2>1, <3>1 DEF RowsUpTo, BalanceMonth
  <2>4. Least(n, k + 12) = k + 12
    BY <1>1, <2>1, <2>2, <2>3, Finished DEF Least
  <2>5. c \in Int /\ e - c = f
    BY <2>1, <2>2, <2>3, <2>4
  <2> HIDE DEF c, e, f
  <2>6. ASSUME NEW v \in {c, e, f}
        PROVE  /\ RoundCents(v) \in Int /\ IsCents(RoundCents(v))
               /\ 2 * (RoundCents(v) - v) <= Grains
               /\ 2 * (v - RoundCents(v)) <= Grains
    BY <2>1, <2>2, <2>5, RoundCentsFact, RoundedIsCents
  <2>7. RoundCents(e) - RoundCents(c) \in Int /\ IsCents(RoundCents(e) - RoundCents(c))
    <3>1. /\ RoundCents(e) \in Int /\ IsCents(RoundCents(e))
          /\ RoundCents(c) \in Int /\ IsCents(RoundCents(c))
      BY <2>6
    <3>2. IsCents(RoundCents(e) - RoundCents(c))
      BY <3>1, CentsAdd
    <3> QED  BY <3>1, <3>2
  <2>8. /\ (RoundCents(e) - RoundCents(c)) - RoundCents(f) < 2 * Grains
        /\ RoundCents(f) - (RoundCents(e) - RoundCents(c)) < 2 * Grains
    BY <2>1, <2>2, <2>5, <2>6, HpAssumption
  <2>9. Within(1, RoundCents(e) - RoundCents(c), RoundCents(f))
    BY <2>6, <2>7, <2>8, CentsApart
  <2> QED  BY <2>9 DEF c, e, f
<1>2. BalancesInv => SplitsRollForward
  BY <1>1 DEF SplitsRollForward
<1> QED  BY <1>2, BalancesHold, PTL

\* The two maps cut the schedule at the same rows: what is unexpired and current
\* at a balance date is the next year's interest, but for rounding.
THEOREM UnexpiredCarriesOver == Spec => []UnexpiredIsNextYears
<1>1. ASSUME BalancesInv, Answered, NEW y \in Published
      PROVE  2 * Magnitude(RoundCents(positions[y].currentUnexpired) - buckets[y + 1])
               <= 13 * Grains
  <2> DEFINE u == positions[y].currentUnexpired
             b == buckets[y + 1]
             k == RowsUpTo(y)
             m == Least(n, k + 12) - Least(n, k)
  <2>1. /\ y \in Years(contract) /\ y \in Int /\ k \in Int /\ k >= 1 /\ n > k
        /\ u \in Int
    BY <1>1, SplitFact
  <2>2. n \in Nat /\ n = Len(rows) /\ contract \in Contracts
    BY <1>1, Finished DEF BalancesInv, TypeOK
  <2>3. Len(rows) = TotalRows(contract)
    BY <1>1 DEF BalancesInv, StagesHold, Answered
  <2>4. y + 1 \in Years(contract)
    <3>1. k + 1 \in Nat /\ k + 1 >= 1 /\ (k + 1) - k \in 1..12
      BY <2>1
    <3>2. FyYear(contract, Month(contract, k + 1)) = y + 1
      BY <2>1, <2>2, <3>1, MonthsOut
    <3>3. k + 1 \in 1..TotalRows(contract)
      BY <2>1, <2>2, <2>3
    <3> QED  BY <3>2, <3>3 DEF Years
  <2>5. /\ b \in Int
        /\ 2 * (b - u) <= m * Grains /\ -(2 * (b - u)) <= m * Grains
    BY <1>1, <2>1, <2>4 DEF BalancesInv, TypeOK, BucketHolds
  <2>6. m \in 0..12
    <3> HIDE DEF k
    <3>1. Least(n, k) = k
      BY <2>1, <2>2 DEF Least
    <3>2. CASE n <= k + 12
      <4>1. Least(n, k + 12) = n
        BY <3>2 DEF Least
      <4>2. n - k \in 0..12
        BY <2>1, <2>2, <3>2
      <4> QED  BY <3>1, <4>1, <4>2
    <3>3. CASE ~(n <= k + 12)
      <4>1. Least(n, k + 12) = k + 12
        BY <3>3 DEF Least
      <4>2. (k + 12) - k = 12
        BY <2>1
      <4> QED  BY <3>1, <4>1, <4>2
    <3> QED  BY <3>2, <3>3
  <2>7. m * Grains \in Int /\ m * Grains <= 12 * Grains /\ Grains \in Nat
    <3> HIDE DEF m
    <3> QED  BY <2>6, HpAssumption, AtMostTwelve
  <2>8. /\ RoundCents(u) \in Int
        /\ 2 * (RoundCents(u) - u) <= Grains
        /\ 2 * (u - RoundCents(u)) <= Grains
    BY <2>1, RoundCentsFact
  <2> HIDE DEF u, b, k, m
  <2>9. /\ 2 * (RoundCents(u) - b) <= 13 * Grains
        /\ 2 * (b - RoundCents(u)) <= 13 * Grains
    BY <2>1, <2>5, <2>7, <2>8
  <2>10. 2 * Magnitude(RoundCents(u) - b) <= 13 * Grains
    BY <2>5, <2>8, <2>9 DEF Magnitude
  <2> QED  BY <2>10 DEF u, b
<1>2. BalancesInv => UnexpiredIsNextYears
  BY <1>1 DEF UnexpiredIsNextYears
<1> QED  BY <1>2, BalancesHold, PTL

-----------------------------------------------------------------------------
(***************************************************************************)
(* What is paid.                                                           *)
(***************************************************************************)
\* A contract has a balloon with one of the rows, or none at all.
LEMMA BalloonFact ==
  ASSUME NEW c \in Contracts
  PROVE  \/ c.balloon.mode \in {"replace", "add"} /\ c.balloon.row >= 1
         \/ c.balloon.mode = "none" /\ c.balloon.row = 0 /\ c.balloon.amount = 0
<1>1. c.balloon \in Balloon \cup {NoBalloon}
  BY HpAssumption DEF Contract
<1>2. CASE c.balloon \in Balloon
  BY <1>2 DEF Balloon
<1>3. CASE c.balloon = NoBalloon
  BY <1>3 DEF NoBalloon
<1> QED  BY <1>1, <1>2, <1>3

LEMMA AgreedStep ==
  ASSUME NEW g \in Nat, NEW s \in Int, NEW i \in Int, NEW b \in Int,
         NEW e \in Int, NEW d \in {0, 1}
  PROVE  g * ((i + d) * s + (b + e))
           = g * (i * s + b) + g * ((IF d = 1 THEN s ELSE 0) + e)
<1>1. i * s \in Int /\ (i + 1) * s = i * s + s /\ (i + 0) * s = i * s
  OBVIOUS
<1>2. PICK p \in Int : p = i * s
  BY <1>1
<1>3. (i + d) * s = p + (IF d = 1 THEN s ELSE 0)
  BY <1>1, <1>2
<1>4. ASSUME NEW x \in Int, NEW y \in Int
      PROVE  g * (x + y) = g * x + g * y
  OBVIOUS
<1>5. PICK z \in Int : z = (IF d = 1 THEN s ELSE 0)
  OBVIOUS
<1>6. (i + d) * s + (b + e) = (p + b) + (z + e)
  BY <1>3, <1>5
<1>7. g * ((p + b) + (z + e)) = g * (p + b) + g * (z + e)
  <2>1. p + b \in Int /\ z + e \in Int
    OBVIOUS
  <2> QED  BY <1>4, <2>1
<1> QED  BY <1>2, <1>5, <1>6, <1>7

\* Nothing is agreed to be paid with no row.
LEMMA NothingAgreed ==
  ASSUME contract \in Contracts
  PROVE  AgreedUpTo(0) = 0
<1>1. /\ contract.term \in Nat \ {0} /\ contract.instalment \in Int
      /\ contract.balloon.row \in Nat /\ Grains \in Nat
  BY ContractFields, HpAssumption
<1>2. Least(0, contract.term) = 0
  BY <1>1 DEF Least
<1>3. Instalments(0) = 0 /\ Ballooned(0) = 0
  BY <1>1, <1>2, BalloonFact DEF Instalments, Ballooned
<1>4. 0 * contract.instalment + 0 = 0 /\ Grains * 0 = 0
  BY <1>1
<1> QED  BY <1>3, <1>4 DEF AgreedUpTo

\* One row more is agreed to bring what the loop pays with it.
LEMMA OneRowMore ==
  ASSUME contract \in Contracts, NEW k \in Nat
  PROVE  AgreedUpTo(k + 1) = AgreedUpTo(k) + Payment(contract, k + 1)
<1> DEFINE t == contract.term
           s == contract.instalment
           mode == contract.balloon.mode
           row == contract.balloon.row
           amount == contract.balloon.amount
           d == Instalments(k + 1) - Instalments(k)
           e == Ballooned(k + 1) - Ballooned(k)
<1>1. /\ t \in Nat \ {0} /\ s \in Int /\ Grains \in Nat
      /\ row \in Nat /\ amount \in Int
  BY ContractFields, HpAssumption
<1>2. \/ mode \in {"replace", "add"} /\ row >= 1
      \/ mode = "none" /\ row = 0 /\ amount = 0
  BY BalloonFact
<1>3. \A j \in Nat :
        /\ Instalments(j) =
             (IF j <= t THEN j ELSE t)
               - (IF mode = "replace" /\ row <= j /\ row <= t THEN 1 ELSE 0)
               + (IF mode = "add" /\ row > t /\ row <= j THEN 1 ELSE 0)
        /\ Ballooned(j) = (IF row <= j THEN amount ELSE 0)
  BY <1>1 DEF Instalments, Ballooned, Least
<1>4. Payment(contract, k + 1) =
        Grains * (IF k + 1 = row
                  THEN IF mode = "replace" THEN amount ELSE s + amount
                  ELSE IF k + 1 <= t THEN s ELSE 0)
  BY DEF Payment
<1>5. k + 1 \in Nat
  OBVIOUS
<1> HIDE DEF t, s, mode, row, amount
<1>6. /\ Instalments(k) \in Int /\ Ballooned(k) \in Int
      /\ Instalments(k + 1) \in Int /\ Ballooned(k + 1) \in Int
  BY <1>1, <1>3, <1>5
<1>7. d \in Int /\ e \in Int /\ Instalments(k + 1) = Instalments(k) + d
      /\ Ballooned(k + 1) = Ballooned(k) + e
  BY <1>6
<1>8. /\ d \in {0, 1}
      /\ (IF d = 1 THEN s ELSE 0) + e =
           (IF k + 1 = row
            THEN IF mode = "replace" THEN amount ELSE s + amount
            ELSE IF k + 1 <= t THEN s ELSE 0)
  <2>1. CASE k + 1 = row
    <3>1. e = amount /\ mode \in {"replace", "add"}
      BY <1>1, <1>2, <1>3, <1>5, <2>1
    <3>2. CASE mode = "replace"
      <4>1. d = 0
        BY <1>1, <1>3, <1>5, <2>1, <3>2
      <4> QED  BY <1>1, <2>1, <3>1, <3>2, <4>1
    <3>3. CASE mode = "add"
      <4>1. d = 1
        BY <1>1, <1>3, <1>5, <2>1, <3>3
      <4> QED  BY <1>1, <2>1, <3>1, <3>3, <4>1
    <3> QED  BY <3>1, <3>2, <3>3
  <2>2. CASE k + 1 # row
    <3>1. e = 0
      BY <1>1, <1>3, <1>5, <2>2
    <3>2. d = (IF k + 1 <= t THEN 1 ELSE 0)
      BY <1>1, <1>3, <1>5, <2>2
    <3> QED  BY <1>1, <2>2, <3>1, <3>2
  <2> QED  BY <2>1, <2>2
<1>9. AgreedUpTo(k) = Grains * (Instalments(k) * s + Ballooned(k))
      /\ AgreedUpTo(k + 1)
           = Grains * (Instalments(k + 1) * s + Ballooned(k + 1))
  BY DEF AgreedUpTo, s
<1> HIDE DEF d, e
<1>10. Grains * ((Instalments(k) + d) * s + (Ballooned(k) + e))
         = Grains * (Instalments(k) * s + Ballooned(k))
             + Grains * ((IF d = 1 THEN s ELSE 0) + e)
  <2>1. ASSUME NEW i \in Int, NEW b \in Int, i = Instalments(k), b = Ballooned(k)
        PROVE  Grains * ((i + d) * s + (b + e))
                 = Grains * (i * s + b)
                     + Grains * ((IF d = 1 THEN s ELSE 0) + e)
    BY <1>1, <1>7, <1>8, AgreedStep
  <2> QED  BY <1>6, <2>1
<1> QED  BY <1>4, <1>7, <1>8, <1>9, <1>10

LEMMA InitPaid == Init => PaidInv
<1> SUFFICES ASSUME Init PROVE PaidInv
  OBVIOUS
<1>1. rows = <<>> /\ n = 0 /\ paid = 0 /\ contract \in Contracts
  BY DEF Init
<1>2. 1..Len(rows) = {}
  BY <1>1
<1> QED  BY <1>1, <1>2, NothingAgreed DEF PaidInv

\* Every step keeps it: the payment of a row is fixed when the row is made, and
\* rounding it, when it is summed, changes nothing.
LEMMA NextPaid == BalancesInv /\ PaidInv /\ [Next]_vars => PaidInv'
<1> SUFFICES ASSUME BalancesInv, PaidInv, [Next]_vars PROVE PaidInv'
  OBVIOUS
<1>1. /\ contract \in Contracts /\ rows \in Seq(Row) /\ Len(rows) \in Nat
      /\ n \in Nat /\ n <= Len(rows) /\ paid \in Int
  BY DEF BalancesInv, TypeOK, StagesHold
<1>2. CASE UNCHANGED <<contract, rows, n, paid>>
  <2>1. AgreedUpTo(n)' = AgreedUpTo(n)
    BY <1>2 DEF AgreedUpTo, Instalments, Ballooned
  <2> QED  BY <1>2, <2>1 DEF PaidInv
<1>3. CASE AddRow
  <2> DEFINE r == ThisRow
  <2>1. /\ rows' = Append(rows, r) /\ contract' = contract
        /\ n' = n /\ paid' = paid
    BY <1>3 DEF AddRow, sums
  <2>2. r.payment = Payment(contract, Len(rows) + 1)
    BY DEF ThisRow, This
  <2> HIDE DEF r
  <2>3. AgreedUpTo(n)' = AgreedUpTo(n)
    BY <2>1 DEF AgreedUpTo, Instalments, Ballooned
  <2>4. ASSUME NEW k \in 1..Len(rows')
        PROVE  rows'[k].payment = Payment(contract, k)
    <3>1. Len(rows') = Len(rows) + 1
      BY <1>1, <2>1
    <3>2. CASE k = Len(rows) + 1
      BY <1>1, <2>1, <2>2, <3>2
    <3>3. CASE k \in 1..Len(rows)
      BY <1>1, <2>1, <3>3 DEF PaidInv
    <3> QED  BY <1>1, <3>1, <3>2, <3>3
  <2> QED  BY <2>1, <2>3, <2>4 DEF PaidInv
<1>4. CASE SumRow
  <2>1. /\ n' = n + 1 /\ n < Len(rows)
        /\ paid' = paid + RoundCents(rows[n + 1].payment)
        /\ contract' = contract /\ rows' = rows
    BY <1>4 DEF SumRow
  <2>2. n + 1 \in 1..Len(rows)
    BY <1>1, <2>1
  <2>3. RoundCents(rows[n + 1].payment) = Payment(contract, n + 1)
    <3>1. IsCents(rows[n + 1].payment)
      BY <2>2 DEF BalancesInv, RowsHold
    <3> QED  BY <2>2, <3>1 DEF IsCents, PaidInv
  <2>4. AgreedUpTo(n + 1) = paid + Payment(contract, n + 1)
    BY <1>1, OneRowMore DEF PaidInv
  <2>5. AgreedUpTo(n)' = AgreedUpTo(n + 1)
    BY <2>1 DEF AgreedUpTo, Instalments, Ballooned
  <2> QED  BY <2>1, <2>3, <2>4, <2>5 DEF PaidInv
<1>5. CASE Check \/ Publish \/ Raise \/ UNCHANGED vars
  BY <1>2, <1>5 DEF Check, Publish, Raise, vars, sums
<1> QED  BY <1>3, <1>4, <1>5 DEF Next

\* Of every published schedule the payments are those agreed: as many instalments
\* as the term has, but for the one a balloon replaces or brings, and the balloon.
THEOREM PaymentsAreAgreed == Spec => []PaymentsAsAgreed
<1>1. ASSUME BalancesInv, PaidInv, pc = "done"
      PROVE  PaymentsAsAgreed
  <2>1. /\ contract \in Contracts /\ n = TotalRows(contract)
        /\ paid = AgreedUpTo(n)
    BY <1>1 DEF BalancesInv, TypeOK, StagesHold, PaidInv
  <2>2. contract.term \in Nat \ {0} /\ contract.balloon.row \in Nat
    BY <2>1, ContractFields
  <2>3. /\ n \in Nat /\ contract.term <= n /\ contract.balloon.row <= n
        /\ Least(n, contract.term) = contract.term
    BY <2>1, <2>2 DEF TotalRows, Least
  <2> QED  BY <2>1, <2>3
           DEF PaymentsAsAgreed, AgreedUpTo, Instalments, Ballooned
<1>2. BalancesInv /\ PaidInv => PaymentsAsAgreed
  BY <1>1 DEF PaymentsAsAgreed
<1> QED  BY <1>2, BalancesHold, InitPaid, NextPaid, PTL DEF Spec

-----------------------------------------------------------------------------
(***************************************************************************)
(* The interest of the years and of the rows.                              *)
(***************************************************************************)
\* The years of a schedule are finitely many: each is that of a row.
LEMMA FiniteYears ==
  ASSUME NEW c \in Contracts
  PROVE  IsFiniteSet(Years(c))
<1> DEFINE R == 1..TotalRows(c)
           f == [k \in R |-> FyYear(c, Month(c, k))]
<1>1. IsFiniteSet(R)
  BY ContractFields, FS_Interval
<1>2. f \in Surjection(R, Years(c))
  <2>1. f \in [R -> Years(c)]
    BY DEF Years
  <2>2. \A y \in Years(c) : \E k \in R : f[k] = y
    BY DEF Years
  <2> QED  BY <2>1, <2>2 DEF Surjection
<1> QED  BY <1>1, <1>2, FS_Surjection

\* The interest of the first rows, rounded, is a number each.
LEMMA RowInterestFact ==
  ASSUME TypeOK, NEW k \in 0..Len(rows)
  PROVE  RowInterest(k) \in [1..k -> Int]
<1>1. ASSUME NEW i \in 1..k PROVE RoundCents(rows[i].interest) \in Int
  <2>1. rows \in Seq(Row) /\ i \in 1..Len(rows)
    BY DEF TypeOK
  <2>2. rows[i] \in Row
    BY <2>1
  <2>3. rows[i].interest \in Int
    BY <2>2 DEF Row
  <2> QED  BY <2>3, RoundCentsFact
<1> QED  BY <1>1 DEF RowInterest

LEMMA InitFooted == Init => FootedInv
<1> SUFFICES ASSUME Init PROVE FootedInv
  OBVIOUS
<1>1. /\ n = 0 /\ footed = 0 /\ contract \in Contracts
      /\ buckets = [y \in Years(contract) |-> 0]
  BY DEF Init
<1>2. SumFunction(buckets) = 0
  BY <1>1, FiniteYears, SumZeros
<1>3. DOMAIN RowInterest(n) = {}
  BY <1>1 DEF RowInterest
<1>4. SumFunction(RowInterest(n)) = 0
  BY <1>3, SumEmpty
<1> QED  BY <1>1, <1>2, <1>4 DEF FootedInv

\* A row adds its rounded interest to the total, to one year and to the rows.
LEMMA NextFooted == BalancesInv /\ FootedInv /\ [Next]_vars => FootedInv'
<1> SUFFICES ASSUME BalancesInv, FootedInv, [Next]_vars PROVE FootedInv'
  OBVIOUS
<1>1. /\ TypeOK /\ contract \in Contracts /\ rows \in Seq(Row)
      /\ Len(rows) \in Nat /\ n \in Nat /\ n <= Len(rows)
      /\ Len(rows) <= TotalRows(contract) /\ TotalRows(contract) \in Nat
      /\ buckets \in [Years(contract) -> Int]
  BY ContractFields DEF BalancesInv, TypeOK, StagesHold
<1>2. CASE UNCHANGED <<rows, n, footed, buckets>>
  BY <1>2 DEF FootedInv, RowInterest
<1>3. CASE AddRow
  <2>1. n' = n /\ footed' = footed /\ buckets' = buckets /\ n = 0
    BY <1>3 DEF AddRow, sums, BalancesInv, StagesHold
  <2>2. DOMAIN RowInterest(n) = {} /\ DOMAIN RowInterest(n)' = {}
    BY <2>1 DEF RowInterest
  <2>3. SumFunction(RowInterest(n)) = 0 /\ SumFunction(RowInterest(n)') = 0
    BY <2>2, SumEmpty
  <2> QED  BY <2>1, <2>3 DEF FootedInv
<1>4. CASE SumRow
  <2> DEFINE row == rows[n + 1]
             d == RoundCents(row.interest)
             fy == FyYear(contract, Month(contract, n + 1))
  <2>1. /\ n' = n + 1 /\ n < Len(rows) /\ rows' = rows
        /\ footed' = footed + d
        /\ buckets' = [buckets EXCEPT ![fy] = @ + d]
    BY <1>4 DEF SumRow, BucketAmount
  <2>2. n + 1 \in 1..Len(rows) /\ n + 1 \in 1..TotalRows(contract)
        /\ n \in 0..Len(rows) /\ n + 1 \in 0..Len(rows)
    BY <1>1, <2>1
  <2>3. d \in Int
    <3>1. row \in Row
      BY <1>1, <2>2
    <3>2. row.interest \in Int
      BY <3>1 DEF Row
    <3> QED  BY <3>2, RoundCentsFact
  <2>4. fy \in Years(contract)
    BY <2>2 DEF Years
  <2> HIDE DEF fy
  <2>5. SumFunction(buckets') = footed + d
    <3>1. SumFunction([buckets EXCEPT ![fy] = @ + d]) = SumFunction(buckets) + d
      BY <1>1, <2>3, <2>4, FiniteYears, SumChange
    <3> QED  BY <2>1, <3>1 DEF FootedInv
  <2>6. SumFunction(RowInterest(n + 1)) = footed + d
    <3> DEFINE f == RowInterest(n)
               h == RowInterest(n + 1)
               S == 1..n
    <3>1. IsFiniteSet(S) /\ n + 1 \notin S /\ 1..(n + 1) = S \cup {n + 1}
      <4>1. n \in Int /\ 1 \in Int
        BY <1>1
      <4>2. IsFiniteSet(1..n)
        BY <4>1, FS_Interval
      <4> QED  BY <1>1, <4>2
    <3>2. f \in [S -> Int] /\ h \in [S \cup {n + 1} -> Int]
      BY <1>1, <2>2, <3>1, RowInterestFact
    <3>3. (\A i \in S : h[i] = f[i]) /\ h[n + 1] = d
      BY <1>1 DEF RowInterest
    <3> HIDE DEF f, h, S
    <3>4. SumFunction(h) = SumFunction(f) + h[n + 1]
      BY <3>1, <3>2, <3>3, SumMore
    <3> QED  BY <3>3, <3>4 DEF f, h, FootedInv
  <2>7. RowInterest(n)' = RowInterest(n + 1)
    BY <2>1 DEF RowInterest
  <2> QED  BY <2>1, <2>5, <2>6, <2>7 DEF FootedInv
<1>5. CASE Check \/ Publish \/ Raise \/ UNCHANGED vars
  BY <1>2, <1>5 DEF Check, Publish, Raise, vars, sums
<1> QED  BY <1>3, <1>4, <1>5 DEF Next

\* For any balance date and any length, the interest of the years and that of the
\* published rows both sum to totals.interest: rounding loses nothing, and every
\* row falls into one year.
THEOREM InterestDoesFoot == Spec => []InterestFoots
<1>1. ASSUME BalancesInv, FootedInv, Answered
      PROVE  InterestFoots
  <2>1. n = Len(rows)
    BY <1>1, Finished
  <2>2. RowInterest(n) = [k \in 1..Len(rows) |-> RoundCents(rows[k].interest)]
    BY <2>1 DEF RowInterest
  <2> QED  BY <1>1, <2>2 DEF InterestFoots, FootedInv
<1>2. BalancesInv /\ FootedInv => InterestFoots
  BY <1>1 DEF InterestFoots
<1> QED  BY <1>2, BalancesHold, InitFooted, NextFooted, PTL DEF Spec

-----------------------------------------------------------------------------
(***************************************************************************)
(* When the balance is no number, and that the loops end.                  *)
(***************************************************************************)
\* One row more accrues if one of the rows did, or the new one does.
LEMMA AccruedStep ==
  ASSUME NEW len \in Nat
  PROVE  (\E k \in 1..(len + 1) : Accrues(contract, k)) <=>
           (\E k \in 1..len : Accrues(contract, k)) \/ Accrues(contract, len + 1)
<1>1. 1..(len + 1) = (1..len) \cup {len + 1}
  OBVIOUS
<1> QED  BY <1>1

LEMMA InitNumber == Init => NumberInv
<1> SUFFICES ASSUME Init PROVE NumberInv
  OBVIOUS
<1>1. 1..Len(rows) = {} /\ nan = FALSE /\ pc = "start"
  BY DEF Init
<1> QED  BY <1>1 DEF NumberInv

\* Only the loop over the rows can spoil the balance, and it raises where the
\* interest is infinite; the check before it refuses the rest.
LEMMA NextNumber == BalancesInv /\ NumberInv /\ [Next]_vars => NumberInv'
<1> SUFFICES ASSUME BalancesInv, NumberInv, [Next]_vars PROVE NumberInv'
  OBVIOUS
<1>1. rows \in Seq(Row) /\ Len(rows) \in Nat /\ nan \in BOOLEAN
  BY DEF BalancesInv, TypeOK
<1>2. CASE AddRow
  <2> DEFINE accrued == \E k \in 1..Len(rows) : Accrues(contract, k)
             more    == \E k \in 1..(Len(rows) + 1) : Accrues(contract, k)
             kind    == contract.rate.kind
             accrues == Accrues(contract, Len(rows) + 1)
  <2>1. /\ contract' = contract /\ pc = "rows"
        /\ nan' = (nan \/ (accrues /\ kind \in {"nan", "infinite"}))
        /\ ~(accrues /\ kind = "infinite")
    BY <1>2 DEF AddRow, NoValue, RowRaises, This
  <2>2. Len(rows') = Len(rows) + 1
    BY <1>1, <1>2 DEF AddRow
  <2>3. more <=> accrued \/ accrues
    BY <1>1, AccruedStep
  <2>4. /\ nan <=> kind = "nan" /\ accrued
        /\ kind = "infinite" => ~accrued
        /\ contract.monthly /\ contract.dated /\ kind # "invalid"
    BY <2>1 DEF NumberInv
  <2>5. (\E k \in 1..Len(rows') : Accrues(contract', k)) <=> more
    BY <2>1, <2>2
  <2> HIDE DEF accrued, more, kind, accrues
  <2>6. /\ nan' <=> kind = "nan" /\ more
        /\ kind = "infinite" => ~more
    BY <1>1, <2>1, <2>3, <2>4
  <2> QED  BY <2>1, <2>4, <2>5, <2>6 DEF NumberInv, kind
<1>3. CASE UNCHANGED <<contract, rows, nan>> /\ (pc' \in {"rows", "sums", "done"} =>
             contract.monthly /\ contract.dated /\ contract.rate.kind # "invalid")
  BY <1>3 DEF NumberInv
<1>4. CASE Check
  BY <1>3, <1>4 DEF Check
<1>5. CASE SumRow \/ Publish \/ Raise \/ UNCHANGED vars
  BY <1>3, <1>5 DEF SumRow, Publish, Raise, vars, NumberInv
<1> QED  BY <1>2, <1>4, <1>5 DEF Next

\* Row 1 accrues unless it is paid in advance, and row 2 always does.
LEMMA SomeRowAccrues ==
  ASSUME TypeOK
  PROVE  (\E k \in 1..TotalRows(contract) : Accrues(contract, k)) <=> ~OneInAdvance
<1>1. TotalRows(contract) \in Nat /\ TotalRows(contract) >= 1
  BY ContractFields DEF TypeOK
<1>2. CASE OneInAdvance
  <2>1. 1..TotalRows(contract) = {1}
    BY <1>2 DEF OneInAdvance
  <2> QED  BY <1>2, <2>1 DEF Accrues, OneInAdvance
<1>3. CASE ~contract.advance
  <2>1. 1 \in 1..TotalRows(contract) /\ Accrues(contract, 1)
    BY <1>1, <1>3 DEF Accrues
  <2> QED  BY <1>3, <2>1 DEF OneInAdvance
<1>4. CASE TotalRows(contract) # 1
  <2>1. 2 \in 1..TotalRows(contract) /\ Accrues(contract, 2)
    BY <1>1, <1>4 DEF Accrues
  <2> QED  BY <1>4, <2>1 DEF OneInAdvance
<1> QED  BY <1>2, <1>3, <1>4 DEF OneInAdvance

\* Whatever the contract: a schedule with NaN in its fields is published exactly
\* when the rate is NaN and a row accrues. An infinite rate or a string that is no
\* number is never published with a row that accrues.
THEOREM NanIsTheOnlySpoiler == Spec => []OnlyNanSpoils
<1>1. ASSUME BalancesInv, NumberInv, pc = "done"
      PROVE  OnlyNanSpoils
  <2>1. TypeOK /\ Len(rows) = TotalRows(contract)
    BY <1>1 DEF BalancesInv, StagesHold
  <2>2. contract.rate.kind \in {"finite", "nan", "infinite", "invalid"}
    <3>1. contract \in Contract
      BY <2>1, HpAssumption DEF TypeOK
    <3> QED  BY <3>1 DEF Contract, Rate
  <2>3. (\E k \in 1..Len(rows) : Accrues(contract, k)) <=> ~OneInAdvance
    BY <2>1, SomeRowAccrues
  <2> QED  BY <1>1, <2>2, <2>3 DEF NumberInv, OnlyNanSpoils
<1>2. BalancesInv /\ NumberInv => OnlyNanSpoils
  BY <1>1 DEF OnlyNanSpoils
<1> QED  BY <1>2, BalancesHold, InitNumber, NextNumber, PTL DEF Spec

\* The whole invariant: balances, payments, interest and numbers.
THEOREM InvariantHolds == Spec => []IInv
BY BalancesHold, InitPaid, NextPaid, InitFooted, NextFooted,
   InitNumber, NextNumber, PTL DEF Spec, IInv

\* A step makes a row, sums one or ends a stage.
LEMMA StepLeavesLess == BalancesInv /\ Next => Left' \in Nat /\ Left' < Left
<1> SUFFICES ASSUME BalancesInv, Next PROVE Left' \in Nat /\ Left' < Left
  OBVIOUS
<1> DEFINE stage == IF pc = "start" THEN 2 ELSE IF pc \in {"rows", "sums"} THEN 1 ELSE 0
           total == TotalRows(contract)
<1>1. /\ contract \in Contracts /\ rows \in Seq(Row) /\ Len(rows) \in Nat
      /\ n \in Nat /\ n <= Len(rows) /\ Len(rows) <= total
      /\ pc = "rows" => Len(rows) < total
  BY DEF BalancesInv, TypeOK, StagesHold
<1>2. total \in Nat
  BY <1>1, ContractFields
<1>3. Left = 2 * total - Len(rows) - n + stage /\ stage \in {0, 1, 2}
  BY DEF Left
<1>4. contract' = contract
  BY DEF Next, Check, AddRow, SumRow, Publish, Raise
<1>5. Left' = 2 * total - Len(rows') - n' + stage'
  BY <1>4 DEF Left
<1>6. CASE Check
  <2>1. rows' = rows /\ n' = n /\ stage = 2 /\ stage' \in {0, 1}
    BY <1>6 DEF Check, sums
  <2> HIDE DEF stage, total
  <2> QED  BY <1>1, <1>2, <1>3, <1>5, <2>1
<1>7. CASE AddRow
  <2>1. Len(rows') = Len(rows) + 1 /\ n' = n /\ stage = 1 /\ stage' = 1
    BY <1>1, <1>7 DEF AddRow, sums
  <2>2. Len(rows) < total
    BY <1>1, <1>7 DEF AddRow
  <2> HIDE DEF stage, total
  <2> QED  BY <1>1, <1>2, <1>3, <1>5, <2>1, <2>2
<1>8. CASE SumRow
  <2>1. rows' = rows /\ n' = n + 1 /\ n < Len(rows) /\ stage' = stage
    BY <1>8 DEF SumRow
  <2> HIDE DEF stage, total
  <2> QED  BY <1>1, <1>2, <1>3, <1>5, <2>1
<1>9. CASE Publish \/ Raise
  <2>1. rows' = rows /\ n' = n /\ stage = 1 /\ stage' = 0
    BY <1>9 DEF Publish, Raise, sums
  <2> HIDE DEF stage, total
  <2> QED  BY <1>1, <1>2, <1>3, <1>5, <2>1
<1> QED  BY <1>6, <1>7, <1>8, <1>9 DEF Next

\* No contract makes the loops run on: the steps are bounded by the rows, and the
\* rows are one a month of the term or up to the balloon.
THEOREM LoopsDoEnd == Spec => LoopsEnd
<1>1. BalancesInv /\ [Next]_vars => [Left' \in Nat /\ Left' < Left]_vars
  BY StepLeavesLess
<1> QED  BY <1>1, BalancesHold, PTL DEF Spec, LoopsEnd
=============================================================================
