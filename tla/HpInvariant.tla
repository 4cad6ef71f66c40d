---------------------------- MODULE HpInvariant ----------------------------
(***************************************************************************)
(* The inductive invariant from which the properties of a published        *)
(* schedule follow, in three parts: every sum as the difference of two     *)
(* balances (BalancesInv; `After` is the balance after k rows, whichever   *)
(* loop is asking), what was paid (PaidInv) and the interest of the years  *)
(* and of the rows (FootedInv), and when the balance is no number          *)
(* (NumberInv).  The later parts rest on the first.                        *)
(***************************************************************************)
EXTENDS HpSchedule

Least(a, b) == IF a <= b THEN a ELSE b

Row == [interest : Int, payment : Int, closing : Int]

Position ==
  [principal : Int, anyAfter : BOOLEAN, currentGross : Int,
   currentUnexpired : Int, nonCurrentGross : Int, nonCurrentUnexpired : Int]

TypeOK ==
  /\ contract \in Contracts
  /\ pc \in {"start", "rows", "sums", "done", "refused_400", "refused_422", "raised"}
  /\ balance \in Int
  /\ rows \in Seq(Row)
  /\ nan \in BOOLEAN
  /\ n \in Nat /\ exact \in Int /\ footed \in Int /\ paid \in Int
  /\ buckets \in [Years(contract) -> Int]
  /\ positions \in [Years(contract) -> Position]

\* The balance after k rows.
After(k) == IF k = 0 THEN Principal(contract) ELSE rows[k].closing

\* A number of whole cents.
IsCents(v) == RoundCents(v) = v

RowsHold ==
  /\ balance = After(Len(rows))
  /\ \A k \in 1..Len(rows) :
       /\ rows[k].closing = After(k - 1) - (rows[k].payment - rows[k].interest)
       /\ IsCents(rows[k].payment)

StagesHold ==
  /\ Len(rows) <= TotalRows(contract) /\ n <= Len(rows)
  /\ pc = "rows" => Len(rows) < TotalRows(contract)
  /\ pc \in {"sums", "done"} => Len(rows) = TotalRows(contract)
  /\ pc \in {"start", "rows"} => n = 0
  /\ pc = "start" => Len(rows) = 0
  /\ pc = "done" => n = Len(rows)

\* The sums over the first n rows.
TotalsHold ==
  /\ After(n) = Principal(contract) + exact - paid
  /\ IsCents(paid)
  /\ 2 * (exact - footed) <= n * Grains /\ 2 * (footed - exact) <= n * Grains

\* The rows up to the balance date of a year: the first of them.
RowsUpTo(y) == BalanceMonth(contract, y) - contract.begin + 1

\* What is published or counted of a year is the change of the balance over the
\* rows summed so far: up to its end, in the twelve months after it, later.
SplitHolds(y) ==
  LET p == positions[y]
      k == RowsUpTo(y)
  IN  /\ p.principal = After(Least(n, k))
      /\ CurrentNet(p) = After(Least(n, k)) - After(Least(n, k + 12))
      /\ NonCurrentNet(p) = After(Least(n, k + 12)) - After(n)
      /\ p.anyAfter <=> n > k

\* Interest of the next year, rounded row by row in the one map and exact in
\* the other.
BucketHolds(y) ==
  y + 1 \in Years(contract) =>
    LET d == buckets[y + 1] - positions[y].currentUnexpired
        k == RowsUpTo(y)
        m == Least(n, k + 12) - Least(n, k)
    IN  /\ IsCents(buckets[y + 1])
        /\ 2 * d <= m * Grains /\ -(2 * d) <= m * Grains

BalancesInv ==
  /\ TypeOK /\ RowsHold /\ StagesHold /\ TotalsHold
  /\ \A y \in Years(contract) : SplitHolds(y) /\ BucketHolds(y)

\* The instalments that fall into the first k rows: one a row of the term, less
\* the one a balloon replaces, and one with a balloon added after the term.
Instalments(k) ==
  LET b == contract.balloon
  IN  Least(k, contract.term)
        - (IF b.mode = "replace" /\ b.row <= Least(k, contract.term)
           THEN 1 ELSE 0)
        + (IF b.mode = "add" /\ b.row > contract.term /\ b.row <= k
           THEN 1 ELSE 0)

Ballooned(k) == IF contract.balloon.row <= k THEN contract.balloon.amount ELSE 0

\* What is agreed to be paid with the first k rows.
AgreedUpTo(k) ==
  Grains * (Instalments(k) * contract.instalment + Ballooned(k))

PaidInv ==
  /\ \A k \in 1..Len(rows) : rows[k].payment = Payment(contract, k)
  /\ paid = AgreedUpTo(n)

\* The published interest of the first k rows.
RowInterest(k) == [i \in 1..k |-> RoundCents(rows[i].interest)]

FootedInv ==
  /\ SumFunction(buckets) = footed
  /\ SumFunction(RowInterest(n)) = footed

\* The balance is NaN from the first row on that accrues at a NaN rate; no row
\* accrues at an infinite one, and no row is made of what the engine refuses.
NumberInv ==
  LET kind == contract.rate.kind
      accrued == \E k \in 1..Len(rows) : Accrues(contract, k)
  IN  /\ nan <=> kind = "nan" /\ accrued
      /\ kind = "infinite" => ~accrued
      /\ pc \in {"rows", "sums", "done"} =>
           contract.monthly /\ contract.dated /\ kind # "invalid"

IInv == BalancesInv /\ PaidInv /\ FootedInv /\ NumberInv

-----------------------------------------------------------------------------
\* An advance payment that is the whole schedule: nothing ever accrues.
OneInAdvance == contract.advance /\ TotalRows(contract) = 1

\* A rate that is no finite number spoils a published schedule in one way only: it
\* is NaN, and some row accrues. An infinite rate gets as far only where nothing
\* accrues, a string that is no number never does; all else has numbers throughout.
OnlyNanSpoils ==
  pc = "done" =>
    /\ nan <=> contract.rate.kind = "nan" /\ ~OneInAdvance
    /\ contract.rate.kind = "infinite" => OneInAdvance
    /\ contract.rate.kind # "invalid"

\* What is left of the loops: rows to make, rows to sum, and the ends.
Left ==
  2 * TotalRows(contract) - Len(rows) - n
    + (IF pc = "start" THEN 2 ELSE IF pc \in {"rows", "sums"} THEN 1 ELSE 0)

\* The loops end: each step leaves less, so that a contract takes at most two
\* steps a row and two more, whatever its figures.
LoopsEnd == [][Left' \in Nat /\ Left' < Left]_vars
=============================================================================
