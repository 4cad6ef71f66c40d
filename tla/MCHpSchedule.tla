---------------------------- MODULE MCHpSchedule ----------------------------
(***************************************************************************)
(* Instances of HpSchedule for TLC.  A grain is half a cent: ties are as   *)
(* frequent as can be.  Rates are high, so that interest moves the         *)
(* rounding of every row.                                                  *)
(***************************************************************************)
EXTENDS HpInvariant

\* The last month of year 3.
LastMonthOfYear3 == 12 * 3 + 11

Finite(num, den) == [kind |-> "finite", num |-> num, den |-> den]
NoRate(kind)     == [kind |-> kind, num |-> 0, den |-> 1]

\* 60 %, 12 % and -12 % a year, and none.
SomeRates == {Finite(1, 20), Finite(1, 100), Finite(-1, 100), Finite(0, 1)}

Balloons(term) ==
  {NoBalloon} \cup [mode : {"replace", "add"}, row : {1, term, term + 2},
                    amount : {40}]

Loan(amount, rate, term, instalment, advance, begin, balloon, fyEnd) ==
  [amount |-> amount, rate |-> rate, term |-> term, instalment |-> instalment,
   advance |-> advance, monthly |-> TRUE, dated |-> TRUE, begin |-> begin,
   balloon |-> balloon, fyEnd |-> fyEnd]

\* Short terms: every rate and balloon; a loan, and one paid back before it.
ShortLoans ==
  UNION {{Loan(a, rate, term, i, adv, 5, b, 6) :
            a \in {101, -3}, rate \in SomeRates, i \in {0, 37},
            adv \in BOOLEAN, b \in Balloons(term)} : term \in 1..3}

\* Terms across two balance dates, begun before, in and after the year's last
\* month, for years that end in June and in December.
LongLoans ==
  {Loan(a, rate, term, 9, adv, begin, b, fyEnd) :
     a \in {207}, rate \in {Finite(1, 20), Finite(1, 100)},
     term \in {13, 26}, adv \in BOOLEAN, begin \in {4, 5, 6, 11},
     b \in {NoBalloon, [mode |-> "replace", row |-> 28, amount |-> 60]},
     fyEnd \in {6, 12}}

\* What the engine refuses, what is not a number, what runs past the last date
\* and what grows past the last digit.
OddLoans ==
  LET loan == Loan(101, Finite(1, 20), 3, 37, FALSE, 5, NoBalloon, 6)
  IN  {[loan EXCEPT !.monthly = FALSE], [loan EXCEPT !.dated = FALSE],
       [loan EXCEPT !.begin = LastMonthOfYear3 - 1],
       [loan EXCEPT !.begin = LastMonthOfYear3 - 4],
       [loan EXCEPT !.rate = Finite(90, 1)],
       [loan EXCEPT !.amount = 40000000], [loan EXCEPT !.instalment = 15000000]}
      \cup {[loan EXCEPT !.rate = NoRate(kind), !.advance = adv] :
              kind \in {"nan", "infinite", "invalid"}, adv \in BOOLEAN}

ManyLoans == ShortLoans \cup LongLoans \cup OddLoans
=============================================================================
