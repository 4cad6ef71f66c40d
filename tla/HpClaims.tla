------------------------------ MODULE HpClaims ------------------------------
(***************************************************************************)
(* What the docstring of compute_schedule says of it, as an invariant of   *)
(* the model of its code; TLC finds it violated.                           *)
(***************************************************************************)
EXTENDS MCHpSchedule

\* schedule.py:117, "all money outputs are decimal strings rounded to cents": a
\* schedule that is published has an amount in every money field.
OutputsAreCents == pc = "done" => ~nan
=============================================================================
