--------------------------------- MODULE Money ---------------------------------
(***************************************************************************)
(* Amounts in whole paise (reclaim/contracts/money.py) and the one way     *)
(* they are rounded (reclaim/contracts/units.py).                          *)
(***************************************************************************)
EXTENDS Integers, FiniteSetsExt

\* The sum of a mapping's amounts.
MoneySum(amount) == MapThenSumSet(LAMBDA i : amount[i], DOMAIN amount)

\* ROUND_HALF_UP of n / d, d > 0: a half goes away from zero.
HalfUp(n, d) ==
    IF n >= 0 THEN (2 * n + d) \div (2 * d) ELSE -((2 * (-n) + d) \div (2 * d))

=============================================================================
