--------------------------- MODULE MCQuotaLedger ---------------------------
(***************************************************************************)
(* Small instances of QuotaLedger for TLC.                                 *)
(***************************************************************************)
EXTENDS QuotaLedger, TLC

CONSTANTS k1, k2, w1, w2

OneKey == {k1}
TwoKeys == {k1, k2}
NoPasses == {}
OnePass == {w1}
TwoPasses == {w1, w2}

\* Keys are interchangeable; used without liveness properties only.
KeySymmetry == Permutations(Keys)

\* A lifetime limit at which 80% and 90% are reached at different usages, and
\* a lower limit that starts anew every second day.
LimitQuotas ==
    {[enforced |-> TRUE, hardLimit |-> 5, reset |-> 0],
     [enforced |-> TRUE, hardLimit |-> 4, reset |-> 2]}

\* One daily limit.
DailyQuotas == {[enforced |-> TRUE, hardLimit |-> 2, reset |-> 1]}

=============================================================================
