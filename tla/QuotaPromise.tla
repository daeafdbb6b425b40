---------------------------- MODULE QuotaPromise ---------------------------
(***************************************************************************)
(* What the usage ledger promises its callers, without rows, statuses,     *)
(* locks, transactions or clocks: a key is given a share of a period if    *)
(* the limit in force allows it, and the share is later either used, once  *)
(* and for ever, or given back.  QuotaLedger implements it.                *)
(***************************************************************************)
EXTENDS QuotaSums

CONSTANTS Keys, Periods, Quotas

VARIABLES
    quota,    \* the configuration in force
    usage,    \* what each period reports as used
    share     \* the share each key holds

vars == <<quota, usage, share>>

None == [state |-> "none", period |-> 0, amount |-> 0]
Share(st, p, n) == [state |-> st, period |-> p, amount |-> n]

Shares(s, p) == {k \in Keys : s[k].state # "none" /\ s[k].period = p}
Held == {k \in Keys : share[k].state = "held"}
Without(D) == [k \in Keys |-> IF k \in D THEN None ELSE share[k]]

Init ==
    /\ quota \in Quotas
    /\ usage = [p \in Periods |-> 0]
    /\ share = [k \in Keys |-> None]

\* Key k gets n units of period p; the holds in D lapse at the same moment.
Admit(k, p, n, D) ==
    /\ D \subseteq Held
    /\ Without(D)[k] = None
    /\ quota.enforced => Sum(Without(D), Shares(Without(D), p)) + n <= quota.hardLimit
    /\ share' = [Without(D) EXCEPT ![k] = Share("held", p, n)]
    /\ UNCHANGED <<quota, usage>>

\* A hold is turned into usage.
Use(k) ==
    /\ k \in Held
    /\ share' = [share EXCEPT ![k].state = "used"]
    /\ usage' = [usage EXCEPT ![share[k].period] = @ + share[k].amount]
    /\ UNCHANGED quota

\* Holds are given back, or lapse.
GiveBack(D) ==
    /\ D \subseteq Held
    /\ share' = Without(D)
    /\ UNCHANGED <<quota, usage>>

Configure == quota' \in Quotas /\ UNCHANGED <<usage, share>>

Next ==
    \/ \E k \in Keys, p \in Periods, n \in 1..MaxAmount, D \in SUBSET Keys : Admit(k, p, n, D)
    \/ \E k \in Keys : Use(k)
    \/ \E D \in SUBSET Keys : GiveBack(D)
    \/ Configure

Spec == Init /\ [][Next]_vars

============================================================================
