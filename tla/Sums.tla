-------------------------------- MODULE Sums --------------------------------
(* The sum of f[k] over k \in D, D finite: by recursion on subsets of D.    *)
EXTENDS Integers, FiniteSets

Total(f, D) ==
    LET sum[S \in SUBSET D] ==
          IF S = {} THEN 0
                    ELSE LET k == CHOOSE k \in S : TRUE IN f[k] + sum[S \ {k}]
    IN  sum[D]

=============================================================================
