-------------------------- MODULE SponsorshipProps --------------------------
(* What bounds the cost of free operations. *)
EXTENDS Sponsorship

ReservedNeeds(row) == [r \in Requests |-> IF leases[r].state = "reserved" THEN Need(leases[r], row) ELSE 0]
CommittedNeeds(row) == [r \in Requests |-> IF leases[r].state = "committed" THEN Need(leases[r], row) ELSE 0]

\* After any concurrent requests, lost answers and crashes the counters are
\* what the leases say, and a day's leases stay within every limit.
BudgetExact ==
    \A row \in Rows :
        /\ reserved[row] = Total(ReservedNeeds(row), Requests)
        /\ committed[row] = Total(CommittedNeeds(row), Requests)
        /\ reserved[row] + committed[row] <= LimitOf(row)

\* Whatever is used on the chain was paid for off the chain: a sponsorship a
\* client holds has a committed lease over its maximum cost, on its day.
ConsumedIsLeased ==
    \A s \in delivered \cup consumedSponsorship : \E r \in Requests :
        /\ signed[r] = s
        /\ leases[r].state = "committed" /\ leases[r].need["cost"] = s.maxCost
        /\ leases[r].day = DayOf(s.validUntil - Validity)

\* What the EntryPoint keeps of the deposit on a day is covered by what the
\* paymaster has charged to the sender and to everybody, even when postOp
\* fails or costs more than was reported, and that by a budget that was set.
LossBounded ==
    \A x \in Accounts :
        /\ taken[x] <= spentByDay[x] + reservedByDay[x]
        /\ \E b \in BudgetOptions \cup {InitialBudgets} :
             spentByDay[x] + reservedByDay[x] <= BudgetOf(b, x[2])

=============================================================================
