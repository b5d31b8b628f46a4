------------------------- MODULE AutomationLaneProps -------------------------
(* What the signing lane must keep through crashes, lost answers and replacements. *)
EXTENDS AutomationLane

\* Whatever the network may hold is on record: as the transaction of a row
\* that was marked before, or as what a recovery of it replaced.  A row that
\* was only prepared, or given up, has never been handed out.
NothingUnrecorded ==
    \A s \in sent : \E r \in RowIds :
        /\ rows[r].state \in {"broadcasting", "unknown", "confirmed", "reverted"}
        /\ \/ rows[r].sig = s
           \/ recoveries[r].state \notin {"none", "prepared"}
              /\ s \in {recoveries[r].original, recoveries[r].replacement}

\* What a day's broadcasts reserve never exceeds the budget while the lock
\* keeps the lane to one process: the checks before a broadcast and before a
\* replacement count what the others reserve, and in between nothing moves but
\* the day.  Two processes in the lane can each pass the check (README).
BudgetHeld ==
    lockLosses = 0 =>
        \A d \in 0..MaxDay :
            Reserved({r \in RowIds : rows[r].day = d /\
                                     rows[r].state \notin {"none", "prepared", "cancelled"}})
              <= DailyBudget

\* A single nonce lane: while no lock was lost, a nonce is handed out only
\* when the one before is beyond reorganisation.
NoncesOneByOne ==
    lockLosses = 0 => \A s, t \in sent : s.nonce < t.nonce => s.nonce < final

\* What the database calls settled is what the chain has settled.
ConfirmedIsMined ==
    \A r \in RowIds : rows[r].state \in {"confirmed", "reverted"} =>
        \E n \in 1..final :
            mined[n] = [sig |-> rows[r].sig, ok |-> rows[r].state = "confirmed"]

\* A transaction the network holds is settled, in spite of lost answers,
\* restarts and a replacement that races it: the lane comes free again.
LaneComesFree ==
    []<>(\A r \in RowIds :
            ~ (rows[r].state \in {"broadcasting", "unknown"} /\ rows[r].sig \in sent))

=============================================================================
