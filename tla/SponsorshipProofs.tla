-------------------------- MODULE SponsorshipProofs --------------------------
(***************************************************************************)
(* The budgets of Sponsorship hold for any number of requests, people,     *)
(* limits and days.  The inductive invariant joins the types, what each    *)
(* step of a request has done so far (Progress), and the properties.       *)
(***************************************************************************)
EXTENDS SponsorshipProps, SumTheorems, TLAPS

Asked == [request : RequestOptions, at : Times]
Steps == {"new", "reserve", "sign", "commit", "release", "done"}
Signature == [sender : Users, nonce : Nat, maxCost : Nat, validUntil : Nat, version : Nat]

\* The service's part of the state.
ServiceTypeOK ==
    /\ now \in Times /\ serviceVersion \in Nat /\ policyVersion \in Nat
    /\ step \in [Requests -> Steps]
    /\ asked \in [Requests -> Asked \cup {None}]
    /\ signed \in [Requests -> Signature \cup {None}]
    /\ delivered \subseteq Signature /\ consumedSponsorship \subseteq delivered

\* The chain's part of the state.
ChainTypeOK ==
    /\ budgets \in BudgetOptions \cup {InitialBudgets}
    /\ reservedByDay \in [Accounts -> Int]
    /\ spentByDay \in [Accounts -> Int]
    /\ taken \in [Accounts -> Int]
    /\ bundle \subseteq [sender : Users, nonce : Nat, day : Days, maxCost : Nat]

\* What a request has done when it reaches a step.
RequestProgress(r) ==
    /\ step[r] \in {"new", "reserve"} => leases[r].state = "none"
    /\ leases[r].state \in {"committed", "released"} => step[r] = "done"
    /\ step[r] = "reserve" => asked[r] \in Asked
    /\ step[r] \in {"sign", "commit", "release"} =>
         /\ asked[r] \in Asked
         /\ leases[r].need = asked[r].request.need
         /\ leases[r].day = DayOf(asked[r].at)
    /\ step[r] = "commit" =>
         /\ signed[r] \in Signature
         /\ signed[r].maxCost = asked[r].request.need["cost"]
         /\ signed[r].validUntil = asked[r].at + Validity

Progress == \A r \in Requests : RequestProgress(r)

-----------------------------------------------------------------------------
(* The counters of the budget store *)

\* What a lease needs of a counter is a natural number.
LEMMA NeedNat ==
    ASSUME NEW lease \in Lease, NEW row \in Rows
    PROVE  Need(lease, row) \in Nat
<1>1. row[2][2] \in Kinds
  BY DEF Rows, Counters, Kinds
<1>2. lease.need[row[2][2]] \in Nat
  BY <1>1 DEF Lease
<1> QED
  BY <1>2 DEF Need

\* Limits are natural numbers.
LEMMA LimitNat ==
    ASSUME NEW row \in Rows
    PROVE  LimitOf(row) \in Nat
  BY BudgetAssumption DEF Rows, Counters, LimitOf

\* The summands of the counters are natural numbers.
LEMMA SummandsNat ==
    ASSUME BudgetTypeOK, NEW row \in Rows
    PROVE  /\ \A r \in Requests : ReservedNeeds(row)[r] \in Nat
           /\ \A r \in Requests : CommittedNeeds(row)[r] \in Nat
<1> SUFFICES ASSUME NEW r \in Requests
             PROVE  ReservedNeeds(row)[r] \in Nat /\ CommittedNeeds(row)[r] \in Nat
  OBVIOUS
<1>1. leases[r] \in Lease
  BY DEF BudgetTypeOK
<1>2. Need(leases[r], row) \in Nat
  BY <1>1, NeedNat
<1> QED
  BY <1>2 DEF ReservedNeeds, CommittedNeeds

\* A new lease moves the counters by its need (reserve).
LEMMA ReserveExact ==
    ASSUME BudgetTypeOK, BudgetExact, NEW r \in Requests, leases[r].state = "none",
           NEW day \in Days, NEW subject \in Users, NEW need \in [Kinds -> Nat],
           ReserveBudget(r, day, subject, need)
    PROVE  BudgetTypeOK' /\ BudgetExact'
<1> DEFINE lease == [state |-> "reserved", day |-> day, subject |-> subject, need |-> need]
<1>1. lease \in Lease
  BY DEF Lease, Payers
<1>2. leases' = [leases EXCEPT ![r] = lease]
  BY DEF ReserveBudget
<1>3. \A row \in Rows : Need(lease, row) \in Nat
  BY <1>1, NeedNat
<1>4. BudgetTypeOK'
  <2>1. leases' \in [Requests -> Lease]
    BY <1>1, <1>2 DEF BudgetTypeOK
  <2>2. reserved' \in [Rows -> Int] /\ committed' \in [Rows -> Int]
    BY <1>3 DEF BudgetTypeOK, ReserveBudget
  <2> QED
    BY <2>1, <2>2 DEF BudgetTypeOK
<1>5. ASSUME NEW row \in Rows
      PROVE  /\ reserved'[row] = Total(ReservedNeeds(row)', Requests)
             /\ committed'[row] = Total(CommittedNeeds(row)', Requests)
             /\ reserved'[row] + committed'[row] <= LimitOf(row)
  <2> DEFINE f == ReservedNeeds(row)
             g == ReservedNeeds(row)'
             c == CommittedNeeds(row)
             d == CommittedNeeds(row)'
  <2>1. \A x \in Requests : f[x] \in Nat /\ c[x] \in Nat
    BY SummandsNat
  <2>2. \A x \in Requests \ {r} : leases'[x] = leases[x]
    BY <1>2 DEF BudgetTypeOK
  <2>3. leases'[r] = lease
    BY <1>2 DEF BudgetTypeOK
  <2>4. \A x \in Requests \ {r} : g[x] = f[x] /\ d[x] = c[x]
    BY <2>2 DEF ReservedNeeds, CommittedNeeds, Need, Concerns
  <2>5. f[r] = 0 /\ g[r] = Need(lease, row)
    <3>1. lease.state = "reserved"
      OBVIOUS
    <3> HIDE DEF lease
    <3> QED
      BY <2>3, <3>1 DEF ReservedNeeds, Need, Concerns
  <2>6. c[r] = 0 /\ d[r] = 0
    <3>1. lease.state = "reserved"
      OBVIOUS
    <3> HIDE DEF lease
    <3> QED
      BY <2>3, <3>1 DEF CommittedNeeds
  <2>7. Need(lease, row) \in Nat
    BY <1>3
  <2>8. \A x \in Requests : g[x] \in Nat
    BY <2>1, <2>4, <2>5, <2>7
  <2>9. IsFiniteSet(Requests)
    BY BudgetAssumption
  <2>10. Total(g, Requests) = Total(f, Requests) - f[r] + g[r]
    <3> HIDE DEF f, g
    <3> QED
      BY <2>1, <2>4, <2>8, <2>9, TotalUpdate
  <2>11. Total(d, Requests) = Total(c, Requests)
    <3>1. \A x \in Requests : d[x] = c[x]
      BY <2>4, <2>6
    <3> HIDE DEF c, d
    <3> QED
      BY <2>1, <2>9, <3>1, TotalSame
  <2>12. /\ reserved[row] = Total(f, Requests) /\ committed[row] = Total(c, Requests)
         /\ reserved[row] + committed[row] <= LimitOf(row)
    BY DEF BudgetExact
  <2>13. reserved[row] \in Int /\ committed[row] \in Int /\ LimitOf(row) \in Nat
    BY LimitNat DEF BudgetTypeOK
  <2>14. reserved'[row] = reserved[row] + Need(lease, row) /\ committed'[row] = committed[row]
    BY DEF ReserveBudget
  <2>15. reserved[row] + committed[row] + Need(lease, row) <= LimitOf(row)
    <3>1. CASE Concerns(lease, row)
      BY <3>1 DEF ReserveBudget, WithinLimits
    <3>2. CASE ~Concerns(lease, row)
      <4>1. Need(lease, row) = 0
        BY <3>2 DEF Need
      <4> HIDE DEF lease
      <4> QED
        BY <4>1, <2>12, <2>13
    <3> QED
      BY <3>1, <3>2
  <2> HIDE DEF lease, f, g, c, d
  <2>16. reserved'[row] = Total(g, Requests)
    BY <2>5, <2>7, <2>10, <2>12, <2>13, <2>14
  <2>17. committed'[row] = Total(d, Requests)
    BY <2>11, <2>12, <2>14
  <2>18. reserved'[row] + committed'[row] <= LimitOf(row)
    BY <2>7, <2>13, <2>14, <2>15
  <2> QED
    BY <2>16, <2>17, <2>18 DEF g, d
<1>6. BudgetExact'
  BY <1>5 DEF BudgetExact, LimitOf
<1> QED
  BY <1>4, <1>6

\* A lease that is finalised takes its need out of one counter and, when it
\* is committed, into the other (transitionLease).
LEMMA FinalizeExact ==
    ASSUME BudgetTypeOK, BudgetExact, NEW r \in Requests,
           NEW target \in {"committed", "released"}, FinalizeLease(r, target)
    PROVE  BudgetTypeOK' /\ BudgetExact'
<1>1. leases[r] \in Lease /\ leases[r].state = "reserved"
  BY DEF BudgetTypeOK, FinalizeLease
<1>2. leases' = [leases EXCEPT ![r].state = target]
  BY DEF FinalizeLease
<1>3. \A row \in Rows : Need(leases[r], row) \in Nat
  BY <1>1, NeedNat
<1>4. BudgetTypeOK'
  <2>1. leases' \in [Requests -> Lease]
    BY <1>1, <1>2 DEF BudgetTypeOK, Lease
  <2>2. reserved' \in [Rows -> Int] /\ committed' \in [Rows -> Int]
    BY <1>3 DEF BudgetTypeOK, FinalizeLease
  <2> QED
    BY <2>1, <2>2 DEF BudgetTypeOK
<1>5. leases'[r].state = target /\ \A row \in Rows : Need(leases'[r], row) = Need(leases[r], row)
  <2>1. /\ leases'[r].state = target /\ leases'[r].day = leases[r].day
        /\ leases'[r].subject = leases[r].subject /\ leases'[r].need = leases[r].need
    BY <1>1, <1>2 DEF BudgetTypeOK, Lease
  <2> QED
    BY <2>1 DEF Need, Concerns
<1>6. ASSUME NEW row \in Rows
      PROVE  /\ reserved'[row] = Total(ReservedNeeds(row)', Requests)
             /\ committed'[row] = Total(CommittedNeeds(row)', Requests)
             /\ reserved'[row] + committed'[row] <= LimitOf(row)
  <2> DEFINE f == ReservedNeeds(row)
             g == ReservedNeeds(row)'
             c == CommittedNeeds(row)
             d == CommittedNeeds(row)'
             n == Need(leases[r], row)
  <2>1. \A x \in Requests : f[x] \in Nat /\ c[x] \in Nat
    BY SummandsNat
  <2>2. \A x \in Requests \ {r} : leases'[x] = leases[x]
    BY <1>2 DEF BudgetTypeOK
  <2>3. \A x \in Requests \ {r} : g[x] = f[x] /\ d[x] = c[x]
    BY <2>2 DEF ReservedNeeds, CommittedNeeds, Need, Concerns
  <2>4. f[r] = n /\ g[r] = 0 /\ c[r] = 0
    BY <1>1, <1>5 DEF ReservedNeeds, CommittedNeeds
  <2>5. d[r] = IF target = "committed" THEN n ELSE 0
    <3>1. d[r] = IF leases'[r].state = "committed" THEN Need(leases'[r], row) ELSE 0
      BY DEF CommittedNeeds, Need, Concerns
    <3> QED
      BY <1>5, <3>1
  <2>6. n \in Nat
    BY <1>3
  <2>7. \A x \in Requests : g[x] \in Nat /\ d[x] \in Nat
    BY <2>1, <2>3, <2>4, <2>5, <2>6
  <2>8. IsFiniteSet(Requests)
    BY BudgetAssumption
  <2> HIDE DEF f, g, c, d, n
  <2>9. Total(g, Requests) = Total(f, Requests) - f[r] + g[r]
    BY <2>1, <2>3, <2>7, <2>8, TotalUpdate
  <2>10. Total(d, Requests) = Total(c, Requests) - c[r] + d[r]
    BY <2>1, <2>3, <2>7, <2>8, TotalUpdate
  <2>11. /\ reserved[row] = Total(f, Requests) /\ committed[row] = Total(c, Requests)
         /\ reserved[row] + committed[row] <= LimitOf(row)
    BY DEF BudgetExact, f, c
  <2>12. reserved[row] \in Int /\ committed[row] \in Int /\ LimitOf(row) \in Nat
    BY LimitNat DEF BudgetTypeOK
  <2>13. reserved'[row] = reserved[row] - n
    BY DEF FinalizeLease, n
  <2>14. committed'[row] = committed[row] + (IF target = "committed" THEN n ELSE 0)
    BY <2>12 DEF FinalizeLease, n
  <2>15. reserved'[row] = Total(g, Requests)
    BY <2>4, <2>6, <2>9, <2>11, <2>12, <2>13
  <2>16. committed'[row] = Total(d, Requests)
    BY <2>4, <2>5, <2>6, <2>10, <2>11, <2>12, <2>14
  <2>17. reserved'[row] + committed'[row] <= LimitOf(row)
    BY <2>6, <2>11, <2>12, <2>13, <2>14
  <2> QED
    BY <2>15, <2>16, <2>17 DEF g, d
<1>7. BudgetExact'
  BY <1>6 DEF BudgetExact, LimitOf
<1> QED
  BY <1>4, <1>7

\* Steps that leave the store alone.
LEMMA BudgetUntouched ==
    ASSUME BudgetTypeOK, BudgetExact, UNCHANGED budgetVars
    PROVE  BudgetTypeOK' /\ BudgetExact'
  BY DEF BudgetTypeOK, BudgetExact, budgetVars, ReservedNeeds, CommittedNeeds, Need, Concerns, LimitOf

-----------------------------------------------------------------------------
(* The chain *)

ChainInv == ChainTypeOK /\ LossBounded

\* Moving an amount changes the entries of the day for both payers.
LEMMA MovedEntries ==
    ASSUME NEW f \in [Accounts -> Int], NEW day \in Days, NEW sender \in Users,
           NEW amount \in Int
    PROVE  /\ Moved(f, day, sender, amount) \in [Accounts -> Int]
           /\ \A x \in Accounts :
                Moved(f, day, sender, amount)[x] =
                  IF x[1] = day /\ x[2] \in {sender, Everybody} THEN f[x] + amount ELSE f[x]
  BY DEF Moved

\* The same, of one entry.
LEMMA MovedEntry ==
    ASSUME NEW f \in [Accounts -> Int], NEW day \in Days, NEW sender \in Users,
           NEW amount \in Int, NEW x \in Accounts
    PROVE  /\ f[x] \in Int
           /\ x[1] = day /\ x[2] \in {sender, Everybody} =>
                Moved(f, day, sender, amount)[x] = f[x] + amount
           /\ ~(x[1] = day /\ x[2] \in {sender, Everybody}) =>
                Moved(f, day, sender, amount)[x] = f[x]
  BY DEF Moved

\* An operation that is validated reserves what the EntryPoint takes.
LEMMA ValidateBounded ==
    ASSUME ChainInv, now \in Times, NEW s \in Signature, NEW maxCost \in 1..s.maxCost,
           ValidateOperation(s, maxCost)
    PROVE  ChainInv'
<1> DEFINE day == DayOf(now)
<1>1. day \in Days /\ s.sender \in Users /\ maxCost \in Int /\ maxCost \in Nat /\ s.nonce \in Nat
  BY DEF Days, Signature
<1>2. /\ reservedByDay' = Moved(reservedByDay, day, s.sender, maxCost)
      /\ taken' = Moved(taken, day, s.sender, maxCost)
      /\ spentByDay' = spentByDay /\ budgets' = budgets
      /\ \A payer \in {s.sender, Everybody} :
           spentByDay[<<day, payer>>] + reservedByDay[<<day, payer>>] + maxCost <= BudgetOf(budgets, payer)
      /\ bundle' = bundle \cup {[sender |-> s.sender, nonce |-> s.nonce, day |-> day, maxCost |-> maxCost]}
  BY DEF ValidateOperation, ValidatePaymasterUserOp
<1> HIDE DEF day
<1>3. /\ reservedByDay \in [Accounts -> Int] /\ spentByDay \in [Accounts -> Int]
      /\ taken \in [Accounts -> Int]
  BY DEF ChainInv, ChainTypeOK
<1>4. ChainTypeOK'
  <2>1. reservedByDay' \in [Accounts -> Int] /\ taken' \in [Accounts -> Int]
    BY <1>1, <1>2, MovedEntries DEF ChainInv, ChainTypeOK
  <2>2. bundle' \subseteq [sender : Users, nonce : Nat, day : Days, maxCost : Nat]
    BY <1>1, <1>2 DEF ChainInv, ChainTypeOK
  <2> QED
    BY <1>2, <2>1, <2>2 DEF ChainInv, ChainTypeOK
<1>5. ASSUME NEW x \in Accounts
      PROVE  /\ taken'[x] <= spentByDay'[x] + reservedByDay'[x]
             /\ \E b \in BudgetOptions \cup {InitialBudgets} :
                  spentByDay'[x] + reservedByDay'[x] <= BudgetOf(b, x[2])
  <2>1. /\ taken[x] \in Int /\ spentByDay[x] \in Int /\ reservedByDay[x] \in Int
        /\ taken[x] <= spentByDay[x] + reservedByDay[x]
    BY DEF ChainInv, ChainTypeOK, LossBounded
  <2>2. CASE x[1] = day /\ x[2] \in {s.sender, Everybody}
    <3>1. taken'[x] = taken[x] + maxCost /\ reservedByDay'[x] = reservedByDay[x] + maxCost
      <4>1. Moved(taken, day, s.sender, maxCost)[x] = taken[x] + maxCost
        BY <1>1, <1>3, <2>2, MovedEntry
      <4>2. Moved(reservedByDay, day, s.sender, maxCost)[x] = reservedByDay[x] + maxCost
        BY <1>1, <1>3, <2>2, MovedEntry
      <4> QED
        BY <1>2, <4>1, <4>2
    <3>2. x = <<day, x[2]>>
      BY <2>2 DEF Accounts
    <3>3. spentByDay[x] + reservedByDay[x] + maxCost <= BudgetOf(budgets, x[2])
      BY <1>2, <2>2, <3>2
    <3>4. spentByDay'[x] + reservedByDay'[x] = spentByDay[x] + reservedByDay[x] + maxCost
      BY <1>1, <1>2, <2>1, <3>1
    <3>5. budgets \in BudgetOptions \cup {InitialBudgets}
      BY DEF ChainInv, ChainTypeOK
    <3> QED
      BY <1>1, <1>2, <2>1, <3>1, <3>3, <3>4, <3>5
  <2>3. CASE ~(x[1] = day /\ x[2] \in {s.sender, Everybody})
    <3>1. taken'[x] = taken[x] /\ reservedByDay'[x] = reservedByDay[x]
      <4>1. Moved(taken, day, s.sender, maxCost)[x] = taken[x]
        BY <1>1, <1>3, <2>3, MovedEntry
      <4>2. Moved(reservedByDay, day, s.sender, maxCost)[x] = reservedByDay[x]
        BY <1>1, <1>3, <2>3, MovedEntry
      <4> QED
        BY <1>2, <4>1, <4>2
    <3> QED
      BY <1>2, <2>1, <3>1 DEF ChainInv, LossBounded
  <2> QED
    BY <2>2, <2>3
<1> QED
  BY <1>4, <1>5 DEF ChainInv, LossBounded, BudgetOf

\* Turning a reservation into spending leaves their sum as it is.
LEMMA MovedSum ==
    ASSUME NEW f \in [Accounts -> Int], NEW g \in [Accounts -> Int],
           NEW day \in Days, NEW sender \in Users, NEW amount \in Int, NEW x \in Accounts
    PROVE  /\ Moved(f, day, sender, -amount) \in [Accounts -> Int]
           /\ Moved(g, day, sender, amount) \in [Accounts -> Int]
           /\ Moved(g, day, sender, amount)[x] + Moved(f, day, sender, -amount)[x] = g[x] + f[x]
<1>1. -amount \in Int
  OBVIOUS
<1> DEFINE less == -amount
<1>2. less \in Int
  BY <1>1
<1>3. less + amount = 0
  OBVIOUS
<1> HIDE DEF less
<1>4. f[x] \in Int /\ g[x] \in Int
  OBVIOUS
<1>5. Moved(g, day, sender, amount)[x] + Moved(f, day, sender, less)[x] = g[x] + f[x]
  <2>1. CASE x[1] = day /\ x[2] \in {sender, Everybody}
    <3>1. Moved(f, day, sender, less)[x] = f[x] + less
      BY <1>2, <2>1, MovedEntry
    <3>2. Moved(g, day, sender, amount)[x] = g[x] + amount
      BY <2>1, MovedEntry
    <3> QED
      BY <1>2, <1>3, <1>4, <3>1, <3>2
  <2>2. CASE ~(x[1] = day /\ x[2] \in {sender, Everybody})
    <3>1. Moved(f, day, sender, less)[x] = f[x]
      BY <1>2, <2>2, MovedEntry
    <3>2. Moved(g, day, sender, amount)[x] = g[x]
      BY <2>2, MovedEntry
    <3> QED
      BY <1>4, <3>1, <3>2
  <2> QED
    BY <2>1, <2>2
<1>6. /\ Moved(f, day, sender, less) \in [Accounts -> Int]
      /\ Moved(g, day, sender, amount) \in [Accounts -> Int]
  BY <1>2, MovedEntries
<1> QED
  BY <1>5, <1>6 DEF less

\* An operation that is executed costs no more than what was taken for it,
\* and stays charged in full, whether postOp succeeds or not.
LEMMA ExecuteBounded ==
    ASSUME ChainInv, NEW context \in bundle, NEW cost \in 1..context.maxCost,
           ExecuteOperation(context, cost)
    PROVE  ChainInv'
<1>1. /\ context.day \in Days /\ context.sender \in Users
      /\ context.maxCost \in Nat /\ cost \in Nat /\ cost <= context.maxCost
      /\ -context.maxCost \in Int /\ context.maxCost \in Int /\ cost - context.maxCost \in Int
  BY DEF ChainInv, ChainTypeOK
<1>2. /\ bundle' = bundle \ {context}
      /\ taken' = Moved(taken, context.day, context.sender, cost - context.maxCost)
      /\ PostOp(context, cost - 1) \/ UNCHANGED paymasterVars
  BY DEF ExecuteOperation
<1>3. /\ budgets' = budgets
      /\ \/ /\ reservedByDay' = Moved(reservedByDay, context.day, context.sender, -context.maxCost)
            /\ spentByDay' = Moved(spentByDay, context.day, context.sender, context.maxCost)
         \/ reservedByDay' = reservedByDay /\ spentByDay' = spentByDay
  BY <1>2 DEF PostOp, paymasterVars
<1>4. /\ reservedByDay \in [Accounts -> Int] /\ spentByDay \in [Accounts -> Int]
      /\ taken \in [Accounts -> Int]
  BY DEF ChainInv, ChainTypeOK
<1>5. ChainTypeOK'
  <2>1. taken' \in [Accounts -> Int]
    BY <1>1, <1>2, <1>4, MovedEntries
  <2>2. reservedByDay' \in [Accounts -> Int] /\ spentByDay' \in [Accounts -> Int]
    <3>1. CASE reservedByDay' = reservedByDay /\ spentByDay' = spentByDay
      BY <1>4, <3>1
    <3>2. CASE /\ reservedByDay' = Moved(reservedByDay, context.day, context.sender, -context.maxCost)
               /\ spentByDay' = Moved(spentByDay, context.day, context.sender, context.maxCost)
      BY <1>1, <1>4, <3>2, MovedEntries
    <3> QED
      BY <1>3, <3>1, <3>2
  <2> QED
    BY <1>2, <1>3, <2>1, <2>2 DEF ChainInv, ChainTypeOK
<1>6. ASSUME NEW x \in Accounts
      PROVE  /\ taken'[x] <= taken[x] /\ taken'[x] \in Int
             /\ spentByDay'[x] + reservedByDay'[x] = spentByDay[x] + reservedByDay[x]
  <2>1. taken[x] \in Int /\ spentByDay[x] \in Int /\ reservedByDay[x] \in Int
    BY DEF ChainInv, ChainTypeOK
  <2> DEFINE change == cost - context.maxCost
  <2>2. change \in Int /\ change <= 0 /\ taken' = Moved(taken, context.day, context.sender, change)
    BY <1>1, <1>2
  <2> HIDE DEF change
  <2>3. taken'[x] <= taken[x] /\ taken'[x] \in Int
    <3>1. \/ Moved(taken, context.day, context.sender, change)[x] = taken[x] + change
          \/ Moved(taken, context.day, context.sender, change)[x] = taken[x]
      BY <1>1, <1>4, <2>2, MovedEntry
    <3> QED
      BY <2>1, <2>2, <3>1
  <2>4. CASE reservedByDay' = reservedByDay /\ spentByDay' = spentByDay
    BY <2>3, <2>4
  <2>5. CASE /\ reservedByDay' = Moved(reservedByDay, context.day, context.sender, -context.maxCost)
             /\ spentByDay' = Moved(spentByDay, context.day, context.sender, context.maxCost)
    <3>1. /\ context.day \in Days /\ context.sender \in Users /\ context.maxCost \in Int
      BY <1>1
    <3> DEFINE amount == context.maxCost
    <3>2. Moved(spentByDay, context.day, context.sender, amount)[x]
            + Moved(reservedByDay, context.day, context.sender, -amount)[x] = spentByDay[x] + reservedByDay[x]
      <4>1. amount \in Int
        BY <3>1
      <4> HIDE DEF amount
      <4> QED
        BY <1>4, <3>1, <4>1, MovedSum
    <3> QED
      BY <2>3, <2>5, <3>2
  <2> QED
    BY <1>3, <2>4, <2>5
<1>7. ASSUME NEW x \in Accounts
      PROVE  /\ taken'[x] <= spentByDay'[x] + reservedByDay'[x]
             /\ \E b \in BudgetOptions \cup {InitialBudgets} :
                  spentByDay'[x] + reservedByDay'[x] <= BudgetOf(b, x[2])
  <2>1. taken[x] \in Int /\ spentByDay[x] \in Int /\ reservedByDay[x] \in Int
    BY DEF ChainInv, ChainTypeOK
  <2>2. /\ taken[x] <= spentByDay[x] + reservedByDay[x]
        /\ \E b \in BudgetOptions \cup {InitialBudgets} :
             spentByDay[x] + reservedByDay[x] <= BudgetOf(b, x[2])
    BY DEF ChainInv, LossBounded
  <2> QED
    BY <1>6, <2>1, <2>2
<1> QED
  BY <1>5, <1>7 DEF ChainInv, LossBounded, BudgetOf

\* Steps that leave the charges alone.
LEMMA ChainUntouched ==
    ASSUME ChainInv, UNCHANGED <<reservedByDay, spentByDay, taken, bundle>>,
           budgets' \in BudgetOptions \cup {InitialBudgets}
    PROVE  ChainInv'
  BY DEF ChainInv, ChainTypeOK, LossBounded, BudgetOf

-----------------------------------------------------------------------------
(* The whole system *)

IInv ==
    /\ ServiceTypeOK /\ Progress
    /\ BudgetTypeOK /\ BudgetExact
    /\ ConsumedIsLeased
    /\ ChainInv

\* A lease that pays for a signature.
Pays(r, s) ==
    /\ signed[r] = s
    /\ leases[r].state = "committed" /\ leases[r].need["cost"] = s.maxCost
    /\ leases[r].day = DayOf(s.validUntil - Validity)

\* Days and members of requests that were asked.
LEMMA AskedFields ==
    ASSUME NEW a \in Asked
    PROVE  /\ a.at \in Times /\ a.at \in Nat /\ DayOf(a.at) \in Days
           /\ a.request.subject \in Users /\ a.request.sender \in Users
           /\ a.request.nonce \in Nat /\ a.request.need \in [Kinds -> Nat]
<1>1. a.at \in Times /\ a.request \in RequestOptions
  BY DEF Asked
<1>2. a.at \in Nat
  BY <1>1, SponsorTypesAssumption DEF Times
<1>3. DayOf(a.at) \in Days
  BY <1>1 DEF Days
<1> QED
  BY <1>1, <1>2, <1>3, SponsorshipAssumption

\* A request that stays as it is has the progress it had.
LEMMA OthersProgress ==
    ASSUME Progress, NEW r \in Requests,
           step'[r] = step[r], asked'[r] = asked[r], signed'[r] = signed[r], leases'[r] = leases[r]
    PROVE  RequestProgress(r)'
  BY DEF Progress, RequestProgress

\* Signatures stay paid for while their request and its lease stay.
LEMMA StillPaid ==
    ASSUME ConsumedIsLeased, NEW s \in delivered \cup consumedSponsorship,
           \A r \in Requests : leases[r].state = "committed" =>
               signed'[r] = signed[r] /\ leases'[r] = leases[r]
    PROVE  \E r \in Requests : Pays(r, s)'
  BY DEF ConsumedIsLeased, Pays

\* The service starts with no leases and the chain with no charges.
LEMMA InitInv == Init => IInv
<1> SUFFICES ASSUME Init PROVE IInv
  OBVIOUS
<1> USE DEF Init, BudgetInit, PaymasterInit
<1>1. 0 \in Times /\ 0 \in Days
  <2>1. 0 \in Times
    BY SponsorTypesAssumption DEF Times
  <2>2. DayOf(0) = 0
    BY SponsorTypesAssumption DEF DayOf
  <2> QED
    BY <2>1, <2>2 DEF Days
<1>2. ServiceTypeOK
  BY <1>1 DEF ServiceTypeOK, Steps
<1>3. NoLease \in Lease /\ NoLease.state = "none"
  BY <1>1 DEF NoLease, Lease, Payers
<1>4. Progress
  BY <1>3 DEF Progress, RequestProgress
<1>5. BudgetTypeOK
  BY <1>3 DEF BudgetTypeOK
<1>6. BudgetExact
  <2> SUFFICES ASSUME NEW row \in Rows
               PROVE  /\ reserved[row] = Total(ReservedNeeds(row), Requests)
                      /\ committed[row] = Total(CommittedNeeds(row), Requests)
                      /\ reserved[row] + committed[row] <= LimitOf(row)
    BY DEF BudgetExact
  <2>1. ReservedNeeds(row) = [r \in Requests |-> 0] /\ CommittedNeeds(row) = [r \in Requests |-> 0]
    BY <1>3 DEF ReservedNeeds, CommittedNeeds
  <2>2. Total([r \in Requests |-> 0], Requests) = 0
    BY BudgetAssumption, TotalZero
  <2>3. reserved[row] = 0 /\ committed[row] = 0
    OBVIOUS
  <2> QED
    BY <2>1, <2>2, <2>3, LimitNat
<1>7. ConsumedIsLeased
  BY DEF ConsumedIsLeased
<1>8. ChainInv
  <2>1. ChainTypeOK
    BY DEF ChainTypeOK
  <2>2. \A payer \in Payers : 0 <= BudgetOf(InitialBudgets, payer)
    BY PaymasterAssumption DEF BudgetOf, Budgets
  <2>3. LossBounded
    BY <2>2 DEF LossBounded, Accounts
  <2> QED
    BY <2>1, <2>3 DEF ChainInv
<1> QED
  BY <1>2, <1>4, <1>5, <1>6, <1>7, <1>8 DEF IInv

\* Steps of a request that leave counters, signatures and the chain alone.
LEMMA ReceiveInv ==
    ASSUME IInv, NEW r \in Requests, NEW q \in RequestOptions, Receive(r, q)
    PROVE  IInv'
<1> USE DEF IInv
<1> DEFINE a == [request |-> q, at |-> now]
<1>1. /\ step[r] = "new" /\ step' = [step EXCEPT ![r] = "reserve"]
      /\ asked' = [asked EXCEPT ![r] = a]
      /\ UNCHANGED <<now, budgetVars, paymasterVars, serviceVersion, signed, delivered, entryVars>>
  BY DEF Receive, GoTo
<1>2. a \in Asked
  BY DEF Asked, ServiceTypeOK
<1> HIDE DEF a
<1>3. ServiceTypeOK'
  BY <1>1, <1>2 DEF ServiceTypeOK, Steps, paymasterVars
<1>4. Progress'
  <2>1. RequestProgress(r)'
    BY <1>1, <1>2 DEF Progress, RequestProgress, ServiceTypeOK, budgetVars
  <2>2. ASSUME NEW x \in Requests \ {r} PROVE RequestProgress(x)'
    BY <1>1, OthersProgress DEF ServiceTypeOK, budgetVars
  <2> QED
    BY <2>1, <2>2 DEF Progress
<1>5. BudgetTypeOK' /\ BudgetExact'
  BY <1>1, BudgetUntouched
<1>6. ConsumedIsLeased'
  BY <1>1 DEF ConsumedIsLeased, budgetVars, paymasterVars
<1>7. ChainInv'
  BY <1>1, ChainUntouched DEF paymasterVars, entryVars, ChainInv, ChainTypeOK
<1> QED
  BY <1>3, <1>4, <1>5, <1>6, <1>7

\* A new lease is what the request asked for.
LEMMA ReserveInv ==
    ASSUME IInv, NEW r \in Requests, Reserve(r)
    PROVE  IInv'
<1> USE DEF IInv
<1> DEFINE a == asked[r]
           lease == [state |-> "reserved", day |-> DayOf(a.at),
                     subject |-> a.request.subject, need |-> a.request.need]
<1>1. /\ step[r] = "reserve" /\ step' = [step EXCEPT ![r] = "sign"]
      /\ ReserveBudget(r, DayOf(a.at), a.request.subject, a.request.need)
      /\ UNCHANGED <<now, paymasterVars, serviceVersion, asked, signed, delivered, entryVars>>
  BY DEF Reserve, GoTo
<1>2. leases' = [leases EXCEPT ![r] = lease]
  BY <1>1 DEF ReserveBudget
<1>3. a \in Asked /\ leases[r].state = "none"
  BY <1>1 DEF Progress, RequestProgress
<1>4. BudgetTypeOK' /\ BudgetExact'
  BY <1>1, <1>3, AskedFields, ReserveExact
<1>5. ServiceTypeOK'
  BY <1>1 DEF ServiceTypeOK, Steps, paymasterVars
<1>6. \A x \in Requests \ {r} : leases'[x] = leases[x]
  BY <1>2 DEF BudgetTypeOK
<1>7. Progress'
  <2>1. RequestProgress(r)'
    <3>1. leases'[r] = lease /\ step'[r] = "sign" /\ asked'[r] = a
      BY <1>1, <1>2 DEF BudgetTypeOK, ServiceTypeOK
    <3> QED
      BY <1>3, <3>1 DEF RequestProgress
  <2>2. ASSUME NEW x \in Requests \ {r} PROVE RequestProgress(x)'
    BY <1>1, <1>6, OthersProgress DEF ServiceTypeOK
  <2> QED
    BY <2>1, <2>2 DEF Progress
<1>8. ConsumedIsLeased'
  <2>1. \A x \in Requests : leases[x].state = "committed" => signed'[x] = signed[x] /\ leases'[x] = leases[x]
    BY <1>1, <1>3, <1>6
  <2>2. delivered' = delivered /\ consumedSponsorship' = consumedSponsorship
    BY <1>1 DEF paymasterVars
  <2>3. ASSUME NEW s \in delivered \cup consumedSponsorship
        PROVE  \E x \in Requests : Pays(x, s)'
    BY <2>1, StillPaid
  <2> QED
    BY <2>2, <2>3 DEF ConsumedIsLeased, Pays
<1>9. ChainInv'
  BY <1>1, ChainUntouched DEF paymasterVars, entryVars, ChainInv, ChainTypeOK
<1> QED
  BY <1>4, <1>5, <1>7, <1>8, <1>9

\* What is signed is what was leased.
LEMMA SignInv ==
    ASSUME IInv, NEW r \in Requests, Sign(r)
    PROVE  IInv'
<1> USE DEF IInv
<1>1. /\ step[r] = "sign"
      /\ \/ signed' = [signed EXCEPT ![r] = SponsorshipFor(r)] /\ step' = [step EXCEPT ![r] = "commit"]
         \/ step' = [step EXCEPT ![r] = "release"] /\ signed' = signed
      /\ UNCHANGED <<now, budgetVars, paymasterVars, serviceVersion, asked, delivered, entryVars>>
  BY DEF Sign, GoTo
<1>2. asked[r] \in Asked
  BY <1>1 DEF Progress, RequestProgress
<1>3. /\ SponsorshipFor(r) \in Signature
      /\ SponsorshipFor(r).maxCost = asked[r].request.need["cost"]
      /\ SponsorshipFor(r).validUntil = asked[r].at + Validity
  <2>1. asked[r].request.need["cost"] \in Nat
    BY <1>2, AskedFields DEF Kinds
  <2>2. asked[r].at + Validity \in Nat
    BY <1>2, AskedFields, SponsorshipAssumption
  <2> QED
    BY <1>2, <2>1, <2>2, AskedFields DEF SponsorshipFor, Signature, ServiceTypeOK
<1>4. ServiceTypeOK'
  BY <1>1, <1>3 DEF ServiceTypeOK, Steps, paymasterVars
<1>5. Progress'
  <2>1. RequestProgress(r)'
    <3>1. leases' = leases /\ asked' = asked
      BY <1>1 DEF budgetVars
    <3>2. /\ asked[r] \in Asked
          /\ leases[r].need = asked[r].request.need
          /\ leases[r].day = DayOf(asked[r].at)
          /\ leases[r].state \notin {"committed", "released"}
      BY <1>1 DEF Progress, RequestProgress
    <3>3. CASE step'[r] = "release"
      BY <3>1, <3>2, <3>3 DEF RequestProgress
    <3>4. CASE signed'[r] = SponsorshipFor(r) /\ step'[r] = "commit"
      BY <1>3, <3>1, <3>2, <3>4 DEF RequestProgress
    <3> QED
      BY <1>1, <3>3, <3>4 DEF ServiceTypeOK
  <2>2. ASSUME NEW x \in Requests \ {r} PROVE RequestProgress(x)'
    BY <1>1, OthersProgress DEF ServiceTypeOK, budgetVars
  <2> QED
    BY <2>1, <2>2 DEF Progress
<1>6. BudgetTypeOK' /\ BudgetExact'
  BY <1>1, BudgetUntouched
<1>7. ConsumedIsLeased'
  <2>1. leases[r].state # "committed" /\ leases' = leases
    BY <1>1 DEF Progress, RequestProgress, budgetVars
  <2>2. \A x \in Requests : leases[x].state = "committed" => signed'[x] = signed[x] /\ leases'[x] = leases[x]
    BY <1>1, <2>1 DEF ServiceTypeOK
  <2>3. delivered' = delivered /\ consumedSponsorship' = consumedSponsorship
    BY <1>1 DEF paymasterVars
  <2>4. ASSUME NEW s \in delivered \cup consumedSponsorship
        PROVE  \E x \in Requests : Pays(x, s)'
    BY <2>2, StillPaid
  <2> QED
    BY <2>3, <2>4 DEF ConsumedIsLeased, Pays
<1>8. ChainInv'
  BY <1>1, ChainUntouched DEF paymasterVars, entryVars, ChainInv, ChainTypeOK
<1> QED
  BY <1>4, <1>5, <1>6, <1>7, <1>8

\* The end of a request, with its lease finalised to target or as it was.
LEMMA FinishProgress ==
    ASSUME IInv, NEW r \in Requests, Finish(r), UNCHANGED signed,
           \A x \in Requests \ {r} : leases'[x] = leases[x]
    PROVE  /\ step' \in [Requests -> Steps] /\ asked' \in [Requests -> Asked \cup {None}]
           /\ Progress'
<1> USE DEF IInv
<1>1. step' = [step EXCEPT ![r] = "done"] /\ asked' = [asked EXCEPT ![r] = None]
  BY DEF Finish, GoTo
<1>2. step' \in [Requests -> Steps] /\ asked' \in [Requests -> Asked \cup {None}]
  BY <1>1 DEF ServiceTypeOK, Steps
<1>3. RequestProgress(r)'
  BY <1>1 DEF RequestProgress, ServiceTypeOK
<1>4. ASSUME NEW x \in Requests \ {r} PROVE RequestProgress(x)'
  BY <1>1, OthersProgress DEF ServiceTypeOK
<1> QED
  BY <1>2, <1>3, <1>4 DEF Progress

\* Only a committed lease brings its signature to a client.
LEMMA CommitInv ==
    ASSUME IInv, NEW r \in Requests, Commit(r)
    PROVE  IInv'
<1> USE DEF IInv
<1>1. /\ step[r] = "commit" /\ Finish(r)
      /\ \/ FinalizeLease(r, "committed") /\ delivered' \in {delivered, delivered \cup {signed[r]}}
         \/ UNCHANGED <<budgetVars, delivered>>
      /\ UNCHANGED <<now, paymasterVars, serviceVersion, signed, entryVars>>
  BY DEF Commit
<1>2. /\ asked[r] \in Asked /\ signed[r] \in Signature
      /\ leases[r].need = asked[r].request.need /\ leases[r].day = DayOf(asked[r].at)
      /\ signed[r].maxCost = asked[r].request.need["cost"]
      /\ signed[r].validUntil = asked[r].at + Validity
      /\ leases[r].state \notin {"committed", "released"}
  BY <1>1 DEF Progress, RequestProgress
<1>3. \A x \in Requests \ {r} : leases'[x] = leases[x]
  BY <1>1 DEF FinalizeLease, budgetVars, BudgetTypeOK
<1>4. /\ step' \in [Requests -> Steps] /\ asked' \in [Requests -> Asked \cup {None}]
      /\ Progress'
  BY <1>1, <1>3, FinishProgress
<1>5. ServiceTypeOK'
  BY <1>1, <1>2, <1>4 DEF ServiceTypeOK, paymasterVars
<1>6. BudgetTypeOK' /\ BudgetExact'
  BY <1>1, FinalizeExact, BudgetUntouched
<1>7. ConsumedIsLeased'
  <2>1. \A x \in Requests : leases[x].state = "committed" => signed'[x] = signed[x] /\ leases'[x] = leases[x]
    BY <1>1, <1>2, <1>3
  <2>2. ASSUME NEW s \in delivered \cup consumedSponsorship
        PROVE  \E x \in Requests : Pays(x, s)'
    BY <2>1, StillPaid
  <2>3. ASSUME FinalizeLease(r, "committed") PROVE Pays(r, signed[r])'
    <3>1. leases'[r].state = "committed" /\ leases'[r].need = leases[r].need /\ leases'[r].day = leases[r].day
      BY <2>3 DEF FinalizeLease, BudgetTypeOK, Lease
    <3>2. signed[r].validUntil - Validity = asked[r].at
      BY <1>2, AskedFields, SponsorshipAssumption
    <3> QED
      BY <1>1, <1>2, <3>1, <3>2 DEF Pays
  <2>4. consumedSponsorship' = consumedSponsorship
    BY <1>1 DEF paymasterVars
  <2> QED
    BY <1>1, <2>2, <2>3, <2>4 DEF ConsumedIsLeased, Pays
<1>8. ChainInv'
  BY <1>1, ChainUntouched DEF paymasterVars, entryVars, ChainInv, ChainTypeOK
<1> QED
  BY <1>4, <1>5, <1>6, <1>7, <1>8

\* A lease is released only while there is no signature to deliver.
LEMMA ReleaseInv ==
    ASSUME IInv, NEW r \in Requests, Release(r)
    PROVE  IInv'
<1> USE DEF IInv
<1>1. /\ step[r] = "release" /\ Finish(r)
      /\ FinalizeLease(r, "released") \/ UNCHANGED budgetVars
      /\ UNCHANGED <<now, paymasterVars, serviceVersion, signed, delivered, entryVars>>
  BY DEF Release
<1>2. leases[r].state # "committed"
  BY <1>1 DEF Progress, RequestProgress
<1>3. \A x \in Requests \ {r} : leases'[x] = leases[x]
  BY <1>1 DEF FinalizeLease, budgetVars, BudgetTypeOK
<1>4. /\ step' \in [Requests -> Steps] /\ asked' \in [Requests -> Asked \cup {None}]
      /\ Progress'
  BY <1>1, <1>3, FinishProgress
<1>5. ServiceTypeOK'
  BY <1>1, <1>4 DEF ServiceTypeOK, paymasterVars
<1>6. BudgetTypeOK' /\ BudgetExact'
  BY <1>1, FinalizeExact, BudgetUntouched
<1>7. ConsumedIsLeased'
  <2>1. \A x \in Requests : leases[x].state = "committed" => signed'[x] = signed[x] /\ leases'[x] = leases[x]
    BY <1>1, <1>2, <1>3
  <2>2. ASSUME NEW s \in delivered \cup consumedSponsorship
        PROVE  \E x \in Requests : Pays(x, s)'
    BY <2>1, StillPaid
  <2>3. delivered' = delivered /\ consumedSponsorship' = consumedSponsorship
    BY <1>1 DEF paymasterVars
  <2> QED
    BY <2>2, <2>3 DEF ConsumedIsLeased, Pays
<1>8. ChainInv'
  BY <1>1, ChainUntouched DEF paymasterVars, entryVars, ChainInv, ChainTypeOK
<1> QED
  BY <1>4, <1>5, <1>6, <1>7, <1>8

-----------------------------------------------------------------------------

\* Steps that touch neither requests nor what was delivered.
LEMMA ServiceUntouched ==
    ASSUME IInv, UNCHANGED <<budgetVars, step, asked, signed, delivered>>,
           consumedSponsorship' \subseteq delivered,
           now' \in Times, serviceVersion' \in Nat, policyVersion' \in Nat
    PROVE  ServiceTypeOK' /\ Progress' /\ BudgetTypeOK' /\ BudgetExact' /\ ConsumedIsLeased'
<1> USE DEF IInv
<1>1. ServiceTypeOK'
  BY DEF ServiceTypeOK
<1>2. Progress'
  BY DEF Progress, RequestProgress, budgetVars
<1>3. BudgetTypeOK' /\ BudgetExact'
  BY BudgetUntouched
<1>4. ConsumedIsLeased'
  BY DEF ConsumedIsLeased, budgetVars
<1> QED
  BY <1>1, <1>2, <1>3, <1>4

\* Steps of the EntryPoint.
LEMMA ValidateInv ==
    ASSUME IInv, NEW s \in delivered, NEW maxCost \in 1..s.maxCost, ValidateOperation(s, maxCost)
    PROVE  IInv'
<1>1. /\ UNCHANGED <<budgetVars, step, asked, signed, delivered>>
      /\ consumedSponsorship' = consumedSponsorship \cup {s}
      /\ UNCHANGED <<now, serviceVersion, policyVersion>>
  BY DEF ValidateOperation, ValidatePaymasterUserOp, serviceVars
<1>2. ServiceTypeOK' /\ Progress' /\ BudgetTypeOK' /\ BudgetExact' /\ ConsumedIsLeased'
  BY <1>1, ServiceUntouched DEF IInv, ServiceTypeOK
<1>3. ChainInv'
  BY ValidateBounded DEF IInv, ServiceTypeOK
<1> QED
  BY <1>2, <1>3 DEF IInv

\* postOp settles a reservation at its actual cost.
LEMMA ExecuteInv ==
    ASSUME IInv, NEW context \in bundle, NEW cost \in 1..context.maxCost,
           ExecuteOperation(context, cost)
    PROVE  IInv'
<1>1. /\ UNCHANGED <<budgetVars, step, asked, signed, delivered>>
      /\ UNCHANGED <<now, serviceVersion, policyVersion, consumedSponsorship>>
  BY DEF ExecuteOperation, PostOp, serviceVars, paymasterVars
<1>2. ServiceTypeOK' /\ Progress' /\ BudgetTypeOK' /\ BudgetExact' /\ ConsumedIsLeased'
  BY <1>1, ServiceUntouched DEF IInv, ServiceTypeOK
<1>3. ChainInv'
  BY ExecuteBounded DEF IInv
<1> QED
  BY <1>2, <1>3 DEF IInv

\* Governance, time and a restart of the service.
LEMMA OtherInv ==
    ASSUME IInv, Reconfigure \/ Govern \/ Tick \/ UNCHANGED vars
    PROVE  IInv'
<1>1. /\ UNCHANGED <<budgetVars, step, asked, signed, delivered, consumedSponsorship>>
      /\ UNCHANGED <<reservedByDay, spentByDay, taken, bundle>>
  BY DEF Reconfigure, Govern, Tick, vars, SetSponsorSigner, PausePaymaster, SetBudgets,
         serviceVars, paymasterVars, entryVars
<1>2. budgets' \in BudgetOptions \cup {InitialBudgets}
  BY DEF IInv, ChainInv, ChainTypeOK, Reconfigure, Govern, Tick, vars, SetSponsorSigner,
         PausePaymaster, SetBudgets, paymasterVars
<1>3. now' \in Times
  BY SponsorTypesAssumption
  DEF IInv, ServiceTypeOK, Reconfigure, Govern, Tick, vars, Times
<1>4. serviceVersion' \in Nat /\ policyVersion' \in Nat
  BY DEF IInv, ServiceTypeOK, Reconfigure, Govern, Tick, vars, SetSponsorSigner,
         PausePaymaster, SetBudgets, serviceVars, paymasterVars
<1>5. ServiceTypeOK' /\ Progress' /\ BudgetTypeOK' /\ BudgetExact' /\ ConsumedIsLeased'
  BY <1>1, <1>3, <1>4, ServiceUntouched DEF IInv, ServiceTypeOK
<1>6. ChainInv'
  BY <1>1, <1>2, ChainUntouched DEF IInv
<1> QED
  BY <1>5, <1>6 DEF IInv

\* The invariant is inductive.
LEMMA NextInv == IInv /\ [Next]_vars => IInv'
<1> SUFFICES ASSUME IInv, [Next]_vars PROVE IInv'
  OBVIOUS
<1>1. ASSUME NEW r \in Requests, NEW q \in RequestOptions, Receive(r, q) PROVE IInv'
  BY <1>1, ReceiveInv
<1>2. ASSUME NEW r \in Requests, Reserve(r) PROVE IInv'
  BY <1>2, ReserveInv
<1>3. ASSUME NEW r \in Requests, Sign(r) PROVE IInv'
  BY <1>3, SignInv
<1>4. ASSUME NEW r \in Requests, Commit(r) PROVE IInv'
  BY <1>4, CommitInv
<1>5. ASSUME NEW r \in Requests, Release(r) PROVE IInv'
  BY <1>5, ReleaseInv
<1>6. ASSUME NEW s \in delivered, NEW maxCost \in 1..s.maxCost, ValidateOperation(s, maxCost)
      PROVE  IInv'
  BY <1>6, ValidateInv
<1>7. ASSUME NEW context \in bundle, NEW cost \in 1..context.maxCost, ExecuteOperation(context, cost)
      PROVE  IInv'
  BY <1>7, ExecuteInv
<1>8. CASE Reconfigure \/ Govern \/ Tick \/ UNCHANGED vars
  BY <1>8, OtherInv
<1> QED
  BY <1>1, <1>2, <1>3, <1>4, <1>5, <1>6, <1>7, <1>8 DEF Next

\* The invariant holds in every state of every behaviour.
THEOREM SponsorshipInvariant == Spec => []IInv
  BY InitInv, NextInv, PTL DEF Spec

\* The counters of the budget store (postgres-budget-store.ts, reserve and
\* transitionLease) are what the leases say, within every limit.
THEOREM BudgetsAreExact == Spec => []BudgetExact
<1>1. IInv => BudgetExact
  BY DEF IInv
<1> QED
  BY <1>1, SponsorshipInvariant, PTL

\* Every sponsorship a client holds, or the paymaster has consumed, was paid
\* for by a committed lease (server.ts, POST /v1/sponsorship).
THEOREM ConsumedWasLeased == Spec => []ConsumedIsLeased
<1>1. IInv => ConsumedIsLeased
  BY DEF IInv
<1> QED
  BY <1>1, SponsorshipInvariant, PTL

\* The paymaster's charges cover what the EntryPoint keeps of its deposit, and
\* stay within a budget governance has set (SponsorshipPaymasterV1.postOp).
THEOREM LossIsBounded == Spec => []LossBounded
<1>1. IInv => LossBounded
  BY DEF IInv, ChainInv
<1> QED
  BY <1>1, SponsorshipInvariant, PTL

=============================================================================
