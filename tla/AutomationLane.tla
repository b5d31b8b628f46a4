--------------------------- MODULE AutomationLane ---------------------------
(***************************************************************************)
(* The signing lane of the automation worker: it keeps every signed        *)
(* transaction in the database before it is sent, follows it until the     *)
(* chain has settled it, and may replace it once under the same nonce.     *)
(* Processes share a signer under an advisory lock; each statement of the  *)
(* database and each view of the chain is an action, so a process may stop *)
(* or lose its lock between any two.                                       *)
(***************************************************************************)
EXTENDS Integers, FiniteSets, Sequences, Sums

CONSTANTS
    Workers, Jobs,
    Fickle,             \* jobs whose owners may opt out or settle them on their own
    NoWorker,           \* nobody holds the lock
    TxCosts,            \* maximum cost of a transaction: gas limit times fee
    DailyBudget,
    MaxRows, MaxDay, MaxMishaps     \* bounds of the runs; mishaps are counted together

ASSUME LaneAssumption ==
    /\ IsFiniteSet(Workers) /\ IsFiniteSet(Jobs) /\ Fickle \subseteq Jobs
    /\ NoWorker \notin Workers
    /\ TxCosts \subseteq Nat \ {0} /\ DailyBudget \in Nat
    /\ {MaxRows, MaxDay, MaxMishaps} \subseteq Nat

RowIds == 1..MaxRows
Bump   == 1         \* a replacement must offer a higher fee

VARIABLES
    day, faults, lockLosses, reorgs,
    optedOut,       \* jobs whose owner does not want the service
    paidByOwner,    \* jobs the owners settled themselves
    sent,           \* signed transactions the network has been handed: [job, nonce, cost]
    mined,          \* the signer's transactions on the chain, by nonce: [sig, ok]
    final,          \* how many of them are beyond the confirmations
    rows,           \* automation_transactions
    recoveries,     \* automation_recoveries, by transaction
    lock,           \* who holds the advisory lock
    pc, tick        \* of every worker

world  == <<day, faults, lockLosses, reorgs, optedOut, paidByOwner>>
chain  == <<sent, mined, final>>
tables == <<rows, recoveries>>
vars   == <<world, chain, tables, lock, pc, tick>>

\* Bug: a lost answer is taken for a failure.
PendingKnown == {"prepared", "broadcasting"}

Pending == {"prepared", "broadcasting", "unknown"}

NoSig      == [job |-> "none", nonce |-> 0, cost |-> 0]
NoRow      == [state |-> "none", sig |-> NoSig, reserved |-> 0, day |-> 0]
NoRecovery == [state |-> "none", original |-> NoSig, replacement |-> NoSig]
NoTick     == [queue |-> <<>>, row |-> 0, sig |-> NoSig]

Init ==
    /\ day = 0 /\ faults = 0 /\ lockLosses = 0 /\ reorgs = 0
    /\ optedOut = {} /\ paidByOwner = {}
    /\ sent = {} /\ mined = <<>> /\ final = 0
    /\ rows = [r \in RowIds |-> NoRow]
    /\ recoveries = [r \in RowIds |-> NoRecovery]
    /\ lock = NoWorker
    /\ pc = [w \in Workers |-> "idle"]
    /\ tick = [w \in Workers |-> NoTick]

-----------------------------------------------------------------------------
(* What the worker reads *)

Settled == paidByOwner \cup {mined[n].sig.job : n \in {k \in DOMAIN mined : mined[k].ok}}
Eligible(job) == job \notin Settled
Enabled(job)  == job \notin optedOut

MinedSigs == {mined[n].sig : n \in DOMAIN mined}

\* The nonce a node may count as the next one, with the transactions it
\* happens to hold unmined.
PendingCounts ==
    {n \in Len(mined)..MaxRows : \A k \in Len(mined)..(n - 1) : \E s \in sent : s.nonce = k}

Reserved(S) == Total([r \in RowIds |-> IF r \in S THEN rows[r].reserved ELSE 0], RowIds)

\* Bug: only what has come back settled counts as spent.
SpentSettled(but) ==
    Reserved({r \in RowIds \ {but} : rows[r].state = "confirmed" /\ rows[r].day = day})

\* spentToday: what the rows of the day reserve, one of them left out.
SpentToday(but) ==
    Reserved({r \in RowIds \ {but} : rows[r].state # "none" /\ rows[r].day = day})

\* recoveryHashes: what a recovery has replaced may still be mined.
ReplacedBy(r) ==
    IF recoveries[r].state \in {"broadcasting", "unknown"} THEN {recoveries[r].original} ELSE {}

\* Bug: a receipt of any depth will do.
AnyReceipts(sigs) == {n \in DOMAIN mined : mined[n].sig \in sigs}

\* canonicalFinal.
FinalReceipts(sigs) == {n \in 1..final : mined[n].sig \in sigs}

-----------------------------------------------------------------------------
(* Transactions of the database *)

Cancelled(r) == [rows EXCEPT ![r].state = "cancelled", ![r].reserved = 0]

\* Updates that require a state change nothing once it has been left.
CancelPrepared(r) ==
    /\ rows' = IF rows[r].state = "prepared" THEN Cancelled(r) ELSE rows
    /\ UNCHANGED recoveries

\* The nonce of the signer and the active job are unique.
Savable(sig) ==
    /\ \A r \in RowIds : rows[r].state \notin {"none", "cancelled"} => rows[r].sig.nonce # sig.nonce
    /\ \A r \in RowIds : rows[r].state \in Pending => rows[r].sig.job # sig.job

FreeRows == {r \in RowIds : rows[r].state = "none"}
FreeRow  == CHOOSE r \in FreeRows : TRUE

\* finish: with a hash of the row or of what its recovery replaced.
Finish(r, n) ==
    /\ mined[n].sig \in {rows[r].sig} \cup ReplacedBy(r)
    /\ rows' = [rows EXCEPT ![r].sig = mined[n].sig,
                            ![r].state = IF mined[n].ok THEN "confirmed" ELSE "reverted"]
    /\ recoveries' = [recoveries EXCEPT ![r].state =
                        IF @ \in Pending THEN "confirmed" ELSE @]

-----------------------------------------------------------------------------
(* A tick *)

EndTick(w) ==
    /\ pc' = [pc EXCEPT ![w] = "idle"]
    /\ tick' = [tick EXCEPT ![w] = NoTick]
    /\ lock' = IF lock = w THEN NoWorker ELSE lock

Goto(w, step) ==
    /\ pc' = [pc EXCEPT ![w] = step]
    /\ UNCHANGED lock

\* pending: the unsettled rows in the order of their nonces.
InOrder(S) ==
    {q \in [1..Cardinality(S) -> S] :
        \A i, j \in DOMAIN q : i < j => rows[q[i]].sig.nonce < rows[q[j]].sig.nonce}

\* exclusive, then what is found unsettled.
Begin(w) ==
    /\ pc[w] = "idle" /\ lock = NoWorker
    /\ lock' = w
    /\ pc' = [pc EXCEPT ![w] = "follow"]
    /\ \E q \in InOrder({r \in RowIds : rows[r].state \in Pending}) :
         tick' = [tick EXCEPT ![w].queue =
                    [k \in DOMAIN q |-> [row |-> q[k], state |-> rows[q[k]].state, sig |-> rows[q[k]].sig]]]
    /\ UNCHANGED <<world, chain, tables>>

\* The next row found: settled, given up, sent at last, or waited for.
Follow(w) ==
    /\ pc[w] = "follow" /\ tick[w].queue # <<>>
    /\ LET t       == Head(tick[w].queue)
           settled == FinalReceipts({t.sig} \cup ReplacedBy(t.row))
           waiting == t.state = "prepared"
           wanted  == Enabled(t.sig.job) /\ Eligible(t.sig.job)
           next    == [NoTick EXCEPT !.queue = Tail(tick[w].queue)]
       IN
       \/ /\ settled # {}
          /\ \E n \in settled : Finish(t.row, n)
          /\ Goto(w, "follow") /\ tick' = [tick EXCEPT ![w] = next]
       \/ /\ settled = {} /\ waiting /\ ~wanted
          /\ CancelPrepared(t.row)
          /\ Goto(w, "follow") /\ tick' = [tick EXCEPT ![w] = next]
       \/ /\ settled = {} /\ waiting /\ wanted
          /\ UNCHANGED tables
          /\ IF SpentToday(t.row) + t.sig.cost > DailyBudget THEN EndTick(w)
             ELSE /\ Goto(w, "validate")
                  /\ tick' = [tick EXCEPT ![w] = [next EXCEPT !.row = t.row, !.sig = t.sig]]
       \/ /\ settled = {} /\ ~waiting
          /\ UNCHANGED tables
          /\ \/ EndTick(w)
             \/ /\ t.sig \notin MinedSigs /\ recoveries[t.row].state = "none"
                /\ Goto(w, "recover")
                /\ tick' = [tick EXCEPT ![w] = [next EXCEPT !.row = t.row, !.sig = t.sig]]
    /\ UNCHANGED <<world, chain>>

\* No row is left: a candidate is signed under the next nonce.
Prepare(w) ==
    /\ pc[w] = "follow" /\ tick[w].queue = <<>>
    /\ UNCHANGED <<world, chain, tables>>
    /\ \/ EndTick(w)
       \/ \E job \in Jobs, nonce \in PendingCounts, cost \in TxCosts :
            /\ Enabled(job) /\ Eligible(job)
            /\ SpentToday(0) + cost <= DailyBudget
            /\ Goto(w, "save")
            /\ tick' = [tick EXCEPT ![w].sig = [job |-> job, nonce |-> nonce, cost |-> cost]]

Save(w) ==
    /\ pc[w] = "save"
    /\ UNCHANGED <<world, chain, recoveries>>
    /\ IF Savable(tick[w].sig) /\ FreeRows # {}   \* MaxRows is a bound
         THEN /\ rows' = [rows EXCEPT ![FreeRow] =
                            [state |-> "prepared", sig |-> tick[w].sig,
                             reserved |-> tick[w].sig.cost, day |-> day]]
              /\ Goto(w, "validate")
              /\ tick' = [tick EXCEPT ![w].row = FreeRow]
         ELSE EndTick(w) /\ UNCHANGED rows

\* Bug: the row is marked only when the answer is there.
ValidateThenSend(w) ==
    /\ pc[w] = "validate"
    /\ Enabled(tick[w].sig.job) /\ Eligible(tick[w].sig.job) /\ tick[w].sig.nonce = Len(mined)
    /\ Goto(w, "send")
    /\ UNCHANGED <<world, chain, tables, tick>>

\* validate and the second look at preference and budget.  A transaction the
\* writer could not accept is given up while it is still prepared.
Validate(w) ==
    /\ pc[w] = "validate"
    /\ UNCHANGED <<world, chain, recoveries>>
    /\ LET sig   == tick[w].sig
           valid == Eligible(sig.job) /\ sig.nonce = Len(mined)
       IN
       \/ /\ ~valid \/ (\E n \in PendingCounts : n # sig.nonce) \/ ~Enabled(sig.job)
          /\ CancelPrepared(tick[w].row) /\ EndTick(w)
       \/ /\ valid /\ Enabled(sig.job)
          /\ UNCHANGED rows
          /\ IF SpentToday(tick[w].row) + sig.cost > DailyBudget THEN EndTick(w)
             ELSE Goto(w, "mark") /\ UNCHANGED tick

MarkBroadcasting(w) ==
    /\ pc[w] = "mark"
    /\ UNCHANGED <<world, chain, recoveries>>
    /\ IF rows[tick[w].row].state = "prepared"
         THEN /\ rows' = [rows EXCEPT ![tick[w].row].state = "broadcasting",
                                      ![tick[w].row].day = day]
              /\ Goto(w, "send") /\ UNCHANGED tick
         ELSE EndTick(w) /\ UNCHANGED rows

\* The network has the transaction or has not; the answer tells nothing sure.
Send(w) ==
    /\ pc[w] = "send"
    /\ sent' \in {sent, sent \cup {tick[w].sig}}
    /\ Goto(w, "record") /\ UNCHANGED tick
    /\ UNCHANGED <<world, mined, final, tables>>

\* unknown, whatever the answer was.
Record(w) ==
    /\ pc[w] = "record"
    /\ rows' = IF rows[tick[w].row].state = "broadcasting"
                 THEN [rows EXCEPT ![tick[w].row].state = "unknown"] ELSE rows
    /\ EndTick(w)
    /\ UNCHANGED <<world, chain, recoveries>>

-----------------------------------------------------------------------------
(* Recovery, within a tick or by an operator under the same lock *)

\* The quorum of nodes agrees that neither hash is mined and that the nonce
\* is the next one; a transaction no node has yet may still exist.
Absent(sigs, nonce) == sigs \cap MinedSigs = {} /\ Len(mined) = nonce

Replacement(sig) == [sig EXCEPT !.cost = @ + Bump]

Admitted(r, sig, cost) ==
    /\ Enabled(sig.job) /\ Eligible(sig.job)
    /\ SpentToday(r) + cost <= DailyBudget

\* prepare and saveRecovery: one recovery of a row, ever.
PrepareRecovery(w) ==
    LET r == tick[w].row
        s == tick[w].sig
    IN
    /\ pc[w] = "recover"
    /\ UNCHANGED <<world, chain, rows>>
    /\ \/ /\ Absent({s}, s.nonce) /\ Admitted(r, s, s.cost + Bump)
          /\ rows[r].state \in {"broadcasting", "unknown"} /\ rows[r].sig = s
          /\ recoveries[r].state = "none"
          /\ recoveries' = [recoveries EXCEPT ![r] =
               [state |-> "prepared", original |-> s, replacement |-> Replacement(s)]]
          /\ Goto(w, "readmit") /\ UNCHANGED tick
       \/ EndTick(w) /\ UNCHANGED recoveries

\* broadcast tests everything again ...
Readmit(w) ==
    LET s == tick[w].sig IN
    /\ pc[w] = "readmit"
    /\ UNCHANGED <<world, chain, tables>>
    /\ \/ /\ Absent({s, Replacement(s)}, s.nonce) /\ Admitted(tick[w].row, s, s.cost + Bump)
          /\ Goto(w, "start") /\ UNCHANGED tick
       \/ EndTick(w)

\* ... and startRecovery makes the replacement the row's transaction.
StartRecovery(w) ==
    LET r == tick[w].row
        s == tick[w].sig
    IN
    /\ pc[w] = "start"
    /\ UNCHANGED <<world, chain>>
    /\ IF /\ rows[r].sig = s /\ rows[r].state \in {"broadcasting", "unknown"}
          /\ recoveries[r].state = "prepared"
         THEN /\ recoveries' = [recoveries EXCEPT ![r].state = "broadcasting"]
              /\ rows' = [rows EXCEPT ![r].sig = Replacement(s), ![r].state = "unknown",
                                      ![r].reserved = Replacement(s).cost, ![r].day = day]
              /\ Goto(w, "resend") /\ UNCHANGED tick
         ELSE EndTick(w) /\ UNCHANGED tables

SendReplacement(w) ==
    /\ pc[w] = "resend"
    /\ sent' \in {sent, sent \cup {Replacement(tick[w].sig)}}
    /\ Goto(w, "submitted") /\ UNCHANGED tick
    /\ UNCHANGED <<world, mined, final, tables>>

RecoverySubmitted(w) ==
    LET r == tick[w].row IN
    /\ pc[w] = "submitted"
    /\ recoveries' = IF recoveries[r].state = "broadcasting"
                       THEN [recoveries EXCEPT ![r].state = "unknown"] ELSE recoveries
    /\ EndTick(w)
    /\ UNCHANGED <<world, chain, rows>>

-----------------------------------------------------------------------------
(* Faults and the rest of the world *)

Mishaps == faults + lockLosses + reorgs

\* An error that ends the tick, or the process stops and comes back.
Fail(w) ==
    /\ pc[w] # "idle"
    /\ Mishaps < MaxMishaps /\ faults' = faults + 1
    /\ EndTick(w)
    /\ UNCHANGED <<day, lockLosses, reorgs, optedOut, paidByOwner, chain, tables>>

\* The connection that holds the lock breaks; the worker does not notice.
LoseLock(w) ==
    /\ lock = w
    /\ Mishaps < MaxMishaps /\ lockLosses' = lockLosses + 1
    /\ lock' = NoWorker
    /\ UNCHANGED <<day, faults, reorgs, optedOut, paidByOwner, chain, tables, pc, tick>>

NewDay ==
    /\ day < MaxDay /\ day' = day + 1
    /\ UNCHANGED <<faults, lockLosses, reorgs, optedOut, paidByOwner, chain, tables, lock, pc, tick>>

SetEnabled(job) ==
    /\ optedOut' \in {optedOut \cup {job}, optedOut \ {job}} \ {optedOut}
    /\ UNCHANGED <<day, faults, lockLosses, reorgs, paidByOwner, chain, tables, lock, pc, tick>>

OwnerSettles(job) ==
    /\ Eligible(job) /\ paidByOwner' = paidByOwner \cup {job}
    /\ UNCHANGED <<day, faults, lockLosses, reorgs, optedOut, chain, tables, lock, pc, tick>>

\* One transaction of a nonce; a claim that is no longer due reverts.
Mine ==
    /\ \E s \in sent :
         /\ s.nonce = Len(mined)
         /\ mined' = Append(mined, [sig |-> s, ok |-> Eligible(s.job)])
    /\ UNCHANGED <<world, sent, final, tables, lock, pc, tick>>

Finalise ==
    /\ final < Len(mined) /\ final' = final + 1
    /\ UNCHANGED <<world, sent, mined, tables, lock, pc, tick>>

\* Blocks within the confirmations are replaced; what was in them may be
\* mined again or not.
Reorganise ==
    /\ Mishaps < MaxMishaps /\ reorgs' = reorgs + 1
    /\ \E n \in final..(Len(mined) - 1) : mined' = SubSeq(mined, 1, n)
    /\ UNCHANGED <<day, faults, lockLosses, optedOut, paidByOwner, sent, final, tables, lock, pc, tick>>

-----------------------------------------------------------------------------

Work(w) ==
    \/ Begin(w) \/ Follow(w) \/ Prepare(w) \/ Save(w) \/ Validate(w)
    \/ MarkBroadcasting(w) \/ Send(w) \/ Record(w)
    \/ PrepareRecovery(w) \/ Readmit(w) \/ StartRecovery(w)
    \/ SendReplacement(w) \/ RecoverySubmitted(w)

Next ==
    \/ \E w \in Workers : Work(w) \/ Fail(w) \/ LoseLock(w)
    \/ \E job \in Fickle : SetEnabled(job) \/ OwnerSettles(job)
    \/ NewDay \/ Mine \/ Finalise \/ Reorganise

Spec == Init /\ [][Next]_vars

\* Workers tick for ever; the network mines what it holds and blocks settle.
Fairness ==
    /\ \A w \in Workers : WF_vars(Work(w))
    /\ WF_vars(Mine) /\ WF_vars(Finalise)

FairSpec == Spec /\ Fairness

=============================================================================
