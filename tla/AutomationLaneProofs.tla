------------------------ MODULE AutomationLaneProofs ------------------------
(***************************************************************************)
(* The signing lane for any number of workers, jobs and transactions.  What *)
(* is on record (RecordInv) holds whatever is lost; that the lane has one   *)
(* nonce and one budget (LaneInv) rests on the lock.                        *)
(***************************************************************************)
EXTENDS AutomationLaneProps, SumTheorems

-----------------------------------------------------------------------------
(* What is on record.                                                      *)

Sig     == [job : Jobs \cup {"none"}, nonce : Nat, cost : Nat]
Receipt == [sig : Sig, ok : BOOLEAN]

Row == [state : {"none", "prepared", "broadcasting", "unknown", "confirmed", "reverted", "cancelled"},
        sig : Sig, reserved : Nat, day : Nat]
Recovery == [state : {"none", "prepared", "broadcasting", "unknown", "confirmed"},
             original : Sig, replacement : Sig]

Entry == [row : RowIds, state : Pending, sig : Sig]
Tick  == [queue : Seq(Entry), row : RowIds \cup {0}, sig : Sig]

Steps == {"idle", "follow", "save", "validate", "mark", "send", "record",
          "recover", "readmit", "start", "resend", "submitted"}

TypeOK ==
    /\ day \in 0..MaxDay /\ lockLosses \in Nat /\ faults \in Nat /\ reorgs \in Nat
    /\ sent \subseteq Sig /\ mined \in Seq(Receipt)
    /\ final \in Nat /\ final <= Len(mined)
    /\ rows \in [RowIds -> Row] /\ recoveries \in [RowIds -> Recovery]
    /\ lock \in Workers \cup {NoWorker}
    /\ pc \in [Workers -> Steps] /\ tick \in [Workers -> Tick]

Marked(r) == rows[r].state \in {"broadcasting", "unknown", "confirmed", "reverted"}

\* The row was marked before s was handed out.
Recorded(r, s) ==
    /\ Marked(r)
    /\ \/ rows[r].sig = s
       \/ recoveries[r].state \notin {"none", "prepared"}
          /\ s \in {recoveries[r].original, recoveries[r].replacement}

\* What stays true of a row that was seen prepared with s.
Seen(r, s) == rows[r].state # "none" /\ (rows[r].state = "prepared" => rows[r].sig = s)

\* A recovery is of a row that was marked, and knows both its transactions.
RecoveryOK(r) ==
    recoveries[r].state # "none" =>
        /\ Marked(r)
        /\ recoveries[r].replacement = Replacement(recoveries[r].original)
        /\ rows[r].sig \in {recoveries[r].original, recoveries[r].replacement}
        /\ recoveries[r].state = "prepared" => rows[r].sig = recoveries[r].original

\* What a worker that is at p knows from its tick t: the rows it has read may
\* have moved on since.
Knows(p, t) ==
    /\ \A k \in 1..Len(t.queue) : Seen(t.queue[k].row, t.queue[k].sig)
    /\ p \notin {"idle", "follow", "save"} => t.row \in RowIds
    /\ p \in {"validate", "mark"} => Seen(t.row, t.sig)
    /\ p = "send" => Recorded(t.row, t.sig)
    /\ p = "resend" => Recorded(t.row, Replacement(t.sig))

WorkerOK(w) == Knows(pc[w], tick[w])

RecordInv ==
    /\ TypeOK
    /\ \A r \in RowIds : RecoveryOK(r)
    /\ \A s \in sent : \E r \in RowIds : Recorded(r, s)
    /\ \A w \in Workers : WorkerOK(w)
    /\ ConfirmedIsMined

-----------------------------------------------------------------------------
(* The lane of one process.                                                *)

\* No nonce is of two rows, and a row reserves what its transaction may cost.
RowsOK ==
    /\ \A p, q \in RowIds :
         /\ {rows[p].state, rows[q].state} \cap {"none", "cancelled"} = {}
         /\ rows[p].sig.nonce = rows[q].sig.nonce
         => p = q
    /\ \A p, q \in RowIds : {rows[p].state, rows[q].state} \subseteq Pending => p = q
    /\ \A r \in RowIds :
         /\ rows[r].day <= day
         /\ rows[r].state = "prepared" => rows[r].reserved = rows[r].sig.cost

\* The chain has one transaction of each nonce, all of them handed out.
ChainOK ==
    \A n \in 1..Len(mined) : mined[n].sig \in sent /\ mined[n].sig.nonce = n - 1

Spent(d) == {r \in RowIds : rows[r].day = d /\ rows[r].state \notin {"none", "prepared", "cancelled"}}

\* No day spends more than the budget.
BudgetOK == \A d \in 0..MaxDay : Reserved(Spent(d)) <= DailyBudget

\* The only worker, at p with tick t, knows the only unsettled row as it is.
Sure(p, t) ==
    /\ Len(t.queue) <= 1
    /\ p # "follow" => t.queue = <<>>
    /\ \A k \in 1..Len(t.queue) : /\ rows[t.queue[k].row].state = t.queue[k].state
                                  /\ rows[t.queue[k].row].sig = t.queue[k].sig
    /\ p \in {"follow", "save"} =>
         \A r \in RowIds : rows[r].state \in Pending =>
             \E k \in 1..Len(t.queue) : t.queue[k].row = r
    /\ p \in {"validate", "mark"} => rows[t.row].state = "prepared" /\ rows[t.row].sig = t.sig
    /\ p = "mark" => SpentToday(t.row) + t.sig.cost <= DailyBudget
    /\ p = "start" => SpentToday(t.row) + Replacement(t.sig).cost <= DailyBudget

AloneOK(w) ==
    /\ pc[w] # "idle" => lock = w
    /\ Sure(pc[w], tick[w])

LockInv == RowsOK /\ BudgetOK /\ \A w \in Workers : AloneOK(w)

LaneInv == RecordInv /\ ChainOK /\ (lockLosses = 0 => LockInv)

-----------------------------------------------------------------------------
(* The database.                                                           *)

\* What a statement of the database leaves true for everybody.
Grows ==
    \A r \in RowIds : \A s : /\ Recorded(r, s) => Recorded(r, s)'
                             /\ Seen(r, s) => Seen(r, s)'

TablesKept ==
    /\ rows' \in [RowIds -> Row] /\ recoveries' \in [RowIds -> Recovery]
    /\ Grows
    /\ \A r \in RowIds : RecoveryOK(r)'
    /\ ConfirmedIsMined'

\* A statement changes one row at most.
LEMMA OneRow ==
    ASSUME RecordInv, UNCHANGED <<mined, final>>, NEW r \in RowIds,
           NEW row \in Row, NEW rec \in Recovery,
           rows' = [rows EXCEPT ![r] = row], recoveries' = [recoveries EXCEPT ![r] = rec],
           \A s : (Recorded(r, s) => Recorded(r, s)') /\ (Seen(r, s) => Seen(r, s)'),
           RecoveryOK(r)',
           row.state \in {"confirmed", "reverted"} =>
             \/ row.state = rows[r].state /\ row.sig = rows[r].sig
             \/ \E n \in 1..final : mined[n] = [sig |-> row.sig, ok |-> row.state = "confirmed"]
    PROVE  TablesKept
<1>1. rows \in [RowIds -> Row] /\ recoveries \in [RowIds -> Recovery]
  BY DEF RecordInv, TypeOK
<1>2. /\ rows' \in [RowIds -> Row] /\ recoveries' \in [RowIds -> Recovery]
      /\ rows'[r] = row
      /\ \A q \in RowIds \ {r} : rows'[q] = rows[q] /\ recoveries'[q] = recoveries[q]
  BY <1>1
<1>3. Grows
  BY <1>2 DEF Grows, Recorded, Marked, Seen
<1>4. \A q \in RowIds : RecoveryOK(q)'
  <2>1. ASSUME NEW q \in RowIds \ {r} PROVE RecoveryOK(q)'
    BY <1>2 DEF RecordInv, RecoveryOK, Marked
  <2> QED
    BY <2>1
<1>5. ConfirmedIsMined'
  <2> SUFFICES ASSUME NEW q \in RowIds, rows'[q].state \in {"confirmed", "reverted"}
               PROVE  \E n \in 1..final :
                        mined[n] = [sig |-> rows'[q].sig, ok |-> rows'[q].state = "confirmed"]
    BY DEF ConfirmedIsMined
  <2>1. ConfirmedIsMined
    BY DEF RecordInv
  <2>2. CASE q # r
    BY <1>2, <2>1, <2>2 DEF ConfirmedIsMined
  <2>3. CASE q = r
    BY <1>2, <2>1, <2>3 DEF ConfirmedIsMined
  <2> QED
    BY <2>2, <2>3
<1> QED
  BY <1>2, <1>3, <1>4, <1>5 DEF TablesKept

\* Most steps do not write to the database.
LEMMA TablesSame ==
    ASSUME RecordInv, UNCHANGED <<tables, mined, final>>
    PROVE  TablesKept
<1>1. rows' = rows /\ recoveries' = recoveries /\ mined' = mined /\ final' = final
  BY DEF tables
<1> QED
  BY <1>1 DEF TablesKept, RecordInv, TypeOK, Grows, Recorded, Marked, Seen, RecoveryOK,
              ConfirmedIsMined

\* finish.
LEMMA FinishKeeps ==
    ASSUME RecordInv, NEW r \in RowIds, NEW n \in 1..final, Finish(r, n),
           UNCHANGED <<mined, final>>
    PROVE  TablesKept
<1> DEFINE sig == mined[n].sig
<1> DEFINE st == IF mined[n].ok THEN "confirmed" ELSE "reverted"
<1> DEFINE row == [rows[r] EXCEPT !.sig = sig, !.state = st]
<1> DEFINE rs == IF recoveries[r].state \in Pending THEN "confirmed" ELSE recoveries[r].state
<1> DEFINE rec == [recoveries[r] EXCEPT !.state = rs]
<1>1. /\ rows \in [RowIds -> Row] /\ recoveries \in [RowIds -> Recovery]
      /\ mined \in Seq(Receipt) /\ final \in Nat /\ final <= Len(mined)
      /\ RecoveryOK(r)
  BY DEF RecordInv, TypeOK
<1>2. mined[n] \in Receipt
  BY <1>1
<1>3. sig \in Sig /\ st \in {"confirmed", "reverted"} /\ mined[n].ok \in BOOLEAN
      /\ mined[n] = [sig |-> sig, ok |-> st = "confirmed"]
  BY <1>2 DEF Receipt
<1>4. sig \in {rows[r].sig} \cup ReplacedBy(r)
  BY DEF Finish
<1>5. rows' = [rows EXCEPT ![r] = row] /\ recoveries' = [recoveries EXCEPT ![r] = rec]
  BY <1>1 DEF Finish
<1> HIDE DEF sig, st
<1>6. /\ row \in Row /\ row.sig = sig /\ row.state = st
      /\ rec \in Recovery /\ rec.state = rs
      /\ rec.original = recoveries[r].original /\ rec.replacement = recoveries[r].replacement
  BY <1>1, <1>3 DEF Row, Recovery, Pending
<1>7. rs = "none" <=> recoveries[r].state = "none"
  BY DEF Pending
<1>8. rs # "prepared"
  BY DEF Pending
<1> HIDE DEF row, rec, rs
<1>9. rows'[r] = row /\ recoveries'[r] = rec
  BY <1>1, <1>5
<1>10. \/ sig = rows[r].sig
       \/ recoveries[r].state # "none" /\ sig = recoveries[r].original
  BY <1>4 DEF ReplacedBy
<1>11. RecoveryOK(r)'
  BY <1>1, <1>3, <1>6, <1>7, <1>8, <1>9, <1>10 DEF RecoveryOK, Marked
<1>12. ASSUME NEW s, Recorded(r, s) PROVE Recorded(r, s)'
  <2>1. rows'[r].state \in {"confirmed", "reverted"}
    BY <1>3, <1>6, <1>9
  <2>2. \/ rows[r].sig = s
        \/ /\ recoveries[r].state # "none"
           /\ s \in {recoveries[r].original, recoveries[r].replacement}
    BY <1>12 DEF Recorded
  <2>3. CASE recoveries[r].state = "none"
    BY <1>6, <1>9, <1>10, <2>1, <2>2, <2>3 DEF Recorded, Marked
  <2>4. CASE recoveries[r].state # "none"
    <3>1. s \in {recoveries[r].original, recoveries[r].replacement}
      BY <1>1, <2>2, <2>4 DEF RecoveryOK
    <3> QED
      BY <1>6, <1>7, <1>8, <1>9, <2>1, <2>4, <3>1 DEF Recorded, Marked
  <2> QED
    BY <2>3, <2>4
<1>13. \A s : Seen(r, s)'
  BY <1>3, <1>6, <1>9 DEF Seen
<1> QED
  BY <1>3, <1>5, <1>6, <1>11, <1>12, <1>13, OneRow

\* cancelPrepared.
LEMMA CancelKeeps ==
    ASSUME RecordInv, NEW r \in RowIds, CancelPrepared(r), UNCHANGED <<mined, final>>
    PROVE  TablesKept
<1>1. rows \in [RowIds -> Row] /\ recoveries \in [RowIds -> Recovery] /\ RecoveryOK(r)
  BY DEF RecordInv, TypeOK
<1>2. CASE rows[r].state # "prepared"
  BY <1>2, TablesSame DEF CancelPrepared, tables
<1>3. CASE rows[r].state = "prepared"
  <2> DEFINE row == [rows[r] EXCEPT !.state = "cancelled", !.reserved = 0]
  <2>1. rows' = [rows EXCEPT ![r] = row]
    BY <1>1, <1>3 DEF CancelPrepared, Cancelled
  <2>2. row \in Row /\ row.state = "cancelled"
    BY <1>1 DEF Row
  <2> HIDE DEF row
  <2>3. recoveries' = [recoveries EXCEPT ![r] = recoveries[r]] /\ recoveries' = recoveries
        /\ recoveries[r] \in Recovery
    BY <1>1 DEF CancelPrepared
  <2>4. rows'[r] = row
    BY <1>1, <2>1
  <2>5. ~ Marked(r) /\ recoveries[r].state = "none"
    BY <1>1, <1>3 DEF Marked, RecoveryOK
  <2>6. RecoveryOK(r)'
    BY <2>3, <2>5 DEF RecoveryOK
  <2>7. \A s : (Recorded(r, s) => Recorded(r, s)') /\ (Seen(r, s) => Seen(r, s)')
    BY <2>2, <2>4, <2>5 DEF Recorded, Seen
  <2> QED
    BY <2>1, <2>2, <2>3, <2>6, <2>7, OneRow
<1> QED
  BY <1>2, <1>3

\* A prepared or broadcast row moves on; its transaction stays.
LEMMA StateKeeps ==
    ASSUME RecordInv, NEW r \in RowIds, UNCHANGED <<recoveries, mined, final>>,
           NEW row \in Row, rows' = [rows EXCEPT ![r] = row],
           rows[r].state \in {"prepared", "broadcasting"},
           row.state \in {"broadcasting", "unknown"}, row.sig = rows[r].sig
    PROVE  TablesKept
<1>1. rows \in [RowIds -> Row] /\ recoveries \in [RowIds -> Recovery] /\ RecoveryOK(r)
  BY DEF RecordInv, TypeOK
<1>2. recoveries' = [recoveries EXCEPT ![r] = recoveries[r]] /\ recoveries' = recoveries
      /\ recoveries[r] \in Recovery
  BY <1>1
<1>3. rows'[r] = row
  BY <1>1
<1>4. RecoveryOK(r)'
  BY <1>1, <1>2, <1>3 DEF RecoveryOK, Marked
<1>5. \A s : (Recorded(r, s) => Recorded(r, s)') /\ (Seen(r, s) => Seen(r, s)')
  BY <1>2, <1>3 DEF Recorded, Seen, Marked
<1> QED
  BY <1>2, <1>4, <1>5, OneRow

\* save: only rows that were free change.
LEMMA SaveKeeps ==
    ASSUME RecordInv, UNCHANGED <<recoveries, mined, final>>,
           NEW r \in RowIds, NEW row \in Row, rows' = [rows EXCEPT ![r] = row],
           rows[r].state = "none", row.state = "prepared"
    PROVE  TablesKept
<1>1. rows \in [RowIds -> Row] /\ recoveries \in [RowIds -> Recovery] /\ RecoveryOK(r)
  BY DEF RecordInv, TypeOK
<1>2. recoveries' = [recoveries EXCEPT ![r] = recoveries[r]] /\ recoveries' = recoveries
      /\ recoveries[r] \in Recovery
  BY <1>1
<1>3. ~ Marked(r) /\ recoveries[r].state = "none"
  BY <1>1 DEF RecoveryOK, Marked
<1>4. RecoveryOK(r)'
  BY <1>2, <1>3 DEF RecoveryOK
<1>5. \A s : (Recorded(r, s) => Recorded(r, s)') /\ (Seen(r, s) => Seen(r, s)')
  BY <1>3 DEF Recorded, Seen
<1> QED
  BY <1>2, <1>4, <1>5, OneRow

\* saveRecovery.
LEMMA PrepareKeeps ==
    ASSUME RecordInv, NEW r \in RowIds, NEW s \in Sig, UNCHANGED <<rows, mined, final>>,
           rows[r].state \in {"broadcasting", "unknown"}, rows[r].sig = s,
           recoveries[r].state = "none", Replacement(s) \in Sig,
           recoveries' = [recoveries EXCEPT ![r] =
             [state |-> "prepared", original |-> s, replacement |-> Replacement(s)]]
    PROVE  TablesKept
<1> DEFINE rec == [state |-> "prepared", original |-> s, replacement |-> Replacement(s)]
<1>1. rows \in [RowIds -> Row] /\ recoveries \in [RowIds -> Recovery]
  BY DEF RecordInv, TypeOK
<1>2. /\ rec \in Recovery /\ rec.state = "prepared"
      /\ rec.original = s /\ rec.replacement = Replacement(s)
  BY DEF Recovery
<1>3. recoveries' = [recoveries EXCEPT ![r] = rec]
  OBVIOUS
<1> HIDE DEF rec
<1>4. recoveries'[r] = rec
  BY <1>1, <1>3
<1>5. rows' = [rows EXCEPT ![r] = rows[r]] /\ rows' = rows /\ rows[r] \in Row
  BY <1>1
<1>6. RecoveryOK(r)'
  BY <1>2, <1>4, <1>5 DEF RecoveryOK, Marked
<1>7. \A x : (Recorded(r, x) => Recorded(r, x)') /\ (Seen(r, x) => Seen(r, x)')
  BY <1>5 DEF Recorded, Seen, Marked
<1> QED
  BY <1>2, <1>3, <1>5, <1>6, <1>7, OneRow

\* startRecovery: what is replaced stays on record.
LEMMA StartKeeps ==
    ASSUME RecordInv, NEW r \in RowIds, NEW s \in Sig, UNCHANGED <<mined, final>>,
           rows[r].sig = s, rows[r].state \in {"broadcasting", "unknown"},
           recoveries[r].state = "prepared", Replacement(s) \in Sig,
           recoveries' = [recoveries EXCEPT ![r].state = "broadcasting"],
           rows' = [rows EXCEPT ![r].sig = Replacement(s), ![r].state = "unknown",
                                ![r].reserved = Replacement(s).cost, ![r].day = day]
    PROVE  TablesKept /\ Recorded(r, Replacement(s))'
<1> DEFINE rep == Replacement(s)
<1> DEFINE cost == rep.cost
<1> DEFINE row == [rows[r] EXCEPT !.sig = rep, !.state = "unknown", !.reserved = cost, !.day = day]
<1> DEFINE rec == [recoveries[r] EXCEPT !.state = "broadcasting"]
<1>1. /\ rows \in [RowIds -> Row] /\ recoveries \in [RowIds -> Recovery]
      /\ RecoveryOK(r) /\ day \in Nat
  <2>1. MaxDay \in Nat
    BY LaneAssumption
  <2> QED
    BY <2>1 DEF RecordInv, TypeOK
<1>2. rep \in Sig /\ cost \in Nat
  BY DEF Sig
<1>3. rows' = [rows EXCEPT ![r] = row] /\ recoveries' = [recoveries EXCEPT ![r] = rec]
  BY <1>1
<1> HIDE DEF rep, cost
<1>4. /\ row \in Row /\ row.sig = rep /\ row.state = "unknown"
      /\ rec \in Recovery /\ rec.state = "broadcasting"
      /\ rec.original = recoveries[r].original /\ rec.replacement = recoveries[r].replacement
  BY <1>1, <1>2 DEF Row, Recovery
<1> HIDE DEF row, rec
<1>5. rows'[r] = row /\ recoveries'[r] = rec
  BY <1>1, <1>3
<1>6. recoveries[r].original = s /\ recoveries[r].replacement = rep
  BY <1>1 DEF RecoveryOK, rep
<1>7. RecoveryOK(r)'
  BY <1>4, <1>5, <1>6 DEF RecoveryOK, Marked, rep
<1>8. \A x : (Recorded(r, x) => Recorded(r, x)') /\ (Seen(r, x) => Seen(r, x)')
  BY <1>4, <1>5, <1>6 DEF Recorded, Seen, Marked
<1>9. Recorded(r, rep)'
  BY <1>4, <1>5 DEF Recorded, Marked
<1>10. row.state \notin {"confirmed", "reverted"}
  BY <1>4
<1>11. TablesKept
  BY <1>3, <1>4, <1>7, <1>8, <1>10, OneRow
<1> QED
  BY <1>9, <1>11 DEF rep

\* recoverySubmitted.
LEMMA SubmittedKeeps ==
    ASSUME RecordInv, NEW r \in RowIds, UNCHANGED <<rows, mined, final>>,
           recoveries' = IF recoveries[r].state = "broadcasting"
                           THEN [recoveries EXCEPT ![r].state = "unknown"] ELSE recoveries
    PROVE  TablesKept
<1> DEFINE rec == [recoveries[r] EXCEPT !.state = "unknown"]
<1>1. /\ rows \in [RowIds -> Row] /\ recoveries \in [RowIds -> Recovery] /\ RecoveryOK(r)
  BY DEF RecordInv, TypeOK
<1>2. CASE recoveries[r].state # "broadcasting"
  BY <1>2, TablesSame DEF tables
<1>3. CASE recoveries[r].state = "broadcasting"
  <2>1. recoveries' = [recoveries EXCEPT ![r] = rec]
    BY <1>1, <1>3
  <2>2. /\ rec \in Recovery /\ rec.state = "unknown"
        /\ rec.original = recoveries[r].original /\ rec.replacement = recoveries[r].replacement
    BY <1>1 DEF Recovery
  <2> HIDE DEF rec
  <2>3. recoveries'[r] = rec
    BY <1>1, <2>1
  <2>4. rows' = [rows EXCEPT ![r] = rows[r]] /\ rows' = rows /\ rows[r] \in Row
    BY <1>1
  <2>5. RecoveryOK(r)'
    BY <1>1, <1>3, <2>2, <2>3, <2>4 DEF RecoveryOK, Marked
  <2>6. \A s : (Recorded(r, s) => Recorded(r, s)') /\ (Seen(r, s) => Seen(r, s)')
    BY <1>3, <2>2, <2>3, <2>4 DEF Recorded, Seen, Marked
  <2> QED
    BY <2>1, <2>2, <2>4, <2>5, <2>6, OneRow
<1> QED
  BY <1>2, <1>3

-----------------------------------------------------------------------------
(* The workers.                                                            *)

\* A replacement is a transaction of the same nonce.
LEMMA ReplacementSig ==
    ASSUME NEW s \in Sig
    PROVE  Replacement(s) \in Sig /\ Replacement(s).nonce = s.nonce
  BY DEF Replacement, Bump, Sig

\* Nothing is pending for a worker that does not run.
LEMMA NoTickType == NoTick \in Tick /\ NoTick.queue = <<>>
<1>1. NoSig \in Sig
  BY DEF NoSig, Sig
<1>2. <<>> \in Seq(Entry)
  OBVIOUS
<1> QED
  BY <1>1, <1>2 DEF NoTick, Tick

\* A step of w.
Moves(w) ==
    /\ pc' \in [Workers -> Steps] /\ tick' \in [Workers -> Tick]
    /\ lock' \in Workers \cup {NoWorker}
    /\ \A v \in Workers \ {w} : pc'[v] = pc[v] /\ tick'[v] = tick[v]

\* The end of a tick.
LEMMA EndTickMoves ==
    ASSUME TypeOK, NEW w \in Workers, EndTick(w)
    PROVE  /\ Moves(w) /\ WorkerOK(w)' /\ pc'[w] = "idle" /\ tick'[w] = NoTick
           /\ lock' = IF lock = w THEN NoWorker ELSE lock
<1>1. /\ pc' = [pc EXCEPT ![w] = "idle"] /\ tick' = [tick EXCEPT ![w] = NoTick]
      /\ lock' = IF lock = w THEN NoWorker ELSE lock
  BY DEF EndTick
<1>2. /\ pc \in [Workers -> Steps] /\ tick \in [Workers -> Tick]
      /\ lock \in Workers \cup {NoWorker} /\ NoTick \in Tick /\ "idle" \in Steps
  BY NoTickType DEF TypeOK, Steps
<1>3. Moves(w) /\ pc'[w] = "idle" /\ tick'[w] = NoTick
  BY <1>1, <1>2 DEF Moves
<1>4. Len(tick'[w].queue) = 0
  BY <1>3, NoTickType
<1>5. WorkerOK(w)'
  BY <1>3, <1>4 DEF WorkerOK, Knows
<1> QED
  BY <1>1, <1>3, <1>5

\* A step within a tick.
LEMMA StepMoves ==
    ASSUME TypeOK, NEW w \in Workers, NEW step \in Steps, NEW t \in Tick,
           pc' = [pc EXCEPT ![w] = step], tick' = [tick EXCEPT ![w] = t],
           lock' \in Workers \cup {NoWorker}
    PROVE  Moves(w) /\ pc'[w] = step /\ tick'[w] = t
  BY DEF TypeOK, Moves

\* A step that leaves what the worker knows.
LEMMA GotoMoves ==
    ASSUME TypeOK, NEW w \in Workers, NEW step \in Steps, Goto(w, step), UNCHANGED tick
    PROVE  Moves(w) /\ pc'[w] = step /\ tick'[w] = tick[w] /\ lock' = lock
<1>1. /\ tick' = [tick EXCEPT ![w] = tick[w]] /\ tick[w] \in Tick
      /\ pc' = [pc EXCEPT ![w] = step] /\ lock' = lock
      /\ lock' \in Workers \cup {NoWorker}
  BY DEF TypeOK, Goto
<1>2. Moves(w) /\ pc'[w] = step /\ tick'[w] = tick[w]
  BY <1>1, StepMoves
<1> QED
  BY <1>1, <1>2

\* What a worker knows stays true while others work.
LEMMA KnownStays ==
    ASSUME Grows, NEW p, NEW t \in Tick, Knows(p, t)
    PROVE  Knows(p, t)'
<1>1. \A k \in 1..Len(t.queue) : t.queue[k].row \in RowIds
  <2>1. t.queue \in Seq(Entry)
    BY DEF Tick
  <2>2. \A k \in 1..Len(t.queue) : t.queue[k] \in Entry
    BY <2>1
  <2> QED
    BY <2>2 DEF Entry
<1>2. \A k \in 1..Len(t.queue) : Seen(t.queue[k].row, t.queue[k].sig)'
  BY <1>1 DEF Knows, Grows
<1>3. p \notin {"idle", "follow", "save"} => t.row \in RowIds
  BY DEF Knows
<1>4. p \in {"validate", "mark"} => Seen(t.row, t.sig)'
  BY <1>3 DEF Knows, Grows
<1>5. p = "send" => Recorded(t.row, t.sig)'
  BY <1>3 DEF Knows, Grows
<1>6. p = "resend" => Recorded(t.row, Replacement(t.sig))'
  BY <1>3 DEF Knows, Grows
<1> QED
  BY <1>2, <1>3, <1>4, <1>5, <1>6 DEF Knows

\* What is known of the step and the tick a worker comes to is known of it.
LEMMA KnownOf ==
    ASSUME NEW w, NEW p, NEW t, pc'[w] = p, tick'[w] = t, Knows(p, t)'
    PROVE  WorkerOK(w)'
  BY DEF WorkerOK, Knows, Seen, Recorded, Marked, Replacement

\* A step of a worker, put together.
LEMMA RecordStep ==
    ASSUME RecordInv, NEW w \in Workers, TablesKept, Moves(w), WorkerOK(w)',
           UNCHANGED <<world, mined, final>>,
           NEW x \in Sig, sent' \subseteq sent \cup {x},
           x \in sent' => x \in sent \/ \E r \in RowIds : Recorded(r, x)
    PROVE  RecordInv'
<1>1. TypeOK'
  BY DEF RecordInv, TypeOK, TablesKept, Moves, world
<1>2. \A s \in sent' : \E r \in RowIds : Recorded(r, s)'
  <2> SUFFICES ASSUME NEW s \in sent' PROVE \E r \in RowIds : Recorded(r, s)'
    OBVIOUS
  <2>1. \E r \in RowIds : Recorded(r, s)
    BY DEF RecordInv
  <2> QED
    BY <2>1 DEF TablesKept, Grows
<1>3. \A v \in Workers : WorkerOK(v)'
  <2> SUFFICES ASSUME NEW v \in Workers \ {w} PROVE WorkerOK(v)'
    OBVIOUS
  <2> PICK p : p = pc[v]
    OBVIOUS
  <2> PICK t : t = tick[v]
    OBVIOUS
  <2>1. t \in Tick /\ Knows(p, t)
    BY DEF RecordInv, TypeOK, WorkerOK
  <2>2. Knows(p, t)'
    BY <2>1, KnownStays DEF TablesKept
  <2>3. pc'[v] = p /\ tick'[v] = t
    BY DEF Moves
  <2> QED
    BY <2>2, <2>3, KnownOf
<1> QED
  BY <1>1, <1>2, <1>3 DEF RecordInv, TablesKept

\* A step of a worker that hands nothing out.
LEMMA QuietStep ==
    ASSUME RecordInv, NEW w \in Workers, TablesKept, Moves(w), WorkerOK(w)',
           UNCHANGED <<world, chain>>
    PROVE  RecordInv'
<1>1. NoSig \in Sig
  BY DEF NoSig, Sig
<1>2. sent' \subseteq sent \cup {NoSig} /\ (NoSig \in sent' => NoSig \in sent)
      /\ UNCHANGED <<world, mined, final>>
  BY DEF chain
<1> QED
  BY <1>1, <1>2, RecordStep

\* Begin: what is read is so.
LEMMA BeginRecords ==
    ASSUME RecordInv, NEW w \in Workers, Begin(w)
    PROVE  RecordInv'
<1> DEFINE S == {r \in RowIds : rows[r].state \in Pending}
<1>1. PICK q \in InOrder(S) :
        tick' = [tick EXCEPT ![w].queue =
          [k \in DOMAIN q |-> [row |-> q[k], state |-> rows[q[k]].state, sig |-> rows[q[k]].sig]]]
  BY DEF Begin
<1> DEFINE Q == [k \in DOMAIN q |-> [row |-> q[k], state |-> rows[q[k]].state, sig |-> rows[q[k]].sig]]
<1> DEFINE T == [tick[w] EXCEPT !.queue = Q]
<1>2. TypeOK /\ tick[w] \in Tick /\ tick \in [Workers -> Tick] /\ rows \in [RowIds -> Row]
  BY DEF RecordInv, TypeOK
<1>3. Cardinality(S) \in Nat
  <2>1. IsFiniteSet(RowIds)
    BY LaneAssumption, FS_Interval DEF RowIds
  <2>2. IsFiniteSet(S)
    BY <2>1, FS_Subset
  <2> QED
    BY <2>2, FS_CardinalityType
<1>4. q \in [1..Cardinality(S) -> S]
  BY <1>1 DEF InOrder
<1> DEFINE n == Cardinality(S)
<1>5. /\ DOMAIN Q = 1..n
      /\ \A k \in 1..n : /\ Q[k] \in Entry /\ Q[k].row \in S
                         /\ Q[k].state = rows[Q[k].row].state
                         /\ Q[k].sig = rows[Q[k].row].sig
  BY <1>2, <1>4 DEF Entry, Row, Pending
<1> HIDE DEF S, n
<1>6. n \in Nat
  BY <1>3 DEF n
<1>7. Q \in Seq(Entry) /\ Len(Q) = n
  <2>1. Q = [k \in 1..n |-> Q[k]]
    BY <1>5
  <2> HIDE DEF Q
  <2>2. Q \in [1..n -> Entry]
    BY <1>5, <2>1
  <2> QED
    BY <1>5, <1>6, <2>2
<1> HIDE DEF Q
<1>8. T \in Tick /\ T.queue = Q
  BY <1>2, <1>7 DEF Tick
<1>9. tick' = [tick EXCEPT ![w] = T]
  BY <1>1, <1>2 DEF Q
<1> HIDE DEF T
<1>10. Moves(w) /\ pc'[w] = "follow" /\ tick'[w] = T
  <2>1. pc' = [pc EXCEPT ![w] = "follow"] /\ lock' = w /\ "follow" \in Steps
    BY DEF Begin, Steps
  <2> QED
    BY <1>2, <1>8, <1>9, <2>1, StepMoves
<1>11. TablesKept
  BY TablesSame DEF Begin, chain
<1>12. WorkerOK(w)'
  <2> PICK t : t = T
    OBVIOUS
  <2>1. rows' = rows
    BY DEF Begin, tables
  <2>2. \A k \in 1..Len(t.queue) : Seen(t.queue[k].row, t.queue[k].sig)
    BY <1>5, <1>7, <1>8 DEF Seen, S, Pending
  <2>3. Knows("follow", t)'
    BY <2>1, <2>2 DEF Knows, Seen
  <2> QED
    BY <1>10, <2>3, KnownOf
<1> QED
  BY <1>10, <1>11, <1>12, QuietStep DEF Begin

\* A step within a tick that hands nothing out.
LEMMA TickStep ==
    ASSUME RecordInv, NEW w \in Workers, NEW p \in Steps, NEW t \in Tick,
           Goto(w, p), tick' = [tick EXCEPT ![w] = t], Knows(p, t)',
           TablesKept, UNCHANGED <<world, chain>>
    PROVE  RecordInv'
<1>1. TypeOK /\ pc' = [pc EXCEPT ![w] = p] /\ lock' \in Workers \cup {NoWorker}
  BY DEF RecordInv, TypeOK, Goto
<1>2. Moves(w) /\ pc'[w] = p /\ tick'[w] = t
  BY <1>1, StepMoves
<1>3. WorkerOK(w)'
  BY <1>2, KnownOf
<1> QED
  BY <1>2, <1>3, QuietStep

\* The end of a tick that hands nothing out.
LEMMA TickEnds ==
    ASSUME RecordInv, NEW w \in Workers, EndTick(w), TablesKept, UNCHANGED <<world, chain>>
    PROVE  RecordInv'
<1>1. Moves(w) /\ WorkerOK(w)'
  BY EndTickMoves DEF RecordInv
<1> QED
  BY <1>1, QuietStep

\* What is left of the queue, with the entry taken from it.
LEMMA QueueParts ==
    ASSUME RecordInv, NEW w \in Workers, tick[w].queue # <<>>
    PROVE  LET e == Head(tick[w].queue)
               t == [NoTick EXCEPT !.queue = Tail(tick[w].queue)]
           IN  /\ e \in Entry /\ Seen(e.row, e.sig)
               /\ t \in Tick /\ t.queue = Tail(tick[w].queue)
               /\ \A k \in 1..Len(t.queue) : Seen(t.queue[k].row, t.queue[k].sig)
<1> PICK q : q = tick[w].queue
  OBVIOUS
<1>1. q \in Seq(Entry) /\ q # <<>> /\ \A k \in 1..Len(q) : Seen(q[k].row, q[k].sig)
  BY DEF RecordInv, TypeOK, Tick, WorkerOK, Knows
<1>2. /\ Tail(q) \in Seq(Entry) /\ Head(q) = q[1] /\ Head(q) \in Entry /\ 1 \in 1..Len(q)
      /\ \A k \in 1..Len(Tail(q)) : Tail(q)[k] = q[k + 1] /\ k + 1 \in 1..Len(q)
  BY <1>1
<1> DEFINE t == [NoTick EXCEPT !.queue = Tail(q)]
<1>3. t \in Tick /\ t.queue = Tail(q)
  <2>1. NoSig \in Sig
    BY DEF NoSig, Sig
  <2> QED
    BY <1>2, <2>1 DEF NoTick, Tick
<1> HIDE DEF t
<1>4. \A k \in 1..Len(t.queue) : Seen(t.queue[k].row, t.queue[k].sig)
  BY <1>1, <1>2, <1>3
<1>5. Head(q) \in Entry /\ Seen(Head(q).row, Head(q).sig)
  BY <1>1, <1>2
<1> QED
  BY <1>3, <1>4, <1>5 DEF t

\* Follow.
LEMMA FollowRecords ==
    ASSUME RecordInv, NEW w \in Workers, Follow(w)
    PROVE  RecordInv'
<1> PICK q : q = tick[w].queue
  OBVIOUS
<1> PICK e : e = Head(q)
  OBVIOUS
<1> PICK next : next = [NoTick EXCEPT !.queue = Tail(q)]
  OBVIOUS
<1> DEFINE settled == FinalReceipts({e.sig} \cup ReplacedBy(e.row))
<1>1. /\ e \in Entry /\ Seen(e.row, e.sig)
      /\ next \in Tick /\ next.queue = Tail(q)
      /\ \A k \in 1..Len(next.queue) : Seen(next.queue[k].row, next.queue[k].sig)
  BY QueueParts DEF Follow
<1>2. e.row \in RowIds /\ e.sig \in Sig
  BY <1>1 DEF Entry
<1>3. "follow" \in Steps /\ "validate" \in Steps /\ "recover" \in Steps
  BY DEF Steps
<1>4. ASSUME TablesKept PROVE Knows("follow", next)'
  <2>1. Knows("follow", next)
    BY <1>1 DEF Knows
  <2> QED
    BY <1>1, <1>4, <2>1, KnownStays DEF TablesKept
<1>5. CASE /\ settled # {}
           /\ \E n \in settled : Finish(e.row, n)
           /\ Goto(w, "follow") /\ tick' = [tick EXCEPT ![w] = next]
  <2>1. PICK n \in 1..final : Finish(e.row, n)
    BY <1>5 DEF FinalReceipts
  <2>2. TablesKept
    BY <1>2, <2>1, FinishKeeps DEF Follow, chain
  <2> QED
    BY <1>1, <1>3, <1>4, <1>5, <2>2, TickStep DEF Follow
<1>6. CASE /\ CancelPrepared(e.row)
           /\ Goto(w, "follow") /\ tick' = [tick EXCEPT ![w] = next]
  <2>1. TablesKept
    BY <1>2, <1>6, CancelKeeps DEF Follow, chain
  <2> QED
    BY <1>1, <1>3, <1>4, <1>6, <2>1, TickStep DEF Follow
<1>7. CASE UNCHANGED tables /\ EndTick(w)
  <2>1. TablesKept
    BY <1>7, TablesSame DEF Follow, chain
  <2> QED
    BY <1>7, <2>1, TickEnds DEF Follow
<1>8. ASSUME UNCHANGED tables, NEW p \in {"validate", "recover"},
             Goto(w, p), tick' = [tick EXCEPT ![w] = [next EXCEPT !.row = e.row, !.sig = e.sig]]
      PROVE  RecordInv'
  <2> PICK t : t = [next EXCEPT !.row = e.row, !.sig = e.sig]
    OBVIOUS
  <2>1. t \in Tick /\ t.queue = next.queue /\ t.row = e.row /\ t.sig = e.sig
    BY <1>1, <1>2 DEF Tick
  <2>2. TablesKept
    BY <1>8, TablesSame DEF Follow, chain
  <2>3. Knows(p, t)
    BY <1>1, <1>2, <2>1 DEF Knows
  <2>4. Knows(p, t)'
    BY <2>1, <2>2, <2>3, KnownStays DEF TablesKept
  <2> QED
    BY <1>3, <1>8, <2>1, <2>2, <2>4, TickStep DEF Follow
<1> QED
  BY <1>5, <1>6, <1>7, <1>8 DEF Follow

\* Prepare.
LEMMA PrepareRecords ==
    ASSUME RecordInv, NEW w \in Workers, Prepare(w)
    PROVE  RecordInv'
<1>1. TablesKept
  BY TablesSame DEF Prepare, chain
<1>2. CASE EndTick(w)
  BY <1>1, <1>2, TickEnds DEF Prepare
<1>3. CASE \E job \in Jobs, nonce \in PendingCounts, cost \in TxCosts :
             /\ Goto(w, "save")
             /\ tick' = [tick EXCEPT ![w].sig = [job |-> job, nonce |-> nonce, cost |-> cost]]
  <2>1. PICK job \in Jobs, nonce \in PendingCounts, cost \in TxCosts :
             /\ Goto(w, "save")
             /\ tick' = [tick EXCEPT ![w].sig = [job |-> job, nonce |-> nonce, cost |-> cost]]
    BY <1>3
  <2> PICK s : s = [job |-> job, nonce |-> nonce, cost |-> cost]
    OBVIOUS
  <2> PICK t : t = [tick[w] EXCEPT !.sig = s]
    OBVIOUS
  <2>2. s \in Sig
    <3>1. nonce \in Nat /\ cost \in Nat
      BY LaneAssumption DEF PendingCounts, RecordInv, TypeOK
    <3> QED
      BY <3>1 DEF Sig
  <2>3. tick[w] \in Tick /\ tick \in [Workers -> Tick]
    BY DEF RecordInv, TypeOK
  <2>4. t \in Tick /\ t.queue = tick[w].queue /\ tick' = [tick EXCEPT ![w] = t]
    BY <2>1, <2>2, <2>3 DEF Tick
  <2>5. Knows("save", t)
    BY <2>4 DEF RecordInv, WorkerOK, Knows
  <2>6. Knows("save", t)' /\ "save" \in Steps
    BY <1>1, <2>4, <2>5, KnownStays DEF TablesKept, Steps
  <2> QED
    BY <1>1, <2>1, <2>4, <2>6, TickStep DEF Prepare
<1> QED
  BY <1>2, <1>3 DEF Prepare

\* A step that writes nothing but where the worker is.
LEMMA GotoRecords ==
    ASSUME RecordInv, NEW w \in Workers, NEW p \in Steps, Goto(w, p), UNCHANGED tick,
           Knows(p, tick[w]), TablesKept, UNCHANGED <<world, chain>>
    PROVE  RecordInv'
<1> PICK t : t = tick[w]
  OBVIOUS
<1>1. t \in Tick /\ tick' = [tick EXCEPT ![w] = t] /\ Knows(p, t)
  BY DEF RecordInv, TypeOK
<1>2. Knows(p, t)'
  BY <1>1, KnownStays DEF TablesKept
<1> QED
  BY <1>1, <1>2, TickStep

\* Save.
LEMMA SaveRecords ==
    ASSUME RecordInv, NEW w \in Workers, Save(w)
    PROVE  RecordInv'
<1> PICK s : s = tick[w].sig
  OBVIOUS
<1> PICK r : r = FreeRow
  OBVIOUS
<1>1. CASE EndTick(w) /\ UNCHANGED rows
  <2>1. TablesKept
    BY <1>1, TablesSame DEF Save, chain, tables
  <2> QED
    BY <1>1, <2>1, TickEnds DEF Save
<1>2. CASE /\ FreeRows # {}
           /\ rows' = [rows EXCEPT ![r] =
                 [state |-> "prepared", sig |-> s, reserved |-> s.cost, day |-> day]]
           /\ Goto(w, "validate")
           /\ tick' = [tick EXCEPT ![w].row = r]
  <2> PICK row : row = [state |-> "prepared", sig |-> s, reserved |-> s.cost, day |-> day]
    OBVIOUS
  <2> PICK t : t = [tick[w] EXCEPT !.row = r]
    OBVIOUS
  <2>1. r \in RowIds /\ rows[r].state = "none"
    BY <1>2 DEF FreeRow, FreeRows
  <2>2. /\ tick[w] \in Tick /\ tick \in [Workers -> Tick] /\ s \in Sig /\ s.cost \in Nat
        /\ day \in Nat /\ rows \in [RowIds -> Row]
    BY LaneAssumption DEF RecordInv, TypeOK, Tick, Sig
  <2>3. row \in Row /\ row.state = "prepared" /\ row.sig = s
    BY <2>2 DEF Row
  <2>4. TablesKept
    BY <1>2, <2>1, <2>3, SaveKeeps DEF Save, chain
  <2>5. t \in Tick /\ t.queue = tick[w].queue /\ t.row = r /\ t.sig = s
        /\ tick' = [tick EXCEPT ![w] = t]
    BY <1>2, <2>1, <2>2 DEF Tick
  <2>6. Knows("save", t)
    BY <2>5 DEF RecordInv, WorkerOK, Knows
  <2>7. Knows("save", t)'
    BY <2>4, <2>5, <2>6, KnownStays DEF TablesKept
  <2>8. Seen(r, s)'
    <3>1. rows'[r] = row
      BY <1>2, <2>1, <2>2
    <3> QED
      BY <2>3, <3>1 DEF Seen
  <2>9. Knows("validate", t)' /\ "validate" \in Steps
    BY <2>1, <2>5, <2>7, <2>8 DEF Knows, Steps
  <2> QED
    BY <1>2, <2>4, <2>5, <2>9, TickStep DEF Save
<1> QED
  BY <1>1, <1>2 DEF Save

\* Validate.
LEMMA ValidateRecords ==
    ASSUME RecordInv, NEW w \in Workers, Validate(w)
    PROVE  RecordInv'
<1> PICK r : r = tick[w].row
  OBVIOUS
<1>1. WorkerOK(w) /\ r \in RowIds /\ Seen(r, tick[w].sig)
  BY DEF RecordInv, WorkerOK, Knows, Validate
<1>2. CASE CancelPrepared(r) /\ EndTick(w)
  <2>1. TablesKept
    BY <1>1, <1>2, CancelKeeps DEF Validate, chain
  <2> QED
    BY <1>2, <2>1, TickEnds DEF Validate
<1>3. CASE UNCHANGED rows /\ EndTick(w)
  <2>1. TablesKept
    BY <1>3, TablesSame DEF Validate, chain, tables
  <2> QED
    BY <1>3, <2>1, TickEnds DEF Validate
<1>4. CASE UNCHANGED rows /\ Goto(w, "mark") /\ UNCHANGED tick
  <2>1. TablesKept
    BY <1>4, TablesSame DEF Validate, chain, tables
  <2>2. Knows("mark", tick[w]) /\ "mark" \in Steps
    BY <1>1 DEF WorkerOK, Knows, Steps
  <2> QED
    BY <1>4, <2>1, <2>2, GotoRecords DEF Validate
<1> QED
  BY <1>2, <1>3, <1>4 DEF Validate

\* Marked before it is sent.
LEMMA MarkRecords ==
    ASSUME RecordInv, NEW w \in Workers, MarkBroadcasting(w)
    PROVE  RecordInv'
<1> PICK r : r = tick[w].row
  OBVIOUS
<1> PICK t : t = tick[w]
  OBVIOUS
<1>1. WorkerOK(w) /\ r \in RowIds /\ Seen(r, t.sig) /\ t \in Tick
  BY DEF RecordInv, TypeOK, WorkerOK, Knows, MarkBroadcasting
<1>2. CASE EndTick(w) /\ UNCHANGED rows
  <2>1. TablesKept
    BY <1>2, TablesSame DEF MarkBroadcasting, chain, tables
  <2> QED
    BY <1>2, <2>1, TickEnds DEF MarkBroadcasting
<1>3. CASE /\ rows[r].state = "prepared"
           /\ rows' = [rows EXCEPT ![r].state = "broadcasting", ![r].day = day]
           /\ Goto(w, "send") /\ UNCHANGED tick
  <2> DEFINE row == [rows[r] EXCEPT !.state = "broadcasting", !.day = day]
  <2>1. rows \in [RowIds -> Row] /\ day \in Nat /\ tick \in [Workers -> Tick]
    BY LaneAssumption DEF RecordInv, TypeOK
  <2>2. rows' = [rows EXCEPT ![r] = row]
    BY <1>1, <1>3, <2>1
  <2>3. row \in Row /\ row.state = "broadcasting" /\ row.sig = rows[r].sig
    BY <1>1, <2>1 DEF Row
  <2> HIDE DEF row
  <2>4. TablesKept
    BY <1>1, <1>3, <2>2, <2>3, StateKeeps DEF MarkBroadcasting, chain
  <2>5. rows'[r] = row
    BY <1>1, <2>1, <2>2
  <2>6. Recorded(r, t.sig)'
    BY <1>1, <1>3, <2>3, <2>5 DEF Recorded, Marked, Seen
  <2>7. Knows("mark", t)
    BY DEF RecordInv, WorkerOK, MarkBroadcasting
  <2>8. Knows("mark", t)'
    BY <1>1, <2>4, <2>7, KnownStays DEF TablesKept
  <2>9. Knows("send", t)' /\ "send" \in Steps
    BY <2>6, <2>8 DEF Knows, Steps
  <2>10. tick' = [tick EXCEPT ![w] = t]
    BY <1>3, <2>1
  <2> QED
    BY <1>1, <1>3, <2>4, <2>9, <2>10, TickStep DEF MarkBroadcasting
<1> QED
  BY <1>2, <1>3 DEF MarkBroadcasting

\* Only what is recorded is handed out.
LEMMA HandOut ==
    ASSUME RecordInv, NEW w \in Workers, NEW p \in Steps, NEW x \in Sig,
           Recorded(tick[w].row, x), tick[w].row \in RowIds,
           sent' \in {sent, sent \cup {x}}, Goto(w, p), UNCHANGED tick,
           Knows(p, tick[w]), UNCHANGED <<world, mined, final, tables>>
    PROVE  RecordInv'
<1> PICK t : t = tick[w]
  OBVIOUS
<1>1. TablesKept
  BY TablesSame
<1>2. TypeOK
  BY DEF RecordInv
<1>3. Moves(w) /\ pc'[w] = p /\ tick'[w] = t
  BY <1>2, GotoMoves
<1>4. t \in Tick /\ Knows(p, t)
  BY <1>2 DEF TypeOK
<1>5. Knows(p, t)'
  BY <1>1, <1>4, KnownStays DEF TablesKept
<1>6. WorkerOK(w)'
  BY <1>3, <1>5, KnownOf
<1> QED
  BY <1>1, <1>3, <1>6, RecordStep

\* Send.
LEMMA SendRecords ==
    ASSUME RecordInv, NEW w \in Workers, Send(w)
    PROVE  RecordInv'
<1>1. tick[w].sig \in Sig
  BY DEF RecordInv, TypeOK, Tick
<1>2. WorkerOK(w) /\ tick[w].row \in RowIds /\ Recorded(tick[w].row, tick[w].sig)
  BY DEF RecordInv, WorkerOK, Knows, Send
<1>3. Knows("record", tick[w]) /\ "record" \in Steps
  BY <1>2 DEF WorkerOK, Knows, Steps
<1> QED
  BY <1>1, <1>2, <1>3, HandOut DEF Send

\* SendReplacement.
LEMMA SendReplacementRecords ==
    ASSUME RecordInv, NEW w \in Workers, SendReplacement(w)
    PROVE  RecordInv'
<1>1. Replacement(tick[w].sig) \in Sig
  BY ReplacementSig DEF RecordInv, TypeOK, Tick
<1>2. WorkerOK(w) /\ tick[w].row \in RowIds /\ Recorded(tick[w].row, Replacement(tick[w].sig))
  BY DEF RecordInv, WorkerOK, Knows, SendReplacement
<1>3. Knows("submitted", tick[w]) /\ "submitted" \in Steps
  BY <1>2 DEF WorkerOK, Knows, Steps
<1> QED
  BY <1>1, <1>2, <1>3, HandOut DEF SendReplacement

\* Record.
LEMMA RecordRecords ==
    ASSUME RecordInv, NEW w \in Workers, Record(w)
    PROVE  RecordInv'
<1> PICK r : r = tick[w].row
  OBVIOUS
<1>1. r \in RowIds /\ rows \in [RowIds -> Row]
  BY DEF RecordInv, TypeOK, WorkerOK, Knows, Record
<1>2. TablesKept
  <2>1. CASE rows[r].state # "broadcasting"
    BY <2>1, TablesSame DEF Record, chain, tables
  <2>2. CASE rows[r].state = "broadcasting"
    <3> DEFINE row == [rows[r] EXCEPT !.state = "unknown"]
    <3>1. rows' = [rows EXCEPT ![r] = row]
      BY <1>1, <2>2 DEF Record
    <3>2. row \in Row /\ row.state = "unknown" /\ row.sig = rows[r].sig
      BY <1>1 DEF Row
    <3> HIDE DEF row
    <3> QED
      BY <1>1, <2>2, <3>1, <3>2, StateKeeps DEF Record, chain
  <2> QED
    BY <2>1, <2>2
<1> QED
  BY <1>2, TickEnds DEF Record

\* PrepareRecovery.
LEMMA PrepareRecoveryRecords ==
    ASSUME RecordInv, NEW w \in Workers, PrepareRecovery(w)
    PROVE  RecordInv'
<1> PICK r : r = tick[w].row
  OBVIOUS
<1> PICK s : s = tick[w].sig
  OBVIOUS
<1>1. r \in RowIds /\ s \in Sig /\ Replacement(s) \in Sig
  BY ReplacementSig DEF RecordInv, TypeOK, Tick, WorkerOK, Knows, PrepareRecovery
<1>2. CASE EndTick(w) /\ UNCHANGED recoveries
  <2>1. TablesKept
    BY <1>2, TablesSame DEF PrepareRecovery, chain, tables
  <2> QED
    BY <1>2, <2>1, TickEnds DEF PrepareRecovery
<1>3. CASE /\ rows[r].state \in {"broadcasting", "unknown"} /\ rows[r].sig = s
           /\ recoveries[r].state = "none"
           /\ recoveries' = [recoveries EXCEPT ![r] =
                [state |-> "prepared", original |-> s, replacement |-> Replacement(s)]]
           /\ Goto(w, "readmit") /\ UNCHANGED tick
  <2>1. TablesKept
    BY <1>1, <1>3, PrepareKeeps DEF PrepareRecovery, chain
  <2>2. Knows("readmit", tick[w]) /\ "readmit" \in Steps
    BY <1>1 DEF RecordInv, WorkerOK, Knows, Steps
  <2> QED
    BY <1>3, <2>1, <2>2, GotoRecords DEF PrepareRecovery
<1> QED
  BY <1>2, <1>3 DEF PrepareRecovery

\* Readmit.
LEMMA ReadmitRecords ==
    ASSUME RecordInv, NEW w \in Workers, Readmit(w)
    PROVE  RecordInv'
<1>1. TablesKept
  BY TablesSame DEF Readmit, chain
<1>2. CASE EndTick(w)
  BY <1>1, <1>2, TickEnds DEF Readmit
<1>3. CASE Goto(w, "start") /\ UNCHANGED tick
  <2>1. Knows("start", tick[w]) /\ "start" \in Steps
    BY DEF RecordInv, WorkerOK, Knows, Steps, Readmit
  <2> QED
    BY <1>1, <1>3, <2>1, GotoRecords DEF Readmit
<1> QED
  BY <1>2, <1>3 DEF Readmit

\* StartRecovery.
LEMMA StartRecoveryRecords ==
    ASSUME RecordInv, NEW w \in Workers, StartRecovery(w)
    PROVE  RecordInv'
<1> PICK r : r = tick[w].row
  OBVIOUS
<1> PICK t : t = tick[w]
  OBVIOUS
<1>1. t \in Tick /\ r \in RowIds /\ t.sig \in Sig /\ Replacement(t.sig) \in Sig
  BY ReplacementSig DEF RecordInv, TypeOK, Tick, WorkerOK, Knows, StartRecovery
<1>2. CASE EndTick(w) /\ UNCHANGED tables
  <2>1. TablesKept
    BY <1>2, TablesSame DEF StartRecovery, chain
  <2> QED
    BY <1>2, <2>1, TickEnds DEF StartRecovery
<1>3. CASE /\ rows[r].sig = t.sig /\ rows[r].state \in {"broadcasting", "unknown"}
           /\ recoveries[r].state = "prepared"
           /\ recoveries' = [recoveries EXCEPT ![r].state = "broadcasting"]
           /\ rows' = [rows EXCEPT ![r].sig = Replacement(t.sig), ![r].state = "unknown",
                                   ![r].reserved = Replacement(t.sig).cost, ![r].day = day]
           /\ Goto(w, "resend") /\ UNCHANGED tick
  <2>1. TablesKept /\ Recorded(r, Replacement(t.sig))'
    BY <1>1, <1>3, StartKeeps DEF StartRecovery, chain
  <2>2. Knows("start", t)
    BY DEF RecordInv, WorkerOK, StartRecovery
  <2>3. Knows("start", t)'
    BY <1>1, <2>1, <2>2, KnownStays DEF TablesKept
  <2>4. Knows("resend", t)' /\ "resend" \in Steps
    BY <2>1, <2>3 DEF Knows, Steps
  <2>5. tick' = [tick EXCEPT ![w] = t]
    BY <1>3 DEF RecordInv, TypeOK
  <2> QED
    BY <1>1, <1>3, <2>1, <2>4, <2>5, TickStep DEF StartRecovery
<1> QED
  BY <1>2, <1>3 DEF StartRecovery

\* RecoverySubmitted.
LEMMA RecoverySubmittedRecords ==
    ASSUME RecordInv, NEW w \in Workers, RecoverySubmitted(w)
    PROVE  RecordInv'
<1>1. tick[w].row \in RowIds
  BY DEF RecordInv, WorkerOK, Knows, RecoverySubmitted
<1>2. TablesKept
  BY <1>1, SubmittedKeeps DEF RecoverySubmitted, chain
<1> QED
  BY <1>2, TickEnds DEF RecoverySubmitted

-----------------------------------------------------------------------------
(* The world.                                                              *)

\* What happens outside leaves the rows, the workers and what is final.
LEMMA OutsideStep ==
    ASSUME RecordInv, TypeOK', UNCHANGED <<sent, tables, pc, tick>>,
           final <= final', \A n \in 1..final : mined'[n] = mined[n]
    PROVE  RecordInv'
<1>1. rows' = rows /\ recoveries' = recoveries /\ sent' = sent /\ pc' = pc /\ tick' = tick
  BY DEF tables
<1>2. Grows
  BY <1>1 DEF Grows, Recorded, Marked, Seen
<1>3. \A r \in RowIds : RecoveryOK(r)'
  BY <1>1 DEF RecordInv, RecoveryOK, Marked
<1>4. \A s \in sent' : \E r \in RowIds : Recorded(r, s)'
  BY <1>1, <1>2 DEF RecordInv, Grows
<1>5. \A w \in Workers : WorkerOK(w)'
  <2> SUFFICES ASSUME NEW w \in Workers PROVE WorkerOK(w)'
    OBVIOUS
  <2> PICK p : p = pc[w]
    OBVIOUS
  <2> PICK t : t = tick[w]
    OBVIOUS
  <2>1. t \in Tick /\ Knows(p, t)
    BY DEF RecordInv, TypeOK, WorkerOK
  <2>2. Knows(p, t)'
    BY <1>2, <2>1, KnownStays
  <2> QED
    BY <1>1, <2>2, KnownOf
<1>6. ConfirmedIsMined'
  <2>1. final \in Nat /\ final' \in Nat /\ 1..final \subseteq 1..final'
    BY DEF RecordInv, TypeOK
  <2> QED
    BY <1>1, <2>1 DEF RecordInv, ConfirmedIsMined
<1> QED
  BY <1>3, <1>4, <1>5, <1>6 DEF RecordInv

\* Fail.
LEMMA FailRecords ==
    ASSUME RecordInv, NEW w \in Workers, Fail(w)
    PROVE  RecordInv'
<1>1. TypeOK /\ Moves(w) /\ WorkerOK(w)'
  BY EndTickMoves DEF RecordInv, Fail
<1>2. UNCHANGED <<tables, chain, day, lockLosses, reorgs>> /\ faults' = faults + 1
  BY DEF Fail
<1>3. TablesKept
  BY <1>2, TablesSame DEF chain
<1>4. TypeOK'
  BY <1>1, <1>2, <1>3 DEF TypeOK, Moves, TablesKept, chain
<1>5. \A s \in sent' : \E r \in RowIds : Recorded(r, s)'
  BY <1>2, <1>3 DEF RecordInv, TablesKept, Grows, chain
<1>6. \A v \in Workers : WorkerOK(v)'
  <2> SUFFICES ASSUME NEW v \in Workers \ {w} PROVE WorkerOK(v)'
    BY <1>1
  <2> PICK p : p = pc[v]
    OBVIOUS
  <2> PICK t : t = tick[v]
    OBVIOUS
  <2>1. t \in Tick /\ Knows(p, t)
    BY DEF RecordInv, TypeOK, WorkerOK
  <2>2. Knows(p, t)'
    BY <1>3, <2>1, KnownStays DEF TablesKept
  <2>3. pc'[v] = p /\ tick'[v] = t
    BY <1>1 DEF Moves
  <2> QED
    BY <2>2, <2>3, KnownOf
<1> QED
  BY <1>3, <1>4, <1>5, <1>6 DEF RecordInv, TablesKept

\* The lock, the day and the owners.
LEMMA OthersRecord ==
    ASSUME RecordInv,
           \/ \E w \in Workers : LoseLock(w)
           \/ NewDay
           \/ \E job \in Fickle : SetEnabled(job) \/ OwnerSettles(job)
    PROVE  RecordInv'
<1>1. TypeOK
  BY DEF RecordInv
<1>2. UNCHANGED <<chain, tables, pc, tick>> /\ faults' = faults /\ reorgs' = reorgs
  BY DEF LoseLock, NewDay, SetEnabled, OwnerSettles
<1>3. lock' \in {lock, NoWorker} /\ lockLosses' \in {lockLosses, lockLosses + 1}
  BY DEF LoseLock, NewDay, SetEnabled, OwnerSettles
<1>4. day' \in 0..MaxDay
  <2>1. MaxDay \in Nat /\ day \in 0..MaxDay
    BY <1>1, LaneAssumption DEF TypeOK
  <2> QED
    BY <2>1 DEF LoseLock, NewDay, SetEnabled, OwnerSettles
<1>5. TypeOK'
  BY <1>1, <1>2, <1>3, <1>4 DEF TypeOK, chain, tables
<1>6. sent' = sent /\ final' = final /\ mined' = mined /\ final \in Nat
  BY <1>1, <1>2 DEF chain, TypeOK
<1> QED
  BY <1>2, <1>5, <1>6, OutsideStep

\* The chain grows, settles and is reorganised above what is final.
LEMMA ChainRecords ==
    ASSUME RecordInv, Mine \/ Finalise \/ Reorganise
    PROVE  RecordInv'
<1>1. /\ TypeOK /\ mined \in Seq(Receipt) /\ final \in Nat /\ final <= Len(mined)
      /\ Len(mined) \in Nat
  BY DEF RecordInv, TypeOK
<1>2. /\ UNCHANGED <<sent, tables, lock, pc, tick, day, faults, lockLosses>>
      /\ reorgs' \in {reorgs, reorgs + 1}
  BY DEF Mine, Finalise, Reorganise, world
<1>3. /\ mined' \in Seq(Receipt) /\ final' \in Nat /\ final' <= Len(mined')
      /\ final <= final' /\ \A n \in 1..final : mined'[n] = mined[n]
  <2>1. CASE Mine
    <3> PICK s \in sent : mined' = Append(mined, [sig |-> s, ok |-> Eligible(s.job)])
      BY <2>1 DEF Mine
    <3>1. [sig |-> s, ok |-> Eligible(s.job)] \in Receipt
      <4>1. Eligible(s.job) \in BOOLEAN
        BY DEF Eligible
      <4>2. s \in Sig
        BY <1>1 DEF TypeOK
      <4> QED
        BY <4>1, <4>2 DEF Receipt
    <3> PICK x \in Receipt : x = [sig |-> s, ok |-> Eligible(s.job)]
      BY <3>1
    <3>2. mined' = Append(mined, x) /\ final' = final
      BY <2>1 DEF Mine
    <3>3. mined' \in Seq(Receipt) /\ Len(mined') = Len(mined) + 1
      BY <1>1, <3>2
    <3>4. \A n \in 1..Len(mined) : mined'[n] = mined[n]
      BY <1>1, <3>2
    <3> QED
      BY <1>1, <3>2, <3>3, <3>4
  <2>2. CASE Finalise
    BY <1>1, <2>2 DEF Finalise
  <2>3. CASE Reorganise
    <3> PICK n \in final..(Len(mined) - 1) : mined' = SubSeq(mined, 1, n)
      BY <2>3 DEF Reorganise
    <3>1. n \in Nat /\ n <= Len(mined) /\ final <= n /\ final' = final
      BY <1>1, <2>3 DEF Reorganise
    <3>2. mined' \in Seq(Receipt) /\ Len(mined') = n /\ \A k \in 1..n : mined'[k] = mined[k]
      BY <1>1, <3>1
    <3> QED
      BY <1>1, <3>1, <3>2
  <2> QED
    BY <2>1, <2>2, <2>3
<1>4. TypeOK'
  BY <1>1, <1>2, <1>3 DEF TypeOK, tables
<1> QED
  BY <1>2, <1>3, <1>4, OutsideStep

-----------------------------------------------------------------------------
(* What is on record, always.                                              *)

\* The start: nothing is on record and nothing is out.
LEMMA InitRecord == Init => RecordInv
<1> SUFFICES ASSUME Init PROVE RecordInv
  OBVIOUS
<1>1. NoSig \in Sig /\ NoRow \in Row /\ NoRecovery \in Recovery
      /\ NoRow.state = "none" /\ NoRecovery.state = "none"
  <2>1. NoSig \in Sig
    BY DEF NoSig, Sig
  <2> QED
    BY <2>1 DEF NoRow, NoRecovery, Row, Recovery
<1>2. MaxDay \in Nat
  BY LaneAssumption
<1>3. <<>> \in Seq(Receipt) /\ Len(<<>>) = 0
  OBVIOUS
<1>4. TypeOK
  BY <1>1, <1>2, <1>3, NoTickType DEF Init, TypeOK, Steps
<1>5. \A r \in RowIds : rows[r].state = "none" /\ recoveries[r].state = "none"
  BY <1>1 DEF Init
<1>6. \A w \in Workers : WorkerOK(w)
  <2> SUFFICES ASSUME NEW w \in Workers PROVE WorkerOK(w)
    OBVIOUS
  <2>1. pc[w] = "idle" /\ tick[w].queue = <<>> /\ Len(tick[w].queue) = 0
    BY <1>3, NoTickType DEF Init
  <2> QED
    BY <2>1 DEF WorkerOK, Knows
<1> QED
  BY <1>4, <1>5, <1>6 DEF Init, RecordInv, RecoveryOK, ConfirmedIsMined

\* Every step.
LEMMA StepRecord == RecordInv /\ [Next]_vars => RecordInv'
<1> SUFFICES ASSUME RecordInv, [Next]_vars PROVE RecordInv'
  OBVIOUS
<1>1. ASSUME NEW w \in Workers, Work(w) PROVE RecordInv'
  BY <1>1, BeginRecords, FollowRecords, PrepareRecords, SaveRecords, ValidateRecords, MarkRecords,
     SendRecords, RecordRecords, PrepareRecoveryRecords, ReadmitRecords, StartRecoveryRecords,
     SendReplacementRecords, RecoverySubmittedRecords DEF Work
<1>2. ASSUME NEW w \in Workers, Fail(w) PROVE RecordInv'
  BY <1>2, FailRecords
<1>3. CASE \/ \E w \in Workers : LoseLock(w)
           \/ NewDay
           \/ \E job \in Fickle : SetEnabled(job) \/ OwnerSettles(job)
  BY <1>3, OthersRecord
<1>4. CASE Mine \/ Finalise \/ Reorganise
  BY <1>4, ChainRecords
<1>5. CASE UNCHANGED vars
  <2>1. UNCHANGED <<sent, mined, final, tables, pc, tick, lock, day, lockLosses, faults, reorgs>>
    BY <1>5 DEF vars, world, chain
  <2>2. TypeOK' /\ final \in Nat
    BY <2>1 DEF RecordInv, TypeOK, tables
  <2> QED
    BY <2>1, <2>2, OutsideStep
<1> QED
  BY <1>1, <1>2, <1>3, <1>4, <1>5 DEF Next

\* Every reachable state of the lane has a consistent record, whatever stops,
\* loses its lock or is reorganised.
THEOREM RecordInvariant == Spec => []RecordInv
  BY InitRecord, StepRecord, PTL DEF Spec

\* Whatever the network may hold is on record.
THEOREM NothingUnrecordedAlways == Spec => []NothingUnrecorded
<1>1. RecordInv => NothingUnrecorded
  BY DEF RecordInv, NothingUnrecorded, Recorded, Marked
<1> QED
  BY <1>1, RecordInvariant, PTL

\* What the database calls settled is what the chain has settled.
THEOREM SettledOnChain == Spec => []ConfirmedIsMined
<1>1. RecordInv => ConfirmedIsMined
  BY DEF RecordInv
<1> QED
  BY <1>1, RecordInvariant, PTL

-----------------------------------------------------------------------------
(* One process in the lane: the rows and what they reserve.                *)

\* The constants and the rows, as sums need them.
LEMMA RowFacts ==
    ASSUME RecordInv
    PROVE  /\ rows \in [RowIds -> Row] /\ IsFiniteSet(RowIds)
           /\ \A r \in RowIds : rows[r].reserved \in Nat /\ rows[r].day \in Nat /\ rows[r].sig \in Sig
           /\ DailyBudget \in Nat /\ MaxDay \in Nat /\ day \in 0..MaxDay
<1>1. rows \in [RowIds -> Row] /\ day \in 0..MaxDay
  BY DEF RecordInv, TypeOK
<1>2. IsFiniteSet(RowIds) /\ DailyBudget \in Nat /\ MaxDay \in Nat
  BY LaneAssumption, FS_Interval DEF RowIds
<1>3. \A r \in RowIds : rows[r] \in Row
  BY <1>1
<1>4. \A r \in RowIds : rows[r].reserved \in Nat /\ rows[r].day \in Nat /\ rows[r].sig \in Sig
  BY <1>3 DEF Row
<1> QED
  BY <1>1, <1>2, <1>4

\* What a set of rows reserves is a number.
LEMMA ReservedNat ==
    ASSUME RecordInv, NEW S
    PROVE  Reserved(S) \in Nat
<1> DEFINE f == [r \in RowIds |-> IF r \in S THEN rows[r].reserved ELSE 0]
<1>1. IsFiniteSet(RowIds) /\ \A r \in RowIds : f[r] \in Nat
  BY RowFacts
<1> HIDE DEF f
<1>2. Total(f, RowIds) \in Nat
  BY <1>1, TotalNat
<1> QED
  BY <1>2 DEF Reserved, f

\* No day has spent more where no row has been added to what it has spent.
LEMMA SpendsNoMore ==
    ASSUME RecordInv, RecordInv', BudgetOK,
           \A d \in 0..MaxDay : \A r \in RowIds :
               r \in Spent(d)' => r \in Spent(d) /\ rows'[r].reserved = rows[r].reserved
    PROVE  BudgetOK'
<1> SUFFICES ASSUME NEW d \in 0..MaxDay PROVE Reserved(Spent(d))' <= DailyBudget
  BY DEF BudgetOK
<1> DEFINE f == [r \in RowIds |-> IF r \in Spent(d) THEN rows[r].reserved ELSE 0]
<1> DEFINE g == [r \in RowIds |-> IF r \in Spent(d)' THEN rows'[r].reserved ELSE 0]
<1>1. IsFiniteSet(RowIds) /\ \A r \in RowIds : rows[r].reserved \in Nat
  BY RowFacts
<1>2. \A r \in RowIds : rows'[r].reserved \in Nat
  <2>1. \A r \in RowIds : rows'[r] \in Row
    BY DEF RecordInv, TypeOK
  <2> QED
    BY <2>1 DEF Row
<1>3. \A r \in RowIds : f[r] \in Nat
  BY <1>1
<1>4. \A r \in RowIds : g[r] \in Nat
  BY <1>2
<1>5. \A r \in RowIds : g[r] <= f[r]
  <2> SUFFICES ASSUME NEW r \in RowIds PROVE g[r] <= f[r]
    OBVIOUS
  <2>1. CASE r \in Spent(d)'
    BY <1>1, <2>1
  <2>2. CASE r \notin Spent(d)'
    <3>1. g[r] = 0 /\ f[r] \in Nat
      BY <1>3, <2>2
    <3> QED
      BY <3>1
  <2> QED
    BY <2>1, <2>2
<1>6. Reserved(Spent(d))' = Total(g, RowIds) /\ Reserved(Spent(d)) = Total(f, RowIds)
  BY DEF Reserved
<1> HIDE DEF f, g
<1>7. Total(g, RowIds) <= Total(f, RowIds) /\ Total(g, RowIds) \in Nat /\ Total(f, RowIds) \in Nat
  BY <1>1, <1>3, <1>4, <1>5, TotalMono, TotalNat
<1>8. Reserved(Spent(d)) <= DailyBudget /\ DailyBudget \in Nat
  BY RowFacts DEF BudgetOK
<1> QED
  BY <1>6, <1>7, <1>8

\* A row counted today at what the check left room for.
LEMMA SpendsRoom ==
    ASSUME RecordInv, RecordInv', BudgetOK, day' = day,
           NEW r \in RowIds, NEW row \in Row, rows' = [rows EXCEPT ![r] = row], row.day = day,
           SpentToday(r) + row.reserved <= DailyBudget
    PROVE  BudgetOK'
<1> SUFFICES ASSUME NEW d \in 0..MaxDay PROVE Reserved(Spent(d))' <= DailyBudget
  BY DEF BudgetOK
<1> DEFINE S == {q \in RowIds \ {r} : rows[q].state # "none" /\ rows[q].day = day}
<1> DEFINE f == [q \in RowIds |-> IF q \in Spent(d) THEN rows[q].reserved ELSE 0]
<1> DEFINE t == [q \in RowIds |-> IF q \in S THEN rows[q].reserved ELSE 0]
<1> DEFINE m == [t EXCEPT ![r] = row.reserved]
<1> DEFINE g == [q \in RowIds |-> IF q \in Spent(d)' THEN rows'[q].reserved ELSE 0]
<1>1. /\ rows \in [RowIds -> Row] /\ IsFiniteSet(RowIds)
      /\ \A q \in RowIds : rows[q].reserved \in Nat
  BY RowFacts
<1>2. row.reserved \in Nat /\ row.day = day
  BY DEF Row
<1>3. rows'[r] = row /\ \A q \in RowIds \ {r} : rows'[q] = rows[q]
  BY <1>1
<1>4. \A q \in RowIds : f[q] \in Nat
  BY <1>1
<1>5. \A q \in RowIds : t[q] \in Nat
  BY <1>1
<1>6. t[r] = 0
  OBVIOUS
<1>7. /\ m[r] = row.reserved
      /\ \A q \in RowIds \ {r} : m[q] = t[q]
  OBVIOUS
<1>8. \A q \in RowIds : g[q] \in Nat
  BY <1>1, <1>2, <1>3
<1>9. d = day => \A q \in RowIds : g[q] <= m[q]
  <2> SUFFICES ASSUME d = day, NEW q \in RowIds PROVE g[q] <= m[q]
    OBVIOUS
  <2>1. CASE q = r
    BY <1>2, <1>3, <1>7, <2>1
  <2>2. CASE q # r
    <3>1. q \in Spent(d)' => q \in S
      BY <1>3, <2>2 DEF Spent
    <3>2. m[q] = t[q] /\ t[q] \in Nat
      BY <1>5, <1>7, <2>2
    <3>3. q \in S => t[q] = rows[q].reserved
      OBVIOUS
    <3> QED
      BY <1>1, <1>3, <2>2, <3>1, <3>2, <3>3
  <2> QED
    BY <2>1, <2>2
<1>10. d # day => \A q \in RowIds : g[q] <= f[q]
  <2> SUFFICES ASSUME d # day, NEW q \in RowIds PROVE g[q] <= f[q]
    OBVIOUS
  <2>1. CASE q = r
    <3>1. q \notin Spent(d)'
      BY <1>2, <1>3, <2>1 DEF Spent
    <3>2. g[q] = 0 /\ f[q] \in Nat
      BY <1>4, <3>1
    <3> QED
      BY <3>2
  <2>2. CASE q # r
    <3>1. q \in Spent(d)' <=> q \in Spent(d)
      BY <1>3, <2>2 DEF Spent
    <3> QED
      BY <1>1, <1>3, <2>2, <3>1
  <2> QED
    BY <2>1, <2>2
<1>11. /\ Reserved(Spent(d))' = Total(g, RowIds) /\ Reserved(Spent(d)) = Total(f, RowIds)
       /\ SpentToday(r) = Total(t, RowIds)
  BY DEF Reserved, SpentToday
<1> HIDE DEF S, f, t, m, g
<1>12. \A q \in RowIds : m[q] \in Nat
  BY <1>2, <1>5, <1>7
<1>13. Total(m, RowIds) = Total(t, RowIds) - t[r] + m[r]
  BY <1>1, <1>5, <1>7, <1>12, TotalUpdate
<1>14. /\ Total(f, RowIds) \in Nat /\ Total(t, RowIds) \in Nat
       /\ Total(g, RowIds) \in Nat /\ Total(m, RowIds) \in Nat
  BY <1>1, <1>4, <1>5, <1>8, <1>12, TotalNat
<1>15. DailyBudget \in Nat /\ Reserved(Spent(d)) <= DailyBudget
  BY RowFacts DEF BudgetOK
<1>16. CASE d = day
  <2>1. Total(g, RowIds) <= Total(m, RowIds)
    BY <1>1, <1>8, <1>9, <1>12, <1>16, TotalMono
  <2> QED
    BY <1>2, <1>6, <1>7, <1>11, <1>13, <1>14, <1>15, <2>1
<1>17. CASE d # day
  <2>1. Total(g, RowIds) <= Total(f, RowIds)
    BY <1>1, <1>4, <1>8, <1>10, <1>17, TotalMono
  <2> QED
    BY <1>11, <1>14, <1>15, <2>1
<1> QED
  BY <1>16, <1>17

\* One row moves on and keeps its nonce, or is given up.
LEMMA RowsStay ==
    ASSUME RecordInv, RowsOK, day' = day,
           NEW r \in RowIds, NEW row \in Row, rows' = [rows EXCEPT ![r] = row],
           \/ row.state = "cancelled"
           \/ rows[r].state \notin {"none", "cancelled"} /\ row.sig.nonce = rows[r].sig.nonce,
           row.state \in Pending => rows[r].state \in Pending,
           row.day \in {day, rows[r].day},
           row.state = "prepared" => row.reserved = row.sig.cost
    PROVE  RowsOK'
<1>1. /\ rows \in [RowIds -> Row] /\ day \in Nat
      /\ rows'[r] = row /\ \A q \in RowIds \ {r} : rows'[q] = rows[q]
  BY RowFacts
<1>2. ASSUME NEW p \in RowIds, NEW q \in RowIds,
             {rows'[p].state, rows'[q].state} \cap {"none", "cancelled"} = {},
             rows'[p].sig.nonce = rows'[q].sig.nonce
      PROVE  p = q
  <2>1. /\ rows[p].state \notin {"none", "cancelled"} /\ rows[q].state \notin {"none", "cancelled"}
        /\ rows'[p].sig.nonce = rows[p].sig.nonce /\ rows'[q].sig.nonce = rows[q].sig.nonce
    BY <1>1, <1>2
  <2> QED
    BY <1>2, <2>1 DEF RowsOK
<1>3. ASSUME NEW p \in RowIds, NEW q \in RowIds,
             {rows'[p].state, rows'[q].state} \subseteq Pending
      PROVE  p = q
  <2>1. rows[p].state \in Pending /\ rows[q].state \in Pending
    BY <1>1, <1>3
  <2> QED
    BY <2>1 DEF RowsOK
<1>4. ASSUME NEW p \in RowIds
      PROVE  /\ rows'[p].day <= day'
             /\ rows'[p].state = "prepared" => rows'[p].reserved = rows'[p].sig.cost
  BY <1>1 DEF RowsOK
<1> QED
  BY <1>2, <1>3, <1>4 DEF RowsOK

-----------------------------------------------------------------------------
(* One process in the lane: the workers.                                   *)

\* The others wait while one worker has the lock, or none has.
LEMMA OthersWait ==
    ASSUME LockInv, NEW w \in Workers, lock \in {w, NoWorker}, NEW v \in Workers \ {w}
    PROVE  pc[v] = "idle" /\ tick[v].queue = <<>>
<1>1. NoWorker \notin Workers
  BY LaneAssumption
<1>2. AloneOK(v)
  BY DEF LockInv
<1>3. pc[v] = "idle"
  BY <1>1, <1>2 DEF AloneOK
<1> QED
  BY <1>2, <1>3 DEF AloneOK, Sure

\* An empty queue.
LEMMA NothingQueued == \A q : q = <<>> => Len(q) <= 1 /\ 1..Len(q) = {}
  OBVIOUS

\* Nothing need be known at most steps but that the queue is done.
LEMMA QuietSure ==
    ASSUME NEW p, NEW t, t.queue = <<>>,
           p \notin {"follow", "save", "validate", "mark", "start"}
    PROVE  Sure(p, t) /\ Sure(p, t)'
<1>1. Len(t.queue) <= 1 /\ 1..Len(t.queue) = {}
  BY NothingQueued
<1> QED
  BY <1>1 DEF Sure

\* What is sure of the step and the tick a worker comes to is sure of it.
LEMMA SureOf ==
    ASSUME NEW w, NEW p, NEW t, pc'[w] = p, tick'[w] = t, Sure(p, t)'
    PROVE  Sure(pc[w], tick[w])'
  BY DEF Sure, SpentToday, Reserved, Replacement

\* A step of the worker in the lane, put together.
LEMMA LockMoves ==
    ASSUME LockInv, NEW w \in Workers, lock \in {w, NoWorker}, Moves(w),
           NEW p, NEW t, pc'[w] = p, tick'[w] = t, p # "idle" => lock' = w,
           Sure(p, t)', RowsOK', BudgetOK'
    PROVE  LockInv'
<1>1. AloneOK(w)'
  BY SureOf DEF AloneOK
<1>2. ASSUME NEW v \in Workers \ {w} PROVE AloneOK(v)'
  <2> PICK u : u = tick[v]
    OBVIOUS
  <2>1. pc[v] = "idle" /\ u.queue = <<>>
    BY OthersWait
  <2>2. pc'[v] = "idle" /\ tick'[v] = u
    BY <2>1 DEF Moves
  <2>3. Sure("idle", u)'
    BY <2>1, QuietSure
  <2>4. Sure(pc[v], tick[v])'
    BY <2>2, <2>3, SureOf
  <2> QED
    BY <2>2, <2>4 DEF AloneOK
<1> QED
  BY <1>1, <1>2 DEF LockInv

\* The holder of the lock moves within its tick.
LEMMA LockGoto ==
    ASSUME RecordInv, LockInv, NEW w \in Workers, pc[w] # "idle",
           NEW p \in Steps, NEW t \in Tick,
           Goto(w, p), tick' = [tick EXCEPT ![w] = t],
           Sure(p, t)', RowsOK', BudgetOK'
    PROVE  LockInv'
<1>1. lock = w
  BY DEF LockInv, AloneOK
<1>2. TypeOK /\ pc' = [pc EXCEPT ![w] = p] /\ lock' = w /\ lock' \in Workers \cup {NoWorker}
  BY <1>1 DEF RecordInv, Goto
<1>3. Moves(w) /\ pc'[w] = p /\ tick'[w] = t
  BY <1>2, StepMoves
<1> QED
  BY <1>1, <1>2, <1>3, LockMoves

\* The holder of the lock ends its tick.
LEMMA LockEnds ==
    ASSUME RecordInv, LockInv, NEW w \in Workers, pc[w] # "idle", EndTick(w),
           RowsOK', BudgetOK'
    PROVE  LockInv'
<1>1. lock = w
  BY DEF LockInv, AloneOK
<1>2. Moves(w) /\ pc'[w] = "idle" /\ tick'[w] = NoTick
  BY EndTickMoves DEF RecordInv
<1> PICK t : t = NoTick
  OBVIOUS
<1>3. Sure("idle", t)'
  BY NoTickType, QuietSure
<1> QED
  BY <1>1, <1>2, <1>3, LockMoves

\* Where the rows stay, so does what is counted.
LEMMA RowsSame ==
    ASSUME RecordInv, RecordInv', LockInv, UNCHANGED <<rows, day>>
    PROVE  /\ RowsOK' /\ BudgetOK'
           /\ \A p, t : Sure(p, t) => Sure(p, t)'
<1>1. rows' = rows /\ day' = day
  OBVIOUS
<1>2. RowsOK'
  BY <1>1 DEF LockInv, RowsOK
<1>3. BudgetOK'
  BY <1>1 DEF LockInv, BudgetOK, Reserved, Spent
<1>4. \A r : SpentToday(r)' = SpentToday(r)
  BY <1>1 DEF SpentToday, Reserved
<1>5. \A p, t : Sure(p, t) => Sure(p, t)'
  BY <1>1, <1>4 DEF Sure
<1> QED
  BY <1>2, <1>3, <1>5

\* The rows are rewritten and nothing is spent but what was.
LEMMA RowSpendsNoMore ==
    ASSUME RecordInv, RecordInv', LockInv,
           NEW r \in RowIds, NEW row \in Row, rows' = [rows EXCEPT ![r] = row],
           row.state \in {"none", "prepared", "cancelled"}
             \/ /\ rows[r].state \notin {"none", "prepared", "cancelled"}
                /\ row.day = rows[r].day /\ row.reserved = rows[r].reserved
    PROVE  BudgetOK'
<1>1. /\ rows \in [RowIds -> Row]
      /\ rows'[r] = row /\ \A q \in RowIds \ {r} : rows'[q] = rows[q]
  BY RowFacts
<1>2. ASSUME NEW d \in 0..MaxDay, NEW q \in RowIds, q \in Spent(d)'
      PROVE  q \in Spent(d) /\ rows'[q].reserved = rows[q].reserved
  <2>1. rows'[q].day = d /\ rows'[q].state \notin {"none", "prepared", "cancelled"}
    BY <1>2 DEF Spent
  <2> QED
    BY <1>1, <2>1 DEF Spent
<1> QED
  BY <1>2, SpendsNoMore DEF LockInv

\* Begin: the only unsettled row is read as it is.
LEMMA BeginAlone ==
    ASSUME RecordInv, RecordInv', LockInv, NEW w \in Workers, Begin(w)
    PROVE  LockInv'
<1> DEFINE S == {r \in RowIds : rows[r].state \in Pending}
<1>1. PICK q \in InOrder(S) :
        tick' = [tick EXCEPT ![w].queue =
          [k \in DOMAIN q |-> [row |-> q[k], state |-> rows[q[k]].state, sig |-> rows[q[k]].sig]]]
  BY DEF Begin
<1> PICK Q : Q = [k \in DOMAIN q |-> [row |-> q[k], state |-> rows[q[k]].state, sig |-> rows[q[k]].sig]]
  OBVIOUS
<1> PICK t : t = [tick[w] EXCEPT !.queue = Q]
  OBVIOUS
<1>2. TypeOK /\ tick[w] \in Tick /\ tick \in [Workers -> Tick]
  BY DEF RecordInv, TypeOK
<1>3. t.queue = Q /\ tick'[w] = t /\ tick' = [tick EXCEPT ![w] = t]
  BY <1>1, <1>2 DEF Tick
<1>4. Cardinality(S) \in {0, 1}
  <2>1. IsFiniteSet(S)
    BY RowFacts, FS_Subset
  <2>2. CASE S = {}
    BY <2>2, FS_EmptySet
  <2>3. CASE S # {}
    <3> PICK x \in S : TRUE
      BY <2>3
    <3>1. S = {x}
      BY DEF LockInv, RowsOK
    <3>2. Cardinality({x}) = 1
      BY FS_Singleton
    <3> QED
      BY <3>1, <3>2
  <2> QED
    BY <2>2, <2>3
<1>5. q \in [1..Cardinality(S) -> S]
  BY <1>1 DEF InOrder
<1> PICK n \in {0, 1} : n = Cardinality(S)
  BY <1>4
<1>6. q \in [1..n -> S] /\ (n = 0 <=> S = {})
  <2>1. IsFiniteSet(S)
    BY RowFacts, FS_Subset
  <2> QED
    BY <1>5, <2>1, FS_EmptySet
<1>7. Q \in Seq(Entry) /\ tick'[w] \in Tick
  <2>1. tick'[w] \in Tick
    BY DEF RecordInv, TypeOK
  <2> QED
    BY <1>3, <2>1 DEF Tick
<1>8. DOMAIN Q = 1..n /\ Len(Q) = n
  <2>1. DOMAIN Q = 1..n
    BY <1>6
  <2>2. DOMAIN Q = 1..Len(Q) /\ Len(Q) \in Nat
    BY <1>7
  <2> QED
    BY <2>1, <2>2
<1>9. \A k \in 1..n : /\ q[k] \in S /\ Q[k].row = q[k]
                      /\ Q[k].state = rows[q[k]].state /\ Q[k].sig = rows[q[k]].sig
  BY <1>6
<1>10. \A r \in RowIds : rows[r].state \in Pending => \E k \in 1..n : Q[k].row = r
  <2> SUFFICES ASSUME NEW r \in S PROVE \E k \in 1..n : Q[k].row = r
    OBVIOUS
  <2>1. n = 1 /\ 1 \in 1..n
    BY <1>6
  <2>2. q[1] \in S
    BY <1>9, <2>1
  <2>3. q[1] = r
    BY <2>2 DEF LockInv, RowsOK
  <2> QED
    BY <1>9, <2>1, <2>3
<1>11. Sure("follow", t)
  <2>1. Len(t.queue) = n /\ n <= 1 /\ t.queue = Q
    BY <1>3, <1>8
  <2>2. \A k \in 1..n : rows[Q[k].row].state = Q[k].state /\ rows[Q[k].row].sig = Q[k].sig
    BY <1>9
  <2>3. \A k \in 1..Len(t.queue) : /\ rows[t.queue[k].row].state = t.queue[k].state
                                  /\ rows[t.queue[k].row].sig = t.queue[k].sig
    <3> SUFFICES ASSUME NEW k \in 1..Len(t.queue)
                 PROVE  /\ rows[t.queue[k].row].state = t.queue[k].state
                        /\ rows[t.queue[k].row].sig = t.queue[k].sig
      OBVIOUS
    <3>1. k \in 1..n /\ t.queue[k] = Q[k]
      BY <2>1
    <3> QED
      BY <2>2, <3>1
  <2>4. \A r \in RowIds : rows[r].state \in Pending =>
          \E k \in 1..Len(t.queue) : t.queue[k].row = r
    BY <1>10, <2>1
  <2>5. Len(t.queue) <= 1
    BY <2>1
  <2> QED
    BY <2>3, <2>4, <2>5 DEF Sure
<1>12. UNCHANGED <<rows, day>>
  BY DEF Begin, tables, world
<1>13. RowsOK' /\ BudgetOK' /\ Sure("follow", t)'
  BY <1>11, <1>12, RowsSame
<1>14. pc' = [pc EXCEPT ![w] = "follow"] /\ lock' = w /\ lock = NoWorker /\ "follow" \in Steps
  BY DEF Begin, Steps
<1>15. Moves(w) /\ pc'[w] = "follow"
  BY <1>2, <1>3, <1>7, <1>14, StepMoves
<1> QED
  BY <1>3, <1>13, <1>14, <1>15, LockMoves

\* A recovery keeps the nonce: whatever is recorded of a row has the row's.
LEMMA RecordedNonce ==
    ASSUME RecordInv, NEW r \in RowIds, NEW s, Recorded(r, s)
    PROVE  s.nonce = rows[r].sig.nonce
<1>1. RecoveryOK(r) /\ recoveries[r] \in Recovery
  BY DEF RecordInv, TypeOK
<1>2. Replacement(recoveries[r].original).nonce = recoveries[r].original.nonce
  <2>1. recoveries[r].original \in Sig
    BY <1>1 DEF Recovery
  <2> QED
    BY <2>1, ReplacementSig
<1> QED
  BY <1>1, <1>2 DEF Recorded, RecoveryOK

\* A row that is only prepared has not been handed out: in the lane of one
\* process its nonce is no other row's.
LEMMA PreparedNotMined ==
    ASSUME RecordInv, ChainOK, RowsOK, NEW r \in RowIds, rows[r].state = "prepared"
    PROVE  FinalReceipts({rows[r].sig} \cup ReplacedBy(r)) = {}
<1>1. recoveries[r].state = "none"
  BY DEF RecordInv, RecoveryOK, Marked
<1>2. ReplacedBy(r) = {}
  BY <1>1 DEF ReplacedBy
<1> SUFFICES ASSUME NEW n \in 1..final, mined[n].sig = rows[r].sig PROVE FALSE
  BY <1>2 DEF FinalReceipts
<1>3. n \in 1..Len(mined)
  BY DEF RecordInv, TypeOK
<1>4. rows[r].sig \in sent
  BY <1>3 DEF ChainOK
<1>5. PICK p \in RowIds : Recorded(p, rows[r].sig)
  BY <1>4 DEF RecordInv
<1>6. rows[p].sig.nonce = rows[r].sig.nonce
  BY <1>5, RecordedNonce
<1>7. {rows[p].state, rows[r].state} \cap {"none", "cancelled"} = {}
  BY <1>5 DEF Recorded, Marked
<1>8. p = r
  BY <1>6, <1>7 DEF RowsOK
<1> QED
  BY <1>5, <1>8 DEF Recorded, Marked

\* The row is finished under the same nonce, at what it reserved.
LEMMA FinishAlone ==
    ASSUME RecordInv, RecordInv', LockInv, NEW r \in RowIds, NEW n \in 1..final, Finish(r, n),
           day' = day, rows[r].state \in {"broadcasting", "unknown"}
    PROVE  RowsOK' /\ BudgetOK' /\ rows'[r].state \notin Pending
<1> DEFINE sig == mined[n].sig
<1> DEFINE st == IF mined[n].ok THEN "confirmed" ELSE "reverted"
<1> DEFINE row == [rows[r] EXCEPT !.sig = sig, !.state = st]
<1>1. rows \in [RowIds -> Row] /\ rows[r] \in Row /\ rows' \in [RowIds -> Row]
  BY DEF RecordInv, TypeOK
<1>2. rows' = [rows EXCEPT ![r] = row]
  BY <1>1 DEF Finish
<1>3. sig \in {rows[r].sig} \cup ReplacedBy(r)
  BY DEF Finish
<1>4. Recorded(r, rows[r].sig)
  BY DEF Recorded, Marked
<1>5. Recorded(r, sig)
  <2>1. CASE sig = rows[r].sig
    BY <1>4, <2>1
  <2>2. CASE sig # rows[r].sig
    BY <1>3, <1>4, <2>2 DEF ReplacedBy, Recorded
  <2> QED
    BY <2>1, <2>2
<1>6. sig.nonce = rows[r].sig.nonce
  BY <1>5, RecordedNonce
<1>7. st \in {"confirmed", "reverted"}
  OBVIOUS
<1> HIDE DEF sig, st
<1>8. row.sig = sig /\ row.state = st /\ row.day = rows[r].day /\ row.reserved = rows[r].reserved
  BY <1>1 DEF Row
<1> HIDE DEF row
<1>9. rows'[r] = row
  BY <1>1, <1>2
<1>10. row \in Row
  BY <1>1, <1>9
<1>11. RowsOK'
  <2>1. row.state # "prepared" /\ row.state \notin Pending /\ row.sig.nonce = rows[r].sig.nonce
        /\ rows[r].state \notin {"none", "cancelled"} /\ row.day \in {day, rows[r].day}
    BY <1>6, <1>7, <1>8 DEF Pending
  <2> QED
    BY <1>2, <1>10, <2>1, RowsStay DEF LockInv
<1>12. BudgetOK'
  BY <1>2, <1>8, <1>10, RowSpendsNoMore
<1> QED
  BY <1>7, <1>8, <1>9, <1>11, <1>12 DEF Pending

\* A prepared row given up spends nothing.
LEMMA CancelAlone ==
    ASSUME RecordInv, RecordInv', LockInv, NEW r \in RowIds, CancelPrepared(r), day' = day,
           rows[r].state = "prepared"
    PROVE  RowsOK' /\ BudgetOK' /\ rows'[r].state \notin Pending
<1> DEFINE row == [rows[r] EXCEPT !.state = "cancelled", !.reserved = 0]
<1>1. rows \in [RowIds -> Row] /\ rows[r] \in Row /\ rows' \in [RowIds -> Row]
  BY DEF RecordInv, TypeOK
<1>2. rows' = [rows EXCEPT ![r] = row]
  BY <1>1 DEF CancelPrepared, Cancelled
<1>3. row.state = "cancelled" /\ row.day = rows[r].day
  BY <1>1 DEF Row
<1> HIDE DEF row
<1>4. rows'[r] = row /\ row \in Row
  BY <1>1, <1>2
<1>5. row.state # "prepared" /\ row.state \notin Pending /\ row.day \in {day, rows[r].day}
  BY <1>3 DEF Pending
<1>6. RowsOK'
  BY <1>2, <1>3, <1>4, <1>5, RowsStay DEF LockInv
<1>7. BudgetOK'
  BY <1>2, <1>3, <1>4, RowSpendsNoMore
<1> QED
  BY <1>4, <1>5, <1>6, <1>7

\* A step that writes nothing but where the worker is.
LEMMA GotoAlone ==
    ASSUME RecordInv, RecordInv', LockInv, NEW w \in Workers, pc[w] # "idle", NEW p \in Steps,
           Goto(w, p), UNCHANGED <<tick, rows, day>>, Sure(p, tick[w])
    PROVE  LockInv'
<1> PICK t : t = tick[w]
  OBVIOUS
<1>1. t \in Tick /\ tick' = [tick EXCEPT ![w] = t] /\ Sure(p, t)
  BY DEF RecordInv, TypeOK
<1>2. Sure(p, t)' /\ RowsOK' /\ BudgetOK'
  BY <1>1, RowsSame
<1> QED
  BY <1>1, <1>2, LockGoto

\* A tick that ends and writes nothing.
LEMMA EndAlone ==
    ASSUME RecordInv, RecordInv', LockInv, NEW w \in Workers, pc[w] # "idle",
           EndTick(w), UNCHANGED <<rows, day>>
    PROVE  LockInv'
<1>1. RowsOK' /\ BudgetOK'
  BY RowsSame
<1> QED
  BY <1>1, LockEnds

\* A queue of one.
LEMMA OneLong ==
    ASSUME NEW S, NEW q \in Seq(S), q # <<>>, Len(q) <= 1
    PROVE  Len(q) = 1 /\ Head(q) = q[1] /\ Head(q) \in S /\ Tail(q) = <<>> /\ 1 \in 1..Len(q)
<1>1. Len(q) \in Nat /\ Len(q) # 0
  OBVIOUS
<1>2. Len(q) = 1
  BY <1>1
<1>3. Tail(q) \in Seq(S) /\ Len(Tail(q)) = 0
  BY <1>2
<1>4. Tail(q) = <<>>
  BY <1>3
<1> QED
  BY <1>2, <1>4

\* The only entry of the queue is the only unsettled row.
LEMMA OneEntry ==
    ASSUME RecordInv, LockInv, NEW w \in Workers, pc[w] = "follow", tick[w].queue # <<>>
    PROVE  LET e == Head(tick[w].queue)
               t == [NoTick EXCEPT !.queue = Tail(tick[w].queue)]
           IN  /\ e \in Entry /\ rows[e.row].state = e.state /\ rows[e.row].sig = e.sig
               /\ \A r \in RowIds : rows[r].state \in Pending => r = e.row
               /\ t \in Tick /\ t.queue = <<>>
<1> PICK q : q = tick[w].queue
  OBVIOUS
<1>1. q \in Seq(Entry) /\ q # <<>>
  BY DEF RecordInv, TypeOK, Tick
<1>2. Sure("follow", tick[w])
  BY DEF LockInv, AloneOK
<1>3. Len(q) <= 1
  BY <1>2 DEF Sure
<1>4. Len(q) = 1 /\ Head(q) = q[1] /\ Head(q) \in Entry /\ Tail(q) = <<>> /\ 1 \in 1..Len(q)
  BY <1>1, <1>3, OneLong
<1>5. rows[q[1].row].state = q[1].state /\ rows[q[1].row].sig = q[1].sig
  BY <1>2, <1>4 DEF Sure
<1>6. \A r \in RowIds : rows[r].state \in Pending => r = q[1].row
  <2> SUFFICES ASSUME NEW r \in RowIds, rows[r].state \in Pending PROVE r = q[1].row
    OBVIOUS
  <2>1. \E k \in 1..Len(q) : q[k].row = r
    BY <1>2 DEF Sure
  <2>2. PICK k \in 1..Len(q) : q[k].row = r
    BY <2>1
  <2>3. k = 1
    BY <1>4
  <2> QED
    BY <2>2, <2>3
<1> PICK t : t = [NoTick EXCEPT !.queue = Tail(q)]
  OBVIOUS
<1>7. t \in Tick /\ t.queue = Tail(q)
  <2>1. NoSig \in Sig
    BY DEF NoSig, Sig
  <2> QED
    BY <1>4, <2>1, NoTickType DEF NoTick, Tick
<1> QED
  BY <1>4, <1>5, <1>6, <1>7

\* Once no row is unsettled, nothing more is followed.
LEMMA FollowDone ==
    ASSUME NEW t, t.queue = <<>>, \A r \in RowIds : rows'[r].state \notin Pending
    PROVE  Sure("follow", t)' /\ Sure("save", t)'
<1>1. Len(t.queue) <= 1 /\ 1..Len(t.queue) = {}
  BY NothingQueued
<1> QED
  BY <1>1 DEF Sure

\* Follow.
LEMMA FollowAlone ==
    ASSUME RecordInv, RecordInv', ChainOK, LockInv, NEW w \in Workers, Follow(w)
    PROVE  LockInv'
<1> PICK e : e = Head(tick[w].queue)
  OBVIOUS
<1> PICK next : next = [NoTick EXCEPT !.queue = Tail(tick[w].queue)]
  OBVIOUS
<1> DEFINE settled == FinalReceipts({e.sig} \cup ReplacedBy(e.row))
<1>1. pc[w] = "follow" /\ pc[w] # "idle" /\ tick[w].queue # <<>> /\ day' = day
  BY DEF Follow, world
<1>2. /\ e \in Entry /\ rows[e.row].state = e.state /\ rows[e.row].sig = e.sig
      /\ \A r \in RowIds : rows[r].state \in Pending => r = e.row
      /\ next \in Tick /\ next.queue = <<>>
  BY <1>1, OneEntry
<1>3. e.row \in RowIds /\ e.sig \in Sig /\ e.state \in Pending
  BY <1>2 DEF Entry
<1>4. "follow" \in Steps /\ "validate" \in Steps /\ "recover" \in Steps
  BY DEF Steps
<1>5. rows \in [RowIds -> Row]
  BY DEF RecordInv, TypeOK
<1>6. CASE /\ settled # {}
           /\ \E n \in settled : Finish(e.row, n)
           /\ Goto(w, "follow") /\ tick' = [tick EXCEPT ![w] = next]
  <2>1. PICK n \in 1..final : Finish(e.row, n)
    BY <1>6 DEF FinalReceipts
  <2>2. rows[e.row].state # "prepared"
    BY <1>2, <1>3, <1>6, PreparedNotMined DEF LockInv
  <2>3. rows[e.row].state \in {"broadcasting", "unknown"}
    BY <1>2, <1>3, <2>2 DEF Pending
  <2>4. RowsOK' /\ BudgetOK' /\ rows'[e.row].state \notin Pending
    BY <1>1, <1>3, <2>1, <2>3, FinishAlone
  <2>5. \A r \in RowIds : rows'[r].state \notin Pending
    BY <1>2, <1>5, <2>1, <2>4 DEF Finish
  <2>6. Sure("follow", next)'
    BY <1>2, <2>5, FollowDone
  <2> QED
    BY <1>1, <1>2, <1>4, <1>6, <2>4, <2>6, LockGoto
<1>7. CASE /\ e.state = "prepared" /\ CancelPrepared(e.row)
           /\ Goto(w, "follow") /\ tick' = [tick EXCEPT ![w] = next]
  <2>1. RowsOK' /\ BudgetOK' /\ rows'[e.row].state \notin Pending
    BY <1>1, <1>2, <1>3, <1>7, CancelAlone
  <2>2. \A r \in RowIds : rows'[r].state \notin Pending
    BY <1>2, <1>5, <1>7, <2>1 DEF CancelPrepared, Cancelled
  <2>3. Sure("follow", next)'
    BY <1>2, <2>2, FollowDone
  <2> QED
    BY <1>1, <1>2, <1>4, <1>7, <2>1, <2>3, LockGoto
<1>8. CASE UNCHANGED tables /\ EndTick(w)
  BY <1>1, <1>8, EndAlone DEF tables
<1>9. ASSUME UNCHANGED tables, NEW p \in {"validate", "recover"},
             p = "validate" => e.state = "prepared",
             Goto(w, p), tick' = [tick EXCEPT ![w] = [next EXCEPT !.row = e.row, !.sig = e.sig]]
      PROVE  LockInv'
  <2> PICK t : t = [next EXCEPT !.row = e.row, !.sig = e.sig]
    OBVIOUS
  <2>1. t \in Tick /\ t.queue = <<>> /\ t.row = e.row /\ t.sig = e.sig
    BY <1>2, <1>3 DEF Tick
  <2>2. Len(t.queue) <= 1 /\ 1..Len(t.queue) = {}
    BY <2>1, NothingQueued
  <2>3. Sure(p, t)
    <3>1. p = "validate" => rows[t.row].state = "prepared" /\ rows[t.row].sig = t.sig
      BY <1>2, <1>9, <2>1
    <3>2. \A k \in 1..Len(t.queue) : FALSE
      BY <2>2
    <3>3. Len(t.queue) <= 1
      BY <2>2
    <3> QED
      BY <1>9, <2>1, <3>1, <3>2, <3>3 DEF Sure
  <2>4. Sure(p, t)' /\ RowsOK' /\ BudgetOK'
    BY <1>1, <1>9, <2>3, RowsSame DEF tables
  <2> QED
    BY <1>1, <1>4, <1>9, <2>1, <2>4, LockGoto
<1> QED
  BY <1>6, <1>7, <1>8, <1>9 DEF Follow

\* Prepare.
LEMMA PrepareAlone ==
    ASSUME RecordInv, RecordInv', LockInv, NEW w \in Workers, Prepare(w)
    PROVE  LockInv'
<1>1. pc[w] = "follow" /\ pc[w] # "idle" /\ tick[w].queue = <<>> /\ UNCHANGED <<rows, day>>
  BY DEF Prepare, tables, world
<1>2. CASE EndTick(w)
  BY <1>1, <1>2, EndAlone
<1>3. CASE /\ Goto(w, "save")
           /\ \E s : tick' = [tick EXCEPT ![w].sig = s]
  <2> PICK s : tick' = [tick EXCEPT ![w].sig = s]
    BY <1>3
  <2> PICK t : t = [tick[w] EXCEPT !.sig = s]
    OBVIOUS
  <2>1. tick \in [Workers -> Tick] /\ tick[w] \in Tick /\ tick' \in [Workers -> Tick]
    BY DEF RecordInv, TypeOK
  <2>2. tick' = [tick EXCEPT ![w] = t] /\ tick'[w] = t /\ t.queue = <<>>
    BY <1>1, <2>1 DEF Tick
  <2>3. t \in Tick
    BY <2>1, <2>2
  <2>4. 1..Len(tick[w].queue) = {}
    BY <1>1, NothingQueued
  <2>5. Sure("follow", tick[w])
    BY <1>1 DEF LockInv, AloneOK
  <2>6. \A r \in RowIds : rows'[r].state \notin Pending
    BY <1>1, <2>4, <2>5 DEF Sure
  <2>7. Sure("save", t)'
    BY <2>2, <2>6, FollowDone
  <2>8. RowsOK' /\ BudgetOK' /\ "save" \in Steps
    BY <1>1, RowsSame DEF Steps
  <2> QED
    BY <1>1, <1>3, <2>2, <2>3, <2>7, <2>8, LockGoto
<1> QED
  BY <1>2, <1>3 DEF Prepare

\* Save: the nonce is new and no other row is unsettled.
LEMMA SaveAlone ==
    ASSUME RecordInv, RecordInv', LockInv, NEW w \in Workers, Save(w)
    PROVE  LockInv'
<1> PICK s : s = tick[w].sig
  OBVIOUS
<1> PICK r : r = FreeRow
  OBVIOUS
<1>1. pc[w] = "save" /\ pc[w] # "idle" /\ day' = day
  BY DEF Save, world
<1>2. CASE EndTick(w) /\ UNCHANGED rows
  BY <1>1, <1>2, EndAlone
<1>3. CASE /\ Savable(s) /\ FreeRows # {}
           /\ rows' = [rows EXCEPT ![r] =
                 [state |-> "prepared", sig |-> s, reserved |-> s.cost, day |-> day]]
           /\ Goto(w, "validate")
           /\ tick' = [tick EXCEPT ![w].row = r]
  <2> PICK row : row = [state |-> "prepared", sig |-> s, reserved |-> s.cost, day |-> day]
    OBVIOUS
  <2> PICK t : t = [tick[w] EXCEPT !.row = r]
    OBVIOUS
  <2>1. r \in RowIds /\ rows[r].state = "none"
    BY <1>3 DEF FreeRow, FreeRows
  <2>2. /\ tick[w] \in Tick /\ tick \in [Workers -> Tick]
        /\ rows \in [RowIds -> Row] /\ rows' \in [RowIds -> Row] /\ day \in Nat
    BY RowFacts DEF RecordInv, TypeOK
  <2>3. row.state = "prepared" /\ row.sig = s /\ row.reserved = s.cost /\ row.day = day
    OBVIOUS
  <2>4. rows'[r] = row /\ row \in Row /\ \A q \in RowIds \ {r} : rows'[q] = rows[q]
    BY <1>3, <2>1, <2>2
  <2>5. t \in Tick /\ t.queue = tick[w].queue /\ t.row = r /\ t.sig = s
        /\ tick' = [tick EXCEPT ![w] = t]
    BY <1>3, <2>1, <2>2 DEF Tick
  <2>6. Sure("save", tick[w])
    BY <1>1 DEF LockInv, AloneOK
  <2>7. tick[w].queue = <<>> /\ 1..Len(tick[w].queue) = {}
    BY <2>6, NothingQueued DEF Sure
  <2>8. \A q \in RowIds : rows[q].state \notin Pending
    BY <2>6, <2>7 DEF Sure
  <2>9. \A q \in RowIds : rows[q].state \notin {"none", "cancelled"} => rows[q].sig.nonce # s.nonce
    BY <1>3 DEF Savable
  <2>10. RowsOK'
    <3>1. ASSUME NEW p \in RowIds, NEW q \in RowIds,
                 {rows'[p].state, rows'[q].state} \cap {"none", "cancelled"} = {},
                 rows'[p].sig.nonce = rows'[q].sig.nonce
          PROVE  p = q
      <4>1. CASE p # r /\ q # r
        BY <2>4, <3>1, <4>1 DEF LockInv, RowsOK
      <4>2. CASE p = r \/ q = r
        BY <2>3, <2>4, <2>9, <3>1, <4>2
      <4> QED
        BY <4>1, <4>2
    <3>2. ASSUME NEW p \in RowIds, NEW q \in RowIds,
                 {rows'[p].state, rows'[q].state} \subseteq Pending
          PROVE  p = q
      BY <2>4, <2>8, <3>2
    <3>3. ASSUME NEW p \in RowIds
          PROVE  /\ rows'[p].day <= day'
                 /\ rows'[p].state = "prepared" => rows'[p].reserved = rows'[p].sig.cost
      BY <1>1, <2>2, <2>3, <2>4 DEF LockInv, RowsOK
    <3> QED
      BY <3>1, <3>2, <3>3 DEF RowsOK
  <2>11. BudgetOK'
    BY <1>3, <2>1, <2>3, <2>4, RowSpendsNoMore
  <2>12. Sure("validate", t)'
    <3>1. Len(t.queue) <= 1 /\ 1..Len(t.queue) = {}
      BY <2>5, <2>7, NothingQueued
    <3>2. t.queue = <<>> /\ rows'[t.row].state = "prepared" /\ rows'[t.row].sig = t.sig
      BY <2>3, <2>4, <2>5, <2>7
    <3> QED
      BY <3>1, <3>2 DEF Sure
  <2> QED
    BY <1>1, <1>3, <2>5, <2>10, <2>11, <2>12, LockGoto DEF Steps
<1> QED
  BY <1>2, <1>3 DEF Save

\* Past the queue a worker has none.
LEMMA PastQueue ==
    ASSUME LockInv, NEW w \in Workers, pc[w] # "follow"
    PROVE  tick[w].queue = <<>> /\ Len(tick[w].queue) <= 1 /\ 1..Len(tick[w].queue) = {}
<1>1. tick[w].queue = <<>>
  BY DEF LockInv, AloneOK, Sure
<1> QED
  BY <1>1, NothingQueued

\* Validate.
LEMMA ValidateAlone ==
    ASSUME RecordInv, RecordInv', LockInv, NEW w \in Workers, Validate(w)
    PROVE  LockInv'
<1> PICK r : r = tick[w].row
  OBVIOUS
<1>1. pc[w] = "validate" /\ pc[w] # "idle" /\ pc[w] # "follow" /\ day' = day
  BY DEF Validate, world
<1>2. r \in RowIds
  BY <1>1 DEF RecordInv, WorkerOK, Knows
<1>3. rows[r].state = "prepared" /\ rows[r].sig = tick[w].sig
  BY <1>1 DEF LockInv, AloneOK, Sure
<1>4. CASE CancelPrepared(r) /\ EndTick(w)
  <2>1. RowsOK' /\ BudgetOK'
    BY <1>1, <1>2, <1>3, <1>4, CancelAlone
  <2> QED
    BY <1>1, <1>4, <2>1, LockEnds
<1>5. CASE UNCHANGED rows /\ EndTick(w)
  BY <1>1, <1>5, EndAlone
<1>6. CASE /\ UNCHANGED rows /\ Goto(w, "mark") /\ UNCHANGED tick
           /\ ~ (SpentToday(r) + tick[w].sig.cost > DailyBudget)
  <2>1. SpentToday(r) \in Nat /\ tick[w].sig.cost \in Nat /\ DailyBudget \in Nat
    BY ReservedNat, RowFacts DEF SpentToday, RecordInv, TypeOK, Tick, Sig
  <2>2. SpentToday(r) + tick[w].sig.cost <= DailyBudget
    BY <1>6, <2>1
  <2>3. Sure("mark", tick[w])
    BY <1>1, <1>3, <2>2, PastQueue DEF Sure
  <2> QED
    BY <1>1, <1>6, <2>3, GotoAlone DEF Steps
<1> QED
  BY <1>4, <1>5, <1>6 DEF Validate

\* Marked on the day it is sent, within the budget that was checked.
LEMMA MarkAlone ==
    ASSUME RecordInv, RecordInv', LockInv, NEW w \in Workers, MarkBroadcasting(w)
    PROVE  LockInv'
<1> PICK r : r = tick[w].row
  OBVIOUS
<1>1. pc[w] = "mark" /\ pc[w] # "idle" /\ pc[w] # "follow" /\ day' = day
  BY DEF MarkBroadcasting, world
<1>2. r \in RowIds
  BY <1>1 DEF RecordInv, WorkerOK, Knows
<1>3. /\ rows[r].state = "prepared" /\ rows[r].sig = tick[w].sig
      /\ SpentToday(r) + tick[w].sig.cost <= DailyBudget
  BY <1>1 DEF LockInv, AloneOK, Sure
<1>4. CASE EndTick(w) /\ UNCHANGED rows
  BY <1>1, <1>4, EndAlone
<1>5. CASE /\ rows' = [rows EXCEPT ![r].state = "broadcasting", ![r].day = day]
           /\ Goto(w, "send") /\ UNCHANGED tick
  <2> DEFINE row == [rows[r] EXCEPT !.state = "broadcasting", !.day = day]
  <2> PICK t : t = tick[w]
    OBVIOUS
  <2>1. /\ rows \in [RowIds -> Row] /\ rows[r] \in Row /\ rows' \in [RowIds -> Row]
        /\ t \in Tick /\ tick' = [tick EXCEPT ![w] = t]
    BY <1>2, <1>5 DEF RecordInv, TypeOK
  <2>2. rows' = [rows EXCEPT ![r] = row]
    BY <1>2, <1>5, <2>1
  <2>3. /\ row.state = "broadcasting" /\ row.day = day
        /\ row.sig = rows[r].sig /\ row.reserved = rows[r].reserved
    BY <2>1 DEF Row
  <2> HIDE DEF row
  <2>4. row \in Row
    BY <1>2, <2>1, <2>2
  <2>5. row.reserved = tick[w].sig.cost
    BY <1>2, <1>3, <2>3 DEF LockInv, RowsOK
  <2>6. BudgetOK'
    BY <1>1, <1>2, <1>3, <2>2, <2>3, <2>4, <2>5, SpendsRoom DEF LockInv
  <2>7. RowsOK'
    <3>1. /\ row.state # "prepared" /\ rows[r].state \in Pending
          /\ rows[r].state \notin {"none", "cancelled"} /\ row.sig.nonce = rows[r].sig.nonce
          /\ row.day \in {day, rows[r].day}
      BY <1>3, <2>3 DEF Pending
    <3> QED
      BY <1>1, <1>2, <2>2, <2>4, <3>1, RowsStay DEF LockInv
  <2>8. Sure("send", t)'
    <3>1. t.queue = <<>>
      BY <1>1, PastQueue
    <3> QED
      BY <3>1, QuietSure
  <2> QED
    BY <1>1, <1>5, <2>1, <2>6, <2>7, <2>8, LockGoto DEF Steps
<1> QED
  BY <1>4, <1>5 DEF MarkBroadcasting

\* The steps that write no row.
LEMMA SendAlone ==
    ASSUME RecordInv, RecordInv', LockInv, NEW w \in Workers,
           \/ Send(w)
           \/ PrepareRecovery(w)
           \/ SendReplacement(w)
           \/ RecoverySubmitted(w)
    PROVE  LockInv'
<1>1. pc[w] # "idle" /\ pc[w] # "follow" /\ UNCHANGED <<rows, day>>
  BY DEF Send, PrepareRecovery, SendReplacement, RecoverySubmitted, world, tables
<1>2. CASE EndTick(w)
  BY <1>1, <1>2, EndAlone
<1>3. ASSUME NEW p \in {"record", "readmit", "submitted"}, Goto(w, p), UNCHANGED tick
      PROVE  LockInv'
  <2>1. Sure(p, tick[w])
    BY <1>1, PastQueue, QuietSure
  <2> QED
    BY <1>1, <1>3, <2>1, GotoAlone DEF Steps
<1> QED
  BY <1>2, <1>3 DEF Send, PrepareRecovery, SendReplacement, RecoverySubmitted

\* Record.
LEMMA RecordAlone ==
    ASSUME RecordInv, RecordInv', LockInv, NEW w \in Workers, Record(w)
    PROVE  LockInv'
<1> PICK r : r = tick[w].row
  OBVIOUS
<1>1. pc[w] = "record" /\ pc[w] # "idle" /\ day' = day /\ EndTick(w)
  BY DEF Record, world
<1>2. r \in RowIds /\ rows \in [RowIds -> Row] /\ rows[r] \in Row
  BY <1>1 DEF RecordInv, TypeOK, WorkerOK, Knows
<1>3. CASE rows[r].state # "broadcasting"
  BY <1>1, <1>3, EndAlone DEF Record
<1>4. CASE rows[r].state = "broadcasting"
  <2> DEFINE row == [rows[r] EXCEPT !.state = "unknown"]
  <2>1. rows' = [rows EXCEPT ![r] = row] /\ rows' \in [RowIds -> Row]
    BY <1>2, <1>4 DEF Record, RecordInv, TypeOK
  <2>2. /\ row.state = "unknown" /\ row.day = rows[r].day
        /\ row.sig = rows[r].sig /\ row.reserved = rows[r].reserved
    BY <1>2 DEF Row
  <2> HIDE DEF row
  <2>3. row \in Row
    BY <1>2, <2>1
  <2>4. BudgetOK'
    BY <1>2, <1>4, <2>1, <2>2, <2>3, RowSpendsNoMore
  <2>5. RowsOK'
    <3>1. /\ row.state # "prepared" /\ rows[r].state \in Pending
          /\ rows[r].state \notin {"none", "cancelled"} /\ row.sig.nonce = rows[r].sig.nonce
          /\ row.day \in {day, rows[r].day}
      BY <1>4, <2>2 DEF Pending
    <3> QED
      BY <1>1, <1>2, <2>1, <2>3, <3>1, RowsStay DEF LockInv
  <2> QED
    BY <1>1, <2>4, <2>5, LockEnds
<1> QED
  BY <1>3, <1>4

\* Readmit.
LEMMA ReadmitAlone ==
    ASSUME RecordInv, RecordInv', LockInv, NEW w \in Workers, Readmit(w)
    PROVE  LockInv'
<1> PICK s : s = tick[w].sig
  OBVIOUS
<1>1. pc[w] # "idle" /\ pc[w] # "follow" /\ UNCHANGED <<rows, day>>
  BY DEF Readmit, world, tables
<1>2. CASE EndTick(w)
  BY <1>1, <1>2, EndAlone
<1>3. CASE Admitted(tick[w].row, s, s.cost + Bump) /\ Goto(w, "start") /\ UNCHANGED tick
  <2>1. Replacement(s).cost = s.cost + Bump
    <3>1. s \in Sig
      BY DEF RecordInv, TypeOK, Tick
    <3> QED
      BY <3>1 DEF Replacement, Sig
  <2>2. SpentToday(tick[w].row) + Replacement(tick[w].sig).cost <= DailyBudget
    BY <1>3, <2>1 DEF Admitted
  <2>3. Sure("start", tick[w])
    BY <1>1, <2>2, PastQueue DEF Sure
  <2> QED
    BY <1>1, <1>3, <2>3, GotoAlone DEF Steps
<1> QED
  BY <1>2, <1>3 DEF Readmit

\* The replacement is counted today, within the budget that was checked.
LEMMA StartRecoveryAlone ==
    ASSUME RecordInv, RecordInv', LockInv, NEW w \in Workers, StartRecovery(w)
    PROVE  LockInv'
<1> PICK r : r = tick[w].row
  OBVIOUS
<1> PICK t : t = tick[w]
  OBVIOUS
<1> PICK rep : rep = Replacement(t.sig)
  OBVIOUS
<1> PICK cost : cost = rep.cost
  OBVIOUS
<1>1. pc[w] = "start" /\ pc[w] # "idle" /\ pc[w] # "follow" /\ day' = day
  BY DEF StartRecovery, world
<1>2. r \in RowIds /\ t \in Tick /\ t.sig \in Sig
  BY <1>1 DEF RecordInv, TypeOK, Tick, WorkerOK, Knows
<1>3. SpentToday(r) + cost <= DailyBudget
  BY <1>1 DEF LockInv, AloneOK, Sure
<1>4. CASE EndTick(w) /\ UNCHANGED tables
  BY <1>1, <1>4, EndAlone DEF tables
<1>5. CASE /\ rows[r].sig = t.sig /\ rows[r].state \in {"broadcasting", "unknown"}
           /\ rows' = [rows EXCEPT ![r].sig = rep, ![r].state = "unknown",
                                   ![r].reserved = cost, ![r].day = day]
           /\ Goto(w, "resend") /\ UNCHANGED tick
  <2> DEFINE row == [rows[r] EXCEPT !.sig = rep, !.state = "unknown", !.reserved = cost, !.day = day]
  <2>1. /\ rows \in [RowIds -> Row] /\ rows[r] \in Row /\ rows' \in [RowIds -> Row]
        /\ tick' = [tick EXCEPT ![w] = t]
    BY <1>2, <1>5 DEF RecordInv, TypeOK
  <2>2. rows' = [rows EXCEPT ![r] = row]
    BY <1>2, <1>5, <2>1
  <2>3. row.state = "unknown" /\ row.day = day /\ row.sig = rep /\ row.reserved = cost
    BY <2>1 DEF Row
  <2> HIDE DEF row
  <2>4. row \in Row
    BY <1>2, <2>1, <2>2
  <2>5. BudgetOK'
    BY <1>1, <1>2, <1>3, <2>2, <2>3, <2>4, SpendsRoom DEF LockInv
  <2>6. rep.nonce = rows[r].sig.nonce
    BY <1>2, <1>5, ReplacementSig
  <2>7. RowsOK'
    <3>1. /\ row.state # "prepared" /\ rows[r].state \in Pending
          /\ rows[r].state \notin {"none", "cancelled"} /\ row.sig.nonce = rows[r].sig.nonce
          /\ row.day \in {day, rows[r].day}
      BY <1>5, <2>3, <2>6 DEF Pending
    <3> QED
      BY <1>1, <1>2, <2>2, <2>4, <3>1, RowsStay DEF LockInv
  <2>8. Sure("resend", t)'
    <3>1. t.queue = <<>>
      BY <1>1, PastQueue
    <3> QED
      BY <3>1, QuietSure
  <2> QED
    BY <1>1, <1>2, <1>5, <2>1, <2>5, <2>7, <2>8, LockGoto DEF Steps
<1> QED
  BY <1>4, <1>5 DEF StartRecovery

\* A new day has spent nothing yet: what fitted yesterday fits.
LEMMA NewDayAlone ==
    ASSUME RecordInv, RecordInv', LockInv, NewDay
    PROVE  LockInv'
<1>1. rows' = rows /\ lock' = lock /\ pc' = pc /\ tick' = tick /\ day' = day + 1
  BY DEF NewDay, tables
<1>2. day \in Nat /\ IsFiniteSet(RowIds) /\ \A r \in RowIds : rows[r].day <= day /\ rows[r].day \in Nat
  BY RowFacts DEF LockInv, RowsOK
<1>3. RowsOK'
  BY <1>1, <1>2 DEF LockInv, RowsOK
<1>4. BudgetOK'
  BY <1>1 DEF LockInv, BudgetOK, Reserved, Spent
<1>5. \A r : SpentToday(r)' = 0
  <2> SUFFICES ASSUME NEW r PROVE SpentToday(r)' = 0
    OBVIOUS
  <2> DEFINE S == {q \in RowIds \ {r} : rows'[q].state # "none" /\ rows'[q].day = day'}
  <2> DEFINE f == [q \in RowIds |-> IF q \in S THEN rows'[q].reserved ELSE 0]
  <2>1. \A q \in RowIds : rows'[q].day # day'
    BY <1>1, <1>2
  <2>2. S = {}
    BY <2>1
  <2>3. f = [q \in RowIds |-> 0]
    BY <2>2
  <2>4. SpentToday(r)' = Total(f, RowIds)
    BY DEF SpentToday, Reserved
  <2> HIDE DEF f
  <2>5. Total([q \in RowIds |-> 0], RowIds) = 0
    BY <1>2, TotalZero
  <2> QED
    BY <2>3, <2>4, <2>5
<1>6. ASSUME NEW w \in Workers PROVE AloneOK(w)'
  <2> PICK p : p = pc[w]
    OBVIOUS
  <2> PICK t : t = tick[w]
    OBVIOUS
  <2>1. Sure(p, t) /\ (p # "idle" => lock = w)
    BY DEF LockInv, AloneOK
  <2>2. t.sig \in Sig /\ Replacement(t.sig) \in Sig /\ SpentToday(t.row) \in Nat
    BY ReplacementSig, ReservedNat DEF RecordInv, TypeOK, Tick, SpentToday
  <2>3. t.sig.cost \in Nat /\ Replacement(t.sig).cost \in Nat /\ DailyBudget \in Nat
    BY <2>2, RowFacts DEF Sig
  <2>4. p = "mark" => t.sig.cost <= DailyBudget
    <3>1. p = "mark" => SpentToday(t.row) + t.sig.cost <= DailyBudget
      BY <2>1 DEF Sure
    <3> QED
      BY <2>2, <2>3, <3>1
  <2>5. p = "start" => Replacement(t.sig).cost <= DailyBudget
    <3>1. p = "start" => SpentToday(t.row) + Replacement(t.sig).cost <= DailyBudget
      BY <2>1 DEF Sure
    <3> QED
      BY <2>2, <2>3, <3>1
  <2>6. p = "mark" => SpentToday(t.row)' + t.sig.cost <= DailyBudget
    BY <1>5, <2>3, <2>4
  <2>7. p = "start" => SpentToday(t.row)' + Replacement(t.sig).cost <= DailyBudget
    BY <1>5, <2>3, <2>5
  <2>8. Sure(p, t)'
    BY <1>1, <2>1, <2>6, <2>7 DEF Sure
  <2>9. Sure(pc[w], tick[w])'
    BY <1>1, <2>8, SureOf
  <2> QED
    BY <1>1, <2>1, <2>9 DEF AloneOK
<1> QED
  BY <1>3, <1>4, <1>6 DEF LockInv

\* What happens elsewhere does not concern the lane.
LEMMA ElsewhereAlone ==
    ASSUME RecordInv, RecordInv', LockInv, UNCHANGED <<rows, day, lock, pc, tick>>
    PROVE  LockInv'
<1>1. RowsOK' /\ BudgetOK' /\ \A p, t : Sure(p, t) => Sure(p, t)'
  BY RowsSame
<1>2. ASSUME NEW w \in Workers PROVE AloneOK(w)'
  <2> PICK p : p = pc[w]
    OBVIOUS
  <2> PICK t : t = tick[w]
    OBVIOUS
  <2>1. Sure(p, t)' /\ (p # "idle" => lock = w)
    BY <1>1 DEF LockInv, AloneOK
  <2>2. Sure(pc[w], tick[w])'
    BY <2>1, SureOf
  <2> QED
    BY <2>1, <2>2 DEF AloneOK
<1> QED
  BY <1>1, <1>2 DEF LockInv

-----------------------------------------------------------------------------
(* One process in the lane, always.                                        *)

\* The chain has what was handed out, nonce by nonce.
LEMMA StepChain ==
    ASSUME RecordInv, ChainOK, [Next]_vars
    PROVE  ChainOK'
<1>1. mined \in Seq(Receipt) /\ Len(mined) \in Nat
  BY DEF RecordInv, TypeOK
<1>2. CASE Mine
  <2>1. PICK s \in sent : s.nonce = Len(mined)
                          /\ mined' = Append(mined, [sig |-> s, ok |-> Eligible(s.job)])
    BY <1>2 DEF Mine
  <2> PICK x : x = [sig |-> s, ok |-> Eligible(s.job)]
    OBVIOUS
  <2>2. x \in Receipt /\ x.sig = s
    <3>1. Eligible(s.job) \in BOOLEAN
      BY DEF Eligible
    <3>2. s \in Sig
      BY DEF RecordInv, TypeOK
    <3> QED
      BY <3>1, <3>2 DEF Receipt
  <2>3. mined' = Append(mined, x) /\ sent' = sent
    BY <1>2, <2>1 DEF Mine
  <2>4. /\ Len(mined') = Len(mined) + 1 /\ mined'[Len(mined) + 1] = x
        /\ \A n \in 1..Len(mined) : mined'[n] = mined[n]
    BY <1>1, <2>2, <2>3
  <2>5. ASSUME NEW n \in 1..Len(mined')
        PROVE  mined'[n].sig \in sent' /\ mined'[n].sig.nonce = n - 1
    <3>1. CASE n \in 1..Len(mined)
      BY <2>3, <2>4, <3>1 DEF ChainOK
    <3>2. CASE n = Len(mined) + 1
      BY <1>1, <2>1, <2>2, <2>3, <2>4, <3>2
    <3> QED
      BY <1>1, <2>4, <3>1, <3>2
  <2> QED
    BY <2>5 DEF ChainOK
<1>3. CASE Reorganise
  <2>1. final \in Nat /\ sent' = sent
    BY <1>3 DEF RecordInv, TypeOK, Reorganise
  <2>2. PICK n \in final..(Len(mined) - 1) : mined' = SubSeq(mined, 1, n)
    BY <1>3 DEF Reorganise
  <2>3. n \in Nat /\ n <= Len(mined)
    BY <1>1, <2>1
  <2>4. Len(mined') = n /\ \A k \in 1..n : mined'[k] = mined[k]
    BY <1>1, <2>2, <2>3
  <2>5. ASSUME NEW k \in 1..Len(mined')
        PROVE  mined'[k].sig \in sent' /\ mined'[k].sig.nonce = k - 1
    <3>1. k \in 1..n /\ k \in 1..Len(mined)
      BY <1>1, <2>3, <2>4
    <3>2. mined'[k] = mined[k]
      BY <2>4, <3>1
    <3> QED
      BY <2>1, <3>1, <3>2 DEF ChainOK
  <2> QED
    BY <2>5 DEF ChainOK
<1>4. CASE mined' = mined /\ sent \subseteq sent'
  BY <1>4 DEF ChainOK
<1>5. ASSUME NEW w \in Workers, Work(w) \/ Fail(w) \/ LoseLock(w)
      PROVE  mined' = mined /\ sent \subseteq sent'
  BY <1>5 DEF Work, Begin, Follow, Prepare, Save, Validate, MarkBroadcasting, Send, Record,
              PrepareRecovery, Readmit, StartRecovery, SendReplacement, RecoverySubmitted,
              Fail, LoseLock, chain
<1>6. CASE NewDay \/ Finalise \/ UNCHANGED vars
  BY <1>4, <1>6 DEF NewDay, Finalise, vars, chain
<1>7. ASSUME NEW job \in Fickle, SetEnabled(job) \/ OwnerSettles(job)
      PROVE  mined' = mined /\ sent \subseteq sent'
  BY <1>7 DEF SetEnabled, OwnerSettles, chain
<1> QED
  BY <1>2, <1>3, <1>4, <1>5, <1>6, <1>7 DEF Next

\* Every step of the lane while no lock has been lost.
LEMMA StepLock ==
    ASSUME RecordInv, RecordInv', ChainOK, LockInv, [Next]_vars, lockLosses' = lockLosses
    PROVE  LockInv'
<1>1. ASSUME NEW w \in Workers, Work(w) PROVE LockInv'
  BY <1>1, BeginAlone, FollowAlone, PrepareAlone, SaveAlone, ValidateAlone, MarkAlone,
     SendAlone, RecordAlone, ReadmitAlone, StartRecoveryAlone DEF Work
<1>2. ASSUME NEW w \in Workers, Fail(w) PROVE LockInv'
  <2>1. pc[w] # "idle" /\ EndTick(w) /\ UNCHANGED <<rows, day>>
    BY <1>2 DEF Fail, tables
  <2> QED
    BY <2>1, EndAlone
<1>3. \A w \in Workers : ~ LoseLock(w)
  BY DEF LoseLock, RecordInv, TypeOK
<1>4. CASE NewDay
  BY <1>4, NewDayAlone
<1>5. CASE \/ \E job \in Fickle : SetEnabled(job) \/ OwnerSettles(job)
           \/ Mine \/ Finalise \/ Reorganise
           \/ UNCHANGED vars
  <2>1. UNCHANGED <<rows, day, lock, pc, tick>>
    BY <1>5 DEF SetEnabled, OwnerSettles, Mine, Finalise, Reorganise, vars, world, tables
  <2> QED
    BY <2>1, ElsewhereAlone
<1> QED
  BY <1>1, <1>2, <1>3, <1>4, <1>5 DEF Next

\* The start.
LEMMA InitLane == Init => LaneInv
<1> SUFFICES ASSUME Init PROVE LaneInv
  OBVIOUS
<1>1. RecordInv
  BY InitRecord
<1>2. ChainOK
  <2>1. Len(mined) = 0
    BY DEF Init
  <2> QED
    BY <2>1 DEF ChainOK
<1>3. \A r \in RowIds : rows[r].state = "none" /\ rows[r].day = 0 /\ day = 0
  BY DEF Init, NoRow
<1>4. RowsOK
  <2>1. \A r \in RowIds : rows[r].day <= day
    <3> SUFFICES ASSUME NEW r \in RowIds PROVE rows[r].day <= day
      OBVIOUS
    <3>1. rows[r].day = 0 /\ day = 0
      BY <1>3
    <3> QED
      BY <3>1
  <2>2. \A r \in RowIds : rows[r].state \notin Pending /\ rows[r].state # "prepared"
    BY <1>3 DEF Pending
  <2> QED
    BY <1>3, <2>1, <2>2 DEF RowsOK
<1>5. BudgetOK
  <2> SUFFICES ASSUME NEW d \in 0..MaxDay PROVE Reserved(Spent(d)) <= DailyBudget
    BY DEF BudgetOK
  <2>1. Spent(d) = {}
    BY <1>3 DEF Spent
  <2>2. Reserved({}) = Total([r \in RowIds |-> 0], RowIds)
    BY DEF Reserved
  <2>3. IsFiniteSet(RowIds) /\ DailyBudget \in Nat
    BY <1>1, RowFacts
  <2>4. Total([r \in RowIds |-> 0], RowIds) = 0
    BY <2>3, TotalZero
  <2> QED
    BY <2>1, <2>2, <2>3, <2>4
<1>6. ASSUME NEW w \in Workers PROVE AloneOK(w)
  <2>1. pc[w] = "idle" /\ tick[w].queue = <<>>
    BY NoTickType DEF Init
  <2>2. Sure("idle", tick[w])
    BY <2>1, QuietSure
  <2> QED
    BY <2>1, <2>2 DEF AloneOK
<1> QED
  BY <1>1, <1>2, <1>4, <1>5, <1>6 DEF LaneInv, LockInv

\* Every step.
LEMMA StepLane == LaneInv /\ [Next]_vars => LaneInv'
<1> SUFFICES ASSUME LaneInv, [Next]_vars PROVE LaneInv'
  OBVIOUS
<1>1. RecordInv /\ RecordInv' /\ ChainOK /\ ChainOK'
  BY StepRecord, StepChain DEF LaneInv
<1>2. lockLosses \in Nat /\ lockLosses' \in {lockLosses, lockLosses + 1}
  <2>1. lockLosses \in Nat
    BY <1>1 DEF RecordInv, TypeOK
  <2>2. ASSUME NEW w \in Workers, Work(w) \/ Fail(w) \/ LoseLock(w)
        PROVE  lockLosses' \in {lockLosses, lockLosses + 1}
    BY <2>2 DEF Work, Begin, Follow, Prepare, Save, Validate, MarkBroadcasting, Send, Record,
                PrepareRecovery, Readmit, StartRecovery, SendReplacement, RecoverySubmitted,
                Fail, LoseLock, world
  <2>3. ASSUME NEW job \in Fickle, SetEnabled(job) \/ OwnerSettles(job)
        PROVE  lockLosses' = lockLosses
    BY <2>3 DEF SetEnabled, OwnerSettles
  <2>4. NewDay \/ Mine \/ Finalise \/ Reorganise \/ UNCHANGED vars => lockLosses' = lockLosses
    BY DEF NewDay, Mine, Finalise, Reorganise, vars, world
  <2> QED
    BY <2>1, <2>2, <2>3, <2>4 DEF Next
<1>3. ASSUME lockLosses' = 0 PROVE LockInv'
  <2>1. lockLosses = 0 /\ lockLosses' = lockLosses
    BY <1>2, <1>3
  <2> QED
    BY <1>1, <2>1, StepLock DEF LaneInv
<1> QED
  BY <1>1, <1>3 DEF LaneInv

\* The invariant of the lane: the record always, one transaction at a time and
\* within the budget as long as the lock holds.
THEOREM LaneInvariant == Spec => []LaneInv
  BY InitLane, StepLane, PTL DEF Spec

\* A day's broadcasts stay within the budget.
THEOREM BudgetKept == Spec => []BudgetHeld
<1>1. LaneInv => BudgetHeld
  <2>1. \A d : Spent(d) = {r \in RowIds : rows[r].day = d /\
                             rows[r].state \notin {"none", "prepared", "cancelled"}}
    BY DEF Spent
  <2> QED
    BY <2>1 DEF LaneInv, LockInv, BudgetOK, BudgetHeld
<1> QED
  BY <1>1, LaneInvariant, PTL

\* A nonce is handed out only once the one before is final.
THEOREM OneNonceAtATime == Spec => []NoncesOneByOne
<1>1. LaneInv => NoncesOneByOne
  <2> SUFFICES ASSUME LaneInv, lockLosses = 0, NEW s \in sent, NEW t \in sent, s.nonce < t.nonce
               PROVE  s.nonce < final
    BY DEF NoncesOneByOne
  <2>1. RecordInv /\ ChainOK /\ RowsOK /\ ConfirmedIsMined
    BY DEF LaneInv, LockInv, RecordInv
  <2>2. s \in Sig /\ t \in Sig /\ final \in Nat /\ final <= Len(mined) /\ Len(mined) \in Nat
    BY <2>1 DEF RecordInv, TypeOK
  <2>3. s.nonce \in Nat /\ t.nonce \in Nat
    BY <2>2 DEF Sig
  <2>4. PICK p \in RowIds : Recorded(p, s)
    BY <2>1 DEF RecordInv
  <2>5. PICK q \in RowIds : Recorded(q, t)
    BY <2>1 DEF RecordInv
  <2>6. rows[p].sig.nonce = s.nonce /\ rows[q].sig.nonce = t.nonce
    BY <2>1, <2>4, <2>5, RecordedNonce
  <2>7. p # q
    BY <2>3, <2>6
  <2>8. Marked(p) /\ Marked(q)
    BY <2>4, <2>5 DEF Recorded
  <2>9. ASSUME NEW r \in RowIds, rows[r].state \in {"confirmed", "reverted"}
        PROVE  rows[r].sig.nonce < final
    <3>1. PICK n \in 1..final : mined[n] = [sig |-> rows[r].sig, ok |-> rows[r].state = "confirmed"]
      BY <2>1, <2>9 DEF ConfirmedIsMined
    <3>2. mined[n].sig = rows[r].sig /\ mined[n].sig.nonce = n - 1
      BY <2>1, <2>2, <3>1 DEF ChainOK
    <3> QED
      BY <2>2, <3>2
  <2>10. CASE rows[p].state \in {"confirmed", "reverted"}
    BY <2>6, <2>9, <2>10
  <2>11. CASE rows[q].state \in {"confirmed", "reverted"}
    <3>1. t.nonce < final
      BY <2>6, <2>9, <2>11
    <3> QED
      BY <2>2, <2>3, <3>1
  <2>12. CASE {rows[p].state, rows[q].state} \subseteq Pending
    BY <2>1, <2>7, <2>12 DEF RowsOK
  <2> QED
    BY <2>8, <2>10, <2>11, <2>12 DEF Marked, Pending
<1> QED
  BY <1>1, LaneInvariant, PTL
=============================================================================
