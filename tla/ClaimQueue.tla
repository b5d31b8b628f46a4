------------------------------ MODULE ClaimQueue ------------------------------
(***************************************************************************)
(* The durable queue of the automatic claims.  Discovery turns the facts   *)
(* of the ledger into wakes of scopes (an owner in one market, or all of   *)
(* an owner), scans the scopes that are due on the chain, and leaves       *)
(* candidates; the sender signs them one at a time.  Between any two       *)
(* statements of either, owners act, the ledger grows or rolls back, and   *)
(* transactions settle.                                                    *)
(***************************************************************************)
EXTENDS Integers, FiniteSets, Sequences

CONSTANTS
    Owners, Jobs,
    OwnerOf,            \* whose claim a job is
    Fickle,             \* owners who may change their preference
    NoJob,
    MaxFacts, MaxMishaps        \* bounds of the runs

ASSUME QueueAssumption ==
    /\ IsFiniteSet(Jobs) /\ IsFiniteSet(Owners) /\ Jobs \cap Owners = {}
    /\ OwnerOf \in [Jobs -> Owners] /\ Fickle \subseteq Owners
    /\ NoJob \notin Jobs
    /\ {MaxFacts, MaxMishaps} \subseteq Nat

\* A job stands for its market's scope, an owner for the scope of all of his.
Scopes == Jobs \cup Owners
JobsOf(o) == {j \in Jobs : OwnerOf[j] = o}
OwnerOfScope(s) == IF s \in Owners THEN s ELSE OwnerOf[s]
Covered(s) == IF s \in Owners THEN JobsOf(s) ELSE {s}

VARIABLES
    claim,          \* on the chain: "none", "ahead" of a deadline, or "due"
    log,            \* facts of the chain, with what they replaced: [job, was]
    final,          \* how many of them no reorganisation reaches
    ledger,         \* what is indexed: [epoch, height]
    mishaps,
    unseen,         \* history: a fact was undone that had never been indexed
    optedOut,       \* automatic_claim_preferences
    discovery,      \* automation_discovery: [epoch, cursor, backstopDue]
    scopes,         \* automation_claim_scopes: [due, touched]
    candidates,     \* automation_claim_candidates: [state, epoch, scope, resting]
    journal,        \* the one transaction of the lane: [job, result]
    scan,           \* the discovery process
    sender          \* the sending process

world == <<claim, log, final, ledger, mishaps, unseen>>
queue == <<discovery, scopes, candidates>>
vars  == <<world, optedOut, queue, journal, scan, sender>>

\* No row and an idle one, and no candidate and one that is done or discarded,
\* are alike to whatever reads them.
Idle        == [due |-> "idle", touched |-> FALSE]
Closed      == [state |-> "closed", epoch |-> 0, scope |-> NoJob, resting |-> FALSE]
NoTx        == [job |-> NoJob, result |-> "none"]
NoScan      == [pc |-> "idle", epoch |-> 0, height |-> 0, backstop |-> FALSE,
                due |-> {}, scope |-> NoJob, keys |-> {}, deadline |-> FALSE]
NoWork      == [pc |-> "idle", job |-> NoJob, sign |-> FALSE]

Init ==
    /\ claim = [j \in Jobs |-> "none"] /\ log = <<>> /\ final = 0
    /\ ledger = [epoch |-> 0, height |-> 0]
    /\ mishaps = 0 /\ unseen = FALSE /\ optedOut = {}
    /\ discovery = [epoch |-> 0, cursor |-> 0, backstopDue |-> TRUE]
    /\ scopes = [s \in Scopes |-> Idle]
    /\ candidates = [j \in Jobs |-> Closed]
    /\ journal = NoTx /\ scan = NoScan /\ sender = NoWork

-----------------------------------------------------------------------------
(* The tables *)

Waiting(j) == candidates[j].state \in {"ready", "deferred"}
Servable(j) == Waiting(j) /\ ~candidates[j].resting

\* A new version only matters to the scan that has listed the scope.
Set(ss, due) ==
    [s \in Scopes |-> IF s \in ss THEN [due |-> due, touched |-> s \in scan.due \cup {scan.scope}]
                                  ELSE scopes[s]]

\* wakeWith: due now, and under a new version.
Woken(ss) == Set(ss, "due")

Discarding(js) == [j \in Jobs |-> IF j \in js /\ Waiting(j) THEN Closed ELSE candidates[j]]

Deferred(j) ==
    [candidates EXCEPT ![j].state = "deferred", ![j].resting = TRUE]

\* Candidates of another epoch count too.
WorkPending ==
    \/ \E j \in Jobs : Servable(j)
    \/ \E s \in Scopes : scopes[s].due = "due"

-----------------------------------------------------------------------------
(* Discovery *)

GoTo(step) == scan' = [scan EXCEPT !.pc = step]
EndScan    == scan' = NoScan

\* On to what is left of the list, or to the next tick.
ScanRest(rest) ==
    scan' = IF rest = {} THEN NoScan
            ELSE [NoScan EXCEPT !.pc = "scan", !.epoch = scan.epoch, !.height = scan.height, !.due = rest]

\* assertCurrent.
Snapshot ==
    /\ scan.pc = "idle"
    /\ scan' = [NoScan EXCEPT !.pc = "progress", !.epoch = ledger.epoch, !.height = ledger.height]
    /\ UNCHANGED <<world, optedOut, queue, journal, sender>>

ResetTo(epoch) ==
    /\ discovery' = [epoch |-> epoch, cursor |-> 0, backstopDue |-> TRUE]
    /\ candidates' = Discarding(Jobs)
    /\ scopes' = [s \in Scopes |-> Idle]

\* progress, and once more if the block of the cursor is not in the ledger any
\* more, which can only be when it has rolled back since the snapshot.
Progress ==
    /\ scan.pc = "progress"
    /\ \/ /\ \/ discovery.epoch # scan.epoch \/ discovery.cursor > scan.height
             \/ ledger.epoch # scan.epoch /\ discovery.cursor > 0
          /\ ResetTo(scan.epoch)
          /\ scan' = [scan EXCEPT !.pc = "ingest", !.backstop = TRUE]
       \/ /\ discovery.epoch = scan.epoch /\ discovery.cursor <= scan.height
          /\ scan' = [scan EXCEPT !.pc = "ingest", !.backstop = discovery.backstopDue]
          /\ UNCHANGED queue
    /\ UNCHANGED <<world, optedOut, journal, sender>>

\* The facts after the cursor wake their owner in their market; assertSnapshot
\* fails when the ledger has rolled back.
Ingest ==
    /\ scan.pc = "ingest"
    /\ IF ledger.epoch # scan.epoch THEN EndScan /\ UNCHANGED queue
       ELSE /\ scopes' = Woken({log[n].job : n \in (discovery.cursor + 1)..scan.height})
            /\ discovery' = [discovery EXCEPT !.cursor = scan.height]
            /\ GoTo("backstop")
            /\ UNCHANGED candidates
    /\ UNCHANGED <<world, optedOut, journal, sender>>

\* Bug: only owners of facts that are new are woken.
BackstopNew ==
    /\ scan.pc = "backstop"
    /\ IF scan.backstop /\ ~WorkPending
         THEN /\ scopes' = Woken({OwnerOf[log[n].job] : n \in (scan.height + 1)..ledger.height})
              /\ discovery' = [discovery EXCEPT !.backstopDue = FALSE]
         ELSE UNCHANGED <<discovery, scopes>>
    /\ scan' = [scan EXCEPT !.pc = "list", !.backstop = FALSE]
    /\ UNCHANGED <<world, optedOut, candidates, journal, sender>>

\* Every owner of the ledger is woken, when the queue has nothing else to do.
Backstop ==
    /\ scan.pc = "backstop"
    /\ IF scan.backstop /\ ~WorkPending
         THEN /\ scopes' = Woken({OwnerOf[log[n].job] : n \in 1..ledger.height})
              /\ discovery' = [discovery EXCEPT !.backstopDue = FALSE]
         ELSE UNCHANGED <<discovery, scopes>>
    /\ scan' = [scan EXCEPT !.pc = "list", !.backstop = FALSE]
    /\ UNCHANGED <<world, optedOut, candidates, journal, sender>>

\* dueScopes, with their versions: whatever touches a scope from now on shows.
ListDue ==
    /\ scan.pc = "list"
    /\ ScanRest({s \in Scopes : scopes[s].due = "due"})
    /\ scopes' = [s \in Scopes |-> [scopes[s] EXCEPT !.touched = FALSE]]
    /\ UNCHANGED <<world, optedOut, discovery, candidates, journal, sender>>

Known == {log[n].job : n \in 1..scan.height \cap DOMAIN log}

\* candidates of the source: what the ledger of the snapshot knows of, and the
\* chain now says is due.
ScanScope(s) ==
    /\ scan.pc = "scan" /\ s \in scan.due
    /\ LET seen == IF OwnerOfScope(s) \in optedOut THEN {} ELSE Covered(s) \cap Known
       IN
       scan' = [scan EXCEPT !.pc = "discovered", !.scope = s, !.due = @ \ {s},
                            !.keys = {j \in seen : claim[j] = "due"},
                            !.deadline = \E j \in seen : claim[j] = "ahead"]
    /\ UNCHANGED <<world, optedOut, queue, journal, sender>>

\* failedScope.
Failed(s) ==
    IF scopes[s].touched THEN UNCHANGED scopes
    ELSE scopes' = [scopes EXCEPT ![s].due = "later"]

\* Bug: a scan is written although the scope has been woken since.
DiscoveredLate ==
    LET s == scan.scope IN
    /\ scan.pc = "discovered"
    /\ IF ledger.epoch # scan.epoch THEN Failed(s) /\ UNCHANGED candidates
       ELSE /\ candidates' = [j \in Jobs |->
                 IF j \in scan.keys THEN
                   IF journal.job = j \/ candidates[j].state = "inflight" THEN candidates[j]
                   ELSE [state |-> "ready", epoch |-> scan.epoch, scope |-> s, resting |-> FALSE]
                 ELSE IF /\ Waiting(j) /\ OwnerOf[j] = OwnerOfScope(s)
                         /\ s \in Owners \/ candidates[j].scope = s
                   THEN Closed ELSE candidates[j]]
            /\ scopes' = [scopes EXCEPT ![s].due = IF scan.deadline THEN "later" ELSE "idle"]
    /\ ScanRest(scan.due)
    /\ UNCHANGED <<world, optedOut, discovery, journal, sender>>

\* Bug: a candidate comes back although its transaction is in flight.
DiscoveredAgain ==
    LET s == scan.scope IN
    /\ scan.pc = "discovered"
    /\ IF ledger.epoch # scan.epoch THEN Failed(s) /\ UNCHANGED candidates
       ELSE IF scopes[s].touched THEN UNCHANGED <<scopes, candidates>>
       ELSE /\ candidates' = [j \in Jobs |->
                 IF j \in scan.keys THEN
                   [state |-> "ready", epoch |-> scan.epoch, scope |-> s, resting |-> FALSE]
                 ELSE IF /\ Waiting(j) /\ OwnerOf[j] = OwnerOfScope(s)
                         /\ s \in Owners \/ candidates[j].scope = s
                   THEN Closed ELSE candidates[j]]
            /\ scopes' = [scopes EXCEPT ![s].due = IF scan.deadline THEN "later" ELSE "idle"]
    /\ ScanRest(scan.due)
    /\ UNCHANGED <<world, optedOut, discovery, journal, sender>>

\* discovered, after another assertSnapshot: only under the version that was
\* read, and never over a transaction in flight.
Discovered ==
    LET s == scan.scope IN
    /\ scan.pc = "discovered"
    /\ IF ledger.epoch # scan.epoch THEN Failed(s) /\ UNCHANGED candidates
       ELSE IF scopes[s].touched THEN UNCHANGED <<scopes, candidates>>
       ELSE /\ candidates' = [j \in Jobs |->
                 IF j \in scan.keys THEN
                   IF journal.job = j \/ candidates[j].state = "inflight" THEN candidates[j]
                   ELSE [state |-> "ready", epoch |-> scan.epoch, scope |-> s, resting |-> FALSE]
                 ELSE IF /\ Waiting(j) /\ OwnerOf[j] = OwnerOfScope(s)
                         /\ s \in Owners \/ candidates[j].scope = s
                   THEN Closed ELSE candidates[j]]
            /\ scopes' = [scopes EXCEPT ![s].due = IF scan.deadline THEN "later" ELSE "idle"]
    /\ ScanRest(scan.due)
    /\ UNCHANGED <<world, optedOut, discovery, journal, sender>>

-----------------------------------------------------------------------------
(* The sender: the lane of one transaction, without its inside *)

\* candidates, then the preference and the claim on the chain.
Take(j) ==
    /\ sender.pc = "idle" /\ journal = NoTx
    /\ discovery.epoch = ledger.epoch
    /\ Servable(j) /\ candidates[j].epoch = discovery.epoch
    /\ sender' = [pc |-> "act", job |-> j,
                  sign |-> OwnerOf[j] \notin optedOut /\ claim[j] = "due"]
    /\ UNCHANGED <<world, optedOut, queue, journal, scan>>

\* Bug: the candidate that was read is not looked at again.
SaveTrusting(j) ==
    /\ candidates' = [candidates EXCEPT ![j].state = "inflight"]
    /\ journal' = [job |-> j, result |-> "open"]

\* save.
Save(j) ==
    IF Servable(j) /\ candidates[j].epoch = discovery.epoch
      THEN /\ candidates' = [candidates EXCEPT ![j].state = "inflight"]
           /\ journal' = [job |-> j, result |-> "open"]
      ELSE UNCHANGED <<candidates, journal>>

\* save, or reject: no preference or no entitlement.
Act ==
    /\ sender.pc = "act"
    /\ IF sender.sign THEN Save(sender.job)
       ELSE candidates' = Discarding({sender.job}) /\ UNCHANGED journal
    /\ sender' = NoWork
    /\ UNCHANGED <<world, optedOut, discovery, scopes, scan>>

\* cancelPrepared: not wanted or not due any more, or an error of the nodes.
Cancel ==
    LET j == journal.job IN
    /\ journal.result = "open"
    /\ IF OwnerOf[j] \in optedOut \/ claim[j] # "due" THEN UNCHANGED mishaps
       ELSE mishaps < MaxMishaps /\ mishaps' = mishaps + 1
    /\ candidates' = Deferred(j) /\ journal' = NoTx
    /\ UNCHANGED <<claim, log, final, ledger, unseen, optedOut, discovery, scopes, scan, sender>>

\* The transaction is mined and settled for good.
Settle ==
    LET j == journal.job IN
    /\ journal.result = "open"
    /\ IF claim[j] = "due"
         THEN /\ claim' = [claim EXCEPT ![j] = "none"]
              /\ log' = Append(log, [job |-> j, was |-> "due"]) /\ final' = Len(log')
              /\ journal' = [journal EXCEPT !.result = "paid"]
         ELSE /\ journal' = [journal EXCEPT !.result = "reverted"]
              /\ UNCHANGED <<claim, log, final>>
    /\ UNCHANGED <<ledger, mishaps, unseen, optedOut, queue, scan, sender>>

\* finish.
Finish ==
    /\ journal.result \in {"paid", "reverted"}
    /\ candidates' = IF journal.result = "paid"
                       THEN [candidates EXCEPT ![journal.job] = Closed] ELSE Deferred(journal.job)
    /\ journal' = NoTx
    /\ UNCHANGED <<world, optedOut, discovery, scopes, scan, sender>>

-----------------------------------------------------------------------------
(* Owners, the chain, the ledger, the clock, and faults *)

\* setEnabled, where it changes something: all of the owner is scanned again,
\* or nothing of his any more.
SetEnabled(o) ==
    /\ IF o \in optedOut
         THEN /\ optedOut' = optedOut \ {o}
              /\ scopes' = Woken({o}) /\ UNCHANGED candidates
         ELSE /\ optedOut' = optedOut \cup {o}
              /\ scopes' = Set({s \in Scopes : OwnerOfScope(s) = o}, "idle")
              /\ candidates' = Discarding(JobsOf(o))
    /\ UNCHANGED <<world, discovery, journal, scan, sender>>

Happens(j, status) ==
    /\ Len(log) < MaxFacts
    /\ claim' = [claim EXCEPT ![j] = status]
    /\ log' = Append(log, [job |-> j, was |-> claim[j]])
    /\ UNCHANGED <<final, ledger, mishaps, unseen, optedOut, queue, journal, scan, sender>>

Entitle(j)    == claim[j] = "none" /\ \E status \in {"ahead", "due"} : Happens(j, status)
OwnerTakes(j) == claim[j] = "due" /\ Happens(j, "none")

\* A deadline passes without any event.
DeadlinePasses(j) ==
    /\ claim[j] = "ahead"
    /\ claim' = [claim EXCEPT ![j] = "due"]
    /\ UNCHANGED <<log, final, ledger, mishaps, unseen, optedOut, queue, journal, scan, sender>>

IndexNext ==
    /\ ledger.height < Len(log)
    /\ ledger' = [ledger EXCEPT !.height = @ + 1]
    /\ UNCHANGED <<claim, log, final, mishaps, unseen, optedOut, queue, journal, scan, sender>>

\* The last fact is undone, in the ledger too if it was indexed.
Reorganise ==
    /\ Len(log) > final
    /\ mishaps < MaxMishaps /\ mishaps' = mishaps + 1
    /\ log' = SubSeq(log, 1, Len(log) - 1)
    /\ claim' = [claim EXCEPT ![log[Len(log)].job] = log[Len(log)].was]
    /\ ledger' = IF ledger.height = Len(log)
                   THEN [epoch |-> ledger.epoch + 1, height |-> Len(log) - 1] ELSE ledger
    /\ unseen' = (unseen \/ ledger.height < Len(log))
    /\ UNCHANGED <<final, optedOut, queue, journal, scan, sender>>

\* Backoffs and recorded deadlines.
ScopeFallsDue(s) ==
    /\ scopes[s].due = "later"
    /\ scopes' = [scopes EXCEPT ![s].due = "due"]
    /\ UNCHANGED <<world, optedOut, discovery, candidates, journal, scan, sender>>

CandidateRested(j) ==
    /\ candidates[j].resting
    /\ candidates' = [candidates EXCEPT ![j].resting = FALSE]
    /\ UNCHANGED <<world, optedOut, discovery, scopes, journal, scan, sender>>

BackstopFallsDue ==
    /\ ~discovery.backstopDue
    /\ discovery' = [discovery EXCEPT !.backstopDue = TRUE]
    /\ UNCHANGED <<world, optedOut, scopes, candidates, journal, scan, sender>>

\* A read fails during a scan of a scope ...
ScopeFails ==
    /\ scan.pc = "discovered"
    /\ mishaps < MaxMishaps /\ mishaps' = mishaps + 1
    /\ Failed(scan.scope) /\ ScanRest(scan.due)
    /\ UNCHANGED <<claim, log, final, ledger, unseen, optedOut, discovery, candidates, journal, sender>>

\* ... or between the look at a candidate and its save: it rests for a while ...
ActFails ==
    LET j == sender.job IN
    /\ sender.pc = "act"
    /\ mishaps < MaxMishaps /\ mishaps' = mishaps + 1
    /\ candidates' = IF Waiting(j) THEN Deferred(j) ELSE candidates
    /\ sender' = NoWork
    /\ UNCHANGED <<claim, log, final, ledger, unseen, optedOut, discovery, scopes, journal, scan>>

\* ... or elsewhere in a tick; or a process stops and starts again.
TickFails ==
    /\ mishaps < MaxMishaps /\ mishaps' = mishaps + 1
    /\ \/ scan.pc # "idle" /\ EndScan /\ UNCHANGED sender
       \/ sender.pc # "idle" /\ sender' = NoWork /\ UNCHANGED scan
    /\ UNCHANGED <<claim, log, final, ledger, unseen, optedOut, queue, journal>>

-----------------------------------------------------------------------------

Discover ==
    \/ Snapshot \/ Progress \/ Ingest \/ Backstop \/ ListDue
    \/ (\E s \in Scopes : ScanScope(s)) \/ Discovered

Submit == (\E j \in Jobs : Take(j)) \/ Act \/ Finish

Clock ==
    \/ \E s \in Scopes : ScopeFallsDue(s)
    \/ \E j \in Jobs : CandidateRested(j)
    \/ BackstopFallsDue

Next ==
    \/ Discover \/ Submit \/ Cancel \/ Settle \/ Clock
    \/ \E o \in Fickle : SetEnabled(o)
    \/ \E j \in Jobs : Entitle(j) \/ OwnerTakes(j) \/ DeadlinePasses(j)
    \/ IndexNext \/ Reorganise \/ ScopeFails \/ ActFails \/ TickFails

Spec == Init /\ [][Next]_vars

\* Both processes tick for ever and their clocks run; transactions that were
\* signed settle, deadlines pass and the ledger follows the chain.
Fairness ==
    /\ WF_vars(Discover) /\ WF_vars(Submit) /\ WF_vars(Settle) /\ WF_vars(IndexNext)
    /\ \A s \in Scopes : WF_vars(ScopeFallsDue(s))
    /\ \A j \in Jobs : WF_vars(CandidateRested(j)) /\ WF_vars(DeadlinePasses(j))
    /\ WF_vars(BackstopFallsDue)

FairSpec == Spec /\ Fairness

=============================================================================
