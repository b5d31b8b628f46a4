--------------------------- MODULE ClaimQueueProofs ---------------------------
(***************************************************************************)
(* Three promises of the claims queue for any number of owners and jobs:   *)
(* a candidate is in flight exactly while its transaction is, nothing is   *)
(* signed for an owner who has opted out, and no wake is lost.  The second *)
(* needs to know what the running scan and the sender may still write: a   *)
(* scan that has read a preference which changed since finds its scope     *)
(* under a new version, and the sender finds its candidate gone.  The      *)
(* third needs to know what the scan may have missed (see below).          *)
(***************************************************************************)
EXTENDS ClaimQueueProps, TLAPS

CandidateStates == {"closed", "ready", "deferred", "inflight"}
Candidate == [state : CandidateStates, epoch : Int, scope : Scopes \cup {NoJob}, resting : BOOLEAN]
Row == [due : {"idle", "due", "later"}, touched : BOOLEAN]
Tx == [job : Jobs \cup {NoJob}, result : {"none", "open", "paid", "reverted"}]
ScanSteps == {"idle", "progress", "ingest", "backstop", "list", "scan", "discovered"}
Scan == [pc : ScanSteps, epoch : Int, height : Int, backstop : BOOLEAN, due : SUBSET Scopes,
         scope : Scopes \cup {NoJob}, keys : SUBSET Jobs, deadline : BOOLEAN]
Work == [pc : {"idle", "act"}, job : Jobs \cup {NoJob}, sign : BOOLEAN]

TypeOK ==
    /\ candidates \in [Jobs -> Candidate]
    /\ journal \in Tx
    /\ journal.job = NoJob <=> journal.result = "none"
    /\ sender \in Work
    /\ sender.pc = "act" => sender.job \in Jobs /\ journal.job = NoJob
    /\ scopes \in [Scopes -> Row]
    /\ optedOut \subseteq Owners
    /\ ledger \in [epoch : Int, height : Int]
    /\ discovery \in [epoch : Int, cursor : Int, backstopDue : BOOLEAN]
    /\ scan \in Scan
    /\ scan.pc = "discovered" => scan.scope \in Scopes /\ scan.keys \subseteq Covered(scan.scope)

\* A scan whose owner has opted out since it read his preference will find
\* its scope under a new version.
ScanIsChecked ==
    scan.pc = "discovered" /\ OwnerOfScope(scan.scope) \in optedOut =>
        scan.keys = {} \/ scopes[scan.scope].touched

\* A candidate the sender is about to sign is gone once its owner opts out.
SenderIsChecked ==
    sender.pc = "act" /\ sender.sign /\ OwnerOf[sender.job] \in optedOut =>
        ~Waiting(sender.job)

IInv == TypeOK /\ InflightIsSigned /\ ScanIsChecked /\ SenderIsChecked

USE QueueAssumption

-----------------------------------------------------------------------------
(* What the helpers return *)

\* The jobs of a scope are its owner's.
LEMMA CoveredOwner ==
    ASSUME NEW s \in Scopes, NEW j \in Covered(s)
    PROVE  j \in Jobs /\ OwnerOf[j] = OwnerOfScope(s)
  BY DEF Scopes, Covered, JobsOf, OwnerOfScope

\* Discarding closes what waits and leaves the rest.
LEMMA DiscardingType ==
    ASSUME TypeOK, NEW js
    PROVE  /\ Discarding(js) \in [Jobs -> Candidate]
           /\ \A j \in Jobs : (Discarding(js)[j].state = "inflight") <=> (candidates[j].state = "inflight")
           /\ \A j \in Jobs : Discarding(js)[j].state \in {"ready", "deferred"} =>
                                  Waiting(j) /\ j \notin js
  BY DEF TypeOK, Discarding, Waiting, Closed, Candidate, CandidateStates

\* A scope that is set anew gets a new version if the scan has listed it.
LEMMA SetType ==
    ASSUME TypeOK, NEW ss, NEW due \in {"idle", "due", "later"}
    PROVE  /\ Set(ss, due) \in [Scopes -> Row]
           /\ scan.scope \in Scopes /\ scopes[scan.scope].touched => Set(ss, due)[scan.scope].touched
           /\ scan.scope \in Scopes /\ scan.scope \in ss => Set(ss, due)[scan.scope].touched
<1>1. \A s \in Scopes : scopes[s] \in Row /\ (s \in scan.due \cup {scan.scope}) \in BOOLEAN
  BY DEF TypeOK
<1>2. ASSUME NEW s \in Scopes
      PROVE  (IF s \in ss THEN [due |-> due, touched |-> s \in scan.due \cup {scan.scope}] ELSE scopes[s]) \in Row
  <2>1. CASE s \in ss
    <3> DEFINE t == s \in scan.due \cup {scan.scope}
    <3>1. t \in BOOLEAN
      OBVIOUS
    <3> HIDE DEF t
    <3>2. [due |-> due, touched |-> t] \in Row
      BY <3>1 DEF Row
    <3> QED
      BY <2>1, <3>2 DEF t
  <2>2. CASE s \notin ss
    BY <1>1, <2>2
  <2> QED
    BY <2>1, <2>2
<1>3. Set(ss, due) \in [Scopes -> Row]
  BY <1>2, Zenon DEF Set
<1>4. ASSUME scan.scope \in Scopes
      PROVE  /\ scan.scope \in ss => Set(ss, due)[scan.scope].touched
             /\ scan.scope \notin ss => Set(ss, due)[scan.scope] = scopes[scan.scope]
  BY <1>4 DEF Set
<1> QED
  BY <1>3, <1>4

LEMMA InitInv == Init => IInv
  BY DEF Init, IInv, TypeOK, InflightIsSigned, ScanIsChecked, SenderIsChecked, Closed, Idle,
         NoTx, NoScan, NoWork, Row, Scan, ScanSteps, Candidate, CandidateStates, Tx, Work

LEMMA ActInv == IInv /\ Act => IInv'
<1> SUFFICES ASSUME IInv, Act PROVE IInv'
  OBVIOUS
<1> USE DEF IInv
<1>1. TypeOK'
  BY DiscardingType DEF Act, Save, Servable, Waiting, TypeOK, Candidate, CandidateStates, Tx, Work, NoWork, world
<1>2. InflightIsSigned'
  BY DiscardingType DEF Act, Save, InflightIsSigned, TypeOK, Candidate, CandidateStates, Work, Tx
<1>3. ScanIsChecked'
  BY DEF Act, ScanIsChecked
<1>4. SenderIsChecked'
  BY DEF Act, SenderIsChecked, NoWork
<1> QED
  BY <1>1, <1>2, <1>3, <1>4

-----------------------------------------------------------------------------
(* The discovery process *)

\* A scan that has not read a preference yet writes nothing of its own.
LEMMA ScanStepInv ==
    ASSUME IInv, scan'.pc # "discovered", scan' \in Scan,
           discovery' \in [epoch : Int, cursor : Int, backstopDue : BOOLEAN], scopes' \in [Scopes -> Row], candidates' \in [Jobs -> Candidate],
           \A j \in Jobs : (candidates'[j].state = "inflight") <=> (candidates[j].state = "inflight"),
           \A j \in Jobs : candidates'[j].state \in {"ready", "deferred"} => Waiting(j),
           UNCHANGED <<ledger, optedOut, journal, sender>>
    PROVE  IInv'
<1> USE DEF IInv
<1>1. TypeOK'
  BY DEF TypeOK
<1>2. InflightIsSigned'
  BY DEF InflightIsSigned
<1>3. ScanIsChecked'
  BY DEF ScanIsChecked
<1>4. SenderIsChecked'
  BY DEF SenderIsChecked, TypeOK, Waiting
<1> QED
  BY <1>1, <1>2, <1>3, <1>4

LEMMA NoScanType == NoScan \in Scan /\ NoScan.pc = "idle"
  BY DEF NoScan, Scan, ScanSteps

\* The next step of a scan, and what is left of its list.
LEMMA GoToType ==
    ASSUME TypeOK, NEW step \in ScanSteps, NEW backstop \in BOOLEAN,
           scan' = [scan EXCEPT !.pc = step, !.backstop = backstop]
    PROVE  scan' \in Scan /\ scan'.pc = step /\ scan'.scope = scan.scope /\ scan'.keys = scan.keys
  BY DEF TypeOK, Scan

LEMMA RestType ==
    ASSUME TypeOK, NEW rest \in SUBSET Scopes, ScanRest(rest)
    PROVE  scan' \in Scan /\ scan'.pc # "discovered"
<1>1. CASE rest = {}
  BY <1>1, NoScanType DEF ScanRest
<1>2. CASE rest # {}
  <2>1. scan' = [NoScan EXCEPT !.pc = "scan", !.epoch = scan.epoch, !.height = scan.height, !.due = rest]
    BY <1>2 DEF ScanRest
  <2>2. scan.epoch \in Int /\ scan.height \in Int
    BY DEF TypeOK, Scan
  <2> QED
    BY <2>1, <2>2 DEF NoScan, Scan, ScanSteps
<1> QED
  BY <1>1, <1>2

LEMMA SnapshotInv == IInv /\ Snapshot => IInv'
<1> SUFFICES ASSUME IInv, Snapshot PROVE IInv'
  OBVIOUS
<1>1. TypeOK
  BY DEF IInv
<1>2. scan' \in Scan /\ scan'.pc # "discovered"
  BY <1>1 DEF Snapshot, NoScan, Scan, ScanSteps, TypeOK
<1> QED
  BY <1>1, <1>2, ScanStepInv DEF Snapshot, TypeOK, queue, world, Waiting

LEMMA ProgressInv == IInv /\ Progress => IInv'
<1> SUFFICES ASSUME IInv, Progress PROVE IInv'
  OBVIOUS
<1>1. TypeOK
  BY DEF IInv
<1>2. /\ scan' \in Scan /\ scan'.pc # "discovered"
      /\ UNCHANGED <<ledger, optedOut, journal, sender>>
  <2>1. PICK b \in BOOLEAN : scan' = [scan EXCEPT !.pc = "ingest", !.backstop = b]
    BY <1>1 DEF Progress, TypeOK
  <2>2. scan' \in Scan /\ scan'.pc = "ingest"
    BY <1>1, <2>1, GoToType DEF ScanSteps
  <2> QED
    BY <2>2 DEF Progress, world
<1>3. CASE UNCHANGED queue
  BY <1>1, <1>2, <1>3, ScanStepInv DEF queue, TypeOK, Waiting
<1>4. CASE ResetTo(scan.epoch)
  <2>1. scopes' \in [Scopes -> Row]
    BY <1>4 DEF ResetTo, Idle, Row
  <2>2. discovery' \in [epoch : Int, cursor : Int, backstopDue : BOOLEAN]
    BY <1>1, <1>4 DEF ResetTo, TypeOK, Scan
  <2>3. candidates' = Discarding(Jobs)
    BY <1>4 DEF ResetTo
  <2> QED
    BY <1>1, <1>2, <2>1, <2>2, <2>3, DiscardingType, ScanStepInv
<1> QED
  BY <1>3, <1>4 DEF Progress

LEMMA IngestInv == IInv /\ Ingest => IInv'
<1> SUFFICES ASSUME IInv, Ingest PROVE IInv'
  OBVIOUS
<1>1. TypeOK
  BY DEF IInv
<1>2. /\ scan' \in Scan /\ scan'.pc # "discovered"
      /\ UNCHANGED <<candidates, ledger, optedOut, journal, sender>>
  <2>1. CASE ledger.epoch # scan.epoch
    BY <2>1, NoScanType DEF Ingest, EndScan, queue, world
  <2>2. CASE ledger.epoch = scan.epoch
    <3>1. scan' = [scan EXCEPT !.pc = "backstop"] /\ UNCHANGED <<candidates, ledger, optedOut, journal, sender>>
      BY <2>2 DEF Ingest, GoTo, world
    <3> QED
      BY <1>1, <3>1 DEF TypeOK, Scan, ScanSteps
  <2> QED
    BY <2>1, <2>2
<1>3. scopes' \in [Scopes -> Row] /\ discovery' \in [epoch : Int, cursor : Int, backstopDue : BOOLEAN]
  <2>1. CASE ledger.epoch # scan.epoch
    BY <1>1, <2>1 DEF Ingest, queue, TypeOK
  <2>2. CASE ledger.epoch = scan.epoch
    <3>1. scopes' \in [Scopes -> Row]
      BY <1>1, <2>2, SetType DEF Ingest, Woken
    <3>2. discovery' = [discovery EXCEPT !.cursor = scan.height]
      BY <2>2 DEF Ingest
    <3> QED
      BY <1>1, <3>1, <3>2 DEF TypeOK, Scan
  <2> QED
    BY <2>1, <2>2
<1> QED
  BY <1>1, <1>2, <1>3, ScanStepInv DEF TypeOK, Waiting

LEMMA BackstopInv == IInv /\ Backstop => IInv'
<1> SUFFICES ASSUME IInv, Backstop PROVE IInv'
  OBVIOUS
<1>1. TypeOK
  BY DEF IInv
<1>2. scopes' \in [Scopes -> Row] /\ discovery' \in [epoch : Int, cursor : Int, backstopDue : BOOLEAN]
  <2>1. CASE scan.backstop /\ ~WorkPending
    <3>1. scopes' \in [Scopes -> Row]
      BY <1>1, <2>1, SetType DEF Backstop, Woken
    <3>2. discovery' = [discovery EXCEPT !.backstopDue = FALSE]
      BY <2>1 DEF Backstop
    <3> QED
      BY <1>1, <3>1, <3>2 DEF TypeOK
  <2>2. CASE ~(scan.backstop /\ ~WorkPending)
    BY <1>1, <2>2 DEF Backstop, TypeOK
  <2> QED
    BY <2>1, <2>2
<1>3. /\ scan' \in Scan /\ scan'.pc # "discovered"
      /\ UNCHANGED <<candidates, ledger, optedOut, journal, sender>>
  BY <1>1 DEF Backstop, world, TypeOK, Scan, ScanSteps
<1> QED
  BY <1>1, <1>2, <1>3, ScanStepInv DEF TypeOK, Waiting

LEMMA ListDueInv == IInv /\ ListDue => IInv'
<1> SUFFICES ASSUME IInv, ListDue PROVE IInv'
  OBVIOUS
<1>1. TypeOK
  BY DEF IInv
<1>2. scopes' \in [Scopes -> Row]
  BY <1>1 DEF ListDue, TypeOK, Row
<1>3. scan' \in Scan /\ scan'.pc # "discovered"
  <2>1. ScanRest({s \in Scopes : scopes[s].due = "due"})
    BY DEF ListDue
  <2> QED
    BY <1>1, <2>1, RestType
<1> QED
  BY <1>1, <1>2, <1>3, ScanStepInv DEF ListDue, TypeOK, Waiting, world

\* What a scan is about to write was read under the preference of that moment.
LEMMA ScanScopeInv == ASSUME NEW s \in Scopes PROVE IInv /\ ScanScope(s) => IInv'
<1> SUFFICES ASSUME IInv, ScanScope(s) PROVE IInv'
  OBVIOUS
<1> USE DEF IInv
<1> DEFINE seen == IF OwnerOfScope(s) \in optedOut THEN {} ELSE Covered(s) \cap Known
<1>1. scan' = [scan EXCEPT !.pc = "discovered", !.scope = s, !.due = @ \ {s},
                           !.keys = {j \in seen : claim[j] = "due"},
                           !.deadline = \E j \in seen : claim[j] = "ahead"]
  BY DEF ScanScope
<1>2. UNCHANGED <<ledger, optedOut, discovery, scopes, candidates, journal, sender>>
  BY DEF ScanScope, queue, world
<1>3. seen \subseteq Covered(s) /\ seen \subseteq Jobs
  BY CoveredOwner
<1>4. /\ scan' \in Scan /\ scan'.pc = "discovered" /\ scan'.scope = s
      /\ scan'.keys = {j \in seen : claim[j] = "due"}
  <2> DEFINE later == \E j \in seen : claim[j] = "ahead"
  <2>1. later \in BOOLEAN
    OBVIOUS
  <2> HIDE DEF later, seen
  <2>2. scan' = [scan EXCEPT !.pc = "discovered", !.scope = s, !.due = @ \ {s},
                             !.keys = {j \in seen : claim[j] = "due"}, !.deadline = later]
    BY <1>1 DEF later
  <2> QED
    BY <1>3, <2>1, <2>2 DEF TypeOK, Scan, ScanSteps
<1>5. TypeOK'
  BY <1>2, <1>3, <1>4 DEF TypeOK
<1>6. InflightIsSigned'
  BY <1>2 DEF InflightIsSigned
<1>7. ScanIsChecked'
  BY <1>2, <1>4 DEF ScanIsChecked
<1>8. SenderIsChecked'
  BY <1>2 DEF SenderIsChecked, Waiting
<1> QED
  BY <1>5, <1>6, <1>7, <1>8

\* Every row a scan writes is under the version it listed: it belongs to an
\* owner who still wants it, and is in flight for nobody.
LEMMA DiscoveredInv == IInv /\ Discovered => IInv'
<1> SUFFICES ASSUME IInv, Discovered PROVE IInv'
  OBVIOUS
<1> USE DEF IInv
<1> DEFINE s == scan.scope
           found(j) == IF journal.job = j \/ candidates[j].state = "inflight" THEN candidates[j]
                       ELSE [state |-> "ready", epoch |-> scan.epoch, scope |-> s, resting |-> FALSE]
           missed(j) == IF /\ Waiting(j) /\ OwnerOf[j] = OwnerOfScope(s)
                           /\ s \in Owners \/ candidates[j].scope = s
                        THEN Closed ELSE candidates[j]
<1>1. s \in Scopes /\ scan.pc = "discovered" /\ ScanRest(scan.due)
  BY DEF Discovered, TypeOK
<1>2. scan' \in Scan /\ scan'.pc # "discovered"
  BY <1>1, RestType DEF TypeOK, Scan
<1>3. UNCHANGED <<ledger, optedOut, discovery, journal, sender>>
  BY DEF Discovered, world
<1>4. CASE UNCHANGED candidates /\ scopes' \in [Scopes -> Row]
  BY <1>2, <1>3, <1>4, ScanStepInv DEF TypeOK, Waiting
<1>5. CASE /\ ~scopes[s].touched
           /\ candidates' = [j \in Jobs |-> IF j \in scan.keys THEN found(j) ELSE missed(j)]
           /\ scopes' = [scopes EXCEPT ![s].due = IF scan.deadline THEN "later" ELSE "idle"]
  <2>1. ASSUME NEW j \in Jobs
        PROVE  /\ found(j) \in Candidate /\ missed(j) \in Candidate
               /\ (found(j).state = "inflight") <=> (candidates[j].state = "inflight")
               /\ (missed(j).state = "inflight") <=> (candidates[j].state = "inflight")
               /\ missed(j).state \in {"ready", "deferred"} => Waiting(j)
    <3>1. candidates[j] \in Candidate /\ scan.epoch \in Int
      BY DEF TypeOK, Scan
    <3>2. Closed \in Candidate /\ Closed.state = "closed"
      BY DEF Closed, Candidate, CandidateStates
    <3>3. [state |-> "ready", epoch |-> scan.epoch, scope |-> s, resting |-> FALSE] \in Candidate
      BY <1>1, <3>1 DEF Candidate, CandidateStates
    <3>4. (candidates[j].state = "inflight") <=> (journal.job = j)
      BY DEF InflightIsSigned
    <3> QED
      BY <3>1, <3>2, <3>3, <3>4 DEF Waiting
  <2>2. scopes' \in [Scopes -> Row]
    BY <1>1, <1>5 DEF TypeOK, Row
  <2>3. candidates' \in [Jobs -> Candidate]
    <3> HIDE DEF found, missed
    <3> QED
      BY <1>5, <2>1
  <2>4. \A j \in Jobs : (candidates'[j].state = "inflight") <=> (candidates[j].state = "inflight")
    <3> HIDE DEF found, missed
    <3> QED
      BY <1>5, <2>1
  <2>5. ASSUME NEW j \in Jobs, OwnerOf[j] \in optedOut, candidates'[j].state \in {"ready", "deferred"}
        PROVE  Waiting(j)
    <3>1. CASE j \in scan.keys
      <4>1. OwnerOf[j] = OwnerOfScope(s)
        BY <1>1, <3>1, CoveredOwner DEF TypeOK
      <4> QED
        BY <1>1, <1>5, <3>1, <4>1, <2>5 DEF ScanIsChecked
    <3>2. CASE j \notin scan.keys
      <4> HIDE DEF found, missed
      <4> QED
        BY <1>5, <2>1, <2>5, <3>2
    <3> QED
      BY <3>1, <3>2
  <2>6. TypeOK'
    BY <1>2, <1>3, <2>2, <2>3 DEF TypeOK
  <2>7. InflightIsSigned'
    BY <1>3, <2>4 DEF InflightIsSigned
  <2>8. ScanIsChecked'
    BY <1>2 DEF ScanIsChecked
  <2>9. SenderIsChecked'
    BY <1>3, <2>5 DEF SenderIsChecked, TypeOK, Waiting
  <2> QED
    BY <2>6, <2>7, <2>8, <2>9
<1>6. ASSUME ledger.epoch # scan.epoch
      PROVE  UNCHANGED candidates /\ scopes' \in [Scopes -> Row]
  BY <1>1, <1>6 DEF Discovered, Failed, TypeOK, Row
<1>7. ASSUME ledger.epoch = scan.epoch, scopes[s].touched
      PROVE  UNCHANGED candidates /\ scopes' \in [Scopes -> Row]
  BY <1>7 DEF Discovered, TypeOK
<1>8. ASSUME ledger.epoch = scan.epoch, ~scopes[s].touched
      PROVE  /\ candidates' = [j \in Jobs |-> IF j \in scan.keys THEN found(j) ELSE missed(j)]
             /\ scopes' = [scopes EXCEPT ![s].due = IF scan.deadline THEN "later" ELSE "idle"]
  BY <1>8 DEF Discovered
<1> QED
  BY <1>4, <1>5, <1>6, <1>7, <1>8

-----------------------------------------------------------------------------
(* The sender, owners, faults and the rest of the world *)

LEMMA TakeInv == ASSUME NEW j \in Jobs PROVE IInv /\ Take(j) => IInv'
<1> SUFFICES ASSUME IInv, Take(j) PROVE IInv'
  OBVIOUS
<1> USE DEF IInv
<1>1. /\ sender'.pc = "act" /\ sender'.job = j /\ journal.job = NoJob
      /\ sender'.sign => OwnerOf[j] \notin optedOut
      /\ UNCHANGED <<ledger, optedOut, discovery, scopes, candidates, journal, scan>>
  BY DEF Take, queue, world, NoTx
<1>2. sender' \in Work
  <2> DEFINE wanted == OwnerOf[j] \notin optedOut /\ claim[j] = "due"
  <2>1. wanted \in BOOLEAN /\ sender' = [pc |-> "act", job |-> j, sign |-> wanted]
    BY DEF Take
  <2> HIDE DEF wanted
  <2> QED
    BY <2>1 DEF Work
<1> QED
  BY <1>1, <1>2 DEF TypeOK, InflightIsSigned, ScanIsChecked, SenderIsChecked

\* Whatever ends a transaction leaves the lane empty and the candidate on land.
LEMMA LandInv ==
    ASSUME IInv, journal.job \in Jobs, journal' = NoTx,
           candidates' = Deferred(journal.job) \/ candidates' = [candidates EXCEPT ![journal.job] = Closed],
           UNCHANGED <<ledger, optedOut, discovery, scopes, scan, sender>>
    PROVE  IInv'
<1> USE DEF IInv
<1>1. PICK c \in Candidate : candidates' = [candidates EXCEPT ![journal.job] = c] /\ c.state # "inflight"
  <2>1. CASE candidates' = Deferred(journal.job)
    <3> DEFINE c == [candidates[journal.job] EXCEPT !.state = "deferred", !.resting = TRUE]
    <3>1. candidates' = [candidates EXCEPT ![journal.job] = c]
      BY <2>1 DEF Deferred
    <3>2. c \in Candidate /\ c.state = "deferred"
      <4> DEFINE old == candidates[journal.job]
      <4>1. old \in Candidate
        BY DEF TypeOK
      <4> HIDE DEF old
      <4>2. [old EXCEPT !.state = "deferred", !.resting = TRUE] \in Candidate
        BY <4>1 DEF Candidate, CandidateStates
      <4>3. [old EXCEPT !.state = "deferred", !.resting = TRUE].state = "deferred"
        BY <4>1 DEF Candidate
      <4> QED
        BY <4>2, <4>3 DEF old
    <3> HIDE DEF c
    <3>3. c.state # "inflight"
      BY <3>2
    <3> QED
      BY <3>1, <3>2, <3>3
  <2>2. CASE candidates' = [candidates EXCEPT ![journal.job] = Closed]
    <3>1. Closed \in Candidate /\ Closed.state # "inflight"
      BY DEF Closed, Candidate, CandidateStates
    <3> QED
      BY <2>2, <3>1
  <2> QED
    BY <2>1, <2>2
<1>2. /\ candidates' \in [Jobs -> Candidate] /\ candidates'[journal.job].state # "inflight"
      /\ \A j \in Jobs \ {journal.job} : candidates'[j] = candidates[j]
  BY <1>1 DEF TypeOK
<1>3. NoTx \in Tx /\ NoTx.job = NoJob /\ NoTx.result = "none"
  BY DEF NoTx, Tx
<1>4. sender.pc # "act"
  BY DEF TypeOK
<1>5. TypeOK'
  BY <1>2, <1>3 DEF TypeOK
<1>6. InflightIsSigned'
  BY <1>2, <1>3 DEF InflightIsSigned
<1>7. ScanIsChecked' /\ SenderIsChecked'
  BY <1>4 DEF ScanIsChecked, SenderIsChecked
<1> QED
  BY <1>5, <1>6, <1>7

LEMMA CancelInv == IInv /\ Cancel => IInv'
<1> SUFFICES ASSUME IInv, Cancel PROVE IInv'
  OBVIOUS
<1>1. journal.job \in Jobs
  BY DEF Cancel, IInv, TypeOK, Tx
<1> QED
  BY <1>1, LandInv DEF Cancel

LEMMA FinishInv == IInv /\ Finish => IInv'
<1> SUFFICES ASSUME IInv, Finish PROVE IInv'
  OBVIOUS
<1>1. journal.job \in Jobs
  BY DEF Finish, IInv, TypeOK, Tx
<1> QED
  BY <1>1, LandInv DEF Finish, world

LEMMA SettleInv == IInv /\ Settle => IInv'
<1> SUFFICES ASSUME IInv, Settle PROVE IInv'
  OBVIOUS
<1> USE DEF IInv
<1>1. UNCHANGED <<ledger, optedOut, discovery, scopes, candidates, scan, sender>>
  BY DEF Settle, queue
<1>2. journal' \in Tx /\ journal'.job = journal.job /\ journal'.result # "none" /\ journal.result # "none"
  <2>1. PICK r \in {"paid", "reverted"} : journal' = [journal EXCEPT !.result = r]
    BY DEF Settle
  <2> QED
    BY <2>1 DEF Settle, TypeOK, Tx
<1>3. TypeOK'
  BY <1>1, <1>2 DEF TypeOK
<1> QED
  BY <1>1, <1>2, <1>3 DEF InflightIsSigned, ScanIsChecked, SenderIsChecked, Waiting

\* An owner who opts out takes his waiting candidates away, and his scopes
\* get a new version; one who opts in has nothing to fear.
LEMMA SetEnabledInv == ASSUME NEW o \in Owners PROVE IInv /\ SetEnabled(o) => IInv'
<1> SUFFICES ASSUME IInv, SetEnabled(o) PROVE IInv'
  OBVIOUS
<1> USE DEF IInv
<1>1. UNCHANGED <<ledger, discovery, journal, scan, sender>>
  BY DEF SetEnabled, world
<1>2. CASE o \in optedOut
  <2>1. optedOut' = optedOut \ {o} /\ scopes' = Set({o}, "due") /\ UNCHANGED candidates
    BY <1>2 DEF SetEnabled, Woken
  <2> DEFINE ss == {o}
  <2>2. /\ Set(ss, "due") \in [Scopes -> Row]
        /\ scan.scope \in Scopes /\ scopes[scan.scope].touched => Set(ss, "due")[scan.scope].touched
    BY SetType
  <2>3. TypeOK'
    BY <1>1, <2>1, <2>2 DEF TypeOK
  <2>4. ScanIsChecked'
    BY <1>1, <2>1, <2>2 DEF ScanIsChecked, TypeOK
  <2> QED
    BY <1>1, <2>1, <2>3, <2>4 DEF InflightIsSigned, SenderIsChecked, Waiting
<1>3. CASE o \notin optedOut
  <2> DEFINE ss == {s \in Scopes : OwnerOfScope(s) = o}
  <2>1. optedOut' = optedOut \cup {o} /\ scopes' = Set(ss, "idle") /\ candidates' = Discarding(JobsOf(o))
    BY <1>3 DEF SetEnabled
  <2>2. /\ Set(ss, "idle") \in [Scopes -> Row]
        /\ scan.scope \in Scopes /\ scopes[scan.scope].touched => Set(ss, "idle")[scan.scope].touched
        /\ scan.scope \in Scopes /\ scan.scope \in ss => Set(ss, "idle")[scan.scope].touched
    BY SetType
  <2> DEFINE js == JobsOf(o)
  <2>3. /\ Discarding(js) \in [Jobs -> Candidate]
        /\ \A j \in Jobs : (Discarding(js)[j].state = "inflight") <=> (candidates[j].state = "inflight")
        /\ \A j \in Jobs : Discarding(js)[j].state \in {"ready", "deferred"} => Waiting(j) /\ j \notin js
    BY DiscardingType
  <2>4. TypeOK'
    BY <1>1, <2>1, <2>2, <2>3 DEF TypeOK
  <2>5. InflightIsSigned'
    BY <1>1, <2>1, <2>3 DEF InflightIsSigned
  <2>6. ScanIsChecked'
    BY <1>1, <2>1, <2>2 DEF ScanIsChecked, TypeOK
  <2>7. SenderIsChecked'
    <3>1. \A j \in Jobs : OwnerOf[j] = o => j \in js
      BY DEF JobsOf
    <3> HIDE DEF js
    <3>2. \A j \in Jobs : candidates'[j].state \in {"ready", "deferred"} => Waiting(j) /\ OwnerOf[j] # o
      BY <2>1, <2>3, <3>1 DEF js
    <3> QED
      BY <1>1, <2>1, <3>2 DEF SenderIsChecked, TypeOK, Waiting
  <2> QED
    BY <2>4, <2>5, <2>6, <2>7
<1> QED
  BY <1>2, <1>3

\* What the owners, the chain and the ledger do leaves the queue alone.
LEMMA WorldInv ==
    ASSUME IInv, ledger' \in [epoch : Int, height : Int],
           UNCHANGED <<optedOut, queue, journal, scan, sender>>
    PROVE  IInv'
  BY DEF IInv, TypeOK, InflightIsSigned, ScanIsChecked, SenderIsChecked, Waiting, queue

LEMMA HappensInv == ASSUME NEW j \in Jobs PROVE IInv /\ (Entitle(j) \/ OwnerTakes(j) \/ DeadlinePasses(j)) => IInv'
  BY WorldInv DEF Entitle, OwnerTakes, DeadlinePasses, Happens, IInv, TypeOK

LEMMA IndexNextInv == IInv /\ IndexNext => IInv'
<1> SUFFICES ASSUME IInv, IndexNext PROVE IInv'
  OBVIOUS
<1>1. ledger' \in [epoch : Int, height : Int]
  BY DEF IndexNext, IInv, TypeOK
<1> QED
  BY <1>1, WorldInv DEF IndexNext

LEMMA ReorganiseInv == IInv /\ Reorganise => IInv'
<1> SUFFICES ASSUME IInv, Reorganise PROVE IInv'
  OBVIOUS
<1>1. ledger' \in [epoch : Int, height : Int]
  <2>1. CASE ledger.height = Len(log)
    BY <2>1 DEF Reorganise, IInv, TypeOK
  <2>2. CASE ledger.height # Len(log)
    BY <2>2 DEF Reorganise, IInv, TypeOK
  <2> QED
    BY <2>1, <2>2
<1> QED
  BY <1>1, WorldInv DEF Reorganise

\* Rows that fall due change neither versions nor states.
LEMMA ClockInv == IInv /\ Clock => IInv'
<1> SUFFICES ASSUME IInv, Clock PROVE IInv'
  OBVIOUS
<1> USE DEF IInv
<1>1. ASSUME NEW s \in Scopes, ScopeFallsDue(s) PROVE IInv'
  <2>1. UNCHANGED <<ledger, optedOut, discovery, candidates, journal, scan, sender>>
    BY <1>1 DEF ScopeFallsDue, world
  <2>2. scopes' \in [Scopes -> Row] /\ \A t \in Scopes : scopes'[t].touched = scopes[t].touched
    BY <1>1 DEF ScopeFallsDue, TypeOK, Row
  <2>3. TypeOK'
    BY <2>1, <2>2 DEF TypeOK
  <2>4. ScanIsChecked'
    BY <2>1, <2>2 DEF ScanIsChecked, TypeOK
  <2> QED
    BY <2>1, <2>3, <2>4 DEF InflightIsSigned, SenderIsChecked, Waiting
<1>2. ASSUME NEW j \in Jobs, CandidateRested(j) PROVE IInv'
  <2>1. UNCHANGED <<ledger, optedOut, discovery, scopes, journal, scan, sender>>
    BY <1>2 DEF CandidateRested, world
  <2>2. candidates' \in [Jobs -> Candidate] /\ \A k \in Jobs : candidates'[k].state = candidates[k].state
    <3> DEFINE old == candidates[j]
               c   == [old EXCEPT !.resting = FALSE]
    <3>1. candidates' = [candidates EXCEPT ![j] = c] /\ old \in Candidate
      BY <1>2 DEF CandidateRested, TypeOK
    <3> HIDE DEF old
    <3>2. c \in Candidate /\ c.state = old.state
      BY <3>1 DEF Candidate
    <3> HIDE DEF c
    <3> QED
      BY <3>1, <3>2 DEF TypeOK, old
  <2>3. TypeOK'
    BY <2>1, <2>2 DEF TypeOK
  <2> QED
    BY <2>1, <2>2, <2>3 DEF InflightIsSigned, ScanIsChecked, SenderIsChecked, Waiting, TypeOK
<1>3. ASSUME BackstopFallsDue PROVE IInv'
  <2>1. UNCHANGED <<ledger, optedOut, scopes, candidates, journal, scan, sender>>
    BY <1>3 DEF BackstopFallsDue, world
  <2>2. discovery' \in [epoch : Int, cursor : Int, backstopDue : BOOLEAN]
    BY <1>3 DEF BackstopFallsDue, TypeOK
  <2> QED
    BY <2>1, <2>2 DEF TypeOK, InflightIsSigned, ScanIsChecked, SenderIsChecked, Waiting
<1> QED
  BY <1>1, <1>2, <1>3 DEF Clock

\* What is put off stays waiting.
LEMMA ActFailsInv == IInv /\ ActFails => IInv'
<1> SUFFICES ASSUME IInv, ActFails PROVE IInv'
  OBVIOUS
<1> USE DEF IInv
<1>1. UNCHANGED <<ledger, optedOut, discovery, scopes, journal, scan>> /\ sender' = NoWork /\ sender.job \in Jobs
  BY DEF ActFails, TypeOK
<1>2. /\ candidates' \in [Jobs -> Candidate]
      /\ \A j \in Jobs : Waiting(j)' <=> Waiting(j)
      /\ \A j \in Jobs : (candidates'[j].state = "inflight") <=> (candidates[j].state = "inflight")
  <2>1. CASE Waiting(sender.job)
    <3> DEFINE old == candidates[sender.job]
               c   == [old EXCEPT !.state = "deferred", !.resting = TRUE]
    <3>1. candidates' = [candidates EXCEPT ![sender.job] = c]
      BY <2>1 DEF ActFails, Deferred
    <3>2. old \in Candidate /\ old.state # "inflight" /\ old.state \in {"ready", "deferred"}
      BY <1>1, <2>1 DEF TypeOK, Waiting
    <3> HIDE DEF old
    <3>3. c \in Candidate /\ c.state = "deferred"
      BY <3>2 DEF Candidate, CandidateStates
    <3> HIDE DEF c
    <3>4. \A j \in Jobs : candidates'[j] = IF j = sender.job THEN c ELSE candidates[j]
      BY <1>1, <3>1 DEF TypeOK
    <3>5. candidates' \in [Jobs -> Candidate]
      BY <1>1, <3>1, <3>3 DEF TypeOK
    <3> QED
      BY <2>1, <3>2, <3>3, <3>4, <3>5 DEF Waiting, old
  <2>2. CASE ~Waiting(sender.job)
    BY <2>2 DEF ActFails, TypeOK, Waiting
  <2> QED
    BY <2>1, <2>2
<1>3. NoWork \in Work /\ NoWork.pc # "act"
  BY DEF NoWork, Work
<1>4. TypeOK'
  BY <1>1, <1>2, <1>3 DEF TypeOK, NoWork
<1>5. InflightIsSigned'
  BY <1>1, <1>2 DEF InflightIsSigned
<1>6. ScanIsChecked'
  BY <1>1 DEF ScanIsChecked
<1>7. SenderIsChecked'
  BY <1>1, <1>3 DEF SenderIsChecked
<1> QED
  BY <1>4, <1>5, <1>6, <1>7

\* A scan that is given up leaves nothing to write.
LEMMA FaultInv == IInv /\ (ScopeFails \/ ActFails \/ TickFails) => IInv'
<1> SUFFICES ASSUME IInv, ScopeFails \/ ActFails \/ TickFails PROVE IInv'
  OBVIOUS
<1>1. TypeOK
  BY DEF IInv
<1>2. CASE ScopeFails
  <2>1. UNCHANGED <<ledger, optedOut, discovery, candidates, journal, sender>>
    BY <1>2 DEF ScopeFails
  <2>2. scopes' \in [Scopes -> Row]
    BY <1>1, <1>2 DEF ScopeFails, Failed, TypeOK, Row
  <2>3. scan' \in Scan /\ scan'.pc # "discovered"
    <3>1. ScanRest(scan.due) /\ scan.due \in SUBSET Scopes
      BY <1>1, <1>2 DEF ScopeFails, TypeOK, Scan
    <3> QED
      BY <1>1, <3>1, RestType
  <2> QED
    BY <1>1, <2>1, <2>2, <2>3, ScanStepInv DEF TypeOK, Waiting
<1>3. CASE TickFails
  <2>1. UNCHANGED <<ledger, optedOut, discovery, scopes, candidates, journal>>
    BY <1>3 DEF TickFails, queue
  <2>2. CASE EndScan /\ UNCHANGED sender
    BY <1>1, <2>1, <2>2, NoScanType, ScanStepInv DEF EndScan, TypeOK, Waiting
  <2>3. CASE sender' = NoWork /\ UNCHANGED scan
    BY <2>1, <2>3 DEF NoWork, Work, IInv, TypeOK, InflightIsSigned, ScanIsChecked, SenderIsChecked
  <2> QED
    BY <1>3, <2>2, <2>3 DEF TickFails
<1> QED
  BY <1>2, <1>3, ActFailsInv

-----------------------------------------------------------------------------
(* The theorems *)

LEMMA NextInv == IInv /\ [Next]_vars => IInv'
<1> SUFFICES ASSUME IInv, [Next]_vars PROVE IInv'
  OBVIOUS
<1>1. CASE Discover
  BY <1>1, SnapshotInv, ProgressInv, IngestInv, BackstopInv, ListDueInv, ScanScopeInv, DiscoveredInv DEF Discover
<1>2. CASE Submit
  BY <1>2, TakeInv, ActInv, FinishInv DEF Submit
<1>3. CASE \E o \in Fickle : SetEnabled(o)
  BY <1>3, SetEnabledInv
<1>4. CASE UNCHANGED vars
  BY <1>4, WorldInv DEF vars, world, IInv, TypeOK
<1> QED
  BY <1>1, <1>2, <1>3, <1>4, CancelInv, SettleInv, ClockInv, HappensInv, IndexNextInv, ReorganiseInv, FaultInv
     DEF Next

\* The inductive invariant: types, one transaction per candidate in flight,
\* and what the scan and the sender may still write.
THEOREM QueueInvariant == Spec => []IInv
  BY InitInv, NextInv, PTL DEF Spec

\* A candidate is in flight exactly as long as the journal holds its
\* transaction (automatic-queue.ts discovered, automatic-store.ts save, finish).
THEOREM InflightIsAlwaysSigned == Spec => []InflightIsSigned
<1>1. IInv => InflightIsSigned
  BY DEF IInv
<1> QED
  BY <1>1, QueueInvariant, PTL

\* Nothing is signed for an owner who has opted out (automatic-store.ts
\* setEnabled against save).
THEOREM OptOutIsHonoured == Spec => OptOutHonoured
<1>1. IInv /\ [Next]_vars => [journal = NoTx /\ journal' # NoTx => OwnerOf[journal'.job] \notin optedOut]_vars
  <2> SUFFICES ASSUME IInv, Next, journal = NoTx, journal' # NoTx
               PROVE  OwnerOf[journal'.job] \notin optedOut
    OBVIOUS
  <2>1. ~Cancel /\ ~Settle /\ ~Finish
    BY DEF Cancel, Settle, Finish, NoTx
  <2>2. Act
    BY <2>1 DEF Next, Discover, Submit, Clock, Snapshot, Progress, Ingest, Backstop, ListDue, ScanScope,
                Discovered, Take, ScopeFallsDue, CandidateRested, BackstopFallsDue, SetEnabled, Entitle,
                OwnerTakes, Happens, DeadlinePasses, IndexNext, Reorganise, ScopeFails, ActFails, TickFails
  <2>3. sender.sign /\ Servable(sender.job) /\ journal'.job = sender.job
    BY <2>2 DEF Act, Save
  <2> QED
    BY <2>2, <2>3 DEF Act, Servable, IInv, SenderIsChecked
<1> QED
  BY <1>1, QueueInvariant, PTL DEF Spec, OptOutHonoured


-----------------------------------------------------------------------------
(* No wake is lost.  A claim that a scan does not find although it is due    *)
(* was, when the scan read it, not yet in the ledger of its snapshot, not    *)
(* due or not wanted; what has changed since has left a fact beyond the      *)
(* cursor, a wake of another scope, or a new version of this one.            *)

Fact == [job : Jobs, was : {"none", "due"}]

\* The last of the first m facts about j is the one that made it a claim.
Entitled(l, j, m) ==
    \E n \in 1..m : /\ l[n].job = j /\ l[n].was = "none"
                    /\ \A i \in (n + 1)..m : l[i].job # j

\* Every claim on the chain has its fact, and none is made twice.
FactsOK ==
    /\ log \in Seq(Fact) /\ final \in Nat
    /\ claim \in [Jobs -> {"none", "ahead", "due"}]
    /\ ledger.height \in 0..Len(log)
    /\ \A j \in Jobs : claim[j] # "none" => Entitled(log, j, Len(log))
    /\ \A m \in 1..Len(log) : log[m].was = "due" => Entitled(log, log[m].job, m - 1)

\* A snapshot that has not been rolled back is part of the ledger, and after
\* ingest the cursor is at its end.
SnapshotOK ==
    /\ discovery.epoch <= ledger.epoch
    /\ discovery.cursor \in Nat /\ scan.height \in Nat
    /\ scan.pc # "idle" => /\ scan.epoch <= ledger.epoch
                           /\ scan.epoch = ledger.epoch => scan.height <= ledger.height
    /\ scan.pc \in {"backstop", "list", "scan", "discovered"} => discovery.cursor = scan.height

\* A candidate found by the scan of one market is of that market.
HomesOK == \A j \in Jobs : candidates[j].scope \in Jobs => candidates[j].scope = j

\* A fact about j that discovery has still to read.
Unread(l, c, j) == \E n \in (c + 1)..Len(l) : l[n].job = j

\* Why the running scan may close the candidate of j.
Excused(j) ==
    \/ claim[j] = "none" \/ OwnerOf[j] \in optedOut \/ scan.deadline
    \/ Unread(log, discovery.cursor, j)
    \/ OwnerOf[j] # scan.scope /\ scopes[OwnerOf[j]].due # "idle"

MissedOK ==
    scan.pc = "discovered" /\ scan.epoch = ledger.epoch /\ ~unseen /\ ~scopes[scan.scope].touched =>
        \A j \in Covered(scan.scope) \ scan.keys : Excused(j)

WakeInv == IInv /\ FactsOK /\ SnapshotOK /\ HomesOK /\ MissedOK

\* A further fact leaves the earlier ones as they are.
LEMMA EntitledGrows ==
    ASSUME NEW l \in Seq(Fact), NEW f \in Fact, NEW j, NEW m \in 0..Len(l), Entitled(l, j, m)
    PROVE  Entitled(Append(l, f), j, m)
<1>1. PICK n \in 1..m : /\ l[n].job = j /\ l[n].was = "none"
                        /\ \A i \in (n + 1)..m : l[i].job # j
  BY DEF Entitled
<1>2. \A i \in 1..m : Append(l, f)[i] = l[i]
  OBVIOUS
<1>3. n \in 1..m /\ Append(l, f)[n].job = j /\ Append(l, f)[n].was = "none"
  BY <1>1, <1>2
<1>4. \A i \in (n + 1)..m : Append(l, f)[i].job # j
  BY <1>1, <1>2
<1> QED
  BY <1>3, <1>4 DEF Entitled

\* A fact about another job is no news.
LEMMA EntitledOther ==
    ASSUME NEW l \in Seq(Fact), NEW f \in Fact, NEW j, f.job # j, Entitled(l, j, Len(l))
    PROVE  Entitled(Append(l, f), j, Len(l) + 1)
<1>1. PICK n \in 1..Len(l) : /\ l[n].job = j /\ l[n].was = "none"
                             /\ \A i \in (n + 1)..Len(l) : l[i].job # j
  BY DEF Entitled
<1>2. /\ \A i \in 1..Len(l) : Append(l, f)[i] = l[i]
      /\ Append(l, f)[Len(l) + 1] = f /\ Len(l) \in Nat
  OBVIOUS
<1>3. n \in 1..(Len(l) + 1) /\ Append(l, f)[n].job = j /\ Append(l, f)[n].was = "none"
  BY <1>1, <1>2
<1>4. \A i \in (n + 1)..(Len(l) + 1) : Append(l, f)[i].job # j
  BY <1>1, <1>2
<1> QED
  BY <1>3, <1>4 DEF Entitled

\* The fact that makes the claim.
LEMMA EntitledNow ==
    ASSUME NEW l \in Seq(Fact), NEW f \in Fact, f.was = "none"
    PROVE  Entitled(Append(l, f), f.job, Len(l) + 1)
<1>1. Len(l) \in Nat /\ Append(l, f)[Len(l) + 1] = f
  OBVIOUS
<1>2. Len(l) + 1 \in 1..(Len(l) + 1) /\ (Len(l) + 1 + 1)..(Len(l) + 1) = {}
  BY <1>1
<1> QED
  BY <1>1, <1>2 DEF Entitled

\* Undoing the last fact leaves the others.
LEMMA EntitledCut ==
    ASSUME NEW l \in Seq(Fact), NEW j, NEW m \in 0..(Len(l) - 1), Entitled(l, j, m)
    PROVE  Entitled(SubSeq(l, 1, Len(l) - 1), j, m)
<1> DEFINE k == SubSeq(l, 1, Len(l) - 1)
<1>1. PICK n \in 1..m : /\ l[n].job = j /\ l[n].was = "none"
                        /\ \A i \in (n + 1)..m : l[i].job # j
  BY DEF Entitled
<1>2. Len(l) \in Nat /\ \A i \in 1..(Len(l) - 1) : k[i] = l[i]
  OBVIOUS
<1> HIDE DEF k
<1>3. n \in 1..m /\ k[n].job = j /\ k[n].was = "none"
  BY <1>1, <1>2
<1>4. \A i \in (n + 1)..m : k[i].job # j
  BY <1>1, <1>2
<1> QED
  BY <1>3, <1>4 DEF Entitled, k

\* A fact about another job was no news.
LEMMA EntitledBefore ==
    ASSUME NEW l \in Seq(Fact), NEW j, Len(l) > 0, l[Len(l)].job # j, Entitled(l, j, Len(l))
    PROVE  Entitled(l, j, Len(l) - 1)
<1>1. PICK n \in 1..Len(l) : /\ l[n].job = j /\ l[n].was = "none"
                             /\ \A i \in (n + 1)..Len(l) : l[i].job # j
  BY DEF Entitled
<1>2. Len(l) \in Nat /\ n # Len(l)
  BY <1>1
<1>3. n \in 1..(Len(l) - 1) /\ \A i \in (n + 1)..(Len(l) - 1) : l[i].job # j
  BY <1>1, <1>2
<1> QED
  BY <1>1, <1>3 DEF Entitled

\* A last fact that did not make the claim ended it.
LEMMA LastFact ==
    ASSUME NEW l \in Seq(Fact), NEW j, Len(l) > 0, l[Len(l)].job = j, Entitled(l, j, Len(l))
    PROVE  l[Len(l)].was = "none"
<1>1. PICK n \in 1..Len(l) : /\ l[n].job = j /\ l[n].was = "none"
                             /\ \A i \in (n + 1)..Len(l) : l[i].job # j
  BY DEF Entitled
<1>2. Len(l) \in Nat /\ (n # Len(l) => Len(l) \in (n + 1)..Len(l))
  BY <1>1
<1> QED
  BY <1>1, <1>2

-----------------------------------------------------------------------------
(* The facts.                                                              *)

\* A fact that makes a claim or ends one.
LEMMA FactAppended ==
    ASSUME FactsOK, NEW j \in Jobs, NEW status \in {"none", "ahead", "due"},
           claim[j] \in {"none", "due"}, status # "none" => claim[j] = "none",
           claim' = [claim EXCEPT ![j] = status],
           log' = Append(log, [job |-> j, was |-> claim[j]]),
           final' \in Nat, ledger' = ledger
    PROVE  FactsOK'
<1> DEFINE f == [job |-> j, was |-> claim[j]]
<1>1. f \in Fact /\ f.job = j /\ f.was = claim[j] /\ log \in Seq(Fact)
  BY DEF Fact, FactsOK
<1>2. log' = Append(log, f)
  OBVIOUS
<1> HIDE DEF f
<1>3. /\ log' \in Seq(Fact) /\ Len(log') = Len(log) + 1 /\ Len(log) \in Nat
      /\ log'[Len(log) + 1] = f
      /\ \A m \in 1..Len(log) : log'[m] = log[m]
  BY <1>1, <1>2
<1>4. claim' \in [Jobs -> {"none", "ahead", "due"}] /\ claim'[j] = status
      /\ \A k \in Jobs \ {j} : claim'[k] = claim[k]
  BY DEF FactsOK
<1>5. ledger'.height \in 0..Len(log')
  BY <1>3 DEF FactsOK
<1>6. ASSUME NEW k \in Jobs, claim'[k] # "none" PROVE Entitled(log', k, Len(log'))
  <2>1. CASE k = j
    BY <1>1, <1>2, <1>3, <1>4, <1>6, <2>1, EntitledNow
  <2>2. CASE k # j
    <3>1. Entitled(log, k, Len(log))
      BY <1>4, <1>6, <2>2 DEF FactsOK
    <3> QED
      BY <1>1, <1>2, <1>3, <2>2, <3>1, EntitledOther
  <2> QED
    BY <2>1, <2>2
<1>7. ASSUME NEW m \in 1..Len(log'), log'[m].was = "due" PROVE Entitled(log', log'[m].job, m - 1)
  <2>1. CASE m = Len(log')
    <3>1. Entitled(log, j, Len(log)) /\ log'[m].job = j /\ m - 1 = Len(log)
      BY <1>1, <1>3, <1>7, <2>1 DEF FactsOK
    <3>2. Len(log) \in 0..Len(log)
      BY <1>3
    <3> QED
      BY <1>1, <1>2, <3>1, <3>2, EntitledGrows
  <2>2. CASE m # Len(log')
    <3>1. m \in 1..Len(log) /\ m - 1 \in 0..Len(log) /\ log'[m] = log[m]
      BY <1>3, <2>2
    <3>2. Entitled(log, log[m].job, m - 1)
      BY <1>7, <3>1 DEF FactsOK
    <3> QED
      BY <1>1, <1>2, <3>1, <3>2, EntitledGrows
  <2> QED
    BY <2>1, <2>2
<1> QED
  BY <1>3, <1>4, <1>5, <1>6, <1>7 DEF FactsOK

LEMMA SettleFacts == FactsOK /\ journal.job \in Jobs /\ Settle => FactsOK'
<1> SUFFICES ASSUME FactsOK, journal.job \in Jobs, Settle PROVE FactsOK'
  OBVIOUS
<1>1. CASE claim[journal.job] = "due"
  <2>1. /\ claim' = [claim EXCEPT ![journal.job] = "none"]
        /\ log' = Append(log, [job |-> journal.job, was |-> claim[journal.job]])
        /\ final' = Len(log') /\ ledger' = ledger
    BY <1>1 DEF Settle
  <2>2. [job |-> journal.job, was |-> claim[journal.job]] \in Fact /\ log \in Seq(Fact)
    BY <1>1 DEF Fact, FactsOK
  <2>3. final' \in Nat
    BY <2>1, <2>2
  <2> QED
    BY <1>1, <2>1, <2>3, FactAppended
<1>2. CASE claim[journal.job] # "due"
  BY <1>2 DEF Settle, FactsOK
<1> QED
  BY <1>1, <1>2

LEMMA HappensFacts ==
    ASSUME NEW j \in Jobs
    PROVE  FactsOK /\ (Entitle(j) \/ OwnerTakes(j)) => FactsOK'
<1> SUFFICES ASSUME FactsOK, Entitle(j) \/ OwnerTakes(j) PROVE FactsOK'
  OBVIOUS
<1>1. PICK status \in {"none", "ahead", "due"} :
        /\ Happens(j, status) /\ claim[j] \in {"none", "due"}
        /\ status # "none" => claim[j] = "none"
  BY DEF Entitle, OwnerTakes
<1>2. final' \in Nat
  BY <1>1 DEF Happens, FactsOK
<1> QED
  BY <1>1, <1>2, FactAppended DEF Happens

\* A log without its last fact.
LEMMA CutShort ==
    ASSUME NEW S, NEW l \in Seq(S), Len(l) > 0
    PROVE  /\ Len(l) \in Nat /\ l[Len(l)] \in S
           /\ SubSeq(l, 1, Len(l) - 1) \in Seq(S)
           /\ Len(SubSeq(l, 1, Len(l) - 1)) = Len(l) - 1
           /\ \A m \in 1..(Len(l) - 1) : SubSeq(l, 1, Len(l) - 1)[m] = l[m]
<1>1. Len(l) \in Nat /\ Len(l) \in 1..Len(l)
  OBVIOUS
<1>2. l[Len(l)] \in S
  BY <1>1
<1> DEFINE n == Len(l) - 1
<1>3. n \in Nat /\ n <= Len(l)
  BY <1>1
<1> HIDE DEF n
<1>4. SubSeq(l, 1, n) \in Seq(S) /\ Len(SubSeq(l, 1, n)) = n /\ \A m \in 1..n : SubSeq(l, 1, n)[m] = l[m]
  BY <1>3
<1> QED
  BY <1>1, <1>2, <1>4 DEF n

LEMMA ReorganiseFacts == FactsOK /\ Reorganise => FactsOK'
<1> SUFFICES ASSUME FactsOK, Reorganise PROVE FactsOK'
  OBVIOUS
<1> DEFINE f == log[Len(log)]
<1>1. log \in Seq(Fact) /\ final \in Nat /\ Len(log) \in Nat /\ Len(log) > 0
  <2>1. log \in Seq(Fact) /\ final \in Nat /\ Len(log) > final
    BY DEF FactsOK, Reorganise
  <2>2. Len(log) \in Nat
    BY <2>1
  <2> QED
    BY <2>1, <2>2
<1>2. f \in Fact /\ f.job \in Jobs /\ f.was \in {"none", "due"}
  <2>1. f \in Fact
    BY <1>1, CutShort
  <2> HIDE DEF f
  <2> QED
    BY <2>1 DEF Fact
<1>3. log' = SubSeq(log, 1, Len(log) - 1)
  BY DEF Reorganise
<1>4. /\ log' \in Seq(Fact) /\ Len(log') = Len(log) - 1
      /\ \A m \in 1..(Len(log) - 1) : log'[m] = log[m]
  BY <1>1, <1>3, CutShort
<1>5. claim' = [claim EXCEPT ![f.job] = f.was] /\ final' = final
  BY DEF Reorganise
<1> HIDE DEF f
<1>6. /\ claim' \in [Jobs -> {"none", "ahead", "due"}] /\ claim'[f.job] = f.was
      /\ \A k \in Jobs \ {f.job} : claim'[k] = claim[k]
  BY <1>2, <1>5 DEF FactsOK
<1>7. ledger'.height \in 0..Len(log')
  <2>1. CASE ledger.height = Len(log)
    <3>1. ledger' = [epoch |-> ledger.epoch + 1, height |-> Len(log) - 1]
      BY <2>1 DEF Reorganise
    <3> QED
      BY <1>1, <1>4, <3>1
  <2>2. CASE ledger.height # Len(log)
    <3>1. ledger' = ledger /\ ledger.height \in 0..Len(log)
      BY <2>2 DEF Reorganise, FactsOK
    <3> QED
      BY <1>1, <1>4, <2>2, <3>1
  <2> QED
    BY <2>1, <2>2
<1>8. ASSUME NEW k \in Jobs, claim'[k] # "none" PROVE Entitled(log', k, Len(log'))
  <2>1. Entitled(log, k, Len(log) - 1)
    <3>1. CASE k = f.job
      <4>1. Len(log) \in 1..Len(log) /\ f.was = "due"
        BY <1>1, <1>2, <1>6, <1>8, <3>1
      <4> QED
        BY <3>1, <4>1 DEF FactsOK, f
    <3>2. CASE k # f.job
      <4>1. Entitled(log, k, Len(log))
        BY <1>6, <1>8, <3>2 DEF FactsOK
      <4> QED
        BY <1>1, <3>2, <4>1, EntitledBefore DEF f
    <3> QED
      BY <3>1, <3>2
  <2>2. Len(log) - 1 \in 0..(Len(log) - 1)
    BY <1>1
  <2> QED
    BY <1>1, <1>3, <1>4, <2>1, <2>2, EntitledCut
<1>9. ASSUME NEW m \in 1..Len(log'), log'[m].was = "due" PROVE Entitled(log', log'[m].job, m - 1)
  <2>1. m \in 1..Len(log) /\ m - 1 \in 0..(Len(log) - 1) /\ log'[m] = log[m]
    BY <1>1, <1>4
  <2>2. Entitled(log, log[m].job, m - 1)
    BY <1>9, <2>1 DEF FactsOK
  <2> QED
    BY <1>1, <1>3, <2>1, <2>2, EntitledCut
<1> QED
  BY <1>4, <1>5, <1>6, <1>7, <1>8, <1>9, <1>1 DEF FactsOK

\* Only these steps touch the chain; the rest leave it alone.
LEMMA FactsKept == WakeInv /\ [Next]_vars => FactsOK'
<1> SUFFICES ASSUME WakeInv, [Next]_vars PROVE FactsOK'
  OBVIOUS
<1> USE DEF WakeInv
<1>1. CASE UNCHANGED <<claim, log, final, ledger>>
  BY <1>1 DEF FactsOK
<1>2. CASE Settle
  <2>1. journal.job \in Jobs
    BY <1>2 DEF Settle, IInv, TypeOK, Tx
  <2> QED
    BY <1>2, <2>1, SettleFacts
<1>3. ASSUME NEW j \in Jobs, DeadlinePasses(j) PROVE FactsOK'
  BY <1>3 DEF DeadlinePasses, FactsOK
<1>4. CASE IndexNext
  <2>1. UNCHANGED <<claim, log, final>> /\ ledger.height < Len(log) /\ ledger.height \in 0..Len(log)
    BY <1>4 DEF IndexNext, FactsOK
  <2>2. ledger'.height = ledger.height + 1
    BY <1>4 DEF IndexNext, IInv, TypeOK
  <2>3. Len(log) \in Nat
    BY DEF FactsOK
  <2>4. ledger'.height \in 0..Len(log)
    BY <2>1, <2>2, <2>3
  <2> QED
    BY <2>1, <2>4 DEF FactsOK
<1>5. Discover \/ Submit \/ Clock \/ UNCHANGED vars => UNCHANGED <<claim, log, final, ledger>>
  BY DEF Discover, Submit, Clock, Snapshot, Progress, Ingest, Backstop, ListDue, ScanScope, Discovered, Take, Act,
         Finish, ScopeFallsDue, CandidateRested, BackstopFallsDue, vars, world
<1>6. ASSUME NEW o \in Owners PROVE SetEnabled(o) => UNCHANGED <<claim, log, final, ledger>>
  BY DEF SetEnabled, world
<1>7. Cancel \/ ScopeFails \/ ActFails \/ TickFails => UNCHANGED <<claim, log, final, ledger>>
  BY DEF Cancel, ScopeFails, ActFails, TickFails
<1> QED
  BY <1>1, <1>2, <1>3, <1>4, <1>5, <1>6, <1>7, HappensFacts, ReorganiseFacts DEF Next

-----------------------------------------------------------------------------
(* The snapshot of the scan.                                               *)

\* What is left of a list is scanned under the same snapshot.
LEMMA RestSnapshot ==
    ASSUME WakeInv, NEW rest \in SUBSET Scopes, ScanRest(rest),
           scan.pc \in {"list", "discovered"}, discovery'.cursor = discovery.cursor,
           discovery'.epoch = discovery.epoch, ledger' = ledger
    PROVE  SnapshotOK'
<1>1. CASE rest = {}
  BY <1>1 DEF ScanRest, NoScan, WakeInv, SnapshotOK
<1>2. CASE rest # {}
  <2>1. scan' = [NoScan EXCEPT !.pc = "scan", !.epoch = scan.epoch, !.height = scan.height, !.due = rest]
    BY <1>2 DEF ScanRest
  <2>2. scan'.pc = "scan" /\ scan'.epoch = scan.epoch /\ scan'.height = scan.height
    BY <2>1 DEF NoScan
  <2> QED
    BY <2>2 DEF WakeInv, SnapshotOK
<1> QED
  BY <1>1, <1>2

LEMMA DiscoverSnapshot == WakeInv /\ Discover => SnapshotOK'
<1> SUFFICES ASSUME WakeInv, Discover PROVE SnapshotOK'
  OBVIOUS
<1> USE DEF WakeInv
<1>0. TypeOK /\ SnapshotOK /\ FactsOK
  BY DEF IInv
<1>1. CASE Snapshot
  <2>1. /\ scan'.pc = "progress" /\ scan'.epoch = ledger.epoch /\ scan'.height = ledger.height
        /\ UNCHANGED <<ledger, discovery>>
    BY <1>1 DEF Snapshot, NoScan, world, queue
  <2>2. ledger.height \in Nat /\ ledger.epoch \in Int
    BY <1>0 DEF FactsOK, TypeOK
  <2> QED
    BY <1>0, <2>1, <2>2 DEF SnapshotOK
<1>2. CASE Progress
  <2>1. scan'.pc = "ingest" /\ scan'.epoch = scan.epoch /\ scan'.height = scan.height /\ ledger' = ledger
    BY <1>0, <1>2 DEF Progress, world, TypeOK, Scan
  <2>2. \/ discovery'.epoch = discovery.epoch /\ discovery'.cursor = discovery.cursor
        \/ discovery'.epoch = scan.epoch /\ discovery'.cursor = 0
    BY <1>2 DEF Progress, ResetTo, queue
  <2> QED
    BY <1>0, <1>2, <2>1, <2>2 DEF SnapshotOK, Progress
<1>3. CASE Ingest
  <2>1. CASE ledger.epoch # scan.epoch
    BY <1>0, <1>3, <2>1 DEF Ingest, EndScan, NoScan, SnapshotOK, queue, world
  <2>2. CASE ledger.epoch = scan.epoch
    <3>1. scan' = [scan EXCEPT !.pc = "backstop"] /\ discovery' = [discovery EXCEPT !.cursor = scan.height]
          /\ ledger' = ledger
      BY <1>3, <2>2 DEF Ingest, GoTo, world
    <3>2. scan'.pc = "backstop" /\ scan'.epoch = scan.epoch /\ scan'.height = scan.height
          /\ discovery'.cursor = scan.height /\ discovery'.epoch = discovery.epoch
      BY <1>0, <3>1 DEF TypeOK, Scan
    <3> QED
      BY <1>0, <1>3, <3>1, <3>2 DEF SnapshotOK, Ingest
  <2> QED
    BY <2>1, <2>2
<1>4. CASE Backstop
  <2>1. scan'.pc = "list" /\ scan'.epoch = scan.epoch /\ scan'.height = scan.height /\ ledger' = ledger
    BY <1>0, <1>4 DEF Backstop, world, TypeOK, Scan
  <2>2. discovery'.epoch = discovery.epoch /\ discovery'.cursor = discovery.cursor
    BY <1>0, <1>4 DEF Backstop, TypeOK
  <2> QED
    BY <1>0, <1>4, <2>1, <2>2 DEF SnapshotOK, Backstop
<1>5. CASE ListDue
  <2> DEFINE rest == {s \in Scopes : scopes[s].due = "due"}
  <2>1. rest \in SUBSET Scopes /\ ScanRest(rest) /\ scan.pc = "list" /\ UNCHANGED <<discovery, ledger>>
    BY <1>5 DEF ListDue, world
  <2> HIDE DEF rest
  <2> QED
    BY <2>1, RestSnapshot
<1>6. ASSUME NEW s \in Scopes, ScanScope(s) PROVE SnapshotOK'
  <2>1. /\ scan'.pc = "discovered" /\ scan'.epoch = scan.epoch /\ scan'.height = scan.height
        /\ UNCHANGED <<discovery, ledger>>
    BY <1>0, <1>6 DEF ScanScope, world, queue, TypeOK, Scan
  <2> QED
    BY <1>0, <1>6, <2>1 DEF SnapshotOK, ScanScope
<1>7. CASE Discovered
  <2>1. scan.due \in SUBSET Scopes /\ ScanRest(scan.due) /\ scan.pc = "discovered" /\ UNCHANGED <<discovery, ledger>>
    BY <1>0, <1>7 DEF Discovered, world, TypeOK, Scan
  <2> QED
    BY <2>1, RestSnapshot
<1> QED
  BY <1>1, <1>2, <1>3, <1>4, <1>5, <1>6, <1>7 DEF Discover

LEMMA SnapshotKept == WakeInv /\ [Next]_vars => SnapshotOK'
<1> SUFFICES ASSUME WakeInv, [Next]_vars PROVE SnapshotOK'
  OBVIOUS
<1>0. TypeOK /\ SnapshotOK /\ FactsOK
  BY DEF WakeInv, IInv
<1>1. CASE UNCHANGED <<discovery, ledger, scan>>
  BY <1>0, <1>1 DEF SnapshotOK
<1>2. CASE IndexNext
  <2>1. UNCHANGED <<discovery, scan>> /\ ledger'.epoch = ledger.epoch /\ ledger'.height = ledger.height + 1
    BY <1>0, <1>2 DEF IndexNext, TypeOK, queue
  <2>2. ledger.height \in Int /\ scan.height \in Nat
    BY <1>0 DEF TypeOK, SnapshotOK
  <2> QED
    BY <1>0, <2>1, <2>2 DEF SnapshotOK
<1>3. CASE Reorganise
  <2>1. UNCHANGED <<discovery, scan>> /\ (ledger' = ledger \/ ledger'.epoch = ledger.epoch + 1)
    BY <1>3 DEF Reorganise, queue
  <2>2. ledger.epoch \in Int /\ scan.epoch \in Int /\ discovery.epoch \in Int
    BY <1>0 DEF TypeOK, Scan
  <2> QED
    BY <1>0, <2>1, <2>2 DEF SnapshotOK
<1>4. CASE ScopeFails
  <2>1. scan.due \in SUBSET Scopes /\ ScanRest(scan.due) /\ scan.pc = "discovered" /\ UNCHANGED <<discovery, ledger>>
    BY <1>0, <1>4 DEF ScopeFails, TypeOK, Scan
  <2> QED
    BY <2>1, RestSnapshot
<1>5. CASE TickFails
  <2>1. UNCHANGED <<discovery, ledger>> /\ (scan' = NoScan \/ scan' = scan)
    BY <1>5 DEF TickFails, EndScan, queue
  <2> QED
    BY <1>0, <2>1 DEF SnapshotOK, NoScan
<1>6. CASE BackstopFallsDue
  <2>1. /\ UNCHANGED <<ledger, scan>> /\ discovery'.epoch = discovery.epoch
        /\ discovery'.cursor = discovery.cursor
    BY <1>0, <1>6 DEF BackstopFallsDue, world, TypeOK
  <2> QED
    BY <1>0, <2>1 DEF SnapshotOK
<1>7. Submit \/ Cancel \/ ActFails \/ Settle \/ UNCHANGED vars => UNCHANGED <<discovery, ledger, scan>>
  BY DEF Submit, Take, Act, Finish, Cancel, ActFails, Settle, vars, queue, world
<1>8. ASSUME NEW o \in Owners PROVE SetEnabled(o) => UNCHANGED <<discovery, ledger, scan>>
  BY DEF SetEnabled, world
<1>9. ASSUME NEW j \in Jobs
      PROVE  Entitle(j) \/ OwnerTakes(j) \/ DeadlinePasses(j) \/ CandidateRested(j)
               => UNCHANGED <<discovery, ledger, scan>>
  BY DEF Entitle, OwnerTakes, Happens, DeadlinePasses, CandidateRested, queue, world
<1>10. ASSUME NEW s \in Scopes PROVE ScopeFallsDue(s) => UNCHANGED <<discovery, ledger, scan>>
  BY DEF ScopeFallsDue, world
<1> QED
  BY <1>1, <1>2, <1>3, <1>4, <1>5, <1>6, <1>7, <1>8, <1>9, <1>10, DiscoverSnapshot DEF Next, Clock

-----------------------------------------------------------------------------
(* The scope of a candidate.                                               *)

LEMMA HomesStay ==
    ASSUME HomesOK, \A j \in Jobs : candidates'[j].scope \in {candidates[j].scope, NoJob}
    PROVE  HomesOK'
  BY DEF HomesOK

LEMMA DiscoveredHomes == WakeInv /\ Discovered => HomesOK'
<1> SUFFICES ASSUME WakeInv, Discovered PROVE HomesOK'
  OBVIOUS
<1>0. TypeOK /\ HomesOK
  BY DEF WakeInv, IInv
<1>1. CASE UNCHANGED candidates
  BY <1>0, <1>1 DEF HomesOK
<1>2. CASE ~UNCHANGED candidates
  <2> DEFINE s == scan.scope
  <2>1. candidates' =
          [j \in Jobs |->
             IF j \in scan.keys THEN
               IF journal.job = j \/ candidates[j].state = "inflight" THEN candidates[j]
               ELSE [state |-> "ready", epoch |-> scan.epoch, scope |-> s, resting |-> FALSE]
             ELSE IF /\ Waiting(j) /\ OwnerOf[j] = OwnerOfScope(s)
                     /\ s \in Owners \/ candidates[j].scope = s
               THEN Closed ELSE candidates[j]]
    BY <1>2 DEF Discovered
  <2>2. s \in Scopes /\ scan.keys \subseteq Covered(s)
    BY <1>0 DEF Discovered, TypeOK
  <2>3. ASSUME NEW j \in Jobs, candidates'[j].scope \in Jobs PROVE candidates'[j].scope = j
    <3>1. \/ candidates'[j] = candidates[j] \/ candidates'[j] = Closed
          \/ j \in scan.keys /\ candidates'[j].scope = s
      BY <2>1
    <3>2. j \in scan.keys /\ s \in Jobs => s = j
      BY <2>2 DEF Covered
    <3> QED
      BY <1>0, <2>3, <3>1, <3>2 DEF HomesOK, Closed
  <2> QED
    BY <2>3 DEF HomesOK
<1> QED
  BY <1>1, <1>2

LEMMA HomesKept == WakeInv /\ [Next]_vars => HomesOK'
<1> SUFFICES ASSUME WakeInv, [Next]_vars PROVE HomesOK'
  OBVIOUS
<1>0. TypeOK /\ HomesOK
  BY DEF WakeInv, IInv
<1>1. CASE UNCHANGED candidates
  BY <1>0, <1>1 DEF HomesOK
<1>2. ASSUME NEW js, candidates' = Discarding(js) PROVE HomesOK'
  <2>1. \A j \in Jobs : candidates'[j].scope \in {candidates[j].scope, NoJob}
    BY <1>2 DEF Discarding, Closed
  <2> QED
    BY <1>0, <2>1, HomesStay
<1>3. ASSUME NEW j \in Jobs, candidates' = Deferred(j) PROVE HomesOK'
  <2>1. \A k \in Jobs : candidates'[k].scope \in {candidates[k].scope, NoJob}
    BY <1>0, <1>3 DEF Deferred, TypeOK, Candidate
  <2> QED
    BY <1>0, <2>1, HomesStay
<1>4. CASE Progress
  BY <1>1, <1>2, <1>4 DEF Progress, ResetTo, queue
<1>5. CASE Act
  <2>1. CASE sender.sign
    <3>1. \A k \in Jobs : candidates'[k].scope \in {candidates[k].scope, NoJob}
      BY <1>0, <1>5, <2>1 DEF Act, Save, TypeOK, Candidate
    <3> QED
      BY <1>0, <3>1, HomesStay
  <2>2. CASE ~sender.sign
    BY <1>2, <1>5, <2>2 DEF Act
  <2> QED
    BY <2>1, <2>2
<1>6. CASE Cancel
  <2>1. journal.job \in Jobs
    BY <1>0, <1>6 DEF Cancel, TypeOK, Tx
  <2> QED
    BY <1>3, <1>6, <2>1 DEF Cancel
<1>7. CASE Finish
  <2>1. journal.job \in Jobs
    BY <1>0, <1>7 DEF Finish, TypeOK, Tx
  <2>2. CASE journal.result = "paid"
    <3>1. candidates' = [candidates EXCEPT ![journal.job] = Closed]
      BY <1>7, <2>2 DEF Finish
    <3>2. \A k \in Jobs : candidates'[k].scope \in {candidates[k].scope, NoJob}
      BY <1>0, <3>1 DEF TypeOK, Closed
    <3> QED
      BY <1>0, <3>2, HomesStay
  <2>3. CASE journal.result # "paid"
    BY <1>3, <1>7, <2>1, <2>3 DEF Finish
  <2> QED
    BY <2>2, <2>3
<1>8. ASSUME NEW o \in Owners, SetEnabled(o) PROVE HomesOK'
  BY <1>1, <1>2, <1>8 DEF SetEnabled
<1>9. ASSUME NEW j \in Jobs, CandidateRested(j) PROVE HomesOK'
  <2>1. \A k \in Jobs : candidates'[k].scope \in {candidates[k].scope, NoJob}
    BY <1>0, <1>9 DEF CandidateRested, TypeOK, Candidate
  <2> QED
    BY <1>0, <2>1, HomesStay
<1>10. ASSUME Snapshot \/ Ingest \/ Backstop \/ ListDue PROVE UNCHANGED candidates
  BY <1>10 DEF Snapshot, Ingest, Backstop, ListDue, queue
<1>11. ASSUME NEW s \in Scopes, ScanScope(s) \/ ScopeFallsDue(s) PROVE UNCHANGED candidates
  BY <1>11 DEF ScanScope, ScopeFallsDue, queue
<1>12. ASSUME NEW j \in Jobs, Take(j) \/ Entitle(j) \/ OwnerTakes(j) \/ DeadlinePasses(j)
       PROVE  UNCHANGED candidates
  BY <1>12 DEF Take, Entitle, OwnerTakes, Happens, DeadlinePasses, queue
<1>13. ASSUME Settle \/ BackstopFallsDue \/ IndexNext \/ Reorganise \/ ScopeFails \/ TickFails \/ UNCHANGED vars
       PROVE  UNCHANGED candidates
  BY <1>13 DEF Settle, BackstopFallsDue, IndexNext, Reorganise, ScopeFails, TickFails, vars, queue
<1>14. CASE Discover
  BY <1>1, <1>4, <1>10, <1>11, <1>14, DiscoveredHomes DEF Discover
<1>15. CASE Submit \/ Clock
  BY <1>1, <1>5, <1>7, <1>9, <1>11, <1>12, <1>13, <1>15 DEF Submit, Clock
<1>16. CASE ActFails
  <2>1. sender.job \in Jobs
    BY <1>0, <1>16 DEF ActFails, TypeOK
  <2> QED
    BY <1>1, <1>3, <1>16, <2>1 DEF ActFails
<1> QED
  BY <1>1, <1>6, <1>8, <1>12, <1>13, <1>14, <1>15, <1>16 DEF Next

-----------------------------------------------------------------------------
(* What the running scan may have missed.                                  *)

\* A fact that was unread stays so while the log grows.
LEMMA UnreadGrows ==
    ASSUME NEW l \in Seq(Fact), NEW f \in Fact, NEW c \in Nat, NEW j, Unread(l, c, j)
    PROVE  Unread(Append(l, f), c, j)
<1>1. PICK n \in (c + 1)..Len(l) : l[n].job = j
  BY DEF Unread
<1>2. Len(l) \in Nat /\ Len(Append(l, f)) = Len(l) + 1 /\ \A i \in 1..Len(l) : Append(l, f)[i] = l[i]
  OBVIOUS
<1>3. n \in 1..Len(l) /\ n \in (c + 1)..(Len(l) + 1)
  BY <1>1, <1>2
<1> QED
  BY <1>1, <1>2, <1>3 DEF Unread

\* A new fact is beyond any cursor within the log.
LEMMA UnreadNow ==
    ASSUME NEW l \in Seq(Fact), NEW f \in Fact, NEW c \in 0..Len(l)
    PROVE  Unread(Append(l, f), c, f.job)
<1>1. /\ Len(l) \in Nat /\ Len(Append(l, f)) = Len(l) + 1 /\ Append(l, f)[Len(l) + 1] = f
      /\ Len(l) + 1 \in (c + 1)..(Len(l) + 1)
  OBVIOUS
<1> QED
  BY <1>1 DEF Unread

\* What a scan reads: all it does not find due is excused at that moment.
LEMMA ScanMisses ==
    ASSUME WakeInv, NEW s \in Scopes, ScanScope(s)
    PROVE  MissedOK'
<1> USE DEF WakeInv
<1>0. TypeOK /\ FactsOK /\ SnapshotOK
  BY DEF IInv
<1> DEFINE seen == IF OwnerOfScope(s) \in optedOut THEN {} ELSE Covered(s) \cap Known
           later == \E j \in seen : claim[j] = "ahead"
<1>1. /\ scan' = [scan EXCEPT !.pc = "discovered", !.scope = s, !.due = @ \ {s},
                              !.keys = {j \in seen : claim[j] = "due"}, !.deadline = later]
      /\ scan.pc = "scan" /\ UNCHANGED <<world, optedOut, discovery, scopes>>
  BY DEF ScanScope, queue
<1>2. later \in BOOLEAN
  OBVIOUS
<1>3. /\ scan'.scope = s /\ scan'.keys = {j \in seen : claim[j] = "due"} /\ scan'.deadline = later
  <2> HIDE DEF later, seen
  <2> QED
    BY <1>0, <1>1 DEF TypeOK, Scan
<1> SUFFICES ASSUME NEW j \in Covered(s), j \notin scan'.keys PROVE Excused(j)'
  BY <1>3 DEF MissedOK
<1>4. j \in Jobs /\ OwnerOf[j] = OwnerOfScope(s)
  BY CoveredOwner
<1>5. CASE OwnerOf[j] \in optedOut
  BY <1>1, <1>5 DEF Excused
<1>6. CASE OwnerOf[j] \notin optedOut /\ j \in Known
  <2>1. j \in seen /\ claim[j] # "due" /\ claim[j] \in {"none", "ahead", "due"}
    BY <1>0, <1>3, <1>4, <1>6 DEF FactsOK
  <2>2. claim[j] = "none" \/ later
    BY <2>1
  <2> QED
    BY <1>1, <1>3, <2>2 DEF Excused, world
<1>7. CASE j \notin Known /\ claim[j] # "none"
  <2>1. PICK n \in 1..Len(log) : log[n].job = j
    BY <1>0, <1>4, <1>7 DEF FactsOK, Entitled
  <2>2. Len(log) \in Nat /\ DOMAIN log = 1..Len(log) /\ scan.height \in Nat
    BY <1>0 DEF FactsOK, SnapshotOK
  <2>3. n \notin 1..scan.height
    BY <1>7, <2>1, <2>2 DEF Known
  <2>4. discovery.cursor = scan.height
    BY <1>0, <1>1 DEF SnapshotOK
  <2>5. n \in (discovery.cursor + 1)..Len(log)
    BY <2>1, <2>2, <2>3, <2>4
  <2>6. Unread(log, discovery.cursor, j)
    BY <2>1, <2>5 DEF Unread
  <2> QED
    BY <1>1, <2>6 DEF Excused, world
<1>8. CASE claim[j] = "none"
  BY <1>1, <1>8 DEF Excused, world
<1> QED
  BY <1>5, <1>6, <1>7, <1>8

\* While the scan stands, it is enough that its excuses last.
LEMMA MissedStays ==
    ASSUME WakeInv, UNCHANGED <<scan, unseen>>, ledger'.epoch = ledger.epoch,
           scan.pc = "discovered" /\ scopes[scan.scope].touched => scopes'[scan.scope].touched,
           scan.pc = "discovered" /\ scan.epoch = ledger.epoch /\ ~scopes'[scan.scope].touched =>
               \A j \in Covered(scan.scope) : Excused(j) => Excused(j)'
    PROVE  MissedOK'
  BY DEF WakeInv, MissedOK

\* The queue only wakes and puts off scopes.
LEMMA MissedOfScopes ==
    ASSUME WakeInv, UNCHANGED <<scan, world, optedOut>>, discovery'.cursor = discovery.cursor,
           \A s \in Scopes : /\ scopes[s].touched => scopes'[s].touched
                             /\ scopes[s].due # "idle" => scopes'[s].due # "idle"
    PROVE  MissedOK'
<1>0. TypeOK
  BY DEF WakeInv, IInv
<1>1. \A j \in Jobs : Excused(j) => Excused(j)'
  BY DEF Excused, world, Scopes
<1>2. scan.pc = "discovered" => scan.scope \in Scopes
  BY <1>0 DEF TypeOK
<1>3. scan.pc = "discovered" => \A j \in Covered(scan.scope) : Excused(j) => Excused(j)'
  BY <1>1, <1>2, CoveredOwner
<1> QED
  BY <1>2, <1>3, MissedStays DEF world

\* The chain: a claim that is made anew leaves a fact.
LEMMA MissedOfFacts ==
    ASSUME WakeInv, NEW k \in Jobs, NEW status \in {"none", "ahead", "due"},
           claim[k] \in {"none", "due"}, claim' = [claim EXCEPT ![k] = status],
           log' = Append(log, [job |-> k, was |-> claim[k]]),
           UNCHANGED <<ledger, unseen, optedOut, discovery, scopes, scan>>
    PROVE  MissedOK'
<1>0. TypeOK /\ FactsOK /\ SnapshotOK
  BY DEF WakeInv, IInv
<1> DEFINE f == [job |-> k, was |-> claim[k]]
<1>1. f \in Fact /\ f.job = k /\ log \in Seq(Fact) /\ log' = Append(log, f)
  BY <1>0 DEF Fact, FactsOK
<1> HIDE DEF f
<1>2. discovery.cursor \in Nat
  BY <1>0 DEF SnapshotOK
<1>3. scan.pc = "discovered" /\ scan.epoch = ledger.epoch => discovery.cursor \in 0..Len(log)
  <2>1. ledger.height \in 0..Len(log) /\ Len(log) \in Nat /\ scan.height \in Nat
    BY <1>0 DEF FactsOK, SnapshotOK
  <2>2. scan.pc = "discovered" /\ scan.epoch = ledger.epoch =>
          scan.height <= ledger.height /\ discovery.cursor = scan.height
    BY <1>0 DEF SnapshotOK
  <2> QED
    BY <2>1, <2>2
<1>4. ASSUME scan.pc = "discovered", scan.epoch = ledger.epoch, NEW j \in Covered(scan.scope), Excused(j)
      PROVE  Excused(j)'
  <2>1. j \in Jobs
    BY <1>0, <1>4, CoveredOwner DEF TypeOK
  <2>2. CASE j = k
    <3>1. Unread(log', discovery.cursor, j)
      BY <1>1, <1>3, <1>4, <2>2, UnreadNow
    <3> QED
      BY <3>1 DEF Excused
  <2>3. CASE j # k
    <3>1. claim'[j] = claim[j]
      BY <1>0, <2>1, <2>3 DEF FactsOK
    <3>2. Unread(log, discovery.cursor, j) => Unread(log', discovery.cursor, j)
      BY <1>1, <1>2, UnreadGrows
    <3> QED
      BY <1>4, <3>1, <3>2 DEF Excused
  <2> QED
    BY <2>2, <2>3
<1> QED
  BY <1>4, MissedStays

\* An owner's change of mind touches the scope of a scan of him, and opting in
\* wakes all of him.
LEMMA MissedOfOwner ==
    ASSUME WakeInv, NEW o \in Owners, SetEnabled(o)
    PROVE  MissedOK'
<1>0. TypeOK
  BY DEF WakeInv, IInv
<1>1. UNCHANGED <<world, discovery, scan>>
  BY DEF SetEnabled
<1>2. ASSUME scan.pc = "discovered" PROVE scan.scope \in Scopes /\ scan.scope \in scan.due \cup {scan.scope}
  BY <1>0, <1>2 DEF TypeOK
<1>3. CASE o \in optedOut
  <2>1. optedOut' = optedOut \ {o} /\ scopes' = Set({o}, "due")
    BY <1>3 DEF SetEnabled, Woken
  <2>2. /\ \A s \in Scopes \ {o} : scopes'[s] = scopes[s]
        /\ o \in Scopes /\ scopes'[o].due = "due"
        /\ scan.pc = "discovered" /\ scan.scope = o => scopes'[o].touched
    BY <1>2, <2>1 DEF Set, Scopes
  <2>3. ASSUME scan.pc = "discovered", ~scopes'[scan.scope].touched,
               NEW j \in Covered(scan.scope), Excused(j)
        PROVE  Excused(j)'
    <3>1. j \in Jobs /\ OwnerOf[j] \in Scopes /\ scan.scope # o
      BY <1>2, <2>2, <2>3, CoveredOwner DEF Scopes
    <3> QED
      BY <1>1, <2>1, <2>2, <2>3, <3>1 DEF Excused, world
  <2>4. scan.pc = "discovered" /\ scopes[scan.scope].touched => scopes'[scan.scope].touched
    BY <1>2, <2>2
  <2> QED
    BY <1>1, <2>3, <2>4, MissedStays DEF world
<1>4. CASE o \notin optedOut
  <2> DEFINE ss == {s \in Scopes : OwnerOfScope(s) = o}
  <2>1. optedOut' = optedOut \cup {o} /\ scopes' = Set(ss, "idle")
    BY <1>4 DEF SetEnabled
  <2>2. ss \subseteq Scopes /\ \A s \in Scopes : s \in ss <=> OwnerOfScope(s) = o
    OBVIOUS
  <2> HIDE DEF ss
  <2>3. /\ \A s \in Scopes : OwnerOfScope(s) # o => scopes'[s] = scopes[s]
        /\ scan.pc = "discovered" /\ OwnerOfScope(scan.scope) = o => scopes'[scan.scope].touched
    BY <1>2, <2>1, <2>2 DEF Set
  <2>4. ASSUME scan.pc = "discovered", ~scopes'[scan.scope].touched,
               NEW j \in Covered(scan.scope), Excused(j)
        PROVE  Excused(j)'
    <3>1. j \in Jobs /\ OwnerOf[j] = OwnerOfScope(scan.scope) /\ OwnerOfScope(scan.scope) # o
      BY <1>2, <2>3, <2>4, CoveredOwner
    <3>2. OwnerOf[j] \in Scopes /\ OwnerOfScope(OwnerOf[j]) = OwnerOf[j]
      BY <3>1 DEF Scopes, OwnerOfScope
    <3>3. scopes'[OwnerOf[j]] = scopes[OwnerOf[j]]
      BY <2>3, <3>1, <3>2
    <3> QED
      BY <1>1, <2>1, <2>4, <3>3 DEF Excused, world
  <2>5. scan.pc = "discovered" /\ scopes[scan.scope].touched => scopes'[scan.scope].touched
    BY <1>2, <2>3
  <2> QED
    BY <1>1, <2>4, <2>5, MissedStays DEF world
<1> QED
  BY <1>3, <1>4

LEMMA MissedKept == WakeInv /\ [Next]_vars => MissedOK'
<1> SUFFICES ASSUME WakeInv, [Next]_vars PROVE MissedOK'
  OBVIOUS
<1>0. TypeOK /\ FactsOK /\ SnapshotOK
  BY DEF WakeInv, IInv
<1>1. ASSUME scan'.pc # "discovered" PROVE MissedOK'
  BY <1>1 DEF MissedOK
<1>2. CASE Discover
  <2>1. CASE Snapshot \/ Progress \/ Ingest \/ Backstop
    <3>1. CASE Snapshot
      BY <1>1, <3>1 DEF Snapshot, NoScan
    <3>2. CASE Progress
      <4>1. scan'.pc = "ingest"
        BY <1>0, <3>2 DEF Progress, TypeOK, Scan
      <4> QED
        BY <1>1, <4>1
    <3>3. CASE Ingest
      <4>1. scan'.pc \in {"idle", "backstop"}
        BY <1>0, <3>3 DEF Ingest, NoScan, EndScan, GoTo, TypeOK, Scan
      <4> QED
        BY <1>1, <4>1
    <3>4. CASE Backstop
      <4>1. scan'.pc = "list"
        BY <1>0, <3>4 DEF Backstop, TypeOK, Scan
      <4> QED
        BY <1>1, <4>1
    <3> QED
      BY <2>1, <3>1, <3>2, <3>3, <3>4
  <2>2. CASE ListDue
    <3> DEFINE rest == {s \in Scopes : scopes[s].due = "due"}
    <3>1. rest \in SUBSET Scopes /\ ScanRest(rest)
      BY <2>2 DEF ListDue
    <3> HIDE DEF rest
    <3> QED
      BY <1>0, <1>1, <3>1, RestType
  <2>3. CASE Discovered
    <3>1. scan.due \in SUBSET Scopes /\ ScanRest(scan.due)
      BY <1>0, <2>3 DEF Discovered, TypeOK, Scan
    <3> QED
      BY <1>0, <1>1, <3>1, RestType
  <2> QED
    BY <1>2, <2>1, <2>2, <2>3, ScanMisses DEF Discover
<1>3. CASE UNCHANGED <<world, optedOut, scopes, scan>> /\ discovery'.cursor = discovery.cursor
  BY <1>3, MissedOfScopes
<1>4. CASE UNCHANGED <<claim, log, ledger, unseen, optedOut, scopes, scan, discovery>>
  <2>1. scan.pc = "discovered" => scan.scope \in Scopes
    BY <1>0 DEF TypeOK
  <2>2. scan.pc = "discovered" => \A j \in Covered(scan.scope) : Excused(j) => Excused(j)'
    BY <1>4 DEF Excused
  <2> QED
    BY <1>4, <2>1, <2>2, MissedStays
<1>5. CASE Settle
  <2>1. UNCHANGED <<ledger, unseen, optedOut, discovery, scopes, scan>>
    BY <1>5 DEF Settle, queue
  <2>2. CASE claim[journal.job] = "due"
    <3>1. journal.job \in Jobs
      BY <1>0, <1>5 DEF Settle, TypeOK, Tx
    <3>2. /\ claim' = [claim EXCEPT ![journal.job] = "none"]
          /\ log' = Append(log, [job |-> journal.job, was |-> claim[journal.job]])
      BY <1>5, <2>2 DEF Settle
    <3> QED
      BY <2>1, <2>2, <3>1, <3>2, MissedOfFacts
  <2>3. CASE claim[journal.job] # "due"
    BY <1>4, <1>5, <2>1, <2>3 DEF Settle
  <2> QED
    BY <2>2, <2>3
<1>6. ASSUME NEW j \in Jobs, Entitle(j) \/ OwnerTakes(j) PROVE MissedOK'
  <2>1. PICK status \in {"none", "ahead", "due"} : Happens(j, status) /\ claim[j] \in {"none", "due"}
    BY <1>6 DEF Entitle, OwnerTakes
  <2> QED
    BY <2>1, MissedOfFacts DEF Happens, queue
<1>7. ASSUME NEW j \in Jobs, DeadlinePasses(j) PROVE MissedOK'
  <2>1. UNCHANGED <<log, ledger, unseen, optedOut, discovery, scopes, scan>>
    BY <1>7 DEF DeadlinePasses, queue
  <2>2. \A k \in Jobs : claim[k] = "none" => claim'[k] = "none"
    BY <1>0, <1>7 DEF DeadlinePasses, FactsOK
  <2>3. scan.pc = "discovered" => \A k \in Covered(scan.scope) : Excused(k) => Excused(k)'
    BY <1>0, <2>1, <2>2, CoveredOwner DEF Excused, TypeOK
  <2> QED
    BY <2>1, <2>3, MissedStays
<1>8. CASE IndexNext
  <2>1. UNCHANGED <<claim, log, unseen, optedOut, discovery, scopes, scan>> /\ ledger'.epoch = ledger.epoch
    BY <1>0, <1>8 DEF IndexNext, queue, TypeOK
  <2>2. scan.pc = "discovered" => \A j \in Covered(scan.scope) : Excused(j) => Excused(j)'
    BY <2>1 DEF Excused
  <2> QED
    BY <2>1, <2>2, MissedStays
<1>9. CASE Reorganise
  <2>1. scan' = scan /\ (ledger'.epoch = ledger.epoch + 1 \/ unseen')
    <3>1. CASE ledger.height = Len(log)
      BY <1>9, <3>1 DEF Reorganise
    <3>2. CASE ledger.height # Len(log)
      <4>1. ledger.height \in 0..Len(log) /\ Len(log) \in Nat
        BY <1>0 DEF FactsOK
      <4>2. ledger.height < Len(log)
        BY <3>2, <4>1
      <4> QED
        BY <1>9, <4>2 DEF Reorganise
    <3> QED
      BY <3>1, <3>2
  <2>2. ledger.epoch \in Int /\ scan.epoch \in Int /\ (scan.pc = "discovered" => scan.epoch <= ledger.epoch)
    BY <1>0 DEF TypeOK, Scan, SnapshotOK
  <2>3. scan.pc = "discovered" => scan.epoch # ledger.epoch + 1
    BY <2>2
  <2> QED
    BY <2>1, <2>3 DEF MissedOK
<1>10. CASE ScopeFails
  <2>1. scan.due \in SUBSET Scopes /\ ScanRest(scan.due)
    BY <1>0, <1>10 DEF ScopeFails, TypeOK, Scan
  <2> QED
    BY <1>0, <1>1, <2>1, RestType
<1>11. CASE TickFails
  <2>1. UNCHANGED <<claim, log, ledger, unseen, optedOut, scopes, discovery>>
    BY <1>11 DEF TickFails, queue
  <2>2. scan' = NoScan \/ scan' = scan
    BY <1>11 DEF TickFails, EndScan
  <2> QED
    BY <1>1, <1>4, <2>1, <2>2, NoScanType
<1>12. ASSUME NEW s \in Scopes, ScopeFallsDue(s) PROVE MissedOK'
  <2>1. UNCHANGED <<scan, world, optedOut, discovery>>
    BY <1>12 DEF ScopeFallsDue
  <2>2. \A t \in Scopes : /\ scopes[t].touched => scopes'[t].touched
                          /\ scopes[t].due # "idle" => scopes'[t].due # "idle"
    BY <1>0, <1>12 DEF ScopeFallsDue, TypeOK, Row
  <2> QED
    BY <2>1, <2>2, MissedOfScopes
<1>13. CASE BackstopFallsDue
  <2>1. discovery'.cursor = discovery.cursor
    BY <1>0, <1>13 DEF BackstopFallsDue, TypeOK
  <2> QED
    BY <1>3, <1>13, <2>1 DEF BackstopFallsDue
<1>14. Submit \/ Cancel \/ ActFails \/ UNCHANGED vars =>
         UNCHANGED <<claim, log, ledger, unseen, optedOut, scopes, scan, discovery>>
  BY DEF Submit, Take, Act, Finish, Cancel, ActFails, vars, queue, world
<1>15. ASSUME NEW j \in Jobs
       PROVE  CandidateRested(j) => UNCHANGED <<claim, log, ledger, unseen, optedOut, scopes, scan, discovery>>
  BY DEF CandidateRested, world
<1>16. CASE Clock
  BY <1>4, <1>12, <1>13, <1>15, <1>16 DEF Clock
<1> QED
  BY <1>2, <1>4, <1>5, <1>6, <1>7, <1>8, <1>9, <1>10, <1>11, <1>14, <1>16, MissedOfOwner DEF Next

-----------------------------------------------------------------------------
(* The way of a claim.                                                     *)

LEMMA InitWake == Init => WakeInv
<1> SUFFICES ASSUME Init PROVE WakeInv
  OBVIOUS
<1>1. FactsOK
  BY DEF Init, FactsOK, Entitled
<1>2. SnapshotOK /\ HomesOK /\ MissedOK
  BY DEF Init, SnapshotOK, HomesOK, MissedOK, NoScan, Closed
<1> QED
  BY <1>1, <1>2, InitInv DEF WakeInv

LEMMA NextWake == WakeInv /\ [Next]_vars => WakeInv'
  BY NextInv, FactsKept, SnapshotKept, HomesKept, MissedKept DEF WakeInv

\* Each part of the way can only be exchanged for one that is there.
LEMMA WayStays ==
    ASSUME NEW j \in Jobs, OnItsWay(j),
           discovery'.epoch = discovery.epoch /\ ledger'.epoch = ledger.epoch,
           Unread(log, discovery.cursor, j) => Unread(log', discovery'.cursor, j),
           \A s \in {j, OwnerOf[j]} : scopes[s].due # "idle" => scopes'[s].due # "idle",
           Waiting(j) \/ journal.job = j => Waiting(j)' \/ journal'.job = j
    PROVE  OnItsWay(j)'
  BY DEF OnItsWay, Unread

\* A claim whose candidate and transaction are left alone, among scopes that
\* are only woken and put off.
LEMMA WayOfScopes ==
    ASSUME WakeInv, NEW j \in Jobs, OnItsWay(j),
           discovery'.epoch = discovery.epoch /\ discovery'.cursor = discovery.cursor,
           UNCHANGED <<log, ledger, journal>>, Waiting(j) => Waiting(j)',
           \A s \in Scopes : scopes[s].due # "idle" => scopes'[s].due # "idle"
    PROVE  OnItsWay(j)'
  BY WayStays DEF Scopes

\* A reset reads all facts again.
LEMMA ProgressWay ==
    ASSUME WakeInv, NEW j \in Jobs, claim[j] = "due", OnItsWay(j), Progress
    PROVE  OnItsWay(j)'
<1>1. UNCHANGED <<world, journal>>
  BY DEF Progress
<1>2. CASE UNCHANGED queue
  BY <1>1, <1>2 DEF OnItsWay, Waiting, world, queue
<1>3. CASE ResetTo(scan.epoch)
  <2>1. discovery'.epoch = scan.epoch /\ discovery'.cursor = 0
    BY <1>3 DEF ResetTo
  <2>2. PICK n \in 1..Len(log) : log[n].job = j
    BY DEF WakeInv, FactsOK, Entitled
  <2>3. n \in (discovery'.cursor + 1)..Len(log')
    BY <1>1, <2>1, <2>2 DEF world
  <2> QED
    BY <1>1, <2>2, <2>3 DEF OnItsWay, world
<1> QED
  BY <1>2, <1>3 DEF Progress

\* What the cursor passes has woken its scope.
LEMMA IngestWay ==
    ASSUME WakeInv, NEW j \in Jobs, OnItsWay(j), Ingest
    PROVE  OnItsWay(j)'
<1>0. TypeOK /\ SnapshotOK /\ FactsOK
  BY DEF WakeInv, IInv
<1>1. UNCHANGED <<world, candidates, journal>>
  BY DEF Ingest, queue
<1>2. CASE ledger.epoch # scan.epoch
  BY <1>1, <1>2 DEF Ingest, OnItsWay, Waiting, world, queue
<1>3. CASE ledger.epoch = scan.epoch
  <2> DEFINE ss == {log[n].job : n \in (discovery.cursor + 1)..scan.height}
  <2>1. scopes' = Woken(ss) /\ discovery' = [discovery EXCEPT !.cursor = scan.height]
    BY <1>3 DEF Ingest
  <2>2. discovery'.epoch = discovery.epoch /\ discovery'.cursor = scan.height
    BY <1>0, <2>1 DEF TypeOK
  <2>3. CASE Unread(log, discovery.cursor, j)
    <3>1. PICK n \in (discovery.cursor + 1)..Len(log) : log[n].job = j
      BY <2>3 DEF Unread
    <3>2. discovery.cursor \in Nat /\ scan.height \in Nat /\ Len(log) \in Nat
      BY <1>0 DEF SnapshotOK, FactsOK
    <3>3. CASE n <= scan.height
      <4>1. n \in (discovery.cursor + 1)..scan.height
        BY <3>2, <3>3
      <4>2. j \in ss
        BY <3>1, <4>1
      <4> HIDE DEF ss
      <4>3. scopes'[j].due = "due"
        BY <2>1, <4>2 DEF Woken, Set, Scopes
      <4> QED
        BY <4>3 DEF OnItsWay
    <3>4. CASE n > scan.height
      <4>1. n \in (scan.height + 1)..Len(log)
        BY <3>2, <3>4
      <4> QED
        BY <1>1, <2>2, <3>1, <4>1 DEF OnItsWay, world
    <3> QED
      BY <3>2, <3>3, <3>4
  <2>4. CASE ~Unread(log, discovery.cursor, j)
    <3> HIDE DEF ss
    <3>1. \A s \in Scopes : scopes[s].due # "idle" => scopes'[s].due # "idle"
      BY <2>1 DEF Woken, Set
    <3> QED
      BY <1>1, <2>2, <2>4, <3>1, WayStays DEF world, Scopes, Waiting
  <2> QED
    BY <2>3, <2>4
<1> QED
  BY <1>2, <1>3

\* A scan only closes what it may: a candidate it does not find due any more is
\* excused, and so is a scope of which it finds nothing.
LEMMA DiscoveredWay ==
    ASSUME WakeInv, NEW j \in Jobs, ~unseen, Wanted(j), OnItsWay(j), Discovered
    PROVE  OnItsWay(j)'
<1>0. TypeOK /\ InflightIsSigned /\ HomesOK /\ MissedOK
  BY DEF WakeInv, IInv
<1> DEFINE s == scan.scope
           found(k) == IF journal.job = k \/ candidates[k].state = "inflight" THEN candidates[k]
                       ELSE [state |-> "ready", epoch |-> scan.epoch, scope |-> s, resting |-> FALSE]
           missed(k) == IF /\ Waiting(k) /\ OwnerOf[k] = OwnerOfScope(s)
                           /\ s \in Owners \/ candidates[k].scope = s
                        THEN Closed ELSE candidates[k]
<1>1. /\ s \in Scopes /\ scan.pc = "discovered" /\ scan.keys \subseteq Covered(s)
      /\ UNCHANGED <<world, optedOut, discovery, journal>>
  BY <1>0 DEF Discovered, TypeOK
<1>2. CASE UNCHANGED candidates /\ \A t \in Scopes : scopes[t].due # "idle" => scopes'[t].due # "idle"
  BY <1>1, <1>2, WayOfScopes DEF world, Waiting
<1>3. CASE ledger.epoch # scan.epoch
  <2>1. UNCHANGED candidates /\ Failed(s)
    BY <1>3 DEF Discovered
  <2>2. \A t \in Scopes : scopes[t].due # "idle" => scopes'[t].due # "idle"
    BY <1>0, <1>1, <2>1 DEF Failed, TypeOK, Row
  <2> QED
    BY <1>2, <2>1, <2>2
<1>4. CASE ledger.epoch = scan.epoch /\ scopes[s].touched
  BY <1>2, <1>4 DEF Discovered
<1>5. CASE ledger.epoch = scan.epoch /\ ~scopes[s].touched
  <2>1. /\ candidates' = [k \in Jobs |-> IF k \in scan.keys THEN found(k) ELSE missed(k)]
        /\ scopes' = [scopes EXCEPT ![s].due = IF scan.deadline THEN "later" ELSE "idle"]
    BY <1>5 DEF Discovered
  <2>2. /\ \A t \in Scopes \ {s} : scopes'[t] = scopes[t]
        /\ scan.deadline => scopes'[s].due = "later"
    BY <1>0, <1>1, <2>1 DEF TypeOK, Row
  <2>3. CASE j \in scan.keys
    <3>1. candidates'[j] = found(j)
      BY <2>1, <2>3
    <3>2. (candidates[j].state = "inflight") <=> (journal.job = j)
      BY <1>0 DEF InflightIsSigned
    <3> QED
      BY <1>1, <3>1, <3>2 DEF OnItsWay, Waiting
  <2>4. CASE j \in Covered(s) \ scan.keys
    <3>1. Excused(j)
      BY <1>0, <1>1, <1>5, <2>4 DEF MissedOK
    <3>2. claim[j] # "none" /\ OwnerOf[j] \notin optedOut
      BY DEF Wanted
    <3>3. s \in {j, OwnerOf[j]} /\ OwnerOf[j] \in Scopes
      BY <1>1, <2>4 DEF Covered, JobsOf, Scopes
    <3>4. CASE scan.deadline
      BY <2>2, <3>3, <3>4 DEF OnItsWay
    <3>5. CASE Unread(log, discovery.cursor, j)
      BY <1>1, <3>5 DEF OnItsWay, Unread, world
    <3>6. CASE OwnerOf[j] # s /\ scopes[OwnerOf[j]].due # "idle"
      BY <2>2, <3>3, <3>6 DEF OnItsWay
    <3> QED
      BY <3>1, <3>2, <3>4, <3>5, <3>6 DEF Excused
  <2>5. CASE j \notin Covered(s)
    <3>1. candidates'[j] = missed(j)
      BY <1>1, <2>1, <2>5
    <3>2. ~(OwnerOf[j] = OwnerOfScope(s) /\ (s \in Owners \/ candidates[j].scope = s))
      <4>1. CASE s \in Owners
        BY <2>5, <4>1 DEF Covered, JobsOf, OwnerOfScope
      <4>2. CASE s \notin Owners
        BY <1>0, <1>1, <2>5, <4>2 DEF Covered, HomesOK, Scopes
      <4> QED
        BY <4>1, <4>2
    <3>3. candidates'[j] = candidates[j]
      BY <3>1, <3>2
    <3>4. s \notin {j, OwnerOf[j]}
      BY <2>5 DEF Covered, JobsOf
    <3>5. \A t \in {j, OwnerOf[j]} : scopes'[t] = scopes[t]
      BY <2>2, <3>4 DEF Scopes
    <3> QED
      BY <1>1, <3>3, <3>5 DEF OnItsWay, Waiting, world
  <2> QED
    BY <2>3, <2>4, <2>5
<1> QED
  BY <1>3, <1>4, <1>5

LEMMA DiscoverWay ==
    ASSUME WakeInv, NEW j \in Jobs, ~unseen, Wanted(j), OnItsWay(j), Discover
    PROVE  OnItsWay(j)'
<1>0. TypeOK
  BY DEF WakeInv, IInv
<1>1. CASE Snapshot \/ \E s \in Scopes : ScanScope(s)
  BY <1>1 DEF Snapshot, ScanScope, OnItsWay, Waiting, world, queue
<1>2. CASE Backstop
  <2>1. UNCHANGED <<world, candidates, journal>>
    BY <1>2 DEF Backstop
  <2>2. discovery'.epoch = discovery.epoch /\ discovery'.cursor = discovery.cursor
    BY <1>0, <1>2 DEF Backstop, TypeOK
  <2>3. \A s \in Scopes : scopes[s].due # "idle" => scopes'[s].due # "idle"
    <3> DEFINE ss == {OwnerOf[log[n].job] : n \in 1..ledger.height}
    <3>1. scopes' = scopes \/ scopes' = Woken(ss)
      BY <1>2 DEF Backstop
    <3> HIDE DEF ss
    <3> QED
      BY <3>1 DEF Woken, Set
  <2> QED
    BY <2>1, <2>2, <2>3, WayOfScopes DEF world, Waiting
<1>3. CASE ListDue
  <2>1. UNCHANGED <<world, discovery, candidates, journal>>
    BY <1>3 DEF ListDue
  <2>2. \A s \in Scopes : scopes'[s].due = scopes[s].due
    BY <1>0, <1>3 DEF ListDue, TypeOK, Row
  <2> QED
    BY <2>1, <2>2, WayOfScopes DEF world, Waiting
<1> QED
  BY <1>1, <1>2, <1>3, ProgressWay, IngestWay, DiscoveredWay DEF Discover, Wanted

\* The sender and the lane hand a candidate on.
LEMMA ActWay ==
    ASSUME WakeInv, NEW j \in Jobs, OnItsWay(j), Act, sender.job # j \/ sender.sign
    PROVE  OnItsWay(j)'
<1>0. TypeOK
  BY DEF WakeInv, IInv
<1>1. UNCHANGED <<world, discovery, scopes>> /\ sender.job \in Jobs /\ journal.job = NoJob
  BY <1>0 DEF Act, TypeOK
<1>2. Waiting(j) => Waiting(j)' \/ journal'.job = j
  <2>1. CASE sender.sign /\ Servable(sender.job) /\ candidates[sender.job].epoch = discovery.epoch
    <3>1. /\ candidates' = [candidates EXCEPT ![sender.job].state = "inflight"]
          /\ journal'.job = sender.job
      BY <2>1 DEF Act, Save
    <3>2. j # sender.job => candidates'[j] = candidates[j]
      BY <1>0, <1>1, <3>1 DEF TypeOK
    <3> QED
      BY <3>1, <3>2 DEF Waiting
  <2>2. CASE sender.sign /\ ~(Servable(sender.job) /\ candidates[sender.job].epoch = discovery.epoch)
    BY <2>2 DEF Act, Save, Waiting
  <2>3. CASE ~sender.sign
    BY <2>3 DEF Act, Discarding, Waiting
  <2> QED
    BY <2>1, <2>2, <2>3
<1>3. journal.job # j
  BY <1>1
<1> QED
  BY <1>1, <1>2, <1>3, WayStays DEF world

LEMMA CancelWay ==
    ASSUME WakeInv, NEW j \in Jobs, OnItsWay(j), Cancel
    PROVE  OnItsWay(j)'
<1>0. TypeOK
  BY DEF WakeInv, IInv
<1>1. UNCHANGED <<claim, log, ledger, discovery, scopes>> /\ journal.job \in Jobs /\ candidates' = Deferred(journal.job)
  BY <1>0 DEF Cancel, TypeOK, Tx
<1>2. \A k \in Jobs : IF k = journal.job THEN candidates'[k].state = "deferred" ELSE candidates'[k] = candidates[k]
  BY <1>0, <1>1 DEF Deferred, TypeOK, Candidate
<1> QED
  BY <1>1, <1>2, WayStays DEF Waiting

\* A rollback of the ledger changes its epoch; without one the fact was not
\* indexed, and undoing it takes the claim away that it had made.
LEMMA ReorganiseWay ==
    ASSUME WakeInv, NEW j \in Jobs, claim[j] = "due", claim'[j] = "due", OnItsWay(j), Reorganise
    PROVE  OnItsWay(j)'
<1>0. TypeOK /\ FactsOK /\ SnapshotOK
  BY DEF WakeInv, IInv
<1>1. UNCHANGED <<queue, journal>> /\ log' = SubSeq(log, 1, Len(log) - 1)
  BY DEF Reorganise
<1>2. CASE ledger.height = Len(log)
  <2>1. ledger'.epoch = ledger.epoch + 1 /\ discovery'.epoch = discovery.epoch
    BY <1>1, <1>2 DEF Reorganise, queue
  <2>2. ledger.epoch \in Int /\ discovery.epoch \in Int /\ discovery.epoch <= ledger.epoch
    BY <1>0 DEF TypeOK, SnapshotOK
  <2>3. discovery'.epoch # ledger'.epoch
    BY <2>1, <2>2
  <2> QED
    BY <2>3 DEF OnItsWay
<1>3. CASE ledger.height # Len(log)
  <2>1. ledger' = ledger
    BY <1>3 DEF Reorganise
  <2>2. log \in Seq(Fact) /\ Len(log) \in Nat /\ Len(log) > 0 /\ log[Len(log)] \in Fact
    <3>1. log \in Seq(Fact) /\ final \in Nat /\ Len(log) > final
      BY <1>0 DEF FactsOK, Reorganise
    <3>2. Len(log) > 0
      BY <3>1
    <3> QED
      BY <3>1, <3>2, CutShort
  <2>3. log[Len(log)].job # j
    <3> SUFFICES ASSUME log[Len(log)].job = j PROVE FALSE
      OBVIOUS
    <3>1. log[Len(log)].was = "none"
      BY <1>0, <2>2, LastFact DEF FactsOK
    <3>2. claim' = [claim EXCEPT ![j] = "none"]
      BY <3>1 DEF Reorganise
    <3> QED
      BY <1>0, <3>2 DEF FactsOK
  <2>4. Unread(log, discovery.cursor, j) => Unread(log', discovery.cursor, j)
    <3> SUFFICES ASSUME Unread(log, discovery.cursor, j) PROVE Unread(log', discovery.cursor, j)
      OBVIOUS
    <3>1. PICK n \in (discovery.cursor + 1)..Len(log) : log[n].job = j
      BY DEF Unread
    <3>2. discovery.cursor \in Nat /\ n # Len(log)
      BY <1>0, <2>3, <3>1 DEF SnapshotOK
    <3>3. n \in 1..(Len(log) - 1) /\ n \in (discovery.cursor + 1)..(Len(log) - 1)
      BY <2>2, <3>1, <3>2
    <3>4. log'[n] = log[n] /\ Len(log') = Len(log) - 1
      BY <1>1, <2>2, <3>3, CutShort
    <3> QED
      BY <3>1, <3>3, <3>4 DEF Unread
  <2> QED
    BY <1>1, <2>1, <2>4, WayStays DEF queue, Waiting
<1> QED
  BY <1>2, <1>3

LEMMA NextWay ==
    ASSUME WakeInv, Next, NEW j \in Jobs, ~unseen, Wanted(j), Wanted(j)', OnItsWay(j),
           ~Finish, ~(Act /\ sender.job = j /\ ~sender.sign)
    PROVE  OnItsWay(j)'
<1>0. TypeOK /\ FactsOK /\ SnapshotOK
  BY DEF WakeInv, IInv
<1>1. CASE Submit
  <2>1. (\E k \in Jobs : Take(k)) => OnItsWay(j)'
    BY DEF Take, OnItsWay, Waiting, world, queue
  <2> QED
    BY <1>1, <2>1, ActWay DEF Submit
<1>2. ASSUME NEW k \in Jobs, NEW f \in Fact, log' = Append(log, f), UNCHANGED <<ledger, queue>>,
             journal'.job = journal.job
      PROVE  OnItsWay(j)'
  <2>1. log \in Seq(Fact) /\ discovery.cursor \in Nat
    BY <1>0 DEF FactsOK, SnapshotOK
  <2>2. Unread(log, discovery.cursor, j) => Unread(log', discovery.cursor, j)
    BY <1>2, <2>1, UnreadGrows
  <2> QED
    BY <1>2, <2>2, WayStays DEF queue, Waiting
<1>3. CASE Settle
  <2>1. UNCHANGED <<ledger, queue>> /\ journal'.job = journal.job /\ journal.job \in Jobs
    BY <1>0, <1>3 DEF Settle, TypeOK, Tx
  <2>2. CASE claim[journal.job] = "due"
    <3>1. PICK f \in Fact : log' = Append(log, f)
      BY <1>3, <2>1, <2>2 DEF Settle, Fact
    <3> QED
      BY <1>2, <2>1, <3>1
  <2>3. CASE claim[journal.job] # "due"
    BY <1>3, <2>1, <2>3 DEF Settle, OnItsWay, Waiting, queue
  <2> QED
    BY <2>2, <2>3
<1>4. CASE Clock
  <2>1. ASSUME NEW s \in Scopes, ScopeFallsDue(s) PROVE OnItsWay(j)'
    <3>1. \A t \in Scopes : scopes[t].due # "idle" => scopes'[t].due # "idle"
      BY <1>0, <2>1 DEF ScopeFallsDue, TypeOK, Row
    <3> QED
      BY <2>1, <3>1, WayOfScopes DEF ScopeFallsDue, world, Waiting
  <2>2. ASSUME NEW k \in Jobs, CandidateRested(k) PROVE OnItsWay(j)'
    <3>1. Waiting(j) => Waiting(j)'
      BY <1>0, <2>2 DEF CandidateRested, Waiting, TypeOK, Candidate
    <3> QED
      BY <2>2, <3>1, WayStays DEF CandidateRested, world
  <2>3. ASSUME BackstopFallsDue PROVE OnItsWay(j)'
    <3>1. discovery'.epoch = discovery.epoch /\ discovery'.cursor = discovery.cursor
      BY <1>0, <2>3 DEF BackstopFallsDue, TypeOK
    <3> QED
      BY <2>3, <3>1, WayOfScopes DEF BackstopFallsDue, world, Waiting
  <2> QED
    BY <1>4, <2>1, <2>2, <2>3 DEF Clock
<1>5. ASSUME NEW o \in Owners, SetEnabled(o) PROVE OnItsWay(j)'
  <2>1. UNCHANGED <<world, discovery, journal>>
    BY <1>5 DEF SetEnabled
  <2>2. CASE o \in optedOut
    <3>1. UNCHANGED candidates /\ scopes' = Woken({o})
      BY <1>5, <2>2 DEF SetEnabled
    <3>2. \A s \in Scopes : scopes[s].due # "idle" => scopes'[s].due # "idle"
      BY <3>1 DEF Woken, Set
    <3> QED
      BY <2>1, <3>1, <3>2, WayOfScopes DEF world, Waiting
  <2>3. CASE o \notin optedOut
    <3> DEFINE ss == {s \in Scopes : OwnerOfScope(s) = o}
    <3>1. optedOut' = optedOut \cup {o} /\ scopes' = Set(ss, "idle") /\ candidates' = Discarding(JobsOf(o))
      BY <1>5, <2>3 DEF SetEnabled
    <3>2. OwnerOf[j] # o /\ OwnerOf[j] \in Scopes /\ j \in Scopes
      BY <3>1 DEF Wanted, Scopes
    <3>3. j \notin ss /\ OwnerOf[j] \notin ss /\ j \notin JobsOf(o)
      BY <3>2 DEF OwnerOfScope, JobsOf
    <3> HIDE DEF ss
    <3>4. scopes'[j] = scopes[j] /\ scopes'[OwnerOf[j]] = scopes[OwnerOf[j]]
      BY <3>1, <3>2, <3>3 DEF Set
    <3>5. candidates'[j] = candidates[j]
      BY <3>1, <3>3 DEF Discarding
    <3> QED
      BY <2>1, <3>4, <3>5, WayStays DEF world, Waiting
  <2> QED
    BY <2>2, <2>3
<1>6. ASSUME NEW k \in Jobs, Entitle(k) \/ OwnerTakes(k) PROVE OnItsWay(j)'
  <2>1. PICK status \in {"none", "ahead", "due"} : Happens(k, status) /\ claim[k] \in {"none", "due"}
    BY <1>6 DEF Entitle, OwnerTakes
  <2>2. [job |-> k, was |-> claim[k]] \in Fact
    BY <2>1 DEF Fact
  <2> QED
    BY <1>2, <2>1, <2>2 DEF Happens
<1>7. ASSUME NEW k \in Jobs, DeadlinePasses(k) PROVE OnItsWay(j)'
  BY <1>7 DEF DeadlinePasses, OnItsWay, Waiting, queue
<1>8. CASE IndexNext
  <2>1. ledger'.epoch = ledger.epoch
    BY <1>0, <1>8 DEF IndexNext, TypeOK
  <2> QED
    BY <1>8, <2>1 DEF IndexNext, OnItsWay, Waiting, queue
<1>9. CASE ScopeFails
  <2>1. UNCHANGED <<log, ledger, discovery, candidates, journal>> /\ Failed(scan.scope)
    BY <1>9 DEF ScopeFails
  <2>2. \A t \in Scopes : scopes[t].due # "idle" => scopes'[t].due # "idle"
    BY <1>0, <1>9, <2>1 DEF Failed, ScopeFails, TypeOK, Row
  <2> QED
    BY <2>1, <2>2, WayOfScopes DEF Waiting
<1>10. CASE TickFails
  BY <1>10 DEF TickFails, OnItsWay, Waiting, queue
<1>11. CASE Cancel
  BY <1>11, CancelWay
<1>12. CASE Reorganise
  BY <1>12, ReorganiseWay DEF Wanted
<1>13. CASE Discover
  BY <1>13, DiscoverWay
<1>14. CASE ActFails
  <2>1. UNCHANGED <<world, discovery, scopes, journal>> \/ UNCHANGED <<claim, log, ledger, discovery, scopes, journal>>
    BY <1>14 DEF ActFails
  <2>2. Waiting(j) => Waiting(j)'
    <3>1. CASE Waiting(sender.job)
      <4>1. sender.job \in Jobs /\ candidates' = Deferred(sender.job)
        BY <1>0, <1>14, <3>1 DEF ActFails, TypeOK
      <4>2. \A k \in Jobs : IF k = sender.job THEN candidates'[k].state = "deferred"
                              ELSE candidates'[k] = candidates[k]
        BY <1>0, <4>1 DEF Deferred, TypeOK, Candidate
      <4> QED
        BY <4>2 DEF Waiting
    <3>2. CASE ~Waiting(sender.job)
      BY <1>14, <3>2 DEF ActFails, Waiting
    <3> QED
      BY <3>1, <3>2
  <2> QED
    BY <1>14, <2>2, WayStays DEF ActFails
<1> QED
  BY <1>1, <1>3, <1>4, <1>5, <1>6, <1>7, <1>8, <1>9, <1>10, <1>11, <1>12, <1>13, <1>14 DEF Next

\* The invariant with what the facts, the snapshot and the running scan have
\* to do with each other.
THEOREM WakeInvariant == Spec => []WakeInv
  BY InitWake, NextWake, PTL DEF Spec

\* No event and no preference that arrives during a scan is overwritten by what
\* the scan had seen before (automatic-queue.ts ingest, discovered, reset).
THEOREM WakesAreKept == Spec => WakesKept
<1>1. WakeInv /\ [Next]_vars =>
        [\A j \in Jobs :
           ~unseen /\ Wanted(j) /\ Wanted(j)' /\ OnItsWay(j) =>
               OnItsWay(j)' \/ Finish \/ (Act /\ sender.job = j /\ ~sender.sign)]_vars
  BY NextWay
<1> QED
  BY <1>1, WakeInvariant, PTL DEF Spec, WakesKept

=============================================================================
