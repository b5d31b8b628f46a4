------------------------------ MODULE Indexer ------------------------------
(***************************************************************************)
(* The indexer: scans a chain that may reorganise, block range by block    *)
(* range, and keeps the events, their block headers and its checkpoint in  *)
(* a database.  Every request to the node whose answer matters is an       *)
(* action, so the chain may move between any two, however deep; a          *)
(* transaction of the database is one action.  One indexer runs over a     *)
(* database and its ticks never overlap; densifyCanonicalRanges may run    *)
(* beside it.                                                              *)
(***************************************************************************)
EXTENDS Integers, FiniteSets, Sequences, SequencesExt, FiniteSetsExt

CONSTANTS
    Confirmations, BatchSize,
    Modes,              \* values of canonicalMode: "dense", "sparse"
    BlockLogs,          \* what a block may hold: sets of "created" and "traded"
    Lagging,            \* queries a node may answer that has not seen the range yet
    MaxHeight, MaxMishaps              \* bounds of the runs

ASSUME IndexerAssumption ==
    /\ Modes \subseteq {"dense", "sparse"} /\ Modes # {}
    /\ Confirmations \in Nat /\ BatchSize \in Nat \ {0}
    /\ BlockLogs \subseteq SUBSET {"created", "traded"}
    /\ Lagging \subseteq {"discovery", "logs", "late"}
    /\ {MaxHeight, MaxMishaps} \subseteq Nat

VARIABLES
    chain,              \* the node's canonical chain above the deployment: [fork, logs]
    reorgs, crashes,    \* how many there have been
    store,              \* the database
    mode, pc, scan,     \* of the indexer process
    jobs,               \* what densifyCanonicalRanges is about to write: [range, endpoint, fetched]
    misread             \* a torn batch has been committed (nothing reads this)

vars == <<chain, reorgs, crashes, store, mode, pc, scan, jobs, misread>>

\* A block hash commits to the parents: it is the sequence of blocks up to it.
NoBlock   == <<>>
Hash(n)   == SubSeq(chain, 1, n)
Parent(h) == Front(h)
OnChain(h) == IsPrefix(h, chain)

\* walk: the heights still to be compared.  torn: what the batch has read was
\* not all of one chain (nothing reads this).
NoScan == [pred |-> NoBlock, to |-> 0, logs |-> {}, anchors |-> {}, walk |-> {}, torn |-> FALSE]

FromOf(r) == Len(r.pred) + 1       \* of a range or a scan
From   == FromOf(scan)

Init ==
    /\ chain = <<>> /\ reorgs = 0 /\ crashes = 0
    /\ store = [checkpoint |-> NoBlock,
                blocks     |-> {},      \* canonical_blocks: hashes, one of a height
                ranges     |-> {},      \* canonical_scan_ranges: [pred, to, mode]
                events     |-> {}]      \* chain_events: [hash, kind]
    /\ mode \in Modes /\ pc = "idle" /\ scan = NoScan
    /\ jobs = {} /\ misread = FALSE

-----------------------------------------------------------------------------
(* The store *)

StoredAt(n) == {h \in store.blocks : Len(h) = n}

\* rollbackAfter; n = 0 is no ancestor.
RolledBack(n) ==
    [checkpoint |-> IF n = 0 THEN NoBlock ELSE CHOOSE h \in StoredAt(n) : TRUE,
     blocks     |-> {h \in store.blocks : Len(h) <= n},
     ranges     |-> {r \in store.ranges : r.to <= n},
     events     |-> {e \in store.events : Len(e.hash) <= n}]

\* registeredMarkets: the vault is known once its creation is stored.
Registered == \E e \in store.events : e.kind = "created"

\* applyBatch under its lock, for the batch that was prepared.
Appliable ==
    /\ scan.pred = store.checkpoint
    /\ \A r \in store.ranges : r.to < From \/ FromOf(r) > scan.to
    /\ \A a \in scan.anchors : StoredAt(Len(a)) \subseteq {a}

Applied(endpoint) ==
    [checkpoint |-> endpoint,
     blocks     |-> store.blocks \cup scan.anchors,
     ranges     |-> store.ranges \cup {[pred |-> scan.pred, to |-> scan.to, mode |-> mode]},
     events     |-> store.events \cup scan.logs]

-----------------------------------------------------------------------------
(* reconcileCheckpoint *)

\* The heights below the oldest range are dense: the rest of a range that
\* was rolled back to its middle.
BelowRanges ==
    IF store.ranges = {} THEN 1..Len(store.checkpoint)
    ELSE 1..Min({Len(r.pred) : r \in store.ranges})

\* The heights the walk back from the checkpoint compares, the highest first.
Compared ==
    BelowRanges \cup
    UNION {IF r.mode = "dense" THEN FromOf(r)..r.to ELSE {r.to} : r \in store.ranges}

\* Bug: the checkpoint itself is not looked at.
ReconcileBelow ==
    /\ pc = "idle"
    /\ \/ store.checkpoint = NoBlock /\ pc' = "range" /\ scan' = NoScan
       \/ /\ store.checkpoint # NoBlock /\ pc' = "walk"
          /\ scan' = [NoScan EXCEPT !.walk = Compared \ {Len(store.checkpoint)}]
    /\ UNCHANGED <<chain, reorgs, crashes, store, mode, jobs, misread>>

\* Bug: a checkpoint the chain has left is continued.
ReconcileTrusting ==
    /\ pc = "idle"
    /\ pc' = "range" /\ scan' = [NoScan EXCEPT !.pred = store.checkpoint]
    /\ UNCHANGED <<chain, reorgs, crashes, store, mode, jobs, misread>>

\* The checkpoint and the ranges are read, for the walk back.
Reconcile ==
    /\ pc = "idle"
    /\ \/ store.checkpoint = NoBlock /\ pc' = "range" /\ scan' = NoScan
       \/ /\ store.checkpoint # NoBlock /\ pc' = "walk"
          /\ scan' = [NoScan EXCEPT !.walk = Compared]
    /\ UNCHANGED <<chain, reorgs, crashes, store, mode, jobs, misread>>

\* One header of the walk back, the highest that is left; the highest that is
\* still canonical is the common ancestor.
CompareNext ==
    /\ pc = "walk" /\ scan.walk # {}
    /\ LET n == Max(scan.walk) IN
       /\ StoredAt(n) # {}                     \* else it fails for good
       /\ \/ /\ StoredAt(n) # {Hash(n)}
             /\ scan' = [scan EXCEPT !.walk = @ \ {n}]
             /\ UNCHANGED pc
          \/ /\ StoredAt(n) = {Hash(n)} /\ n = Len(store.checkpoint)
             /\ scan' = [NoScan EXCEPT !.pred = store.checkpoint]
             /\ pc' = "range"
          \/ /\ StoredAt(n) = {Hash(n)} /\ n # Len(store.checkpoint)
             /\ scan' = [NoScan EXCEPT !.to = n]
             /\ pc' = "rollback"
    /\ UNCHANGED <<chain, reorgs, crashes, store, mode, jobs, misread>>

\* No header is left: there is no common ancestor.
NoAncestor ==
    /\ pc = "walk" /\ scan.walk = {}
    /\ scan' = NoScan
    /\ pc' = "rollback"
    /\ UNCHANGED <<chain, reorgs, crashes, store, mode, jobs, misread>>

RollBack ==
    /\ pc = "rollback"
    /\ scan.to = 0 \/ StoredAt(scan.to) # {}
    /\ store' = RolledBack(scan.to)
    /\ scan' = [NoScan EXCEPT !.pred = store'.checkpoint, !.torn = scan.torn]
    /\ pc' = "range"
    /\ UNCHANGED <<chain, reorgs, crashes, mode, jobs, misread>>

-----------------------------------------------------------------------------
(* The rest of runBatch *)

LogsOf(kind, from, to) ==
    {[hash |-> Hash(n), kind |-> kind] : n \in {m \in from..to : kind \in chain[m].logs}}

Abandon ==
    /\ pc' = "idle"
    /\ scan' = NoScan
    /\ UNCHANGED store

\* What a node answers to a query for logs.
Answers(query, logs) == IF query \in Lagging THEN {{}, logs} ELSE {logs}

\* The head gives the range; discovery asks the factory for its logs.
Discover ==
    LET safeHead == Len(chain) - Confirmations
        to == Min({From + BatchSize - 1, safeHead})
    IN  /\ pc = "range"
        /\ \/ From > safeHead /\ Abandon
           \/ /\ From <= safeHead
              /\ \E seen \in Answers("discovery", LogsOf("created", From, to)) :
                   scan' = [scan EXCEPT !.to = to, !.logs = seen]
              /\ pc' = "logs"
              /\ UNCHANGED store
        /\ UNCHANGED <<chain, reorgs, crashes, mode, jobs, misread>>

\* The logs of the factory and of every vault known by now.  A vault that
\* only this query shows is asked in one of its own.
ReadLogs ==
    LET known == Registered \/ scan.logs # {}
        all   == LogsOf("created", From, scan.to)
                   \cup (IF known THEN LogsOf("traded", From, scan.to) ELSE {})
    IN  /\ pc = "logs"
        /\ \E logs \in Answers("logs", all) :
             /\ scan' = [scan EXCEPT !.logs = @ \cup logs, !.torn = @ \/ logs # all]
             /\ pc' = IF ~known /\ logs # {} THEN "late" ELSE "anchors"
        /\ UNCHANGED <<chain, reorgs, crashes, store, mode, jobs, misread>>

ReadLateLogs ==
    LET all == LogsOf("traded", From, scan.to) IN
    /\ pc = "late"
    /\ \E logs \in Answers("late", all) :
         scan' = [scan EXCEPT !.logs = @ \cup logs, !.torn = @ \/ logs # all]
    /\ pc' = "anchors"
    /\ UNCHANGED <<chain, reorgs, crashes, store, mode, jobs, misread>>

\* The heights whose headers a batch needs.
AnchorHeights ==
    IF mode = "dense" THEN From..scan.to
    ELSE {Len(l.hash) : l \in scan.logs} \cup {scan.to}

\* validateLineage and validateAdjacentAnchors: dense anchors are all adjacent.
Lineage(anchors, pred) ==
    \A a \in anchors \cup {pred}, b \in anchors : Len(b) = Len(a) + 1 => Parent(b) = a

\* Bug: the logs are not compared with the headers.
ReadAnchorOnly(n) ==
    LET anchors == scan.anchors \cup {Hash(n)}
        last    == AnchorHeights \ {Len(a) : a \in scan.anchors} = {n}
        good    == Lineage(anchors, scan.pred)
    IN  /\ pc = "anchors" /\ n \notin {Len(a) : a \in scan.anchors}
        /\ \/ last /\ ~good /\ Abandon
           \/ /\ last => good
              /\ scan' = [scan EXCEPT !.anchors = anchors]
              /\ pc' = IF last THEN "fence" ELSE "anchors"
              /\ UNCHANGED store
        /\ UNCHANGED <<chain, reorgs, crashes, mode, jobs, misread>>

\* One header, in any order; after the last one they are compared with each
\* other and with the logs.
ReadAnchor(n) ==
    LET anchors == scan.anchors \cup {Hash(n)}
        last    == AnchorHeights \ {Len(a) : a \in scan.anchors} = {n}
        good    == Lineage(anchors, scan.pred) /\ \A l \in scan.logs : l.hash \in anchors
    IN  /\ pc = "anchors" /\ n \notin {Len(a) : a \in scan.anchors}
        /\ \/ last /\ ~good /\ Abandon
           \/ /\ last => good
              /\ scan' = [scan EXCEPT !.anchors = anchors]
              /\ pc' = IF last THEN "fence" ELSE "anchors"
              /\ UNCHANGED store
        /\ UNCHANGED <<chain, reorgs, crashes, mode, jobs, misread>>

\* verifyCommitFence, then applyBatch: no request lies between them that
\* the transaction depends on.
Commit ==
    LET endpoint == CHOOSE a \in scan.anchors : Len(a) = scan.to
        applied  == OnChain(endpoint) /\ Appliable
    IN  /\ pc = "fence"
        /\ pc' = "idle"
        /\ scan' = NoScan
        /\ store' = IF applied THEN Applied(endpoint) ELSE store
        /\ misread' = (misread \/ (applied /\ scan.torn))
        /\ UNCHANGED <<chain, reorgs, crashes, mode, jobs>>

\* A failed request or database operation, or the process stops; it may come
\* back in another mode.
Crash ==
    /\ reorgs + crashes < MaxMishaps /\ crashes' = crashes + 1
    /\ mode' \in Modes
    /\ Abandon
    /\ UNCHANGED <<chain, reorgs, jobs, misread>>

-----------------------------------------------------------------------------
(* densifyCanonicalRanges, one range at a time                             *)

\* The headers of a range whose last one is endpoint: hashes name parents.
HeadersOf(r, endpoint) == {SubSeq(endpoint, 1, n) : n \in FromOf(r)..r.to}

\* What the store lacks is fetched, without the lock.  The endpoint is read
\* before and after and the lineage down to the predecessor is verified, so
\* nothing else can have been fetched than the endpoint's parents.
DensifyFetch(r) ==
    /\ jobs = {} /\ r.mode = "sparse"
    /\ \E endpoint \in StoredAt(r.to) :
         LET headers == HeadersOf(r, endpoint) IN
         /\ OnChain(endpoint) /\ IsPrefix(r.pred, endpoint)
         /\ \A h \in headers : StoredAt(Len(h)) \subseteq {h}
         /\ jobs' = {[range |-> r, endpoint |-> endpoint, fetched |-> headers \ store.blocks]}
    /\ UNCHANGED <<chain, reorgs, crashes, store, mode, pc, scan, misread>>

\* The range that ends in this header becomes dense.
Promoted(j) ==
    {IF q.to = j.range.to THEN [q EXCEPT !.mode = "dense"] ELSE q : q \in store.ranges}

\* Bug: the stored lineage is not verified again.
DensifyWriteUnverified(j) ==
    /\ store' = [store EXCEPT !.blocks = @ \cup {h \in j.fetched : StoredAt(Len(h)) = {}},
                              !.ranges = Promoted(j)]
    /\ jobs' = {}
    /\ UNCHANGED <<chain, reorgs, crashes, mode, pc, scan, misread>>

\* Under the lock: the headers are inserted and the lineage verified again,
\* with what is stored by now.
DensifyWrite(j) ==
    LET headers == HeadersOf(j.range, j.endpoint) IN
    /\ StoredAt(j.range.to) = {j.endpoint}
    /\ headers \subseteq store.blocks \cup j.fetched
    /\ \A h \in headers : StoredAt(Len(h)) \subseteq {h}
    /\ store' = [store EXCEPT !.blocks = @ \cup j.fetched, !.ranges = Promoted(j)]
    /\ jobs' = {}
    /\ UNCHANGED <<chain, reorgs, crashes, mode, pc, scan, misread>>

\* The transaction fails its checks, or the process stops before it.
DensifyFails ==
    /\ jobs # {} /\ jobs' = {}
    /\ UNCHANGED <<chain, reorgs, crashes, store, mode, pc, scan, misread>>

-----------------------------------------------------------------------------
(* The chain *)

\* The vault is created once, and trades follow its creation.
ValidChain(c) ==
    \A n \in DOMAIN c :
        /\ "traded" \in c[n].logs => \E m \in 1..n : "created" \in c[m].logs
        /\ "created" \in c[n].logs => \A m \in 1..(n - 1) : "created" \notin c[m].logs

Grow ==
    /\ Len(chain) < MaxHeight
    /\ \E logs \in BlockLogs :
         /\ chain' = Append(chain, [fork |-> reorgs, logs |-> logs])
         /\ ValidChain(chain')
    /\ UNCHANGED <<reorgs, crashes, store, mode, pc, scan, jobs, misread>>

\* The heights a batch under way relies on and from which the chain can be
\* replaced without a header of it showing that.  Its logs are those of the
\* last query, so the range has to stay until its last header is read; dense
\* headers are linked to each other and to the checkpoint, and so show it when
\* a log, a header or the checkpoint lies at or above the first new block;
\* sparse ones only when that is a log whose header is still to come.
Unseen ==
    LET read  == {Len(a) : a \in scan.anchors}
        shown == {Len(l.hash) : l \in scan.logs}
        upTo  == IF pc \in {"range", "logs"} THEN Len(scan.pred)
                 ELSE IF pc = "rollback" \/ (pc = "anchors" /\ scan.to \notin read) THEN scan.to
                 ELSE 0
    IN  IF mode = "sparse" THEN {n \in 1..upTo : \A m \in shown \ read : m < n}
        ELSE IF pc = "anchors" THEN {n \in From..scan.to : \A m \in shown \cup read : m < n}
        ELSE {}

\* The blocks from n on are replaced by as many of a new fork.
Reorganise(n) ==
    /\ reorgs + crashes < MaxMishaps /\ reorgs' = reorgs + 1
    /\ \E new \in [n..Len(chain) -> BlockLogs] :
         /\ chain' = [m \in DOMAIN chain |->
                        IF m < n THEN chain[m] ELSE [fork |-> reorgs', logs |-> new[m]]]
         /\ ValidChain(chain')
    /\ scan' = [scan EXCEPT !.torn = @ \/ n \in Unseen]
    /\ UNCHANGED <<crashes, store, mode, pc, jobs, misread>>

-----------------------------------------------------------------------------

Step ==
    \/ Reconcile \/ CompareNext \/ NoAncestor \/ RollBack
    \/ Discover \/ ReadLogs \/ ReadLateLogs
    \/ \E n \in AnchorHeights : ReadAnchor(n)
    \/ Commit

Densify ==
    \/ \E r \in store.ranges : DensifyFetch(r)
    \/ \E j \in jobs : DensifyWrite(j)
    \/ DensifyFails

Next ==
    \/ Step \/ Crash \/ Densify
    \/ Grow
    \/ \E n \in DOMAIN chain : Reorganise(n)

Spec == Init /\ [][Next]_vars

\* The scheduler polls for ever, and a request that is not answered fails.
Fairness == WF_vars(Step)

FairSpec == Spec /\ Fairness

=============================================================================
