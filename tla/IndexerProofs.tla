---------------------------- MODULE IndexerProofs ----------------------------
(***************************************************************************)
(* The indexer over chains of any length that reorganise at any step and   *)
(* to any depth: its store stays in order, a restart finds its headers and *)
(* no canonical range is given up (StoreInv); until a torn batch is        *)
(* committed it implements the log of one branch (LogInv); with finality at *)
(* the confirmations, and logs behind every head that is served, no torn   *)
(* batch ever is (FinalityPreventsMisreading).                             *)
(***************************************************************************)
EXTENDS IndexerProps, FiniteSetTheorems, SequenceTheorems, WellFoundedInduction, TLAPS

-----------------------------------------------------------------------------
(* Branches and the blocks below them.                                     *)

Kinds  == {"created", "traded"}
Block  == [fork : Nat, logs : SUBSET Kinds]
Branch == Seq(Block)
Event  == [hash : Branch, kind : Kinds]

\* The branch up to the block at height n.
Cut(b, n) == SubSeq(b, 1, n)

\* A cut of a branch holds its first blocks.
LEMMA CutHolds ==
    ASSUME NEW b \in Branch, NEW n \in 0..Len(b)
    PROVE  /\ Cut(b, n) \in Branch /\ Len(Cut(b, n)) = n
           /\ \A i \in 1..n : Cut(b, n)[i] = b[i]
<1>1. Len(b) \in Nat /\ n \in Nat /\ n <= Len(b)
  BY LenProperties DEF Branch
<1>2. \A i \in 1..n : b[i] \in Block
  BY <1>1, ElementOfSeq DEF Branch
<1> QED
  BY <1>1, <1>2, SubSeqProperties DEF Branch, Cut

\* The length of a branch is a number, and its blocks are blocks.
LEMMA BranchHas ==
    ASSUME NEW b \in Branch
    PROVE  Len(b) \in Nat /\ \A i \in 1..Len(b) : b[i] \in Block
BY LenProperties, ElementOfSeq DEF Branch

\* Branches of one height with the same blocks are the same.
LEMMA SameBlocks ==
    ASSUME NEW g \in Branch, NEW h \in Branch, Len(g) = Len(h),
           \A i \in 1..Len(g) : g[i] = h[i]
    PROVE  g = h
BY SeqEqual DEF Branch

\* A prefix holds the first blocks of the branch, and is a cut of it.
LEMMA PrefixHolds ==
    ASSUME NEW h \in Branch, NEW b \in Branch
    PROVE  /\ IsPrefix(h, b) <=> Len(h) <= Len(b) /\ \A i \in 1..Len(h) : h[i] = b[i]
           /\ IsPrefix(h, b) => h = Cut(b, Len(h))
<1>1. Len(h) \in Nat /\ Len(b) \in Nat
  BY BranchHas
<1> DEFINE n == Len(h)
<1>2. Cut(h, n) \in Branch /\ Len(Cut(h, n)) = n /\ \A i \in 1..n : Cut(h, n)[i] = h[i]
  BY <1>1, CutHolds
<1>3. Cut(h, n) = h
  BY <1>2, SameBlocks
<1>4. ASSUME n <= Len(b)
      PROVE  Cut(b, n) \in Branch /\ Len(Cut(b, n)) = n /\ \A i \in 1..n : Cut(b, n)[i] = b[i]
  BY <1>1, <1>4, CutHolds
<1>5. IsPrefix(h, b) <=> n <= Len(b) /\ Cut(h, n) = Cut(b, n)
  BY DEF IsPrefix, Cut
<1> HIDE DEF n
<1>6. ASSUME n <= Len(b), \A i \in 1..n : h[i] = b[i]
      PROVE  h = Cut(b, n)
  <2>1. \A i \in 1..Len(h) : h[i] = Cut(b, n)[i]
    BY <1>4, <1>6 DEF n
  <2> QED
    BY <1>4, <1>6, <2>1, SameBlocks DEF n
<1>7. IsPrefix(h, b) => n <= Len(b) /\ h = Cut(b, n)
  BY <1>3, <1>5
<1>8. IsPrefix(h, b) => n <= Len(b) /\ \A i \in 1..n : h[i] = b[i]
  BY <1>4, <1>7
<1>9. n <= Len(b) /\ (\A i \in 1..n : h[i] = b[i]) => IsPrefix(h, b)
  BY <1>3, <1>5, <1>6
<1> QED
  BY <1>7, <1>8, <1>9 DEF n

\* Prefixes of one branch are ordered by their heights.
LEMMA PrefixOrder ==
    ASSUME NEW g \in Branch, NEW h \in Branch, NEW b \in Branch
    PROVE  /\ IsPrefix(g, h) /\ IsPrefix(h, b) => IsPrefix(g, b)
           /\ IsPrefix(g, b) /\ IsPrefix(h, b) /\ Len(g) <= Len(h) => IsPrefix(g, h)
           /\ IsPrefix(g, b) /\ IsPrefix(h, b) /\ Len(g) = Len(h) => g = h
           /\ IsPrefix(g, b) /\ Len(g) = Len(b) => g = b
           /\ IsPrefix(b, b) /\ <<>> \in Branch /\ Len(<<>>) = 0 /\ IsPrefix(<<>>, b)
           /\ Len(b) = 0 => b = <<>>
<1>1. Len(g) \in Nat /\ Len(h) \in Nat /\ Len(b) \in Nat
  BY BranchHas
<1>2. <<>> \in Branch /\ Len(<<>>) = 0 /\ (Len(b) = 0 => b = <<>>)
  BY EmptySeq DEF Branch
<1>3. IsPrefix(<<>>, b) /\ IsPrefix(b, b)
  <2>1. \A i \in 1..0 : <<>>[i] = b[i]
    OBVIOUS
  <2> QED
    BY <1>1, <1>2, <2>1, PrefixHolds
<1>4. IsPrefix(g, h) /\ IsPrefix(h, b) => IsPrefix(g, b)
  BY <1>1, PrefixHolds
<1>5. IsPrefix(g, b) /\ IsPrefix(h, b) /\ Len(g) <= Len(h) => IsPrefix(g, h)
  BY <1>1, PrefixHolds
<1>6. IsPrefix(g, b) /\ IsPrefix(h, b) /\ Len(g) = Len(h) => g = h
  BY PrefixHolds
<1>7. IsPrefix(g, b) /\ Len(g) = Len(b) => g = b
  BY <1>1, PrefixHolds, SameBlocks
<1> QED
  BY <1>2, <1>3, <1>4, <1>5, <1>6, <1>7

\* The first cut is empty, the last one is the branch; every one is a prefix.
LEMMA Cuts ==
    ASSUME NEW b \in Branch, NEW n \in 0..Len(b)
    PROVE  /\ IsPrefix(Cut(b, n), b) /\ Cut(b, 0) = <<>> /\ Cut(b, Len(b)) = b
           /\ \A m \in 0..n : Cut(Cut(b, n), m) = Cut(b, m)
<1>1. Len(b) \in Nat /\ n \in Nat /\ n <= Len(b)
  BY BranchHas
<1>2. Cut(b, n) \in Branch /\ Len(Cut(b, n)) = n /\ \A i \in 1..n : Cut(b, n)[i] = b[i]
  BY CutHolds
<1>3. IsPrefix(Cut(b, n), b)
  BY <1>1, <1>2, PrefixHolds
<1>4. Cut(b, 0) = <<>>
  <2>1. Cut(b, 0) \in Branch /\ Len(Cut(b, 0)) = 0
    BY <1>1, CutHolds
  <2> QED
    BY <2>1, PrefixOrder
<1>5. Cut(b, Len(b)) = b
  BY PrefixHolds, PrefixOrder
<1>6. ASSUME NEW m \in 0..n
      PROVE  Cut(Cut(b, n), m) = Cut(b, m)
  <2>1. /\ Cut(b, m) \in Branch /\ Len(Cut(b, m)) = m
        /\ \A i \in 1..m : Cut(b, m)[i] = b[i]
    BY <1>1, CutHolds
  <2>2. /\ Cut(Cut(b, n), m) \in Branch /\ Len(Cut(Cut(b, n), m)) = m
        /\ \A i \in 1..m : Cut(Cut(b, n), m)[i] = Cut(b, n)[i]
    BY <1>2, CutHolds
  <2>3. \A i \in 1..m : Cut(Cut(b, n), m)[i] = Cut(b, m)[i]
    BY <1>1, <1>2, <2>1, <2>2
  <2> QED
    BY <2>1, <2>2, <2>3, SameBlocks
<1> QED
  BY <1>3, <1>4, <1>5, <1>6

\* The parent of a block above the deployment is the branch without it.
LEMMA ParentIsCut ==
    ASSUME NEW h \in Branch
    PROVE  Parent(h) = Cut(h, Len(h) - 1)
BY DEF Parent, Front, Cut

-----------------------------------------------------------------------------
(* The events of a branch.                                                 *)

\* The event e is of a block of the branch b.
EventOf(e, b) ==
    /\ e \in Event /\ IsPrefix(e.hash, b)
    /\ Len(e.hash) >= 1 /\ e.kind \in e.hash[Len(e.hash)].logs

\* An event of a block at height n of the branch.
LEMMA EventAt ==
    ASSUME NEW b \in Branch, NEW n \in 1..Len(b), NEW k \in b[n].logs
    PROVE  EventOf([hash |-> Cut(b, n), kind |-> k], b)
<1>1. Len(b) \in Nat /\ b[n] \in Block
  BY BranchHas
<1>2. /\ Cut(b, n) \in Branch /\ Len(Cut(b, n)) = n
      /\ \A i \in 1..n : Cut(b, n)[i] = b[i]
      /\ IsPrefix(Cut(b, n), b)
  BY <1>1, CutHolds, Cuts
<1>3. k \in Kinds
  BY <1>1 DEF Block
<1>4. Cut(b, n)[n] = b[n]
  BY <1>1, <1>2
<1> DEFINE c == Cut(b, n)
<1> HIDE DEF c
<1>5. [hash |-> c, kind |-> k] \in Event
  BY <1>2, <1>3 DEF Event, c
<1> QED
  BY <1>1, <1>2, <1>4, <1>5 DEF EventOf, c

\* The hash of an event of a branch is a cut of it, at a block that has it.
LEMMA EventIs ==
    ASSUME NEW b \in Branch, NEW e, EventOf(e, b)
    PROVE  \E n \in 1..Len(b) : /\ n = Len(e.hash) /\ e.kind \in b[n].logs
                                /\ e.hash = Cut(b, n)
                                /\ e = [hash |-> Cut(b, n), kind |-> e.kind]
<1>1. e \in Event /\ IsPrefix(e.hash, b) /\ e.hash \in Branch /\ e.kind \in Kinds
  BY DEF EventOf, Event
<1>2. Len(b) \in Nat /\ Len(e.hash) \in Nat /\ Len(e.hash) >= 1
  BY <1>1, BranchHas DEF EventOf
<1>3. Len(e.hash) <= Len(b) /\ e.hash = Cut(b, Len(e.hash)) /\ \A i \in 1..Len(e.hash) : e.hash[i] = b[i]
  BY <1>1, PrefixHolds
<1>4. e = [hash |-> e.hash, kind |-> e.kind]
  BY <1>1 DEF Event
<1>5. e.hash[Len(e.hash)] = b[Len(e.hash)]
  BY <1>2, <1>3
<1>6. e.kind \in b[Len(e.hash)].logs
  BY <1>5 DEF EventOf
<1> DEFINE n == Len(e.hash)
<1>7. n \in 1..Len(b)
  BY <1>2, <1>3
<1> HIDE DEF n
<1>8. n = Len(e.hash)
  BY DEF n
<1>9. e.hash = Cut(b, n)
  BY <1>3, <1>8
<1>10. e = [hash |-> Cut(b, n), kind |-> e.kind]
  BY <1>4, <1>9
<1> QED
  BY <1>6, <1>7, <1>8, <1>9, <1>10

\* The events of a branch, as the log defines them.
LEMMA EventsAre ==
    ASSUME NEW b \in Branch, NEW e
    PROVE  e \in Index!EventsOn(b) <=> EventOf(e, b)
<1>1. DOMAIN b = 1..Len(b)
  BY LenProperties DEF Branch
<1>2. ASSUME e \in Index!EventsOn(b)
      PROVE  EventOf(e, b)
  <2>1. PICK n \in 1..Len(b) : \E k \in b[n].logs : e = [hash |-> Cut(b, n), kind |-> k]
    BY <1>1, <1>2 DEF Index!EventsOn, Index!HashOn, Cut
  <2> QED
    BY <2>1, EventAt
<1>3. ASSUME EventOf(e, b)
      PROVE  e \in Index!EventsOn(b)
  <2>1. PICK n \in 1..Len(b) : /\ e.kind \in b[n].logs
                               /\ e = [hash |-> Cut(b, n), kind |-> e.kind]
    BY <1>3, EventIs
  <2>2. e = [hash |-> SubSeq(b, 1, n), kind |-> e.kind]
    BY <2>1 DEF Cut
  <2>3. e \in {[hash |-> Index!HashOn(b, n), kind |-> k] : k \in b[n].logs}
    BY <2>1, <2>2 DEF Index!HashOn
  <2> QED
    BY <1>1, <2>3 DEF Index!EventsOn
<1> QED
  BY <1>2, <1>3

\* The events of a cut are those of the branch up to there.
LEMMA EventsOfCut ==
    ASSUME NEW b \in Branch, NEW h \in Branch, IsPrefix(h, b), NEW e
    PROVE  EventOf(e, h) <=> EventOf(e, b) /\ Len(e.hash) <= Len(h)
<1>1. e \in Event => e.hash \in Branch /\ Len(e.hash) \in Nat
  BY BranchHas DEF Event
<1>2. e \in Event => (IsPrefix(e.hash, h) <=> IsPrefix(e.hash, b) /\ Len(e.hash) <= Len(h))
  <2> HAVE e \in Event
  <2>1. IsPrefix(e.hash, h) => Len(e.hash) <= Len(h)
    BY <1>1, PrefixHolds
  <2> QED
    BY <1>1, <2>1, PrefixOrder
<1> QED
  BY <1>2 DEF EventOf

-----------------------------------------------------------------------------
(* The least and the greatest of a set of heights.                         *)

\* A set of numbers has a least one.
LEMMA MinIs ==
    ASSUME NEW S \in SUBSET Nat, S # {}
    PROVE  Min(S) \in S /\ \A y \in S : Min(S) <= y
<1>1. \E x \in S : \A y \in S : ~ (<<y, x>> \in OpToRel(<, Nat))
  BY NatLessThanWellFounded, WFMin
<1>2. PICK x \in S : \A y \in S : ~ (<<y, x>> \in OpToRel(<, Nat))
  BY <1>1
<1>3. \A y \in S : x <= y
  <2> SUFFICES ASSUME NEW y \in S, y < x PROVE FALSE
    OBVIOUS
  <2>1. <<y, x>> \in OpToRel(<, Nat)
    BY DEF OpToRel
  <2> QED
    BY <1>2, <2>1
<1> QED
  BY <1>3 DEF Min

\* A set of numbers with a bound has a greatest one.
LEMMA MaxIs ==
    ASSUME NEW N \in Nat, NEW S \in SUBSET (0..N), S # {}
    PROVE  Max(S) \in S /\ \A y \in S : y <= Max(S)
<1> DEFINE T == {N - x : x \in S}
<1>1. \A x \in S : N - x \in Nat
  OBVIOUS
<1>2. Min(T) \in T /\ \A y \in T : Min(T) <= y
  <2>1. T \subseteq Nat
    BY <1>1
  <2>2. T # {}
    OBVIOUS
  <2> QED
    BY <2>1, <2>2, MinIs
<1>3. PICK x \in S : Min(T) = N - x
  BY <1>2
<1>4. \A y \in S : x >= y
  <2> SUFFICES ASSUME NEW y \in S PROVE x >= y
    OBVIOUS
  <2>1. N - x <= N - y
    BY <1>2, <1>3
  <2> QED
    BY <2>1
<1> QED
  BY <1>4 DEF Max

\* The smaller of two numbers.
LEMMA MinOfTwo ==
    ASSUME NEW a \in Int, NEW b \in Int
    PROVE  /\ Min({a, b}) \in Int /\ Min({a, b}) <= a /\ Min({a, b}) <= b
           /\ Min({a, b}) \in {a, b}
<1>1. \E x \in {a, b} : \A y \in {a, b} : x =< y
  OBVIOUS
<1>2. Min({a, b}) \in {a, b} /\ \A y \in {a, b} : Min({a, b}) =< y
  BY <1>1 DEF Min
<1> QED
  BY <1>2

-----------------------------------------------------------------------------
(* The inductive invariant.                                                *)

Range_ == [pred : Branch, to : Nat, mode : {"dense", "sparse"}]
Store  == [checkpoint : Branch, blocks : SUBSET Branch, ranges : SUBSET Range_, events : SUBSET Event]
Scan   == [pred : Branch, to : Nat, logs : SUBSET Event, anchors : SUBSET Branch,
           walk : SUBSET Nat, torn : BOOLEAN]
Job    == [range : Range_, endpoint : Branch, fetched : SUBSET Branch]
Steps  == {"idle", "walk", "rollback", "range", "logs", "late", "anchors", "fence"}

\* What the variables hold.
TypeOK ==
    /\ chain \in Branch /\ reorgs \in Nat /\ crashes \in Nat
    /\ store \in Store /\ scan \in Scan /\ mode \in Modes /\ pc \in Steps
    /\ jobs \in SUBSET Job /\ misread \in BOOLEAN

\* A block the chain has held: it is no higher, and its forks have happened.
Seen(h) ==
    /\ Len(h) >= 1 /\ Len(h) <= Len(chain)
    /\ \A n \in 1..Len(h) : h[n].fork <= reorgs

ChainOK == ValidChain(chain) /\ \A n \in 1..Len(chain) : chain[n].fork <= reorgs

\* The stored headers reach up to the checkpoint, one of a height.
HeadersOK ==
    /\ store.checkpoint = <<>> \/ store.checkpoint \in store.blocks
    /\ \A h \in store.blocks : Seen(h) /\ Len(h) <= Len(store.checkpoint)
    /\ \A g, h \in store.blocks : Len(g) = Len(h) => g = h

\* The heights a restart looks at below all ranges.
Below(n) ==
    /\ n \in 1..Len(store.checkpoint)
    /\ \A r \in store.ranges : n <= Len(r.pred)

\* A range has the headers it promises.
RangeOK(r) ==
    /\ Len(r.pred) < r.to /\ r.to <= Len(store.checkpoint)
    /\ StoredAt(r.to) # {}
    /\ r.mode = "dense" => \A n \in FromOf(r)..r.to : StoredAt(n) # {}

\* The ranges do not overlap, and the headers below them are there.
RangesOK ==
    /\ \A r \in store.ranges : RangeOK(r)
    /\ \A q, r \in store.ranges : q = r \/ q.to < FromOf(r) \/ r.to < FromOf(q)
    /\ \A n \in 1..Len(store.checkpoint) : Below(n) => StoredAt(n) # {}

\* The chain has left what is stored of the height n, for good.
OffChain(n) == \A h \in StoredAt(n) : ~ OnChain(h)

\* The walk back has passed only ranges whose end has left the chain.
WalkOK ==
    pc = "walk" =>
        /\ store.checkpoint # <<>> /\ scan.walk \subseteq Compared
        /\ \A r \in store.ranges : r.to \in scan.walk \/ OffChain(r.to)

\* A fall back goes to a header that was compared, and takes away only such
\* ranges.
RollbackOK ==
    pc = "rollback" =>
        /\ scan.to \in Compared \cup {0} /\ scan.to < Len(store.checkpoint)
        /\ \A r \in store.ranges : r.to > scan.to => OffChain(r.to)

\* A batch continues the checkpoint with logs and headers of its range.
BatchOK ==
    /\ pc \in {"range", "logs", "late", "anchors", "fence"} => scan.pred = store.checkpoint
    /\ pc \in {"rollback", "range"} => scan.logs = {}
    /\ pc \in {"logs", "late", "anchors", "fence"} => From <= scan.to /\ scan.to <= Len(chain)
    /\ \A l \in scan.logs : /\ Seen(l.hash) /\ Len(l.hash) \in From..scan.to
                            /\ l.kind \in l.hash[Len(l.hash)].logs
    /\ \A a \in scan.anchors : Seen(a) /\ Len(a) \in From..scan.to
    /\ \A a, b \in scan.anchors : Len(a) = Len(b) => a = b
    /\ pc \notin {"anchors", "fence"} => scan.anchors = {}
    /\ pc = "fence" => \A n \in AnchorHeights : \E a \in scan.anchors : Len(a) = n

\* A range about to become dense is still there, or has left the chain and
\* its last header is gone for good.
JobsOK ==
    \A j \in jobs :
        /\ Seen(j.endpoint) /\ Len(j.endpoint) = j.range.to
        /\ j.fetched \subseteq HeadersOf(j.range, j.endpoint)
        /\ \/ /\ j.endpoint \in store.blocks
              /\ \E q \in store.ranges : q.pred = j.range.pred /\ q.to = j.range.to
           \/ /\ j.endpoint \notin store.blocks \cup scan.anchors
              /\ ~ OnChain(j.endpoint)

\* What holds whatever was misread.
StoreInv ==
    /\ TypeOK /\ ChainOK /\ HeadersOK /\ RangesOK
    /\ WalkOK /\ RollbackOK /\ BatchOK /\ JobsOK

\* What is stored is one branch: its newest block, headers of it, its events.
BranchOK ==
    /\ \A h \in store.blocks : IsPrefix(h, store.checkpoint)
    /\ store.events = Index!EventsOn(store.checkpoint)

\* A sparse batch, whose headers do not link to the checkpoint, continues a
\* canonical one, unless its own logs will be found gone.
TrustOK ==
    mode = "sparse" =>
        /\ pc = "rollback" => \A h \in StoredAt(scan.to) : OnChain(h)
        /\ pc \in {"range", "logs", "late"} /\ (\A l \in scan.logs : OnChain(l.hash)) =>
             OnChain(scan.pred)

\* Nothing the batch holds shows that it has to be given up.
LooksSound ==
    IF mode = "sparse"
      THEN /\ \A l \in scan.logs : OnChain(l.hash) \/ l.hash \in scan.anchors
           /\ \A a \in scan.anchors : Len(a) = scan.to => OnChain(a)
      ELSE /\ OnChain(scan.pred)
           /\ \A l \in scan.logs : OnChain(l.hash)
           /\ \A a \in scan.anchors : OnChain(a)

\* The batch holds every event of the chain in its range.
Complete == \A e : EventOf(e, chain) /\ Len(e.hash) \in From..scan.to => e \in scan.logs

\* If nothing shows otherwise, what was read is canonical and all there is.
LogsOK ==
    /\ pc = "late" => \E l \in scan.logs : l.kind = "created"
    /\ pc = "anchors" /\ LooksSound =>
         OnChain(scan.pred) /\ (\A a \in scan.anchors : OnChain(a)) /\ Complete

\* The batch of the scan is a piece of the branch h, with all its events.
PieceOf(h) ==
    /\ IsPrefix(scan.pred, h)
    /\ \A a \in scan.anchors : IsPrefix(a, h)
    /\ \A e : e \in scan.logs <=> EventOf(e, h) /\ Len(e.hash) >= From

\* At the fence, the batch is a piece of its last block's branch if that block
\* is canonical.
FenceOK ==
    pc = "fence" => \A h \in scan.anchors : Len(h) = scan.to /\ OnChain(h) => PieceOf(h)

\* What holds unless a batch was misread.
LogInv ==
    ~ misread => /\ BranchOK
                 /\ ~ scan.torn => TrustOK /\ LogsOK /\ FenceOK

IndexInv == StoreInv /\ LogInv

\* What the fields of the records hold.
LEMMA Fields ==
    ASSUME TypeOK
    PROVE  /\ store.checkpoint \in Branch /\ store.blocks \in SUBSET Branch
           /\ store.ranges \in SUBSET Range_ /\ store.events \in SUBSET Event
           /\ scan.pred \in Branch /\ scan.to \in Nat
           /\ scan.logs \in SUBSET Event /\ scan.anchors \in SUBSET Branch
           /\ scan.walk \in SUBSET Nat /\ scan.torn \in BOOLEAN
           /\ Len(store.checkpoint) \in Nat /\ Len(scan.pred) \in Nat /\ Len(chain) \in Nat
           /\ From = Len(scan.pred) + 1
           /\ \A r \in store.ranges :
                /\ r.pred \in Branch /\ r.to \in Nat /\ r.mode \in {"dense", "sparse"}
                /\ Len(r.pred) \in Nat /\ FromOf(r) = Len(r.pred) + 1
           /\ \A l \in scan.logs : l.hash \in Branch /\ l.kind \in Kinds /\ Len(l.hash) \in Nat
           /\ \A h \in store.blocks \cup scan.anchors : h \in Branch /\ Len(h) \in Nat
<1>1. /\ store.checkpoint \in Branch /\ store.blocks \in SUBSET Branch
      /\ store.ranges \in SUBSET Range_ /\ store.events \in SUBSET Event
  BY DEF TypeOK, Store
<1>2. /\ scan.pred \in Branch /\ scan.to \in Nat
      /\ scan.logs \in SUBSET Event /\ scan.anchors \in SUBSET Branch
      /\ scan.walk \in SUBSET Nat /\ scan.torn \in BOOLEAN
  BY DEF TypeOK, Scan
<1>3. \A r \in store.ranges : r.pred \in Branch /\ r.to \in Nat /\ r.mode \in {"dense", "sparse"}
  BY <1>1 DEF Range_
<1>4. \A l \in scan.logs : l.hash \in Branch /\ l.kind \in Kinds
  BY <1>2 DEF Event
<1>5. chain \in Branch
  BY DEF TypeOK
<1> QED
  BY <1>1, <1>2, <1>3, <1>4, <1>5, BranchHas DEF From, FromOf

\* What the fields of a job hold.
LEMMA JobFields ==
    ASSUME TypeOK, NEW j \in jobs
    PROVE  /\ j.range \in Range_ /\ j.endpoint \in Branch /\ j.fetched \in SUBSET Branch
           /\ j.range.pred \in Branch /\ j.range.to \in Nat
           /\ Len(j.range.pred) \in Nat /\ FromOf(j.range) = Len(j.range.pred) + 1
           /\ Len(j.endpoint) \in Nat
<1>1. j.range \in Range_ /\ j.endpoint \in Branch /\ j.fetched \in SUBSET Branch
  BY DEF TypeOK, Job
<1>2. j.range.pred \in Branch /\ j.range.to \in Nat
  BY <1>1 DEF Range_
<1> QED
  BY <1>1, <1>2, BranchHas DEF FromOf

-----------------------------------------------------------------------------
(* What the store and the chain show.                                      *)

\* The hash of a height is the chain cut there.
LEMMA HashIsCut ==
    ASSUME chain \in Branch
    PROVE  /\ \A n : Hash(n) = Cut(chain, n)
           /\ \A n \in 0..Len(chain) : Hash(n) \in Branch /\ Len(Hash(n)) = n /\ OnChain(Hash(n))
           /\ \A h \in Branch : OnChain(h) => Len(h) <= Len(chain) /\ h = Hash(Len(h))
           /\ OnChain(<<>>)
<1>1. \A n : Hash(n) = Cut(chain, n)
  BY DEF Hash, Cut
<1>2. \A n \in 0..Len(chain) : Hash(n) \in Branch /\ Len(Hash(n)) = n /\ OnChain(Hash(n))
  BY <1>1, CutHolds, Cuts DEF OnChain
<1>3. ASSUME NEW h \in Branch, OnChain(h)
      PROVE  Len(h) <= Len(chain) /\ h = Hash(Len(h))
  BY <1>1, <1>3, PrefixHolds DEF OnChain
<1>4. OnChain(<<>>)
  BY PrefixOrder DEF OnChain
<1> QED
  BY <1>1, <1>2, <1>3, <1>4

\* The blocks of the chain have been seen.
LEMMA HashSeen ==
    ASSUME TypeOK, ChainOK, NEW n \in 1..Len(chain)
    PROVE  Hash(n) \in Branch /\ Len(Hash(n)) = n /\ OnChain(Hash(n)) /\ Seen(Hash(n))
<1>1. chain \in Branch /\ Len(chain) \in Nat /\ n \in 0..Len(chain)
  BY Fields DEF TypeOK
<1>2. Hash(n) \in Branch /\ Len(Hash(n)) = n /\ OnChain(Hash(n)) /\ Hash(n) = Cut(chain, n)
  BY <1>1, HashIsCut
<1>3. \A i \in 1..n : Hash(n)[i] = chain[i] /\ i \in 1..Len(chain)
  BY <1>1, <1>2, CutHolds
<1>4. \A i \in 1..n : Hash(n)[i].fork <= reorgs
  BY <1>3 DEF ChainOK
<1> QED
  BY <1>1, <1>2, <1>4 DEF Seen

\* So has the block of an event of the chain.
LEMMA EventSeen ==
    ASSUME TypeOK, ChainOK, NEW e, EventOf(e, chain)
    PROVE  Seen(e.hash)
<1>1. chain \in Branch
  BY DEF TypeOK
<1>2. PICK n \in 1..Len(chain) : e.hash = Cut(chain, n)
  BY <1>1, EventIs
<1>3. Seen(Hash(n)) /\ Hash(n) = Cut(chain, n)
  BY <1>1, HashSeen, HashIsCut
<1> QED
  BY <1>2, <1>3

\* One header at most is stored of a height, within the checkpoint's.
LEMMA StoredIs ==
    ASSUME TypeOK, HeadersOK, NEW n
    PROVE  /\ \A h \in StoredAt(n) : /\ h \in store.blocks /\ h \in Branch /\ Len(h) = n
                                     /\ n \in 1..Len(store.checkpoint) /\ Seen(h)
                                     /\ StoredAt(n) = {h}
           /\ store.checkpoint # <<>> => store.checkpoint \in StoredAt(Len(store.checkpoint))
<1>1. ASSUME NEW h \in StoredAt(n)
      PROVE  /\ h \in store.blocks /\ h \in Branch /\ Len(h) = n
             /\ n \in 1..Len(store.checkpoint) /\ Seen(h) /\ StoredAt(n) = {h}
  <2>1. h \in store.blocks /\ Len(h) = n /\ h \in Branch /\ Len(h) \in Nat
    BY <1>1, Fields DEF StoredAt
  <2>2. Seen(h) /\ Len(h) <= Len(store.checkpoint)
    BY <2>1 DEF HeadersOK
  <2>3. n \in 1..Len(store.checkpoint)
    BY <2>1, <2>2, Fields DEF Seen
  <2>4. StoredAt(n) = {h}
    BY <1>1, <2>1 DEF HeadersOK, StoredAt
  <2> QED
    BY <2>1, <2>2, <2>3, <2>4
<1>2. store.checkpoint # <<>> => store.checkpoint \in StoredAt(Len(store.checkpoint))
  BY DEF HeadersOK, StoredAt
<1> QED
  BY <1>1, <1>2

\* What is stored of a height that is not the chain's has left the chain.
LEMMA OffChainIs ==
    ASSUME TypeOK, HeadersOK, NEW n, StoredAt(n) # {}
    PROVE  OffChain(n) <=> StoredAt(n) # {Hash(n)}
<1>1. PICK h \in StoredAt(n) : StoredAt(n) = {h} /\ h \in Branch /\ Len(h) = n /\ Seen(h)
  BY StoredIs
<1>2. chain \in Branch /\ n \in 0..Len(chain)
  BY <1>1, Fields DEF TypeOK, Seen
<1>3. OnChain(h) <=> h = Hash(n)
  BY <1>1, <1>2, HashIsCut
<1> QED
  BY <1>1, <1>3 DEF OffChain

\* The logs of a range of the chain.
LEMMA LogsOfAre ==
    ASSUME chain \in Branch, NEW k \in Kinds, NEW from \in Nat \ {0}, NEW to \in 0..Len(chain), NEW l
    PROVE  l \in LogsOf(k, from, to) <=>
             EventOf(l, chain) /\ l.kind = k /\ Len(l.hash) \in from..to
<1>1. Len(chain) \in Nat /\ to \in Nat /\ to <= Len(chain)
  BY BranchHas
<1>2. ASSUME l \in LogsOf(k, from, to)
      PROVE  EventOf(l, chain) /\ l.kind = k /\ Len(l.hash) \in from..to
  <2>1. PICK n \in from..to : k \in chain[n].logs /\ l = [hash |-> Cut(chain, n), kind |-> k]
    BY <1>2 DEF LogsOf, Hash, Cut
  <2>2. n \in 1..Len(chain)
    BY <1>1, <2>1
  <2>3. EventOf(l, chain)
    BY <2>1, <2>2, EventAt
  <2>4. Len(Cut(chain, n)) = n
    BY <1>1, <2>2, CutHolds
  <2> QED
    BY <2>1, <2>3, <2>4
<1>3. ASSUME EventOf(l, chain), l.kind = k, Len(l.hash) \in from..to
      PROVE  l \in LogsOf(k, from, to)
  <2>1. PICK n \in 1..Len(chain) : /\ n = Len(l.hash) /\ l.kind \in chain[n].logs
                                   /\ l = [hash |-> Cut(chain, n), kind |-> l.kind]
    BY <1>3, EventIs
  <2>2. n \in from..to /\ k \in chain[n].logs
    BY <1>3, <2>1
  <2>3. l = [hash |-> Hash(n), kind |-> k]
    BY <1>3, <2>1 DEF Hash, Cut
  <2>4. n \in {m \in from..to : k \in chain[m].logs}
    BY <2>2
  <2> QED
    BY <2>3, <2>4 DEF LogsOf
<1> QED
  BY <1>2, <1>3

\* The heights a walk back compares: all of a dense range, the end of a sparse
\* one, and what lies below all ranges.
LEMMA ComparedAre ==
    ASSUME TypeOK, RangesOK, NEW n
    PROVE  n \in Compared <=>
             \/ Below(n)
             \/ \E r \in store.ranges : n = r.to \/ (r.mode = "dense" /\ n \in FromOf(r)..r.to)
<1> DEFINE len == Len(store.checkpoint)
           Lows == {Len(r.pred) : r \in store.ranges}
<1>1. /\ len \in Nat
      /\ \A r \in store.ranges : /\ Len(r.pred) \in Nat /\ r.to \in Nat
                                 /\ FromOf(r) = Len(r.pred) + 1 /\ r.mode \in {"dense", "sparse"}
  BY Fields
<1>2. \A r \in store.ranges : Len(r.pred) < r.to /\ r.to <= len
  BY DEF RangesOK, RangeOK
<1>3. n \in BelowRanges <=> Below(n)
  <2>1. CASE store.ranges = {}
    BY <2>1 DEF BelowRanges, Below
  <2>2. CASE store.ranges # {}
    <3>1. Lows \subseteq Nat /\ Lows # {}
      BY <1>1, <2>2
    <3>2. Min(Lows) \in Lows /\ \A y \in Lows : Min(Lows) <= y
      BY <3>1, MinIs
    <3>3. PICK q \in store.ranges : Min(Lows) = Len(q.pred)
      BY <3>2
    <3>4. \A r \in store.ranges : Len(q.pred) <= Len(r.pred)
      BY <3>2, <3>3
    <3>5. BelowRanges = 1..Len(q.pred)
      BY <2>2, <3>3 DEF BelowRanges
    <3> HIDE DEF Lows
    <3>6. n \in 1..Len(q.pred) => Below(n)
      <4>1. Len(q.pred) <= len
        BY <1>1, <1>2
      <4> QED
        BY <1>1, <3>4, <4>1 DEF Below
    <3>7. Below(n) => n \in 1..Len(q.pred)
      BY <1>1 DEF Below
    <3> QED
      BY <3>5, <3>6, <3>7
  <2> QED
    BY <2>1, <2>2
<1>4. \A r \in store.ranges : r.mode = "dense" => r.to \in FromOf(r)..r.to
  BY <1>1, <1>2
<1>5. n \in Compared <=>
        \/ n \in BelowRanges
        \/ \E r \in store.ranges :
             n \in (IF r.mode = "dense" THEN FromOf(r)..r.to ELSE {r.to})
  BY DEF Compared
<1>6. \A r \in store.ranges :
        n \in (IF r.mode = "dense" THEN FromOf(r)..r.to ELSE {r.to}) <=>
          n = r.to \/ (r.mode = "dense" /\ n \in FromOf(r)..r.to)
  BY <1>4
<1> QED
  BY <1>3, <1>5, <1>6

\* Every one of them is a height of the branch whose header is stored.
LEMMA ComparedStored ==
    ASSUME TypeOK, RangesOK, NEW n \in Compared
    PROVE  n \in 1..Len(store.checkpoint) /\ StoredAt(n) # {}
<1>1. /\ Len(store.checkpoint) \in Nat
      /\ \A r \in store.ranges : /\ Len(r.pred) \in Nat /\ r.to \in Nat
                                 /\ FromOf(r) = Len(r.pred) + 1
  BY Fields
<1>2. CASE Below(n)
  BY <1>2 DEF Below, RangesOK
<1>3. ASSUME NEW r \in store.ranges, n = r.to \/ (r.mode = "dense" /\ n \in FromOf(r)..r.to)
      PROVE  n \in 1..Len(store.checkpoint) /\ StoredAt(n) # {}
  <2>1. RangeOK(r)
    BY DEF RangesOK
  <2>2. n \in 1..Len(store.checkpoint)
    BY <1>1, <1>3, <2>1 DEF RangeOK
  <2>3. StoredAt(n) # {}
    BY <1>3, <2>1 DEF RangeOK
  <2> QED
    BY <2>2, <2>3
<1> QED
  BY <1>2, <1>3, ComparedAre

-----------------------------------------------------------------------------
(* The chain.                                                              *)

ChainMoves == Grow \/ \E n \in DOMAIN chain : Reorganise(n)

\* A block on top leaves all below it.
LEMMA GrowthKeeps ==
    ASSUME TypeOK, ChainOK, Grow
    PROVE  /\ chain' \in Branch /\ reorgs' = reorgs /\ Len(chain') = Len(chain) + 1
           /\ \A m \in 1..Len(chain) : chain'[m] = chain[m]
           /\ ValidChain(chain') /\ \A m \in 1..Len(chain') : chain'[m].fork <= reorgs'
<1>1. chain \in Branch /\ reorgs \in Nat /\ Len(chain) \in Nat
  BY BranchHas DEF TypeOK
<1>2. PICK logs \in BlockLogs : chain' = Append(chain, [fork |-> reorgs, logs |-> logs]) /\ ValidChain(chain')
  BY DEF Grow
<1>3. [fork |-> reorgs, logs |-> logs] \in Block
  BY <1>1, IndexerAssumption DEF Block, Kinds
<1> DEFINE new == [fork |-> reorgs, logs |-> logs]
<1>4. new.fork = reorgs
  OBVIOUS
<1> HIDE DEF new
<1>5. /\ chain' \in Branch /\ Len(chain') = Len(chain) + 1
      /\ \A m \in 1..Len(chain) : chain'[m] = chain[m]
      /\ chain'[Len(chain) + 1] = new
  BY <1>1, <1>2, <1>3 DEF Branch, new
<1>6. \A m \in 1..Len(chain') : chain'[m].fork <= reorgs
  BY <1>1, <1>4, <1>5 DEF ChainOK
<1>7. reorgs' = reorgs
  BY DEF Grow
<1> QED
  BY <1>2, <1>5, <1>6, <1>7

\* A reorganisation replaces the blocks from a height on by ones of a new fork.
LEMMA ReorganisationReplaces ==
    ASSUME TypeOK, ChainOK, NEW n \in DOMAIN chain, Reorganise(n)
    PROVE  /\ n \in 1..Len(chain)
           /\ chain' \in Branch /\ reorgs' = reorgs + 1 /\ Len(chain') = Len(chain)
           /\ \A m \in 1..(n - 1) : chain'[m] = chain[m]
           /\ \A m \in n..Len(chain) : chain'[m].fork = reorgs + 1
           /\ ValidChain(chain') /\ \A m \in 1..Len(chain') : chain'[m].fork <= reorgs'
<1>1. chain \in Branch /\ reorgs \in Nat /\ Len(chain) \in Nat /\ DOMAIN chain = 1..Len(chain)
  BY BranchHas, LenProperties DEF TypeOK, Branch
<1> DEFINE len == Len(chain)
<1>2. PICK new \in [n..len -> BlockLogs] :
        /\ chain' = [m \in 1..len |-> IF m < n THEN chain[m] ELSE [fork |-> reorgs', logs |-> new[m]]]
        /\ ValidChain(chain')
  BY <1>1 DEF Reorganise
<1>3. reorgs' = reorgs + 1
  BY DEF Reorganise
<1>4. n \in 1..len /\ len \in Nat
  BY <1>1
<1>5. \A m \in 1..len : chain[m] \in Block
  BY <1>1, BranchHas
<1> HIDE DEF len
<1>6. \A m \in n..len : [fork |-> reorgs', logs |-> new[m]] \in Block
  <2> TAKE m \in n..len
  <2>1. new[m] \in SUBSET Kinds
    BY <1>2, IndexerAssumption DEF Kinds
  <2> QED
    BY <1>1, <1>3, <2>1 DEF Block
<1>7. chain' \in [1..len -> Block]
  BY <1>2, <1>4, <1>5, <1>6
<1>8. chain' \in Branch
  BY <1>4, <1>7, SeqDef DEF Branch
<1>9. Len(chain') = len
  <2>1. DOMAIN chain' = 1..Len(chain') /\ Len(chain') \in Nat
    BY <1>8, LenProperties DEF Branch
  <2>2. 1..Len(chain') = 1..len
    BY <1>7, <2>1
  <2> DEFINE c == Len(chain')
  <2> HIDE DEF c
  <2>3. \A k : k \in 1..c <=> k \in 1..len
    BY <2>2 DEF c
  <2>4. c \in Nat
    BY <2>1 DEF c
  <2>5. c \in 1..c => c <= len
    BY <2>3
  <2>6. len \in 1..len => len <= c
    BY <2>3
  <2>7. c = len
    BY <1>4, <2>4, <2>5, <2>6
  <2> QED
    BY <2>7 DEF c
<1>10. \A m \in 1..(n - 1) : chain'[m] = chain[m]
  BY <1>2, <1>4
<1>11. \A m \in n..len : chain'[m].fork = reorgs + 1
  BY <1>2, <1>3, <1>4
<1>12. \A m \in 1..len : chain'[m].fork <= reorgs'
  <2> TAKE m \in 1..len
  <2>1. CASE m < n
    BY <1>1, <1>3, <1>4, <1>5, <1>10, <2>1 DEF ChainOK, len, Block
  <2>2. CASE ~ (m < n)
    BY <1>1, <1>3, <1>4, <1>11, <2>2
  <2> QED
    BY <2>1, <2>2
<1> QED
  BY <1>2, <1>3, <1>4, <1>8, <1>9, <1>10, <1>11, <1>12 DEF len

\* The chain moves at one height: what lies below stays, and what was seen
\* from there on has left the chain and does not come back.
MovesAt(n) ==
    /\ \A h \in Branch : Len(h) < n => (OnChain(h) <=> OnChain(h)')
    /\ \A h \in Branch : Seen(h) /\ Len(h) >= n => ~ OnChain(h)'
    /\ n \in Unseen /\ n <= Len(chain) => scan'.torn

\* A branch that agrees with the chain below the height of the move.
LEMMA SameBelow ==
    ASSUME chain \in Branch, chain' \in Branch, Len(chain) <= Len(chain'),
           NEW n \in 1..(Len(chain) + 1), \A m \in 1..(n - 1) : chain'[m] = chain[m],
           NEW h \in Branch, Len(h) < n
    PROVE  OnChain(h) <=> OnChain(h)'
<1>1. Len(h) \in Nat /\ Len(chain) \in Nat /\ Len(chain') \in Nat /\ Len(h) <= Len(chain)
  BY BranchHas
<1>2. OnChain(h) <=> \A i \in 1..Len(h) : h[i] = chain[i]
  BY <1>1, PrefixHolds DEF OnChain
<1>3. OnChain(h)' <=> \A i \in 1..Len(h) : h[i] = chain'[i]
  BY <1>1, PrefixHolds DEF OnChain
<1>4. \A i \in 1..Len(h) : chain'[i] = chain[i]
  BY <1>1
<1> QED
  BY <1>2, <1>3, <1>4

\* How the chain moves.
LEMMA ChainStep ==
    ASSUME TypeOK, ChainOK, ChainMoves
    PROVE  /\ chain' \in Branch /\ reorgs' \in Nat /\ reorgs <= reorgs'
           /\ Len(chain) <= Len(chain') /\ ChainOK'
           /\ \A h \in Branch : Seen(h) => Seen(h)'
           /\ \E n \in 1..(Len(chain) + 1) : MovesAt(n)
<1>1. chain \in Branch /\ reorgs \in Nat /\ Len(chain) \in Nat
  BY BranchHas DEF TypeOK
<1>2. ASSUME chain' \in Branch, reorgs' \in Nat, reorgs <= reorgs', Len(chain) <= Len(chain')
      PROVE  \A h \in Branch : Seen(h) => Seen(h)'
  <2> SUFFICES ASSUME NEW h \in Branch, Seen(h) PROVE Seen(h)'
    OBVIOUS
  <2>1. /\ Len(h) \in Nat /\ Len(h) >= 1 /\ Len(h) <= Len(chain) /\ Len(chain') \in Nat
        /\ \A n \in 1..Len(h) : h[n].fork \in Nat /\ h[n].fork <= reorgs
    BY <1>2, BranchHas DEF Seen, Block
  <2>2. \A n \in 1..Len(h) : h[n].fork <= reorgs'
    BY <1>1, <1>2, <2>1
  <2>3. Len(h) <= Len(chain')
    BY <1>1, <1>2, <2>1
  <2> QED
    BY <2>1, <2>2, <2>3 DEF Seen
<1>3. CASE Grow
  <2>1. /\ chain' \in Branch /\ reorgs' = reorgs /\ Len(chain') = Len(chain) + 1
        /\ \A m \in 1..Len(chain) : chain'[m] = chain[m]
        /\ ValidChain(chain') /\ \A m \in 1..Len(chain') : chain'[m].fork <= reorgs'
    BY <1>3, GrowthKeeps
  <2> DEFINE n == Len(chain) + 1
  <2>2. \A m \in 1..(n - 1) : chain'[m] = chain[m]
    BY <1>1, <2>1
  <2>3. n \in 1..(Len(chain) + 1) /\ Len(chain) <= Len(chain')
    BY <1>1, <2>1
  <2>4. \A h \in Branch : Len(h) < n => (OnChain(h) <=> OnChain(h)')
    BY <1>1, <2>1, <2>2, <2>3, SameBelow
  <2>5. \A h \in Branch : Seen(h) => ~ (Len(h) >= n)
    BY <1>1, BranchHas DEF Seen
  <2>6. MovesAt(n)
    BY <1>1, <2>4, <2>5 DEF MovesAt
  <2>7. ChainOK'
    BY <2>1 DEF ChainOK
  <2> HIDE DEF n
  <2> QED
    BY <1>1, <1>2, <2>1, <2>3, <2>6, <2>7
<1>4. ASSUME NEW n \in DOMAIN chain, Reorganise(n)
      PROVE  /\ chain' \in Branch /\ reorgs' \in Nat /\ reorgs <= reorgs'
             /\ Len(chain) <= Len(chain') /\ ChainOK'
             /\ \A h \in Branch : Seen(h) => Seen(h)'
             /\ \E m \in 1..(Len(chain) + 1) : MovesAt(m)
  <2>1. /\ n \in 1..Len(chain)
        /\ chain' \in Branch /\ reorgs' = reorgs + 1 /\ Len(chain') = Len(chain)
        /\ \A m \in 1..(n - 1) : chain'[m] = chain[m]
        /\ \A m \in n..Len(chain) : chain'[m].fork = reorgs + 1
        /\ ValidChain(chain') /\ \A m \in 1..Len(chain') : chain'[m].fork <= reorgs'
    BY <1>4, ReorganisationReplaces
  <2>2. \A h \in Branch : Len(h) < n => (OnChain(h) <=> OnChain(h)')
    BY <1>1, <2>1, SameBelow
  <2>3. ASSUME NEW h \in Branch, Seen(h), Len(h) >= n, OnChain(h)'
        PROVE  FALSE
    <3>1. Len(h) \in Nat
      BY BranchHas
    <3>2. \A i \in 1..Len(h) : h[i] = chain'[i]
      BY <2>1, <2>3, PrefixHolds DEF OnChain
    <3>3. n \in 1..Len(h) /\ n \in n..Len(chain)
      BY <1>1, <2>1, <2>3, <3>1
    <3>4. h[n].fork = reorgs + 1
      BY <2>1, <3>2, <3>3
    <3>5. h[n].fork <= reorgs
      BY <2>3, <3>3 DEF Seen
    <3> QED
      BY <1>1, <3>4, <3>5
  <2>4. n \in Unseen => scan'.torn
    <3>1. scan' = [scan EXCEPT !.torn = @ \/ n \in Unseen]
      BY <1>4 DEF Reorganise
    <3>2. scan \in Scan
      BY DEF TypeOK
    <3>3. scan'.torn = (scan.torn \/ n \in Unseen)
      BY <3>1, <3>2 DEF Scan
    <3> QED
      BY <3>3
  <2>5. MovesAt(n)
    BY <2>2, <2>3, <2>4 DEF MovesAt
  <2>6. ChainOK'
    BY <2>1 DEF ChainOK
  <2>7. n \in 1..(Len(chain) + 1) /\ reorgs' \in Nat /\ reorgs <= reorgs' /\ Len(chain) <= Len(chain')
    BY <1>1, <2>1
  <2> QED
    BY <1>2, <2>1, <2>5, <2>6, <2>7
<1> QED
  BY <1>3, <1>4 DEF ChainMoves

\* A move of the chain changes nothing but the chain and whether the batch is torn.
LEMMA ChainMoveLeaves ==
    ASSUME TypeOK, ChainMoves
    PROVE  /\ UNCHANGED <<crashes, store, mode, pc, jobs, misread>>
           /\ scan' \in Scan /\ (scan.torn => scan'.torn)
           /\ scan'.pred = scan.pred /\ scan'.to = scan.to /\ scan'.logs = scan.logs
           /\ scan'.anchors = scan.anchors /\ scan'.walk = scan.walk
<1>1. UNCHANGED <<crashes, store, mode, pc, jobs, misread>>
  BY DEF ChainMoves, Grow, Reorganise
<1>2. scan \in Scan /\ scan.torn \in BOOLEAN
  BY Fields DEF TypeOK
<1>3. ASSUME scan' = scan
      PROVE  /\ scan' \in Scan /\ (scan.torn => scan'.torn)
             /\ scan'.pred = scan.pred /\ scan'.to = scan.to /\ scan'.logs = scan.logs
             /\ scan'.anchors = scan.anchors /\ scan'.walk = scan.walk
  BY <1>2, <1>3
<1>4. ASSUME NEW n \in DOMAIN chain, scan' = [scan EXCEPT !.torn = @ \/ n \in Unseen]
      PROVE  /\ scan' \in Scan /\ (scan.torn => scan'.torn)
             /\ scan'.pred = scan.pred /\ scan'.to = scan.to /\ scan'.logs = scan.logs
             /\ scan'.anchors = scan.anchors /\ scan'.walk = scan.walk
  <2> DEFINE t == scan.torn \/ n \in Unseen
  <2>1. t \in BOOLEAN
    OBVIOUS
  <2>2. scan.torn => t
    OBVIOUS
  <2>3. scan' = [scan EXCEPT !.torn = t]
    BY <1>4
  <2> HIDE DEF t
  <2> QED
    BY <1>2, <2>1, <2>2, <2>3 DEF Scan
<1>5. scan' = scan \/ \E n \in DOMAIN chain : scan' = [scan EXCEPT !.torn = @ \/ n \in Unseen]
  BY DEF ChainMoves, Grow, Reorganise
<1> QED
  BY <1>1, <1>3, <1>4, <1>5

\* When a replaced height n of what the batch relies on is not shown.
LEMMA UnseenIs ==
    ASSUME NEW n \in Nat, n >= 1, scan.to \in Nat, Len(scan.pred) \in Nat
    PROVE  /\ mode = "sparse" /\ pc = "rollback" /\ n <= scan.to /\ scan.logs = {} => n \in Unseen
           /\ mode = "sparse" /\ pc \in {"range", "logs"} /\ n <= Len(scan.pred) /\ scan.logs = {} =>
                n \in Unseen
           /\ /\ mode = "sparse" /\ pc = "anchors" /\ n <= scan.to
              /\ \A a \in scan.anchors : Len(a) # scan.to
              /\ \A l \in scan.logs : (\A a \in scan.anchors : Len(a) # Len(l.hash)) => Len(l.hash) < n
              => n \in Unseen
           /\ /\ mode # "sparse" /\ pc = "anchors" /\ n \in From..scan.to
              /\ \A l \in scan.logs : Len(l.hash) < n
              /\ \A a \in scan.anchors : Len(a) < n
              => n \in Unseen
<1> DEFINE read  == {Len(a) : a \in scan.anchors}
           shown == {Len(l.hash) : l \in scan.logs}
<1>1. /\ \A m : m \in read <=> \E a \in scan.anchors : m = Len(a)
      /\ \A m : m \in shown <=> \E l \in scan.logs : m = Len(l.hash)
  OBVIOUS
<1> HIDE DEF read, shown
<1>2. mode = "sparse" =>
        (n \in Unseen <=>
           /\ n <= (IF pc \in {"range", "logs"} THEN Len(scan.pred)
                    ELSE IF pc = "rollback" \/ (pc = "anchors" /\ scan.to \notin read) THEN scan.to
                    ELSE 0)
           /\ \A m \in shown \ read : m < n)
  BY DEF Unseen, read, shown
<1>3. mode # "sparse" /\ pc = "anchors" =>
        (n \in Unseen <=> n \in From..scan.to /\ \A m \in shown \cup read : m < n)
  BY DEF Unseen, read, shown
<1> QED
  BY <1>1, <1>2, <1>3

\* What depends on the store alone.
LEMMA StoreUnmoved ==
    ASSUME store' = store
    PROVE  /\ RangesOK <=> RangesOK'
           /\ Compared' = Compared
           /\ \A n : StoredAt(n)' = StoredAt(n)
<1>1. \A n : StoredAt(n)' = StoredAt(n)
  BY DEF StoredAt
<1>2. \A n : Below(n)' <=> Below(n)
  BY DEF Below
<1>3. \A r : RangeOK(r)' <=> RangeOK(r)
  BY <1>1 DEF RangeOK, FromOf
<1>4. RangesOK <=> RangesOK'
  BY <1>1, <1>2, <1>3 DEF RangesOK, FromOf
<1>5. Compared' = Compared
  BY DEF Compared, BelowRanges, FromOf
<1> QED
  BY <1>1, <1>4, <1>5

\* The chain may move under every step: the store, the walk back, a batch and
\* a job.
LEMMA ChainMovesKeepStore ==
    ASSUME StoreInv, ChainMoves
    PROVE  StoreInv'
<1>1. /\ TypeOK /\ ChainOK /\ HeadersOK /\ RangesOK
      /\ WalkOK /\ RollbackOK /\ BatchOK /\ JobsOK
  BY DEF StoreInv
<1>2. /\ UNCHANGED <<crashes, store, mode, pc, jobs, misread>>
      /\ scan' \in Scan /\ (scan.torn => scan'.torn)
      /\ scan'.pred = scan.pred /\ scan'.to = scan.to /\ scan'.logs = scan.logs
      /\ scan'.anchors = scan.anchors /\ scan'.walk = scan.walk
  BY <1>1, ChainMoveLeaves
<1>3. /\ chain' \in Branch /\ reorgs' \in Nat /\ reorgs <= reorgs'
      /\ Len(chain) <= Len(chain') /\ ChainOK'
      /\ \A h \in Branch : Seen(h) => Seen(h)'
  BY <1>1, ChainStep
<1>4. PICK n \in 1..(Len(chain) + 1) : MovesAt(n)
  BY <1>1, ChainStep
<1>5. \A h \in Branch : Seen(h) /\ ~ OnChain(h) => ~ OnChain(h)'
  <2> TAKE h \in Branch
  <2>1. Len(h) \in Nat /\ n \in Nat
    BY <1>1, <1>4, BranchHas, Fields
  <2> QED
    BY <1>4, <2>1 DEF MovesAt
<1>6. TypeOK'
  BY <1>1, <1>2, <1>3 DEF TypeOK
<1>7. HeadersOK'
  <2>1. \A h \in store.blocks : h \in Branch
    BY <1>1, Fields
  <2> QED
    BY <1>1, <1>2, <1>3, <2>1 DEF HeadersOK
<1>8. RangesOK' /\ Compared' = Compared /\ \A m : StoredAt(m)' = StoredAt(m)
  BY <1>1, <1>2, StoreUnmoved
<1>9. \A m : OffChain(m) => OffChain(m)'
  <2> TAKE m
  <2>1. \A h \in StoredAt(m) : h \in Branch /\ Seen(h)
    BY <1>1, StoredIs
  <2> QED
    BY <1>5, <1>8, <2>1 DEF OffChain
<1>10. WalkOK' /\ RollbackOK'
  BY <1>1, <1>2, <1>8, <1>9 DEF WalkOK, RollbackOK
<1>11. From' = From /\ AnchorHeights' = AnchorHeights
  BY <1>2 DEF From, FromOf, AnchorHeights
<1>12. BatchOK'
  <2>1. scan.to <= Len(chain) => scan'.to <= Len(chain')
    <3>1. scan.to \in Nat /\ Len(chain) \in Nat /\ Len(chain') \in Nat
      BY <1>1, <1>3, Fields, BranchHas
    <3> QED
      BY <1>2, <1>3, <3>1
  <2>2. /\ \A l \in scan.logs : Seen(l.hash)'
        /\ \A a \in scan.anchors : Seen(a)'
    <3>1. \A l \in scan.logs : l.hash \in Branch
      BY <1>1, Fields
    <3>2. \A a \in scan.anchors : a \in Branch
      BY <1>1, Fields
    <3> QED
      BY <1>1, <1>3, <3>1, <3>2 DEF BatchOK
  <2> QED
    BY <1>1, <1>2, <1>11, <2>1, <2>2 DEF BatchOK
<1>13. JobsOK'
  <2> SUFFICES ASSUME NEW j \in jobs
               PROVE  /\ Seen(j.endpoint)' /\ Len(j.endpoint) = j.range.to
                      /\ j.fetched \subseteq HeadersOf(j.range, j.endpoint)
                      /\ \/ /\ j.endpoint \in store.blocks
                            /\ \E q \in store.ranges : q.pred = j.range.pred /\ q.to = j.range.to
                         \/ /\ j.endpoint \notin store.blocks \cup scan.anchors
                            /\ ~ OnChain(j.endpoint)'
    BY <1>2 DEF JobsOK, HeadersOf, FromOf
  <2>1. j.endpoint \in Branch
    BY <1>1, JobFields
  <2>2. PICK h \in Branch : h = j.endpoint
    BY <2>1
  <2>3. Seen(h)' /\ (~ OnChain(h) => ~ OnChain(h)')
    BY <1>1, <1>3, <1>5, <2>2 DEF JobsOK
  <2>4. Seen(j.endpoint)' /\ (~ OnChain(j.endpoint) => ~ OnChain(j.endpoint)')
    BY <1>2, <2>2, <2>3 DEF Seen, OnChain
  <2> QED
    BY <1>1, <2>4 DEF JobsOK
<1> QED
  BY <1>3, <1>6, <1>7, <1>8, <1>10, <1>12, <1>13 DEF StoreInv

\* What was seen comes back only if it had not left.
LEMMA NotGone ==
    ASSUME NEW n \in Nat, MovesAt(n), NEW h \in Branch, Seen(h)
    PROVE  /\ OnChain(h)' => OnChain(h) /\ Len(h) < n
           /\ OnChain(h) /\ Len(h) < n => OnChain(h)'
<1>1. Len(h) \in Nat
  BY BranchHas
<1> QED
  BY <1>1 DEF MovesAt

\* The checkpoint, if there is one, has been seen.
LEMMA CheckpointSeen ==
    ASSUME TypeOK, HeadersOK
    PROVE  /\ store.checkpoint \in Branch /\ Len(store.checkpoint) \in Nat
           /\ Len(store.checkpoint) <= Len(chain)
           /\ Len(store.checkpoint) >= 1 => Seen(store.checkpoint)
<1>1. store.checkpoint \in Branch /\ Len(store.checkpoint) \in Nat /\ Len(chain) \in Nat
  BY Fields
<1>2. CASE store.checkpoint = <<>>
  BY <1>1, <1>2, PrefixOrder
<1>3. CASE store.checkpoint \in store.blocks
  BY <1>1, <1>3 DEF HeadersOK, Seen
<1> QED
  BY <1>1, <1>2, <1>3 DEF HeadersOK

\* The chain may move under every step: what is stored is still a branch, and
\* what a batch that is not torn has read stays all there is, or shows that it
\* is not.
LEMMA ChainMovesKeepLog ==
    ASSUME StoreInv, LogInv, ChainMoves
    PROVE  LogInv'
<1>1. /\ TypeOK /\ ChainOK /\ HeadersOK /\ RangesOK
      /\ WalkOK /\ RollbackOK /\ BatchOK
  BY DEF StoreInv
<1>2. /\ UNCHANGED <<crashes, store, mode, pc, jobs, misread>>
      /\ scan' \in Scan /\ (scan.torn => scan'.torn)
      /\ scan'.pred = scan.pred /\ scan'.to = scan.to /\ scan'.logs = scan.logs
      /\ scan'.anchors = scan.anchors /\ scan'.walk = scan.walk
  BY <1>1, ChainMoveLeaves
<1>3. PICK n \in 1..(Len(chain) + 1) : MovesAt(n)
  BY <1>1, ChainStep
<1>4. /\ n \in Nat /\ n >= 1
      /\ chain \in Branch /\ chain' \in Branch /\ Len(chain) \in Nat
      /\ scan.pred \in Branch /\ Len(scan.pred) \in Nat /\ scan.to \in Nat
      /\ From = Len(scan.pred) + 1
      /\ \A l \in scan.logs : l.hash \in Branch /\ Len(l.hash) \in Nat /\ Seen(l.hash)
      /\ \A l \in scan.logs : Len(l.hash) \in From..scan.to
      /\ \A a \in scan.anchors : a \in Branch /\ Len(a) \in Nat /\ Seen(a)
  BY <1>1, <1>3, ChainStep, Fields DEF TypeOK, BatchOK
<1>5. From' = From /\ StoredAt(scan.to)' = StoredAt(scan.to)
  BY <1>2 DEF From, FromOf, StoredAt
<1>6. \A l \in scan.logs : OnChain(l.hash)' => OnChain(l.hash) /\ Len(l.hash) < n
  BY <1>3, <1>4, NotGone
<1>7. \A a \in scan.anchors : OnChain(a)' => OnChain(a) /\ Len(a) < n
  BY <1>3, <1>4, NotGone
<1> SUFFICES ASSUME ~ misread PROVE LogInv'
  BY <1>2 DEF LogInv
<1>8. BranchOK'
  BY <1>2 DEF LogInv, BranchOK, Index!EventsOn, Index!HashOn
<1> SUFFICES ASSUME ~ scan.torn, ~ scan'.torn PROVE TrustOK' /\ LogsOK' /\ FenceOK'
  BY <1>2, <1>8 DEF LogInv
<1>9. TrustOK /\ LogsOK /\ FenceOK
  BY DEF LogInv
<1>10. n <= Len(chain) => n \notin Unseen
  BY <1>3 DEF MovesAt
<1>11. TrustOK'
  <2> SUFFICES ASSUME mode = "sparse" PROVE TrustOK'
    BY <1>2 DEF TrustOK
  <2>1. ASSUME pc = "rollback", NEW h \in StoredAt(scan.to)
        PROVE  OnChain(h)'
    <3>1. OnChain(h) /\ h \in Branch /\ Len(h) = scan.to /\ Seen(h)
      BY <1>1, <1>9, <2>1, StoredIs DEF TrustOK
    <3>2. scan.logs = {} /\ scan.to <= Len(chain)
      BY <1>1, <2>1, <3>1 DEF BatchOK, Seen
    <3>3. ~ (n <= scan.to)
      BY <1>4, <1>10, <2>1, <3>2, UnseenIs
    <3> QED
      BY <1>3, <1>4, <3>1, <3>3, NotGone
  <2>2. ASSUME pc \in {"range", "logs", "late"}, \A l \in scan.logs : OnChain(l.hash)'
        PROVE  OnChain(scan.pred)'
    <3>1. OnChain(scan.pred)
      BY <1>6, <1>9, <2>2 DEF TrustOK
    <3>2. CASE n <= Len(scan.pred)
      <4>1. scan.logs = {}
        <5> SUFFICES ASSUME NEW l \in scan.logs PROVE FALSE
          OBVIOUS
        <5>1. Len(l.hash) < n
          BY <1>6, <2>2
        <5>2. Len(l.hash) >= Len(scan.pred) + 1 /\ Len(l.hash) \in Nat
          BY <1>4
        <5> QED
          BY <1>4, <3>2, <5>1, <5>2
      <4>2. pc \in {"range", "logs"}
        BY <1>9, <2>2, <4>1 DEF LogsOK
      <4>3. n <= Len(chain)
        BY <1>1, <1>4, <2>2, <3>2, CheckpointSeen DEF BatchOK
      <4> QED
        BY <1>4, <1>10, <3>2, <4>1, <4>2, <4>3, UnseenIs
    <3>3. CASE Len(scan.pred) < n
      <4>1. PICK g \in Branch : g = scan.pred
        BY <1>4
      <4>2. OnChain(g)'
        BY <1>3, <3>1, <3>3, <4>1 DEF MovesAt
      <4> QED
        BY <1>2, <4>1, <4>2 DEF OnChain
    <3> QED
      BY <1>4, <3>2, <3>3
  <2>3. \A l \in scan.logs : OnChain(l.hash)' <=> IsPrefix(l.hash, chain')
    BY DEF OnChain
  <2> QED
    BY <1>2, <1>5, <2>1, <2>2 DEF TrustOK, OnChain
<1>12. ASSUME pc = "anchors", LooksSound'
       PROVE  LooksSound /\ scan.to < n
  <2>1. From <= scan.to /\ scan.to <= Len(chain)
    BY <1>1, <1>12 DEF BatchOK
  <2>2. CASE mode = "sparse"
    <3>1. /\ \A l \in scan.logs : OnChain(l.hash)' \/ l.hash \in scan.anchors
          /\ \A a \in scan.anchors : Len(a) = scan.to => OnChain(a)'
      BY <1>2, <1>12, <2>2 DEF LooksSound, OnChain
    <3>2. LooksSound
      BY <1>6, <1>7, <2>2, <3>1 DEF LooksSound
    <3>3. ASSUME n <= scan.to
          PROVE  FALSE
      <4>1. \A a \in scan.anchors : Len(a) # scan.to
        BY <1>4, <1>7, <3>1, <3>3
      <4>2. ASSUME NEW l \in scan.logs, \A a \in scan.anchors : Len(a) # Len(l.hash)
            PROVE  Len(l.hash) < n
        BY <1>6, <3>1, <4>2
      <4>3. n \in Unseen
        BY <1>4, <1>12, <2>2, <3>3, <4>1, <4>2, UnseenIs
      <4> QED
        BY <1>4, <1>10, <2>1, <3>3, <4>3
    <3> QED
      BY <1>4, <3>2, <3>3
  <2>3. CASE mode # "sparse"
    <3>1. /\ OnChain(scan.pred)'
          /\ \A l \in scan.logs : OnChain(l.hash)'
          /\ \A a \in scan.anchors : OnChain(a)'
      BY <1>2, <1>12, <2>3 DEF LooksSound, OnChain
    <3>2. OnChain(scan.pred) /\ Len(scan.pred) < n
      <4>1. PICK g \in Branch : g = scan.pred
        BY <1>4
      <4>2. OnChain(g)'
        BY <1>2, <3>1, <4>1 DEF OnChain
      <4>3. CASE Len(g) >= 1
        <5>1. Seen(g)
          BY <1>1, <1>12, <4>1, <4>3, CheckpointSeen DEF BatchOK
        <5> QED
          BY <1>3, <1>4, <4>1, <4>2, <5>1, NotGone
      <4>4. CASE ~ (Len(g) >= 1)
        <5>1. Len(g) < n
          BY <1>4, <4>1, <4>4
        <5> QED
          BY <1>3, <4>1, <4>2, <5>1 DEF MovesAt
      <4> QED
        BY <4>3, <4>4
    <3>3. LooksSound
      BY <1>6, <1>7, <2>3, <3>1, <3>2 DEF LooksSound
    <3>4. ASSUME n <= scan.to
          PROVE  FALSE
      <4>1. n \in From..scan.to
        BY <1>4, <3>2, <3>4
      <4>2. n \in Unseen
        BY <1>4, <1>6, <1>7, <1>12, <2>3, <3>1, <4>1, UnseenIs
      <4> QED
        BY <1>4, <1>10, <2>1, <3>4, <4>2
    <3> QED
      BY <1>4, <3>3, <3>4
  <2> QED
    BY <2>2, <2>3
<1>13. LogsOK'
  <2>1. pc = "late" => \E l \in scan.logs : l.kind = "created"
    BY <1>9 DEF LogsOK
  <2> SUFFICES ASSUME pc = "anchors", LooksSound'
               PROVE  OnChain(scan.pred)' /\ (\A a \in scan.anchors : OnChain(a)') /\ Complete'
    BY <1>2, <2>1 DEF LogsOK, OnChain
  <2>2. scan.to < n /\ OnChain(scan.pred) /\ (\A a \in scan.anchors : OnChain(a)) /\ Complete
    BY <1>9, <1>12 DEF LogsOK
  <2>3. From <= scan.to /\ \A a \in scan.anchors : Len(a) \in From..scan.to
    BY <1>1 DEF BatchOK
  <2>4. OnChain(scan.pred)'
    <3>1. PICK g \in Branch : g = scan.pred
      BY <1>4
    <3>2. Len(g) < n
      BY <1>4, <2>2, <2>3, <3>1
    <3>3. OnChain(g)'
      BY <1>3, <2>2, <3>1, <3>2 DEF MovesAt
    <3> QED
      BY <1>2, <3>1, <3>3 DEF OnChain
  <2>5. \A a \in scan.anchors : OnChain(a)'
    <3> TAKE a \in scan.anchors
    <3>1. Len(a) < n
      BY <1>4, <2>2, <2>3
    <3> QED
      BY <1>3, <1>4, <2>2, <3>1 DEF MovesAt
  <2>6. Complete'
    <3> SUFFICES ASSUME NEW e, EventOf(e, chain)', Len(e.hash) \in From..scan.to
                 PROVE  e \in scan.logs
      BY <1>2, <1>5 DEF Complete, EventOf
    <3>1. e \in Event /\ IsPrefix(e.hash, chain') /\ Len(e.hash) >= 1 /\ e.kind \in e.hash[Len(e.hash)].logs
      BY DEF EventOf
    <3>2. e.hash \in Branch /\ Len(e.hash) \in Nat
      BY <3>1, BranchHas DEF Event
    <3>3. PICK g \in Branch : g = e.hash
      BY <3>2
    <3>4. Len(g) < n /\ OnChain(g)'
      BY <1>4, <2>2, <3>1, <3>2, <3>3 DEF OnChain
    <3>5. OnChain(g)
      BY <1>3, <3>4 DEF MovesAt
    <3>6. EventOf(e, chain)
      BY <3>1, <3>3, <3>5 DEF EventOf, OnChain
    <3> QED
      BY <2>2, <3>6 DEF Complete
  <2> QED
    BY <2>4, <2>5, <2>6
<1>14. FenceOK'
  <2> SUFFICES ASSUME pc = "fence", NEW h \in scan.anchors, Len(h) = scan.to, OnChain(h)'
               PROVE  PieceOf(h)
    BY <1>2, <1>5 DEF FenceOK, PieceOf, OnChain, EventOf
  <2>1. OnChain(h)
    BY <1>7
  <2> QED
    BY <1>9, <2>1 DEF FenceOK
<1> QED
  BY <1>11, <1>13, <1>14

-----------------------------------------------------------------------------
(* The steps that leave the store as it is.                                *)

\* The scan that holds nothing.
LEMMA NoScanIs ==
    /\ NoScan = [pred |-> <<>>, to |-> 0, logs |-> {}, anchors |-> {}, walk |-> {}, torn |-> FALSE]
    /\ NoScan \in Scan
<1>1. <<>> \in Branch
  BY EmptySeq DEF Branch
<1> QED
  BY <1>1 DEF NoScan, NoBlock, Scan

\* The fields of a scan that is given by all of them.
LEMMA ScanFields ==
    ASSUME NEW p, NEW n, NEW l, NEW a, NEW w, NEW t,
           scan' = [pred |-> p, to |-> n, logs |-> l, anchors |-> a, walk |-> w, torn |-> t]
    PROVE  /\ scan'.pred = p /\ scan'.to = n /\ scan'.logs = l /\ scan'.anchors = a
           /\ scan'.walk = w /\ scan'.torn = t
           /\ From' = Len(p) + 1
BY DEF From, FromOf

\* A step of the indexer that reads.
LEMMA ScanStep ==
    ASSUME StoreInv, UNCHANGED <<chain, reorgs, store, jobs, misread>>,
           crashes' \in Nat, mode' \in Modes, pc' \in Steps, scan' \in Scan,
           \A a \in scan'.anchors : a \in scan.anchors \/ OnChain(a),
           WalkOK', RollbackOK', BatchOK'
    PROVE  /\ StoreInv'
           /\ ~ misread /\ LogInv => BranchOK'
<1>1. TypeOK /\ ChainOK /\ HeadersOK /\ RangesOK /\ JobsOK
  BY DEF StoreInv
<1>2. TypeOK'
  BY <1>1 DEF TypeOK
<1>3. ChainOK'
  BY <1>1 DEF ChainOK, ValidChain
<1>4. HeadersOK'
  BY <1>1 DEF HeadersOK, Seen
<1>5. RangesOK'
  BY <1>1, StoreUnmoved
<1>6. JobsOK'
  <2> SUFFICES ASSUME NEW j \in jobs
               PROVE  /\ Seen(j.endpoint) /\ Len(j.endpoint) = j.range.to
                      /\ j.fetched \subseteq HeadersOf(j.range, j.endpoint)
                      /\ \/ /\ j.endpoint \in store.blocks
                            /\ \E q \in store.ranges : q.pred = j.range.pred /\ q.to = j.range.to
                         \/ /\ j.endpoint \notin store.blocks \cup scan'.anchors
                            /\ ~ OnChain(j.endpoint)
    BY DEF JobsOK, HeadersOf, FromOf, Seen, OnChain
  <2> QED
    BY <1>1 DEF JobsOK
<1>7. ~ misread /\ LogInv => BranchOK'
  BY DEF LogInv, BranchOK, Index!EventsOn, Index!HashOn
<1> QED
  BY <1>2, <1>3, <1>4, <1>5, <1>6, <1>7 DEF StoreInv

\* A batch that is given up, or a crash, leaves nothing behind.
LEMMA IdleKeeps ==
    ASSUME IndexInv, UNCHANGED <<chain, reorgs, store, jobs, misread>>,
           pc' = "idle", scan' = NoScan, mode' \in Modes, crashes' \in Nat
    PROVE  IndexInv'
<1>1. StoreInv /\ LogInv
  BY DEF IndexInv
<1>2. /\ scan' \in Scan /\ scan'.anchors = {} /\ scan'.logs = {}
      /\ pc' \in Steps
  BY NoScanIs DEF Steps
<1>3. WalkOK' /\ RollbackOK' /\ BatchOK'
  BY <1>2 DEF WalkOK, RollbackOK, BatchOK
<1>4. StoreInv' /\ (~ misread => BranchOK')
  BY <1>1, <1>2, <1>3, ScanStep
<1>5. TrustOK' /\ LogsOK' /\ FenceOK'
  BY DEF TrustOK, LogsOK, FenceOK
<1> QED
  BY <1>4, <1>5 DEF IndexInv, LogInv

\* A batch starts at the deployment, or with the heights to compare.
LEMMA ReconcileKeeps ==
    ASSUME IndexInv, Reconcile
    PROVE  IndexInv'
<1>1. StoreInv /\ LogInv /\ TypeOK /\ HeadersOK /\ RangesOK
  BY DEF IndexInv, StoreInv
<1>2. UNCHANGED <<chain, reorgs, crashes, store, mode, jobs, misread>> /\ pc = "idle"
  BY DEF Reconcile
<1>3. crashes' \in Nat /\ mode' \in Modes /\ chain \in Branch
  BY <1>1, <1>2 DEF TypeOK
<1>4. Compared' = Compared /\ \A n : OffChain(n)' <=> OffChain(n)
  BY <1>2, StoreUnmoved DEF OffChain, OnChain
<1>5. CASE store.checkpoint = NoBlock /\ pc' = "range" /\ scan' = NoScan
  <2>1. /\ scan' \in Scan /\ scan'.pred = <<>> /\ scan'.anchors = {} /\ scan'.logs = {}
        /\ pc' \in Steps
    BY <1>5, NoScanIs DEF Steps
  <2>2. WalkOK' /\ RollbackOK' /\ BatchOK'
    BY <1>2, <1>5, <2>1 DEF WalkOK, RollbackOK, BatchOK, NoBlock
  <2>3. StoreInv' /\ (~ misread => BranchOK')
    BY <1>1, <1>2, <1>3, <2>1, <2>2, ScanStep
  <2>4. OnChain(scan.pred)'
    BY <1>2, <1>3, <2>1, HashIsCut DEF OnChain
  <2>5. TrustOK' /\ LogsOK' /\ FenceOK'
    BY <1>5, <2>4 DEF TrustOK, LogsOK, FenceOK
  <2> QED
    BY <1>2, <2>3, <2>5 DEF IndexInv, LogInv
<1>6. CASE store.checkpoint # NoBlock /\ pc' = "walk" /\ scan' = [NoScan EXCEPT !.walk = Compared]
  <2>1. \A n \in Compared : n \in Nat
    BY <1>1, ComparedStored
  <2>2. /\ scan' = [pred |-> <<>>, to |-> 0, logs |-> {}, anchors |-> {}, walk |-> Compared, torn |-> FALSE]
        /\ <<>> \in Branch
    BY <1>6, NoScanIs, EmptySeq DEF Branch
  <2>3. scan' \in Scan
    BY <2>1, <2>2 DEF Scan
  <2>4. scan'.anchors = {} /\ scan'.logs = {} /\ scan'.walk = Compared /\ pc' \in Steps
    BY <1>6, <2>2 DEF Steps
  <2>5. \A r \in store.ranges : r.to \in Compared
    BY <1>1, ComparedAre
  <2>6. WalkOK' /\ RollbackOK' /\ BatchOK'
    BY <1>2, <1>4, <1>6, <2>4, <2>5 DEF WalkOK, RollbackOK, BatchOK, NoBlock
  <2>7. StoreInv' /\ (~ misread => BranchOK')
    BY <1>1, <1>2, <1>3, <2>3, <2>4, <2>6, ScanStep
  <2>8. TrustOK' /\ LogsOK' /\ FenceOK'
    BY <1>6 DEF TrustOK, LogsOK, FenceOK
  <2> QED
    BY <1>2, <2>7, <2>8 DEF IndexInv, LogInv
<1> QED
  BY <1>5, <1>6 DEF Reconcile

\* A walk back that ends, at the checkpoint or at an ancestor.
LEMMA CompareNextKeeps ==
    ASSUME IndexInv, CompareNext
    PROVE  IndexInv'
<1> DEFINE cp == store.checkpoint
           n  == Max(scan.walk)
<1>1. StoreInv /\ LogInv /\ TypeOK /\ HeadersOK /\ RangesOK /\ WalkOK /\ BatchOK
  BY DEF IndexInv, StoreInv
<1>2. /\ UNCHANGED <<chain, reorgs, crashes, store, mode, jobs, misread>>
      /\ pc = "walk" /\ scan.walk # {} /\ StoredAt(n) # {}
  BY DEF CompareNext
<1>3. /\ crashes' \in Nat /\ mode' \in Modes /\ chain \in Branch
      /\ cp \in Branch /\ Len(cp) \in Nat
  BY <1>1, <1>2, Fields DEF TypeOK
<1>4. Compared' = Compared /\ (\A m : OffChain(m)' <=> OffChain(m)) /\ \A m : StoredAt(m)' = StoredAt(m)
  BY <1>2, StoreUnmoved DEF OffChain, OnChain
<1>5. \A m \in Compared : m \in 1..Len(cp)
  BY <1>1, ComparedStored
<1>6. /\ cp # <<>> /\ scan.walk \subseteq Compared
      /\ \A r \in store.ranges : r.to \in scan.walk \/ OffChain(r.to)
  BY <1>1, <1>2 DEF WalkOK
<1>7. n \in scan.walk /\ \A m \in scan.walk : m <= n
  <2>1. scan.walk \in SUBSET (0..Len(cp))
    BY <1>3, <1>5, <1>6
  <2> QED
    BY <1>2, <1>3, <2>1, MaxIs
<1>8. n \in Compared /\ n \in 1..Len(cp)
  BY <1>5, <1>6, <1>7
<1>9. PICK g \in StoredAt(n) : StoredAt(n) = {g} /\ g \in Branch /\ Len(g) = n /\ Seen(g)
  BY <1>1, <1>2, StoredIs
<1>10. OffChain(n) <=> StoredAt(n) # {Hash(n)}
  BY <1>1, <1>2, OffChainIs
<1>11. \/ StoredAt(n) # {Hash(n)} /\ scan' = [scan EXCEPT !.walk = @ \ {n}] /\ pc' = "walk"
       \/ /\ StoredAt(n) = {Hash(n)} /\ n = Len(cp)
          /\ scan' = [NoScan EXCEPT !.pred = cp] /\ pc' = "range"
       \/ /\ StoredAt(n) = {Hash(n)} /\ n # Len(cp)
          /\ scan' = [NoScan EXCEPT !.to = n] /\ pc' = "rollback"
  BY DEF CompareNext
<1>12. \A r \in store.ranges : r.to \in Nat
  BY <1>1, Fields
<1> HIDE DEF n
<1>13. CASE StoredAt(n) # {Hash(n)} /\ scan' = [scan EXCEPT !.walk = @ \ {n}] /\ pc' = "walk"
  <2>1. scan \in Scan /\ scan.walk \in SUBSET Nat
    BY <1>1, Fields DEF TypeOK
  <2>2. scan' = [pred |-> scan.pred, to |-> scan.to, logs |-> scan.logs, anchors |-> scan.anchors,
                 walk |-> scan.walk \ {n}, torn |-> scan.torn]
    BY <1>13, <2>1 DEF Scan
  <2>3. scan' \in Scan
    BY <2>1, <2>2 DEF Scan
  <2>4. /\ scan'.pred = scan.pred /\ scan'.to = scan.to /\ scan'.logs = scan.logs
        /\ scan'.anchors = scan.anchors /\ scan'.walk = scan.walk \ {n} /\ From' = From
    BY <2>2 DEF From, FromOf
  <2>5. WalkOK'
    BY <1>2, <1>4, <1>6, <1>10, <1>13, <2>4 DEF WalkOK
  <2>6. RollbackOK' /\ BatchOK' /\ pc' \in Steps
    BY <1>1, <1>2, <1>13, <2>4 DEF RollbackOK, BatchOK, Seen, Steps
  <2>7. StoreInv' /\ (~ misread => BranchOK')
    BY <1>1, <1>2, <1>3, <2>3, <2>4, <2>5, <2>6, ScanStep
  <2>8. TrustOK' /\ LogsOK' /\ FenceOK'
    BY <1>13 DEF TrustOK, LogsOK, FenceOK
  <2> QED
    BY <1>2, <2>7, <2>8 DEF IndexInv, LogInv
<1>14. CASE /\ StoredAt(n) = {Hash(n)} /\ n = Len(cp)
            /\ scan' = [NoScan EXCEPT !.pred = cp] /\ pc' = "range"
  <2>1. scan' = [pred |-> cp, to |-> 0, logs |-> {}, anchors |-> {}, walk |-> {}, torn |-> FALSE]
    BY <1>14, NoScanIs
  <2>2. scan' \in Scan
    BY <1>3, <2>1 DEF Scan
  <2>3. scan'.pred = cp /\ scan'.logs = {} /\ scan'.anchors = {} /\ pc' \in Steps
    BY <1>14, <2>1 DEF Steps
  <2>4. WalkOK' /\ RollbackOK' /\ BatchOK'
    BY <1>2, <1>14, <2>3 DEF WalkOK, RollbackOK, BatchOK
  <2>5. StoreInv' /\ (~ misread => BranchOK')
    BY <1>1, <1>2, <1>3, <2>2, <2>3, <2>4, ScanStep
  <2>6. OnChain(cp)
    <3>1. cp \in StoredAt(Len(cp))
      BY <1>1, <1>6, StoredIs
    <3>2. cp = g
      BY <1>9, <1>14, <3>1
    <3> QED
      BY <1>9, <1>10, <1>14, <3>2 DEF OffChain
  <2>7. TrustOK' /\ LogsOK' /\ FenceOK'
    BY <1>2, <1>14, <2>3, <2>6 DEF TrustOK, LogsOK, FenceOK, OnChain
  <2> QED
    BY <1>2, <2>5, <2>7 DEF IndexInv, LogInv
<1>15. CASE /\ StoredAt(n) = {Hash(n)} /\ n # Len(cp)
            /\ scan' = [NoScan EXCEPT !.to = n] /\ pc' = "rollback"
  <2>1. /\ scan' = [pred |-> <<>>, to |-> n, logs |-> {}, anchors |-> {}, walk |-> {}, torn |-> FALSE]
        /\ <<>> \in Branch
    BY <1>15, NoScanIs, EmptySeq DEF Branch
  <2>2. scan' \in Scan
    BY <1>3, <1>8, <2>1 DEF Scan
  <2>3. scan'.to = n /\ scan'.logs = {} /\ scan'.anchors = {} /\ pc' \in Steps
    BY <1>15, <2>1 DEF Steps
  <2>4. \A r \in store.ranges : r.to > n => OffChain(r.to)
    BY <1>3, <1>6, <1>7, <1>8, <1>12
  <2>5. n < Len(cp)
    BY <1>3, <1>8, <1>15
  <2>6. RollbackOK'
    BY <1>2, <1>4, <1>8, <2>3, <2>4, <2>5 DEF RollbackOK
  <2>7. WalkOK' /\ BatchOK'
    BY <1>15, <2>3 DEF WalkOK, BatchOK
  <2>8. StoreInv' /\ (~ misread => BranchOK')
    BY <1>1, <1>2, <1>3, <2>2, <2>3, <2>6, <2>7, ScanStep
  <2>9. \A h \in StoredAt(n) : OnChain(h)
    BY <1>9, <1>10, <1>15 DEF OffChain
  <2>10. TrustOK' /\ LogsOK' /\ FenceOK'
    BY <1>2, <1>4, <1>15, <2>3, <2>9 DEF TrustOK, LogsOK, FenceOK, OnChain
  <2> QED
    BY <1>2, <2>8, <2>10 DEF IndexInv, LogInv
<1> QED
  BY <1>11, <1>13, <1>14, <1>15

\* A walk back without an ancestor has passed every range.
LEMMA NoAncestorKeeps ==
    ASSUME IndexInv, NoAncestor
    PROVE  IndexInv'
<1> DEFINE cp == store.checkpoint
<1>1. StoreInv /\ LogInv /\ TypeOK /\ HeadersOK /\ RangesOK /\ WalkOK
  BY DEF IndexInv, StoreInv
<1>2. /\ UNCHANGED <<chain, reorgs, crashes, store, mode, jobs, misread>>
      /\ pc = "walk" /\ scan.walk = {} /\ scan' = NoScan /\ pc' = "rollback"
  BY DEF NoAncestor
<1>3. crashes' \in Nat /\ mode' \in Modes /\ cp \in Branch /\ Len(cp) \in Nat
  BY <1>1, <1>2, Fields DEF TypeOK
<1>4. Compared' = Compared /\ (\A m : OffChain(m)' <=> OffChain(m)) /\ \A m : StoredAt(m)' = StoredAt(m)
  BY <1>2, StoreUnmoved DEF OffChain, OnChain
<1>5. scan' \in Scan /\ scan'.to = 0 /\ scan'.logs = {} /\ scan'.anchors = {} /\ pc' \in Steps
  BY <1>2, NoScanIs DEF Steps
<1>6. 0 < Len(cp) /\ \A r \in store.ranges : OffChain(r.to)
  <2>1. cp # <<>> /\ \A r \in store.ranges : OffChain(r.to)
    BY <1>1, <1>2 DEF WalkOK
  <2> QED
    BY <1>3, <2>1, PrefixOrder
<1>7. RollbackOK'
  BY <1>2, <1>4, <1>5, <1>6 DEF RollbackOK
<1>8. WalkOK' /\ BatchOK'
  BY <1>2, <1>5 DEF WalkOK, BatchOK
<1>9. StoreInv' /\ (~ misread => BranchOK')
  BY <1>1, <1>2, <1>3, <1>5, <1>7, <1>8, ScanStep
<1>10. StoredAt(0) = {}
  BY <1>1, StoredIs
<1>11. TrustOK' /\ LogsOK' /\ FenceOK'
  BY <1>2, <1>4, <1>5, <1>10 DEF TrustOK, LogsOK, FenceOK
<1> QED
  BY <1>2, <1>9, <1>11 DEF IndexInv, LogInv

\* The range of a batch lies within the chain.
LEMMA DiscoverKeeps ==
    ASSUME IndexInv, Discover
    PROVE  IndexInv'
<1> DEFINE safeHead == Len(chain) - Confirmations
           to == Min({From + BatchSize - 1, safeHead})
           found == \E seen \in Answers("discovery", LogsOf("created", From, to)) :
                      scan' = [scan EXCEPT !.to = to, !.logs = seen]
<1>5. found => \E seen \in {{}, LogsOf("created", From, to)} :
                 scan' = [scan EXCEPT !.to = to, !.logs = seen]
  BY DEF Answers
<1>0. /\ pc = "range" /\ UNCHANGED <<chain, reorgs, crashes, mode, jobs, misread>>
      /\ \/ From > safeHead /\ Abandon
         \/ From <= safeHead /\ found /\ pc' = "logs" /\ UNCHANGED store
  BY Zenon DEF Discover
<1> HIDE DEF found, to
<1>1. /\ StoreInv /\ LogInv /\ TypeOK /\ ChainOK /\ HeadersOK /\ RangesOK /\ BatchOK
      /\ UNCHANGED <<chain, reorgs, crashes, store, mode, jobs, misread>> /\ pc = "range"
  BY <1>0 DEF IndexInv, StoreInv, Abandon
<1>2. crashes' \in Nat /\ mode' \in Modes
  BY <1>1 DEF TypeOK
<1>3. CASE From > safeHead /\ Abandon
  <2>1. pc' = "idle" /\ scan' = NoScan
    BY <1>3 DEF Abandon
  <2> QED
    BY <1>1, <1>2, <2>1, IdleKeeps
<1>4. CASE From <= safeHead /\ pc' = "logs" /\ found
  <2>1. PICK seen \in {{}, LogsOf("created", From, to)} :
          scan' = [scan EXCEPT !.to = to, !.logs = seen]
    BY <1>4, <1>5
  <2>2. /\ chain \in Branch /\ Len(chain) \in Nat /\ From \in Nat /\ From >= 1
        /\ Confirmations \in Nat /\ BatchSize \in Nat \ {0}
    BY <1>1, Fields, IndexerAssumption DEF TypeOK
  <2>3. PICK t \in Int : t = to
    <3>1. From + BatchSize - 1 \in Int /\ safeHead \in Int
      BY <2>2
    <3> QED
      BY <3>1, MinOfTwo DEF to
  <2>4. From <= t /\ t \in 0..Len(chain) /\ t \in Nat
    <3>1. From + BatchSize - 1 \in Int /\ safeHead \in Int
      BY <2>2
    <3>2. t <= safeHead /\ t \in {From + BatchSize - 1, safeHead}
      BY <2>3, <3>1, MinOfTwo DEF to
    <3>3. From <= t
      BY <1>4, <2>2, <3>2
    <3> QED
      BY <2>2, <3>2, <3>3
  <2>5. "created" \in Kinds /\ From \in Nat \ {0}
    BY <2>2 DEF Kinds
  <2>6. \A l \in seen : EventOf(l, chain) /\ Len(l.hash) \in From..t
    BY <2>1, <2>2, <2>3, <2>4, <2>5, LogsOfAre
  <2>7. seen \in SUBSET Event /\ \A l \in seen : l.kind \in l.hash[Len(l.hash)].logs
    BY <2>6 DEF EventOf
  <2>8. scan \in Scan
    BY <1>1 DEF TypeOK
  <2>9. scan' = [pred |-> scan.pred, to |-> t, logs |-> seen, anchors |-> scan.anchors,
                 walk |-> scan.walk, torn |-> scan.torn]
    BY <2>1, <2>3, <2>8 DEF Scan
  <2>10. scan' \in Scan /\ pc' \in Steps
    BY <1>4, <2>4, <2>7, <2>8, <2>9 DEF Scan, Steps
  <2>11. /\ scan'.pred = scan.pred /\ scan'.to = t /\ scan'.logs = seen
         /\ scan'.anchors = scan.anchors /\ scan'.torn = scan.torn /\ From' = From
    BY <2>9 DEF From, FromOf
  <2>12. scan.pred = store.checkpoint /\ scan.logs = {} /\ scan.anchors = {}
    BY <1>1 DEF BatchOK
  <2>13. \A l \in seen : Seen(l.hash)
    BY <1>1, <2>6, EventSeen
  <2>14. BatchOK'
    BY <1>1, <1>4, <2>2, <2>4, <2>6, <2>7, <2>11, <2>12, <2>13 DEF BatchOK, Seen
  <2>15. WalkOK' /\ RollbackOK'
    BY <1>4 DEF WalkOK, RollbackOK
  <2>16. StoreInv' /\ (~ misread => BranchOK')
    BY <1>1, <1>2, <2>10, <2>11, <2>12, <2>14, <2>15, ScanStep
  <2>17. ASSUME ~ misread, ~ scan.torn
         PROVE  TrustOK' /\ LogsOK' /\ FenceOK'
    <3>1. mode = "sparse" => OnChain(scan.pred)
      BY <1>1, <2>12, <2>17 DEF LogInv, TrustOK
    <3> QED
      BY <1>1, <1>4, <2>11, <3>1 DEF TrustOK, LogsOK, FenceOK, OnChain
  <2> QED
    BY <1>1, <2>11, <2>16, <2>17 DEF IndexInv, LogInv
<1> QED
  BY <1>0, <1>3, <1>4

\* The scan reads within the chain.
LEMMA ScanWithin ==
    ASSUME TypeOK, BatchOK, pc \in {"logs", "late", "anchors", "fence"}
    PROVE  /\ chain \in Branch /\ Len(chain) \in Nat
           /\ From \in Nat \ {0} /\ From = Len(scan.pred) + 1 /\ Len(scan.pred) \in Nat
           /\ scan.to \in 1..Len(chain) /\ scan.to \in Nat /\ From <= scan.to
           /\ \A l \in scan.logs : Len(l.hash) \in From..scan.to
BY Fields DEF TypeOK, BatchOK

\* Logs of the chain, all that were asked for or not, make a batch that is
\* torn when they are not; all of them keep what holds of one that is not.
LEMMA LogsRead ==
    ASSUME IndexInv, UNCHANGED <<chain, reorgs, crashes, store, mode, jobs, misread>>,
           pc \in {"logs", "late"}, pc' \in {"late", "anchors"}, NEW all, NEW logs \in SUBSET all,
           NEW t \in BOOLEAN, t <=> scan.torn \/ logs # all,
           \A l \in all : EventOf(l, chain) /\ Len(l.hash) \in From..scan.to,
           scan' = [scan EXCEPT !.logs = @ \cup logs, !.torn = t],
           logs = all /\ pc' = "late" => \E l \in logs : l.kind = "created",
           /\ ~ misread /\ logs = all /\ pc' = "anchors"
           /\ LogInv /\ ~ scan.torn
           /\ OnChain(scan.pred) /\ \A l \in scan.logs : OnChain(l.hash)
           => \A e : EventOf(e, chain) /\ Len(e.hash) \in From..scan.to => e \in scan.logs \cup logs
    PROVE  IndexInv'
<1>1. StoreInv /\ LogInv /\ TypeOK /\ ChainOK /\ HeadersOK /\ RangesOK /\ BatchOK
  BY DEF IndexInv, StoreInv
<1>2. scan \in Scan /\ scan.logs \in SUBSET Event /\ scan.torn \in BOOLEAN
  BY <1>1, Fields DEF TypeOK
<1>3. logs \in SUBSET Event /\ \A l \in logs : l.kind \in l.hash[Len(l.hash)].logs
  BY DEF EventOf
<1>5. scan' = [pred |-> scan.pred, to |-> scan.to, logs |-> scan.logs \cup logs, anchors |-> scan.anchors,
               walk |-> scan.walk, torn |-> t]
  BY <1>2 DEF Scan
<1>6. scan' \in Scan /\ pc' \in Steps
  BY <1>2, <1>3, <1>5 DEF Scan, Steps
<1>7. /\ scan'.pred = scan.pred /\ scan'.to = scan.to /\ scan'.logs = scan.logs \cup logs
      /\ scan'.anchors = scan.anchors /\ From' = From /\ scan'.torn = t
  <2>1. From = Len(scan.pred) + 1
    BY <1>1, Fields
  <2> QED
    BY ONLY <1>5, <2>1, ScanFields
<1>8. scan.anchors = {} /\ scan.pred = store.checkpoint
  BY <1>1 DEF BatchOK
<1>9. \A l \in logs : Seen(l.hash)
  BY <1>1, EventSeen
<1>10. BatchOK'
  BY <1>1, <1>3, <1>7, <1>8, <1>9 DEF BatchOK, Seen
<1>11. WalkOK' /\ RollbackOK'
  BY DEF WalkOK, RollbackOK
<1>12. crashes' \in Nat /\ mode' \in Modes
  BY <1>1 DEF TypeOK
<1>13. StoreInv' /\ (~ misread => BranchOK')
  BY <1>1, <1>6, <1>7, <1>10, <1>11, <1>12, ScanStep
<1>14. ASSUME ~ misread, ~ t
       PROVE  TrustOK' /\ LogsOK' /\ FenceOK'
  <2>1. ~ scan.torn /\ logs = all
    BY <1>14
  <2>2. TrustOK
    BY <1>1, <1>14, <2>1 DEF LogInv
  <2>3. mode = "sparse" /\ (\A l \in scan.logs : OnChain(l.hash)) => OnChain(scan.pred)
    BY <2>2 DEF TrustOK
  <2>4. TrustOK'
    BY <1>7, <2>3 DEF TrustOK, OnChain
  <2>5. ASSUME pc' = "anchors", LooksSound'
        PROVE  OnChain(scan.pred) /\ Complete'
    <3>1. \A l \in scan.logs : OnChain(l.hash)
      BY <1>7, <1>8, <2>5 DEF LooksSound, OnChain
    <3>2. OnChain(scan.pred)
      <4>1. CASE mode = "sparse"
        BY <2>3, <3>1, <4>1
      <4>2. CASE mode # "sparse"
        BY <1>7, <2>5, <4>2 DEF LooksSound, OnChain
      <4> QED
        BY <4>1, <4>2
    <3>3. \A e : EventOf(e, chain) /\ Len(e.hash) \in From..scan.to => e \in scan.logs \cup logs
      BY <1>1, <1>14, <2>1, <2>5, <3>1, <3>2
    <3> QED
      BY <1>7, <3>2, <3>3 DEF Complete, EventOf
  <2>6. LogsOK'
    BY <1>7, <1>8, <2>1, <2>5 DEF LogsOK, OnChain
  <2>7. FenceOK'
    BY DEF FenceOK
  <2> QED
    BY <2>4, <2>6, <2>7
<1> QED
  BY <1>7, <1>13, <1>14 DEF IndexInv, LogInv

\* A creation on the branch below the batch is registered.
LEMMA CreationBelow ==
    ASSUME TypeOK, BranchOK, NEW m \in 1..Len(store.checkpoint),
           "created" \in store.checkpoint[m].logs
    PROVE  Registered
<1>1. store.checkpoint \in Branch
  BY Fields
<1> DEFINE e == [hash |-> Cut(store.checkpoint, m), kind |-> "created"]
<1>2. EventOf(e, store.checkpoint)
  BY <1>1, EventAt
<1>3. e.kind = "created"
  OBVIOUS
<1> HIDE DEF e
<1>4. e \in Index!EventsOn(store.checkpoint)
  BY <1>1, <1>2, EventsAre
<1>5. e \in store.events
  BY <1>4 DEF BranchOK
<1> QED
  BY <1>3, <1>5 DEF Registered


\* A vault that trades was created before, so that the query of the vaults
\* known misses no trade of a range that creates none.
LEMMA ReadLogsKeeps ==
    ASSUME IndexInv, ReadLogs
    PROVE  IndexInv'
<1> DEFINE known == Registered \/ scan.logs # {}
           created == LogsOf("created", From, scan.to)
           traded == LogsOf("traded", From, scan.to)
           all == created \cup (IF known THEN traded ELSE {})
           read == \E logs \in Answers("logs", all) :
                     /\ scan' = [scan EXCEPT !.logs = @ \cup logs, !.torn = @ \/ logs # all]
                     /\ pc' = IF ~known /\ logs # {} THEN "late" ELSE "anchors"
<1>1. read => \E logs \in {{}, all} :
                /\ scan' = [scan EXCEPT !.logs = @ \cup logs, !.torn = @ \/ logs # all]
                /\ pc' = IF ~known /\ logs # {} THEN "late" ELSE "anchors"
  BY DEF Answers
<1>2. UNCHANGED <<chain, reorgs, crashes, store, mode, jobs, misread>> /\ pc = "logs" /\ read
  BY Zenon DEF ReadLogs
<1> HIDE DEF read, all
<1>3. PICK logs \in {{}, all} :
         /\ scan' = [scan EXCEPT !.logs = @ \cup logs, !.torn = @ \/ logs # all]
         /\ pc' = IF ~known /\ logs # {} THEN "late" ELSE "anchors"
  BY <1>1, <1>2
<1>4. PICK t \in BOOLEAN : t <=> scan.torn \/ logs # all
  OBVIOUS
<1>5. /\ StoreInv /\ TypeOK /\ ChainOK /\ BatchOK
      /\ UNCHANGED <<chain, reorgs, crashes, store, mode, jobs, misread>> /\ pc = "logs"
  BY <1>2 DEF IndexInv, StoreInv
<1>6. scan' = [scan EXCEPT !.logs = @ \cup logs, !.torn = t]
  <2>1. scan \in Scan /\ scan.torn \in BOOLEAN
    BY <1>5, Fields DEF TypeOK
  <2>2. (scan.torn \/ logs # all) = t
    BY <1>4, <2>1
  <2> QED
    BY <1>3, <2>2
<1>7. /\ chain \in Branch /\ Len(chain) \in Nat
      /\ From \in Nat \ {0} /\ From = Len(scan.pred) + 1 /\ Len(scan.pred) \in Nat
      /\ scan.to \in 1..Len(chain) /\ scan.to \in Nat /\ From <= scan.to
  BY <1>5, ScanWithin
<1>8. "created" \in Kinds /\ "traded" \in Kinds /\ scan.to \in 0..Len(chain)
  BY <1>7 DEF Kinds
<1>9. /\ \A l : l \in created <=> EventOf(l, chain) /\ l.kind = "created" /\ Len(l.hash) \in From..scan.to
      /\ \A l : l \in traded <=> EventOf(l, chain) /\ l.kind = "traded" /\ Len(l.hash) \in From..scan.to
  BY <1>7, <1>8, LogsOfAre
<1> HIDE DEF created, traded
<1>10. \A l \in all : EventOf(l, chain) /\ Len(l.hash) \in From..scan.to
  BY <1>9 DEF all
<1>11. ASSUME ~ misread, LogInv, ~ known, NEW e, EventOf(e, chain), Len(e.hash) \in From..scan.to,
              e.kind = "traded", OnChain(scan.pred), created = {}
       PROVE  FALSE
  <2>1. PICK n \in 1..Len(chain) : n = Len(e.hash) /\ "traded" \in chain[n].logs
    BY <1>7, <1>11, EventIs
  <2>2. n \in DOMAIN chain
    BY <1>7, LenProperties DEF Branch
  <2>3. PICK m \in 1..n : "created" \in chain[m].logs
    BY <1>5, <2>1, <2>2 DEF ChainOK, ValidChain
  <2>4. m \in 1..Len(chain) /\ m <= scan.to
    BY <1>7, <1>11, <2>1
  <2>5. CASE m >= From
    <3> DEFINE l == [hash |-> Cut(chain, m), kind |-> "created"]
    <3>1. EventOf(l, chain)
      BY <1>7, <2>3, <2>4, EventAt
    <3>2. Len(Cut(chain, m)) = m
      BY <1>7, <2>4, CutHolds
    <3>3. l.hash = Cut(chain, m) /\ l.kind = "created"
      OBVIOUS
    <3> HIDE DEF l
    <3>4. Len(l.hash) \in From..scan.to
      BY <1>7, <2>4, <2>5, <3>2, <3>3
    <3>5. l \in created
      BY <1>9, <3>1, <3>3, <3>4
    <3> QED
      BY <1>11, <3>5
  <2>6. CASE m < From
    <3>1. m \in 1..Len(scan.pred)
      BY <1>7, <2>3, <2>4, <2>6
    <3>2. scan.pred = store.checkpoint /\ scan.pred \in Branch /\ BranchOK
      BY <1>5, <1>11, Fields DEF BatchOK, LogInv
    <3>3. scan.pred[m] = chain[m]
      BY <1>7, <1>11, <3>1, <3>2, PrefixHolds DEF OnChain
    <3>4. Registered
      BY <1>5, <2>3, <3>1, <3>2, <3>3, CreationBelow
    <3> QED
      BY <1>11, <3>4
  <2> QED
    BY <1>7, <2>4, <2>5, <2>6
<1>12. ASSUME logs = all, pc' = "late"
       PROVE  \E l \in logs : l.kind = "created"
  <2>1. ~ known /\ all # {}
    BY <1>3, <1>12
  <2> QED
    BY <1>9, <1>12, <2>1 DEF all
<1>13. ASSUME ~ misread, logs = all, pc' = "anchors", LogInv, OnChain(scan.pred),
              NEW e, EventOf(e, chain), Len(e.hash) \in From..scan.to
       PROVE  e \in all
  <2>1. e.kind \in Kinds
    BY <1>13 DEF EventOf, Event
  <2>2. CASE e.kind = "created"
    BY <1>9, <1>13, <2>2 DEF all
  <2>3. CASE e.kind = "traded"
    <3>1. CASE known
      BY <1>9, <1>13, <2>3, <3>1 DEF all
    <3>2. CASE ~ known
      <4>1. created = {}
        BY <1>3, <1>13, <3>2 DEF all
      <4> QED
        BY <1>11, <1>13, <2>3, <3>2, <4>1
    <3> QED
      BY <3>1, <3>2
  <2> QED
    BY <2>1, <2>2, <2>3 DEF Kinds
<1>14. logs \in SUBSET all /\ pc' \in {"late", "anchors"} /\ pc \in {"logs", "late"}
  BY <1>2, <1>3
<1> HIDE DEF known
<1>15. /\ ~ misread /\ logs = all /\ pc' = "anchors"
       /\ LogInv /\ ~ scan.torn
       /\ OnChain(scan.pred) /\ \A l \in scan.logs : OnChain(l.hash)
       => \A e : EventOf(e, chain) /\ Len(e.hash) \in From..scan.to => e \in scan.logs \cup logs
  BY <1>13
<1>16. logs = all /\ pc' = "late" => \E l \in logs : l.kind = "created"
  BY <1>12
<1> QED
  BY <1>4, <1>5, <1>6, <1>10, <1>14, <1>15, <1>16, LogsRead, Zenon

\* There is one creation: the one that was seen is the only one there can be
\* as long as it is canonical.
LEMMA ReadLateLogsKeeps ==
    ASSUME IndexInv, ReadLateLogs
    PROVE  IndexInv'
<1> DEFINE all == LogsOf("traded", From, scan.to)
           read == \E logs \in Answers("late", all) :
                     scan' = [scan EXCEPT !.logs = @ \cup logs, !.torn = @ \/ logs # all]
<1>1. read => \E logs \in {{}, all} :
                scan' = [scan EXCEPT !.logs = @ \cup logs, !.torn = @ \/ logs # all]
  BY DEF Answers
<1>2. /\ UNCHANGED <<chain, reorgs, crashes, store, mode, jobs, misread>> /\ pc = "late" /\ read
      /\ pc' = "anchors"
  BY Zenon DEF ReadLateLogs
<1> HIDE DEF read, all
<1>3. PICK logs \in {{}, all} :
         scan' = [scan EXCEPT !.logs = @ \cup logs, !.torn = @ \/ logs # all]
  BY <1>1, <1>2
<1>4. PICK t \in BOOLEAN : t <=> scan.torn \/ logs # all
  OBVIOUS
<1>5. StoreInv /\ TypeOK /\ ChainOK /\ BatchOK
  BY DEF IndexInv, StoreInv
<1>6. scan' = [scan EXCEPT !.logs = @ \cup logs, !.torn = t]
  <2>1. scan \in Scan /\ scan.torn \in BOOLEAN
    BY <1>5, Fields DEF TypeOK
  <2>2. (scan.torn \/ logs # all) = t
    BY <1>4, <2>1
  <2> QED
    BY <1>3, <2>2
<1>7. /\ chain \in Branch /\ Len(chain) \in Nat
      /\ From \in Nat \ {0} /\ From = Len(scan.pred) + 1 /\ Len(scan.pred) \in Nat
      /\ scan.to \in 1..Len(chain) /\ scan.to \in Nat /\ From <= scan.to
  BY <1>2, <1>5, ScanWithin
<1>8. "traded" \in Kinds /\ scan.to \in 0..Len(chain)
  BY <1>7 DEF Kinds
<1>9. \A l : l \in all <=> EventOf(l, chain) /\ l.kind = "traded" /\ Len(l.hash) \in From..scan.to
  BY <1>7, <1>8, LogsOfAre DEF all
<1>10. \A l \in all : EventOf(l, chain) /\ Len(l.hash) \in From..scan.to
  BY <1>9
<1>11. ASSUME ~ misread, logs = all, LogInv, ~ scan.torn, \A l \in scan.logs : OnChain(l.hash),
              NEW e, EventOf(e, chain), Len(e.hash) \in From..scan.to
       PROVE  e \in scan.logs \cup logs
  <2>1. e.kind \in Kinds
    BY <1>11 DEF EventOf, Event
  <2>2. CASE e.kind = "traded"
    BY <1>9, <1>11, <2>2
  <2>3. CASE e.kind = "created"
    <3>1. PICK l \in scan.logs : l.kind = "created"
      BY <1>2, <1>11 DEF LogInv, LogsOK
    <3>2. EventOf(l, chain)
      <4>1. l \in Event /\ OnChain(l.hash) /\ l.kind \in l.hash[Len(l.hash)].logs
        BY <1>5, <1>11, <3>1, Fields DEF BatchOK
      <4>2. Len(l.hash) >= 1
        BY <1>2, <1>5, <1>7, <3>1, ScanWithin
      <4> QED
        BY <4>1, <4>2 DEF EventOf, OnChain
    <3>3. PICK m \in 1..Len(chain) : /\ m = Len(l.hash) /\ "created" \in chain[m].logs
                                     /\ l = [hash |-> Cut(chain, m), kind |-> "created"]
      BY <1>7, <3>1, <3>2, EventIs
    <3>4. PICK n \in 1..Len(chain) : /\ n = Len(e.hash) /\ "created" \in chain[n].logs
                                     /\ e = [hash |-> Cut(chain, n), kind |-> "created"]
      BY <1>7, <1>11, <2>3, EventIs
    <3>5. m \in DOMAIN chain /\ n \in DOMAIN chain
      BY <1>7, LenProperties DEF Branch
    <3>6. m = n
      <4>1. CASE m < n
        <5>1. m \in 1..(n - 1)
          BY <1>7, <4>1
        <5> QED
          BY <1>5, <3>3, <3>4, <3>5, <5>1 DEF ChainOK, ValidChain
      <4>2. CASE n < m
        <5>1. n \in 1..(m - 1)
          BY <1>7, <4>2
        <5> QED
          BY <1>5, <3>3, <3>4, <3>5, <5>1 DEF ChainOK, ValidChain
      <4> QED
        BY <1>7, <4>1, <4>2
    <3> QED
      BY <3>1, <3>3, <3>4, <3>6
  <2> QED
    BY <2>1, <2>2, <2>3 DEF Kinds
<1>12. /\ logs \in SUBSET all /\ pc' \in {"late", "anchors"} /\ pc \in {"logs", "late"}
       /\ logs = all /\ pc' = "late" => \E l \in logs : l.kind = "created"
  BY <1>2, <1>3
<1>13. /\ ~ misread /\ logs = all /\ pc' = "anchors"
       /\ LogInv /\ ~ scan.torn
       /\ OnChain(scan.pred) /\ \A l \in scan.logs : OnChain(l.hash)
       => \A e : EventOf(e, chain) /\ Len(e.hash) \in From..scan.to => e \in scan.logs \cup logs
  BY <1>11
<1> QED
  BY <1>2, <1>4, <1>6, <1>10, <1>12, <1>13, LogsRead, Zenon

\* Headers that link to each other and to what the batch continues, the last
\* one of the chain, are all of the chain: the highest one that is not would
\* be the parent of one that is.
LEMMA LineageHolds ==
    ASSUME chain \in Branch, NEW anchors \in SUBSET Branch, NEW p \in Branch, NEW to \in Nat,
           Len(p) < to, \A n \in (Len(p) + 1)..to : \E a \in anchors : Len(a) = n,
           \A a \in anchors : Len(a) \in (Len(p) + 1)..to,
           \A a \in anchors : Len(a) = to => OnChain(a),
           Lineage(anchors, p)
    PROVE  OnChain(p) /\ \A a \in anchors : OnChain(a)
<1>1. Len(p) \in Nat /\ \A a \in anchors : a \in Branch /\ Len(a) \in Nat
  BY BranchHas
<1>2. ASSUME NEW a \in anchors \cup {p}, NEW b \in anchors, Len(b) = Len(a) + 1, OnChain(b)
      PROVE  OnChain(a)
  <2>1. a \in Branch /\ b \in Branch /\ Len(a) \in Nat
    BY <1>1
  <2>2. a = Cut(b, Len(b) - 1)
    <3>1. Parent(b) = a
      BY <1>2, Zenon DEF Lineage
    <3> QED
      BY <2>1, <3>1, ParentIsCut
  <2>3. Len(b) - 1 \in 0..Len(b)
    BY <1>2, <2>1
  <2>4. IsPrefix(a, b)
    BY <2>1, <2>2, <2>3, Cuts
  <2> QED
    BY <1>2, <2>1, <2>4, PrefixOrder DEF OnChain
<1> DEFINE lost == {Len(a) : a \in {c \in anchors : ~ OnChain(c)}}
<1>3. \A m : m \in lost <=> \E a \in anchors : m = Len(a) /\ ~ OnChain(a)
  OBVIOUS
<1> HIDE DEF lost
<1>4. lost = {}
  <2> SUFFICES ASSUME lost # {} PROVE FALSE
    OBVIOUS
  <2>1. lost \in SUBSET (0..to)
    BY <1>1, <1>3
  <2>2. PICK m \in lost : \A k \in lost : k <= m
    BY <2>1, MaxIs
  <2>3. PICK a \in anchors : m = Len(a) /\ ~ OnChain(a)
    BY <1>3, <2>2
  <2>4. m \in (Len(p) + 1)..to /\ m # to
    BY <2>3
  <2>5. m + 1 \in (Len(p) + 1)..to
    BY <1>1, <2>4
  <2>6. PICK b \in anchors : Len(b) = m + 1
    BY <2>5
  <2>7. OnChain(b)
    <3>1. m + 1 \notin lost
      BY <2>2, <2>4, <2>5
    <3> QED
      BY <1>3, <2>6, <3>1
  <2> QED
    BY <1>2, <2>3, <2>6, <2>7
<1>5. \A a \in anchors : OnChain(a)
  BY <1>3, <1>4
<1>6. OnChain(p)
  <2>1. Len(p) + 1 \in (Len(p) + 1)..to
    BY <1>1
  <2>2. PICK b \in anchors : Len(b) = Len(p) + 1
    BY <2>1
  <2> QED
    BY <1>2, <1>5, <2>2
<1> QED
  BY <1>5, <1>6

\* The headers a batch needs are of its range: all of them, if it is dense,
\* and its last one.
LEMMA AnchorHeightsAre ==
    ASSUME TypeOK, BatchOK, pc \in {"anchors", "fence"}
    PROVE  /\ AnchorHeights \subseteq From..scan.to /\ scan.to \in AnchorHeights
           /\ mode = "dense" => \A n \in From..scan.to : n \in AnchorHeights
           /\ mode \in {"dense", "sparse"}
<1>1. /\ From \in Nat \ {0} /\ scan.to \in Nat /\ From <= scan.to
      /\ \A l \in scan.logs : Len(l.hash) \in From..scan.to
  BY ScanWithin
<1>2. mode \in {"dense", "sparse"}
  BY IndexerAssumption DEF TypeOK
<1> QED
  BY <1>1, <1>2 DEF AnchorHeights

\* A header more, of the chain as it is: what the batch holds looks no sounder
\* than before.  With the last one, the batch is of one branch.
LEMMA ReadAnchorKeeps ==
    ASSUME IndexInv, NEW n \in AnchorHeights, ReadAnchor(n)
    PROVE  IndexInv'
<1> DEFINE anchors == scan.anchors \cup {Hash(n)}
           last    == AnchorHeights \ {Len(a) : a \in scan.anchors} = {n}
           good    == Lineage(anchors, scan.pred) /\ \A l \in scan.logs : l.hash \in anchors
<1>1. /\ pc = "anchors" /\ n \notin {Len(a) : a \in scan.anchors}
      /\ \/ last /\ ~good /\ Abandon
         \/ /\ last => good
            /\ scan' = [scan EXCEPT !.anchors = anchors]
            /\ pc' = IF last THEN "fence" ELSE "anchors"
            /\ UNCHANGED store
      /\ UNCHANGED <<chain, reorgs, crashes, mode, jobs, misread>>
  BY Zenon DEF ReadAnchor
<1> HIDE DEF last, good
<1>2. /\ StoreInv /\ LogInv /\ TypeOK /\ ChainOK /\ HeadersOK /\ RangesOK /\ BatchOK
      /\ UNCHANGED <<chain, reorgs, crashes, store, mode, jobs, misread>> /\ pc = "anchors"
  BY <1>1 DEF IndexInv, StoreInv, Abandon
<1>3. crashes' \in Nat /\ mode' \in Modes
  BY <1>2 DEF TypeOK
<1>4. CASE Abandon
  <2>1. pc' = "idle" /\ scan' = NoScan
    BY <1>4 DEF Abandon
  <2> QED
    BY <1>2, <1>3, <2>1, IdleKeeps
<1>5. CASE /\ last => good
           /\ scan' = [scan EXCEPT !.anchors = anchors]
           /\ pc' = IF last THEN "fence" ELSE "anchors"
  <2>1. /\ chain \in Branch /\ Len(chain) \in Nat
        /\ From \in Nat \ {0} /\ From = Len(scan.pred) + 1 /\ Len(scan.pred) \in Nat
        /\ scan.to \in 1..Len(chain) /\ scan.to \in Nat /\ From <= scan.to
        /\ \A l \in scan.logs : Len(l.hash) \in From..scan.to
    BY <1>2, ScanWithin
  <2>2. /\ AnchorHeights \subseteq From..scan.to /\ scan.to \in AnchorHeights
        /\ mode = "dense" => \A m \in From..scan.to : m \in AnchorHeights
        /\ mode \in {"dense", "sparse"}
    BY <1>2, AnchorHeightsAre
  <2>3. n \in From..scan.to /\ n \in 1..Len(chain)
    BY <2>1, <2>2
  <2>4. PICK g \in Branch : g = Hash(n) /\ Len(g) = n /\ OnChain(g) /\ Seen(g)
    BY <1>2, <2>3, HashSeen
  <2>5. \A a : a \in anchors <=> a \in scan.anchors \/ a = g
    BY <2>4
  <2> HIDE DEF anchors
  <2>6. \A a \in scan.anchors : /\ Len(a) # n /\ a \in Branch /\ Seen(a)
                                /\ Len(a) \in From..scan.to
    BY <1>1, <1>2, Fields DEF BatchOK
  <2>7. scan \in Scan /\ scan.pred = store.checkpoint /\ scan.pred \in Branch
    BY <1>2, Fields DEF TypeOK, BatchOK
  <2>8. scan' = [pred |-> scan.pred, to |-> scan.to, logs |-> scan.logs, anchors |-> anchors,
                 walk |-> scan.walk, torn |-> scan.torn]
    BY <1>5, <2>7 DEF Scan
  <2>9. anchors \in SUBSET Branch
    BY <2>5, <2>6
  <2>10. scan' \in Scan
    BY <2>7, <2>8, <2>9 DEF Scan
  <2>11. /\ scan'.pred = scan.pred /\ scan'.to = scan.to /\ scan'.logs = scan.logs
         /\ scan'.anchors = anchors /\ scan'.torn = scan.torn /\ From' = From
    BY ONLY <2>1, <2>8, ScanFields
  <2>12. AnchorHeights' = AnchorHeights
    BY <1>2, <2>11 DEF AnchorHeights
  <2>13. pc' \in {"anchors", "fence"} /\ (pc' = "fence" => last)
    BY <1>5
  <2>14. last => \A m \in AnchorHeights : \E a \in anchors : Len(a) = m
    <3> SUFFICES ASSUME last, NEW m \in AnchorHeights PROVE \E a \in anchors : Len(a) = m
      OBVIOUS
    <3>1. m = n \/ \E a \in scan.anchors : Len(a) = m
      BY DEF last
    <3> QED
      BY <2>4, <2>5, <3>1
  <2>15. \A a, b \in anchors : Len(a) = Len(b) => a = b
    BY <1>2, <2>4, <2>5, <2>6 DEF BatchOK
  <2>16. \A a \in anchors : Seen(a) /\ Len(a) \in From..scan.to
    BY <2>3, <2>4, <2>5, <2>6
  <2>17. BatchOK'
    BY <1>2, <2>11, <2>12, <2>13, <2>14, <2>15, <2>16 DEF BatchOK, Seen
  <2>18. WalkOK' /\ RollbackOK' /\ pc' \in Steps
    BY <2>13 DEF WalkOK, RollbackOK, Steps
  <2>19. StoreInv' /\ (~ misread => BranchOK')
    <3>1. \A a \in scan'.anchors : a \in scan.anchors \/ OnChain(a)
      BY <2>4, <2>5, <2>11
    <3> QED
      BY <1>2, <1>3, <2>10, <2>17, <2>18, <3>1, ScanStep
  <2>20. ASSUME ~ misread, ~ scan.torn, LooksSound
         PROVE  OnChain(scan.pred) /\ (\A a \in anchors : OnChain(a)) /\ Complete
    BY <1>2, <2>4, <2>5, <2>20 DEF LogInv, LogsOK
  <2>21. ASSUME LooksSound'
         PROVE  LooksSound
    BY <1>2, <2>4, <2>5, <2>11, <2>21 DEF LooksSound, OnChain
  <2>22. ASSUME ~ misread, ~ scan.torn
         PROVE  LogsOK'
    <3>1. LooksSound' => OnChain(scan.pred) /\ (\A a \in anchors : OnChain(a)) /\ Complete
      BY <2>20, <2>21, <2>22
    <3>2. Complete => Complete'
      BY <1>2, <2>11 DEF Complete, EventOf
    <3> QED
      BY <1>2, <2>11, <2>13, <3>1, <3>2 DEF LogsOK, OnChain
  <2>23. ASSUME ~ misread, ~ scan.torn, pc' = "fence",
                NEW h \in anchors, Len(h) = scan.to, OnChain(h)
         PROVE  PieceOf(h)'
    <3>1. good
      BY <1>5, <2>13, <2>23
    <3>2. h \in Branch /\ \A a \in anchors : Len(a) = scan.to => OnChain(a)
      BY <2>9, <2>15, <2>23
    <3>3. ASSUME mode # "sparse"
          PROVE  OnChain(scan.pred) /\ \A a \in anchors : OnChain(a)
      <4>1. \A m \in From..scan.to : \E a \in anchors : Len(a) = m
        BY <2>2, <2>13, <2>14, <2>23, <3>3
      <4>2. Lineage(anchors, scan.pred) /\ Len(scan.pred) < scan.to
        BY <2>1, <3>1 DEF good
      <4> QED
        BY <2>1, <2>7, <2>9, <2>16, <3>2, <4>1, <4>2, LineageHolds
    <3>4. LooksSound
      <4>1. \A l \in scan.logs : l.hash \in anchors
        BY <3>1 DEF good
      <4> QED
        BY <2>4, <2>5, <3>2, <3>3, <4>1 DEF LooksSound
    <3>5. OnChain(scan.pred) /\ (\A a \in anchors : OnChain(a)) /\ Complete
      BY <2>20, <2>23, <3>4
    <3>6. IsPrefix(scan.pred, h)
      BY <2>1, <2>7, <2>23, <3>2, <3>5, PrefixOrder DEF OnChain
    <3>7. \A a \in anchors : IsPrefix(a, h)
      <4> TAKE a \in anchors
      <4>1. a \in Branch /\ Len(a) <= Len(h) /\ OnChain(a)
        BY <2>1, <2>9, <2>16, <2>23, <3>5
      <4> QED
        BY <2>1, <2>23, <3>2, <4>1, PrefixOrder DEF OnChain
    <3>8. ASSUME NEW e \in scan.logs
          PROVE  EventOf(e, h) /\ Len(e.hash) >= From
      <4>1. e \in Event /\ e.hash \in anchors /\ Len(e.hash) \in From..scan.to
        BY <1>2, <2>1, <3>1, Fields DEF good
      <4>2. IsPrefix(e.hash, h) /\ e.kind \in e.hash[Len(e.hash)].logs
        BY <1>2, <3>7, <4>1 DEF BatchOK
      <4> QED
        BY <2>1, <4>1, <4>2 DEF EventOf
    <3>9. ASSUME NEW e, EventOf(e, h), Len(e.hash) >= From
          PROVE  e \in scan.logs
      <4>1. EventOf(e, chain) /\ Len(e.hash) <= Len(h)
        BY <2>1, <2>23, <3>2, <3>9, EventsOfCut DEF OnChain
      <4>2. Len(e.hash) \in From..scan.to
        <5>1. Len(e.hash) \in Nat
          BY <3>9, BranchHas DEF EventOf, Event
        <5> QED
          BY <2>1, <2>23, <3>9, <4>1, <5>1
      <4> QED
        BY <3>5, <4>1, <4>2 DEF Complete
    <3> QED
      BY <2>11, <3>6, <3>7, <3>8, <3>9 DEF PieceOf, EventOf
  <2>24. ASSUME ~ misread, ~ scan.torn
         PROVE  FenceOK'
    BY <1>2, <2>11, <2>23, <2>24 DEF FenceOK, OnChain
  <2>25. TrustOK'
    BY <2>13 DEF TrustOK
  <2> QED
    BY <1>2, <2>11, <2>19, <2>22, <2>24, <2>25 DEF IndexInv, LogInv
<1> QED
  BY <1>1, <1>4, <1>5

-----------------------------------------------------------------------------
(* The steps that change the store.                                        *)

\* A store with its headers and ranges, between batches or at the range of the
\* next one.
LEMMA StoreChanged ==
    ASSUME StoreInv, UNCHANGED <<chain, reorgs>>, TypeOK', HeadersOK', RangesOK', JobsOK',
           pc' \in {"idle", "range"}, scan'.logs = {}, scan'.anchors = {},
           pc' = "range" => scan'.pred = store'.checkpoint
    PROVE  StoreInv' /\ LogsOK' /\ FenceOK'
<1>1. ChainOK'
  BY DEF StoreInv, ChainOK, ValidChain
<1>2. WalkOK' /\ RollbackOK' /\ BatchOK' /\ LogsOK' /\ FenceOK'
  BY DEF WalkOK, RollbackOK, BatchOK, LogsOK, FenceOK
<1> QED
  BY <1>1, <1>2 DEF StoreInv

\* The newest header of the batch is the endpoint it is committed with.
LEMMA EndpointIs ==
    ASSUME TypeOK, BatchOK, pc = "fence"
    PROVE  LET endpoint == CHOOSE a \in scan.anchors : Len(a) = scan.to IN
           /\ endpoint \in scan.anchors /\ Len(endpoint) = scan.to
           /\ \A a \in scan.anchors : Len(a) = scan.to => a = endpoint
<1>1. \E a \in scan.anchors : Len(a) = scan.to
  BY AnchorHeightsAre DEF BatchOK
<1>2. \A a, b \in scan.anchors : Len(a) = Len(b) => a = b
  BY DEF BatchOK
<1> DEFINE endpoint == CHOOSE a \in scan.anchors : Len(a) = scan.to
<1>3. endpoint \in scan.anchors /\ Len(endpoint) = scan.to
  BY <1>1
<1> HIDE DEF endpoint
<1>4. \A a \in scan.anchors : Len(a) = scan.to => a = endpoint
  BY <1>2, <1>3
<1> QED
  BY <1>3, <1>4 DEF endpoint

\* What is stored of a batch is of the branch it is a piece of.
LEMMA PieceStored ==
    ASSUME TypeOK, BranchOK, scan.pred = store.checkpoint,
           NEW h \in Branch, PieceOf(h), Len(store.checkpoint) < Len(h)
    PROVE  /\ IsStrictPrefix(store.checkpoint, h)
           /\ \A b \in store.blocks \cup scan.anchors : IsPrefix(b, h)
           /\ store.events \cup scan.logs = Index!EventsOn(h)
<1> DEFINE cp == store.checkpoint
<1>1. /\ cp \in Branch /\ Len(cp) \in Nat /\ From = Len(cp) + 1
      /\ \A b \in store.blocks : b \in Branch
  BY Fields
<1>2. /\ IsPrefix(cp, h) /\ \A a \in scan.anchors : IsPrefix(a, h)
      /\ \A e : e \in scan.logs <=> EventOf(e, h) /\ Len(e.hash) >= From
  BY DEF PieceOf
<1>3. \A b \in store.blocks : IsPrefix(b, h)
  <2> TAKE b \in store.blocks
  <2>1. b \in Branch /\ IsPrefix(b, cp)
    BY <1>1 DEF BranchOK
  <2> QED
    BY <1>1, <1>2, <2>1, PrefixOrder
<1>4. \A e : e \in store.events \cup scan.logs <=> e \in Index!EventsOn(h)
  <2> TAKE e
  <2>1. e \in store.events <=> EventOf(e, cp)
    BY <1>1, EventsAre DEF BranchOK
  <2>2. EventOf(e, cp) <=> EventOf(e, h) /\ Len(e.hash) <= Len(cp)
    BY <1>1, <1>2, EventsOfCut
  <2>3. EventOf(e, h) => Len(e.hash) \in Nat
    BY BranchHas DEF EventOf, Event
  <2>4. e \in Index!EventsOn(h) <=> EventOf(e, h)
    BY EventsAre
  <2> QED
    BY <1>1, <1>2, <2>1, <2>2, <2>3, <2>4
<1>5. store.events \cup scan.logs = Index!EventsOn(h)
  BY <1>4
<1>6. IsStrictPrefix(cp, h)
  BY <1>1, <1>2 DEF IsStrictPrefix
<1> QED
  BY <1>2, <1>3, <1>5, <1>6

\* The store of a batch that is applied has its headers above all others and
\* its range above all others; unless it was misread, it extends the branch.
LEMMA CommitKeeps ==
    ASSUME IndexInv, Commit
    PROVE  /\ IndexInv'
           /\ \/ store' = store
              \/ misread'
              \/ IsStrictPrefix(store.checkpoint, store'.checkpoint)
           /\ Len(store.checkpoint) <= Len(store'.checkpoint)
           /\ misread => misread'
<1> DEFINE cp == store.checkpoint
           endpoint == CHOOSE a \in scan.anchors : Len(a) = scan.to
<1>1. /\ pc = "fence" /\ pc' = "idle" /\ scan' = NoScan
      /\ UNCHANGED <<chain, reorgs, crashes, mode, jobs>>
      /\ store' = IF OnChain(endpoint) /\ Appliable THEN Applied(endpoint) ELSE store
      /\ misread' = (misread \/ ((OnChain(endpoint) /\ Appliable) /\ scan.torn))
  BY DEF Commit
<1>2. StoreInv /\ LogInv /\ TypeOK /\ ChainOK /\ HeadersOK /\ RangesOK /\ BatchOK /\ JobsOK
  BY DEF IndexInv, StoreInv
<1>3. /\ endpoint \in scan.anchors /\ Len(endpoint) = scan.to
      /\ \A a \in scan.anchors : Len(a) = scan.to => a = endpoint
  BY <1>1, <1>2, EndpointIs
<1> HIDE DEF endpoint
<1>4. PICK h \in scan.anchors : h = endpoint /\ Len(h) = scan.to
  BY <1>3
<1>5. /\ misread \in BOOLEAN /\ scan.torn \in BOOLEAN /\ crashes' \in Nat /\ mode' \in Modes
      /\ cp \in Branch /\ Len(cp) \in Nat
  BY <1>1, <1>2, Fields DEF TypeOK
<1>6. CASE ~ (OnChain(h) /\ Appliable)
  <2>1. store' = store /\ misread' = misread
    BY <1>1, <1>4, <1>5, <1>6
  <2>2. IndexInv'
    BY <1>1, <1>5, <2>1, IdleKeeps
  <2> QED
    BY <1>5, <2>1, <2>2
<1>7. CASE OnChain(h) /\ Appliable
  <2>1. /\ chain \in Branch /\ Len(chain) \in Nat
        /\ From \in Nat \ {0} /\ From = Len(scan.pred) + 1 /\ Len(scan.pred) \in Nat
        /\ scan.to \in 1..Len(chain) /\ scan.to \in Nat /\ From <= scan.to
    BY <1>1, <1>2, ScanWithin
  <2>2. /\ store.blocks \in SUBSET Branch
        /\ store.ranges \in SUBSET Range_ /\ store.events \in SUBSET Event
        /\ scan.logs \in SUBSET Event /\ scan.anchors \in SUBSET Branch
        /\ \A r \in store.ranges : r.pred \in Branch /\ r.to \in Nat /\ Len(r.pred) \in Nat
                                     /\ FromOf(r) = Len(r.pred) + 1
        /\ h \in Branch /\ mode \in {"dense", "sparse"}
    BY <1>2, <1>4, Fields, IndexerAssumption DEF TypeOK
  <2>3. /\ scan.pred = cp /\ Len(cp) < scan.to
        /\ \A a \in scan.anchors : Seen(a) /\ Len(a) \in From..scan.to
        /\ \A a, b \in scan.anchors : Len(a) = Len(b) => a = b
        /\ \A n \in AnchorHeights : \E a \in scan.anchors : Len(a) = n
    BY <1>1, <1>2, <1>5, <2>1 DEF BatchOK
  <2> DEFINE new == [pred |-> cp, to |-> scan.to, mode |-> mode]
  <2>4. store' = [checkpoint |-> h, blocks |-> store.blocks \cup scan.anchors,
                  ranges |-> store.ranges \cup {new}, events |-> store.events \cup scan.logs]
    BY <1>1, <1>4, <1>7, <2>3 DEF Applied
  <2>5. new \in Range_ /\ new.pred = cp /\ new.to = scan.to /\ new.mode = mode
    BY <1>5, <2>1, <2>2 DEF Range_
  <2> HIDE DEF new
  <2>6. PICK t \in Nat : t = scan.to
    BY <2>1
  <2>7. PICK x \in Range_ : x = new
    BY <2>5
  <2>8. /\ store'.checkpoint = h /\ store'.blocks = store.blocks \cup scan.anchors
        /\ store'.ranges = store.ranges \cup {x} /\ store'.events = store.events \cup scan.logs
    BY <2>4, <2>7
  <2>9. /\ x.pred = cp /\ x.to = t /\ x.mode = mode /\ FromOf(x) = From /\ Len(h) = t
        /\ From = Len(cp) + 1
    BY <1>4, <2>1, <2>3, <2>5, <2>6, <2>7 DEF From, FromOf
  <2>10. TypeOK'
    <3>1. store' \in Store
      BY <2>2, <2>4, <2>5 DEF Store
    <3>2. NoScan \in Scan /\ misread' \in BOOLEAN
      BY <1>1, <1>5, NoScanIs
    <3> QED
      BY <1>1, <1>2, <3>1, <3>2 DEF TypeOK, Steps
  <2>11. HeadersOK'
    <3>1. \A b \in store.blocks : Seen(b) /\ Len(b) <= Len(cp) /\ Len(b) \in Nat
      BY <1>2, <2>2, BranchHas DEF HeadersOK
    <3>2. \A a \in scan.anchors : Seen(a) /\ Len(a) \in From..t
      BY <2>3, <2>6
    <3>3. \A b \in store.blocks \cup scan.anchors : Seen(b)' /\ Len(b) <= Len(h)
      <4> TAKE b \in store.blocks \cup scan.anchors
      <4>1. Seen(b) /\ Len(b) <= t
        BY <1>5, <2>1, <2>3, <2>6, <2>9, <3>1, <3>2
      <4> QED
        BY <1>1, <2>9, <4>1 DEF Seen
    <3>4. \A a \in store.blocks, b \in scan.anchors : Len(a) < Len(b)
      BY <1>5, <2>9, <3>1, <3>2
    <3>5. \A a, b \in store.blocks \cup scan.anchors : Len(a) = Len(b) => a = b
      <4>1. \A a, b \in store.blocks : Len(a) = Len(b) => a = b
        BY <1>2 DEF HeadersOK
      <4>2. \A a \in store.blocks, b \in scan.anchors : Len(a) # Len(b)
        BY <2>2, <3>1, <3>2, <3>4
      <4> QED
        BY <2>3, <4>1, <4>2
    <3> QED
      BY <1>4, <2>8, <3>3, <3>5 DEF HeadersOK
  <2>12. \A n : StoredAt(n) # {} => StoredAt(n)' # {}
    BY <2>8 DEF StoredAt
  <2>13. \A a \in scan.anchors : StoredAt(Len(a))' # {}
    BY <2>8 DEF StoredAt
  <2>14. ASSUME NEW r \in store.ranges
         PROVE  RangeOK(r)' /\ r.to <= Len(cp)
    <3>1. RangeOK(r) /\ r.to \in Nat
      BY <1>2, <2>2 DEF RangesOK
    <3>2. r.to <= Len(h) /\ r.to <= Len(cp)
      BY <1>5, <2>1, <2>3, <2>6, <2>9, <3>1 DEF RangeOK
    <3> QED
      BY <2>8, <2>12, <3>1, <3>2 DEF RangeOK, FromOf
  <2>15. RangeOK(x)'
    <3>1. StoredAt(t)' # {}
      BY <1>4, <2>6, <2>13
    <3>2. ASSUME mode = "dense", NEW n \in From..t
          PROVE  StoredAt(n)' # {}
      <4>1. n \in AnchorHeights
        BY <1>1, <1>2, <2>6, <3>2, AnchorHeightsAre
      <4> QED
        BY <2>3, <2>13, <4>1
    <3>3. Len(x.pred) < x.to /\ x.to <= Len(h)
      BY <2>1, <2>3, <2>6, <2>9
    <3>4. x.mode = "dense" => \A n \in FromOf(x)..x.to : StoredAt(n)' # {}
      BY <2>9, <3>2
    <3>5. StoredAt(x.to)' # {}
      BY <2>9, <3>1
    <3> QED
      BY <2>8, <3>3, <3>4, <3>5 DEF RangeOK, FromOf
  <2>16. RangesOK'
    <3>1. \A r \in store'.ranges : RangeOK(r)'
      BY <2>8, <2>14, <2>15
    <3>2. \A r \in store.ranges : r.to < FromOf(x)
      BY <1>5, <2>2, <2>9, <2>14
    <3>3. \A q, r \in store'.ranges : q = r \/ q.to < FromOf(r) \/ r.to < FromOf(q)
      BY <1>2, <2>8, <3>2 DEF RangesOK
    <3>4. ASSUME NEW n \in 1..Len(store'.checkpoint), Below(n)'
          PROVE  StoredAt(n)' # {}
      <4>1. \A r \in store.ranges : n <= Len(r.pred)
        BY <2>8, <3>4 DEF Below
      <4>2. n <= Len(cp) /\ n \in Nat /\ n >= 1
        BY <2>8, <2>9, <3>4 DEF Below
      <4>3. n \in 1..Len(cp)
        BY <1>5, <4>2
      <4>4. StoredAt(n) # {}
        BY <1>2, <4>1, <4>3 DEF RangesOK, Below
      <4> QED
        BY <2>12, <4>4
    <3> QED
      BY <3>1, <3>3, <3>4 DEF RangesOK, FromOf
  <2>17. /\ pc' \in {"idle", "range"} /\ pc' # "range" /\ pc' # "rollback"
         /\ scan'.logs = {} /\ scan'.anchors = {}
    BY <1>1, NoScanIs
  <2>18. JobsOK'
    <3> SUFFICES ASSUME NEW j \in jobs
                 PROVE  /\ Seen(j.endpoint) /\ Len(j.endpoint) = j.range.to
                        /\ j.fetched \subseteq HeadersOf(j.range, j.endpoint)
                        /\ \/ /\ j.endpoint \in store'.blocks
                              /\ \E q \in store'.ranges : q.pred = j.range.pred /\ q.to = j.range.to
                           \/ j.endpoint \notin store'.blocks /\ ~ OnChain(j.endpoint)
      BY <1>1, <2>17 DEF JobsOK, HeadersOf, FromOf, Seen, OnChain
    <3> QED
      BY <1>2, <2>8 DEF JobsOK
  <2>19. StoreInv' /\ LogsOK' /\ FenceOK'
    BY <1>1, <1>2, <2>10, <2>11, <2>16, <2>17, <2>18, StoreChanged
  <2>20. misread' = (misread \/ scan.torn)
    BY <1>1, <1>4, <1>5, <1>7
  <2>21. ASSUME ~ misread'
         PROVE  BranchOK' /\ IsStrictPrefix(cp, store'.checkpoint)
    <3>1. ~ misread /\ ~ scan.torn
      BY <1>5, <2>20, <2>21
    <3>2. BranchOK /\ PieceOf(h)
      BY <1>1, <1>2, <1>4, <1>7, <3>1 DEF LogInv, FenceOK
    <3>3. /\ IsStrictPrefix(cp, h) /\ \A b \in store.blocks \cup scan.anchors : IsPrefix(b, h)
          /\ store.events \cup scan.logs = Index!EventsOn(h)
      BY <1>2, <1>4, <2>2, <2>3, <3>2, PieceStored
    <3>4. Index!EventsOn(store.checkpoint)' = Index!EventsOn(h)
      BY <2>8 DEF Index!EventsOn, Index!HashOn
    <3> QED
      BY <2>8, <3>3, <3>4 DEF BranchOK
  <2>22. TrustOK'
    BY <1>1 DEF TrustOK
  <2>23. IndexInv'
    BY <2>19, <2>21, <2>22 DEF IndexInv, LogInv
  <2>24. Len(cp) <= Len(store'.checkpoint)
    BY <1>4, <1>5, <2>1, <2>3, <2>8
  <2> QED
    BY <1>5, <2>20, <2>21, <2>23, <2>24
<1> QED
  BY <1>6, <1>7

\* A fall back to a header takes the branch back to it: it has lost no range
\* that is still canonical.
LEMMA RollBackKeeps ==
    ASSUME IndexInv, RollBack
    PROVE  /\ IndexInv'
           /\ misread \/ IsStrictPrefix(store'.checkpoint, store.checkpoint)
           /\ \A r \in store.ranges :
                (\A h \in StoredAt(r.to) : OnChain(h)) => Len(store'.checkpoint) >= r.to
<1> DEFINE cp == store.checkpoint
<1>1. /\ StoreInv /\ LogInv /\ TypeOK /\ ChainOK /\ HeadersOK /\ RangesOK /\ RollbackOK /\ JobsOK
      /\ UNCHANGED <<chain, reorgs, crashes, mode, jobs, misread>> /\ pc = "rollback" /\ pc' = "range"
      /\ store' = RolledBack(scan.to)
      /\ scan' = [NoScan EXCEPT !.pred = store'.checkpoint, !.torn = scan.torn]
  BY DEF IndexInv, StoreInv, RollBack
<1>2. /\ cp \in Branch /\ store.blocks \in SUBSET Branch /\ Len(cp) \in Nat
      /\ store.ranges \in SUBSET Range_ /\ store.events \in SUBSET Event
      /\ scan.torn \in BOOLEAN
      /\ \A r \in store.ranges : r.pred \in Branch /\ r.to \in Nat /\ Len(r.pred) \in Nat
                                   /\ FromOf(r) = Len(r.pred) + 1
  BY <1>1, Fields
<1>3. PICK t \in Nat : t = scan.to
  BY <1>1, Fields
<1>4. /\ t \in Compared \cup {0} /\ t < Len(cp)
      /\ \A r \in store.ranges : r.to > t => OffChain(r.to)
  BY <1>1, <1>3 DEF RollbackOK
<1>5. PICK c \in Branch : /\ Len(c) = t
                          /\ c = IF t = 0 THEN NoBlock ELSE CHOOSE h \in StoredAt(t) : TRUE
                          /\ t = 0 => c = <<>>
                          /\ t # 0 => c \in StoredAt(t)
  <2>1. CASE t = 0
    BY <1>2, <2>1, PrefixOrder DEF NoBlock
  <2>2. CASE t # 0
    <3>1. StoredAt(t) # {}
      BY <1>1, <1>4, <2>2, ComparedStored
    <3>2. (CHOOSE h \in StoredAt(t) : TRUE) \in StoredAt(t)
      BY <3>1
    <3> QED
      BY <1>1, <2>2, <3>2, StoredIs
  <2> QED
    BY <2>1, <2>2
<1>6. store' = [checkpoint |-> c,
                blocks     |-> {h \in store.blocks : Len(h) <= t},
                ranges     |-> {r \in store.ranges : r.to <= t},
                events     |-> {e \in store.events : Len(e.hash) <= t}]
  <2> DEFINE top == IF t = 0 THEN NoBlock ELSE CHOOSE h \in StoredAt(t) : TRUE
  <2>1. store' = RolledBack(t)
    BY <1>1, <1>3
  <2>2. RolledBack(t) = [checkpoint |-> top,
                         blocks     |-> {h \in store.blocks : Len(h) <= t},
                         ranges     |-> {r \in store.ranges : r.to <= t},
                         events     |-> {e \in store.events : Len(e.hash) <= t}]
    BY DEF RolledBack
  <2>3. top = c
    BY <1>5
  <2> HIDE DEF top
  <2> QED
    BY <2>1, <2>2, <2>3
<1>7. /\ store'.checkpoint = c /\ store'.blocks = {h \in store.blocks : Len(h) <= t}
      /\ store'.ranges = {r \in store.ranges : r.to <= t}
      /\ store'.events = {e \in store.events : Len(e.hash) <= t}
  BY <1>6
<1>8. scan' = [pred |-> c, to |-> 0, logs |-> {}, anchors |-> {}, walk |-> {}, torn |-> scan.torn]
  BY <1>1, <1>7 DEF NoScan
<1>9. scan'.pred = c /\ scan'.logs = {} /\ scan'.anchors = {} /\ scan'.torn = scan.torn
  BY ONLY <1>8, ScanFields
<1>10. TypeOK'
  <2>1. scan' \in Scan
    BY <1>2, <1>8 DEF Scan
  <2>2. store' \in Store
    BY <1>2, <1>6 DEF Store
  <2> QED
    BY <1>1, <2>1, <2>2 DEF TypeOK, Steps
<1>11. \A n : n <= t => StoredAt(n)' = StoredAt(n)
  BY <1>7 DEF StoredAt
<1>12. HeadersOK'
  <2>1. c = <<>> \/ c \in store'.blocks
    BY <1>3, <1>5, <1>7 DEF StoredAt
  <2>2. \A h \in store'.blocks : Seen(h)' /\ Len(h) <= Len(c)
    BY <1>1, <1>5, <1>7 DEF HeadersOK, Seen
  <2>3. \A g, h \in store'.blocks : Len(g) = Len(h) => g = h
    BY <1>1, <1>7 DEF HeadersOK
  <2> QED
    BY <1>7, <2>1, <2>2, <2>3 DEF HeadersOK
<1>13. RangesOK'
  <2>1. ASSUME NEW r \in store'.ranges
        PROVE  RangeOK(r)'
    <3>1. RangeOK(r) /\ r.to <= t /\ Len(r.pred) \in Nat /\ r.to \in Nat
      BY <1>1, <1>2, <1>7 DEF RangesOK
    <3>2. StoredAt(r.to)' # {}
      BY <1>7, <3>1 DEF RangeOK, StoredAt
    <3>3. r.mode = "dense" => \A n \in FromOf(r)..r.to : StoredAt(n)' # {}
      <4> SUFFICES ASSUME r.mode = "dense", NEW n \in FromOf(r)..r.to PROVE StoredAt(n)' # {}
        OBVIOUS
      <4>1. n <= t /\ StoredAt(n) # {}
        BY <1>2, <1>7, <3>1 DEF RangeOK
      <4> QED
        BY <1>11, <4>1
    <3> QED
      BY <1>5, <1>7, <3>1, <3>2, <3>3 DEF RangeOK, FromOf
  <2>2. \A q, r \in store'.ranges : q = r \/ q.to < FromOf(r) \/ r.to < FromOf(q)
    BY <1>1, <1>7 DEF RangesOK
  <2>3. ASSUME NEW n \in 1..t, \A r \in store'.ranges : n <= Len(r.pred)
        PROVE  StoredAt(n) # {}
    <3>1. n \in 1..Len(cp) /\ t # 0 /\ t \in Compared
      BY <1>2, <1>4
    <3>2. CASE Below(t)
      <4>1. \A r \in store.ranges : n <= Len(r.pred)
        BY <1>2, <3>2 DEF Below
      <4> QED
        BY <1>1, <3>1, <4>1 DEF RangesOK, Below
    <3>3. ASSUME NEW q \in store.ranges, t = q.to \/ (q.mode = "dense" /\ t \in FromOf(q)..q.to)
          PROVE  StoredAt(n) # {}
      <4>1. RangeOK(q) /\ q.to \in Nat /\ Len(q.pred) \in Nat /\ FromOf(q) = Len(q.pred) + 1
        BY <1>1, <1>2 DEF RangesOK
      <4>2. CASE n <= Len(q.pred)
        <5>1. \A r \in store.ranges : n <= Len(r.pred)
          <6> TAKE r \in store.ranges
          <6>1. r.to \in Nat /\ Len(r.pred) \in Nat /\ FromOf(r) = Len(r.pred) + 1 /\ Len(r.pred) < r.to
            BY <1>1, <1>2 DEF RangesOK, RangeOK
          <6>2. CASE r.to <= t
            BY <1>7, <2>3, <6>2
          <6>3. CASE r = q
            BY <4>2, <6>3
          <6>4. CASE r.to > t /\ r.to < FromOf(q)
            BY <3>3, <4>1, <6>1, <6>4 DEF RangeOK
          <6>5. CASE q.to < FromOf(r)
            BY <3>3, <4>1, <4>2, <6>1, <6>5 DEF RangeOK
          <6> QED
            BY <1>1, <6>1, <6>2, <6>3, <6>4, <6>5 DEF RangesOK
        <5> QED
          BY <1>1, <3>1, <5>1 DEF RangesOK, Below
      <4>3. CASE n > Len(q.pred)
        <5>1. CASE q.to <= t
          BY <1>7, <2>3, <4>1, <4>3, <5>1
        <5>2. CASE q.to > t
          <6>1. q.mode = "dense" /\ n \in FromOf(q)..q.to
            BY <3>3, <4>1, <4>3, <5>2
          <6> QED
            BY <4>1, <6>1 DEF RangeOK
        <5> QED
          BY <4>1, <5>1, <5>2
      <4> QED
        BY <4>1, <4>2, <4>3
    <3> QED
      BY <1>1, <3>1, <3>2, <3>3, ComparedAre
  <2>4. ASSUME NEW n \in 1..Len(store'.checkpoint), Below(n)'
        PROVE  StoredAt(n)' # {}
    <3>1. n \in 1..t /\ \A r \in store'.ranges : n <= Len(r.pred)
      BY <1>5, <1>7, <2>4 DEF Below
    <3>2. StoredAt(n) # {}
      BY <2>3, <3>1
    <3> QED
      BY <1>11, <3>1, <3>2
  <2> QED
    BY <2>1, <2>2, <2>4 DEF RangesOK, FromOf
<1>14. JobsOK'
  <2> SUFFICES ASSUME NEW j \in jobs
               PROVE  /\ Seen(j.endpoint) /\ Len(j.endpoint) = j.range.to
                      /\ j.fetched \subseteq HeadersOf(j.range, j.endpoint)
                      /\ \/ /\ j.endpoint \in store'.blocks
                            /\ \E q \in store'.ranges : q.pred = j.range.pred /\ q.to = j.range.to
                         \/ j.endpoint \notin store'.blocks /\ ~ OnChain(j.endpoint)
    BY <1>1, <1>9 DEF JobsOK, HeadersOf, FromOf, Seen, OnChain
  <2>1. /\ Seen(j.endpoint) /\ Len(j.endpoint) = j.range.to
        /\ j.fetched \subseteq HeadersOf(j.range, j.endpoint)
        /\ \/ /\ j.endpoint \in store.blocks
              /\ \E q \in store.ranges : q.pred = j.range.pred /\ q.to = j.range.to
           \/ j.endpoint \notin store.blocks /\ ~ OnChain(j.endpoint)
    BY <1>1 DEF JobsOK
  <2>2. CASE j.endpoint \notin store.blocks /\ ~ OnChain(j.endpoint)
    BY <1>7, <2>1, <2>2
  <2>3. ASSUME j.endpoint \in store.blocks,
               NEW q \in store.ranges, q.pred = j.range.pred, q.to = j.range.to
        PROVE  \/ /\ j.endpoint \in store'.blocks
                  /\ \E r \in store'.ranges : r.pred = j.range.pred /\ r.to = j.range.to
               \/ j.endpoint \notin store'.blocks /\ ~ OnChain(j.endpoint)
    <3>1. CASE q.to <= t
      BY <1>7, <2>1, <2>3, <3>1
    <3>2. CASE q.to > t
      <4>1. OffChain(q.to) /\ j.endpoint \in StoredAt(q.to)
        BY <1>4, <2>1, <2>3, <3>2 DEF StoredAt
      <4>2. j.endpoint \notin store'.blocks
        BY <1>2, <1>7, <2>1, <2>3, <3>2
      <4> QED
        BY <4>1, <4>2 DEF OffChain
    <3> QED
      BY <1>2, <2>3, <3>1, <3>2
  <2> QED
    BY <2>1, <2>2, <2>3
<1>15. StoreInv' /\ LogsOK' /\ FenceOK'
  BY <1>1, <1>7, <1>9, <1>10, <1>12, <1>13, <1>14, StoreChanged
<1>16. ASSUME ~ misread
       PROVE  BranchOK' /\ IsStrictPrefix(c, cp)
  <2>1. BranchOK
    BY <1>1, <1>16 DEF LogInv
  <2>2. IsPrefix(c, cp)
    BY <1>2, <1>5, <2>1, PrefixOrder DEF BranchOK, StoredAt
  <2>3. \A h \in store'.blocks : IsPrefix(h, c)
    <3> TAKE h \in store'.blocks
    <3>1. h \in Branch /\ IsPrefix(h, cp) /\ Len(h) <= Len(c)
      BY <1>2, <1>5, <1>7, <2>1 DEF BranchOK
    <3> QED
      BY <1>2, <2>2, <3>1, PrefixOrder
  <2>4. \A e : e \in store'.events <=> e \in Index!EventsOn(c)
    <3> TAKE e
    <3>1. e \in store.events <=> EventOf(e, cp)
      BY <1>2, <2>1, EventsAre DEF BranchOK
    <3>2. EventOf(e, c) <=> EventOf(e, cp) /\ Len(e.hash) <= t
      BY <1>2, <1>5, <2>2, EventsOfCut
    <3>3. e \in Index!EventsOn(c) <=> EventOf(e, c)
      BY EventsAre
    <3> QED
      BY <1>7, <3>1, <3>2, <3>3
  <2>5. store'.events = Index!EventsOn(c)
    BY <2>4
  <2>6. Index!EventsOn(store.checkpoint)' = Index!EventsOn(c)
    BY <1>7 DEF Index!EventsOn, Index!HashOn
  <2>7. IsStrictPrefix(c, cp)
    BY <1>4, <1>5, <2>2 DEF IsStrictPrefix
  <2> QED
    BY <1>7, <2>3, <2>5, <2>6, <2>7 DEF BranchOK
<1>17. ASSUME ~ misread, ~ scan.torn
       PROVE  TrustOK'
  <2>1. mode = "sparse" => OnChain(c)
    <3>1. CASE t = 0
      BY <1>1, <1>5, <3>1, HashIsCut DEF TypeOK
    <3>2. CASE t # 0
      BY <1>1, <1>3, <1>5, <1>17, <3>2 DEF LogInv, TrustOK
    <3> QED
      BY <3>1, <3>2
  <2> QED
    BY <1>1, <1>9, <2>1 DEF TrustOK, OnChain
<1>18. IndexInv'
  BY <1>1, <1>9, <1>15, <1>16, <1>17 DEF IndexInv, LogInv
<1>19. misread \/ IsStrictPrefix(store'.checkpoint, cp)
  BY <1>7, <1>16
<1>20. ASSUME NEW r \in store.ranges, \A h \in StoredAt(r.to) : OnChain(h)
       PROVE  Len(store'.checkpoint) >= r.to
  <2>1. StoredAt(r.to) # {}
    BY <1>1 DEF RangesOK, RangeOK
  <2>2. ~ (r.to > t)
    BY <1>4, <1>20, <2>1 DEF OffChain
  <2> QED
    BY <1>2, <1>5, <1>7, <2>2
<1> QED
  BY <1>18, <1>19, <1>20

-----------------------------------------------------------------------------
(* densifyCanonicalRanges.                                                 *)

\* A step that only makes or ends a job.
LEMMA JobStep ==
    ASSUME IndexInv, UNCHANGED <<chain, reorgs, crashes, store, mode, pc, scan, misread>>,
           jobs' \in SUBSET Job, JobsOK'
    PROVE  IndexInv'
<1>1. /\ TypeOK /\ ChainOK /\ HeadersOK /\ RangesOK /\ WalkOK /\ RollbackOK /\ BatchOK /\ LogInv
  BY DEF IndexInv, StoreInv
<1>2. /\ Compared' = Compared /\ RangesOK' /\ (\A n : StoredAt(n)' = StoredAt(n))
      /\ From' = From /\ \A n : OffChain(n)' <=> OffChain(n)
  BY <1>1, StoreUnmoved DEF OffChain, OnChain, From, FromOf
<1>3. TypeOK' /\ ChainOK' /\ HeadersOK'
  BY <1>1 DEF TypeOK, ChainOK, ValidChain, HeadersOK, Seen
<1>4. WalkOK' /\ RollbackOK'
  BY <1>1, <1>2 DEF WalkOK, RollbackOK
<1>5. BatchOK'
  BY <1>1, <1>2 DEF BatchOK, Seen, AnchorHeights
<1>6. StoreInv'
  BY <1>2, <1>3, <1>4, <1>5 DEF StoreInv
<1>7. BranchOK => BranchOK'
  BY DEF BranchOK, Index!EventsOn, Index!HashOn
<1>8. TrustOK => TrustOK'
  BY <1>2 DEF TrustOK, OnChain
<1>9. (LooksSound <=> LooksSound') /\ (Complete <=> Complete')
  BY <1>2 DEF LooksSound, Complete, OnChain, EventOf
<1>10. LogsOK => LogsOK'
  BY <1>9 DEF LogsOK, OnChain
<1>11. FenceOK => FenceOK'
  BY <1>2 DEF FenceOK, PieceOf, OnChain, EventOf
<1> QED
  BY <1>1, <1>6, <1>7, <1>8, <1>10, <1>11 DEF IndexInv, LogInv

\* The headers of a range that ends in a block are cuts of its branch.
LEMMA HeadersAre ==
    ASSUME TypeOK, NEW q, NEW e \in Branch, Seen(e), Len(e) = q.to, Len(q.pred) \in Nat
    PROVE  /\ \A n \in FromOf(q)..q.to : /\ Cut(e, n) \in Branch /\ Len(Cut(e, n)) = n /\ n >= 1
                                         /\ IsPrefix(Cut(e, n), e) /\ Seen(Cut(e, n))
                                         /\ Cut(e, n) \in HeadersOf(q, e)
           /\ \A b \in HeadersOf(q, e) : \E n \in FromOf(q)..q.to : b = Cut(e, n)
<1>1. \A n \in FromOf(q)..q.to : Cut(e, n) \in HeadersOf(q, e)
  BY DEF HeadersOf, Cut
<1>2. \A b \in HeadersOf(q, e) : \E n \in FromOf(q)..q.to : b = Cut(e, n)
  BY DEF HeadersOf, Cut
<1>3. /\ Len(e) \in Nat /\ FromOf(q) \in Nat /\ FromOf(q) >= 1
      /\ Len(e) <= Len(chain) /\ Len(chain) \in Nat
      /\ \A m \in 1..Len(e) : e[m].fork <= reorgs
  BY Fields, BranchHas DEF FromOf, Seen
<1>4. ASSUME NEW n \in FromOf(q)..q.to
      PROVE  /\ Cut(e, n) \in Branch /\ Len(Cut(e, n)) = n /\ n >= 1
             /\ IsPrefix(Cut(e, n), e) /\ Seen(Cut(e, n))
  <2>1. n \in 0..Len(e) /\ n >= 1 /\ n <= Len(chain)
    BY <1>3
  <2>2. /\ Cut(e, n) \in Branch /\ Len(Cut(e, n)) = n /\ IsPrefix(Cut(e, n), e)
        /\ \A m \in 1..n : Cut(e, n)[m] = e[m]
    BY <2>1, CutHolds, Cuts
  <2>3. \A m \in 1..n : m \in 1..Len(e)
    BY <1>3, <2>1
  <2> QED
    BY <1>3, <2>1, <2>2, <2>3 DEF Seen
<1> QED
  BY <1>1, <1>2, <1>4

\* A job is of a range that is stored, with the header it ends in.
LEMMA DensifyFetchKeeps ==
    ASSUME IndexInv, NEW r \in store.ranges, DensifyFetch(r)
    PROVE  IndexInv'
<1>1. /\ TypeOK /\ HeadersOK /\ RangesOK
      /\ UNCHANGED <<chain, reorgs, crashes, store, mode, pc, scan, misread>>
  BY DEF IndexInv, StoreInv, DensifyFetch
<1>2. PICK e \in StoredAt(r.to) :
         jobs' = {[range |-> r, endpoint |-> e, fetched |-> HeadersOf(r, e) \ store.blocks]}
  BY DEF DensifyFetch
<1>3. /\ r \in Range_ /\ Len(r.pred) \in Nat
      /\ e \in store.blocks /\ e \in Branch /\ Len(e) = r.to /\ Seen(e)
  BY <1>1, <1>2, Fields, StoredIs
<1>4. HeadersOf(r, e) \in SUBSET Branch
  BY <1>1, <1>3, HeadersAre
<1> DEFINE j == [range |-> r, endpoint |-> e, fetched |-> HeadersOf(r, e) \ store.blocks]
<1>5. /\ j \in Job /\ j.range = r /\ j.endpoint = e /\ j.fetched \subseteq HeadersOf(r, e)
  BY <1>3, <1>4 DEF Job
<1>6. jobs' = {j}
  BY <1>2
<1> HIDE DEF j
<1>7. JobsOK'
  <2>1. Seen(e)'
    BY <1>1, <1>3 DEF Seen
  <2>2. HeadersOf(r, e)' = HeadersOf(r, e)
    BY DEF HeadersOf, FromOf
  <2> QED
    BY <1>1, <1>3, <1>5, <1>6, <2>1, <2>2 DEF JobsOK, HeadersOf, FromOf, Seen
<1> QED
  BY <1>1, <1>5, <1>6, <1>7, JobStep

\* What a job ends with leaves nothing else.
LEMMA DensifyFailsKeeps ==
    ASSUME IndexInv, DensifyFails
    PROVE  IndexInv'
<1>1. /\ UNCHANGED <<chain, reorgs, crashes, store, mode, pc, scan, misread>>
      /\ jobs' \in SUBSET Job /\ JobsOK'
  BY DEF DensifyFails, JobsOK
<1> QED
  BY <1>1, JobStep

\* What is compared, as one formula of a state.
ComparedIsThis ==
    \A n : n \in Compared <=>
      \/ Below(n)
      \/ \E r \in store.ranges : n = r.to \/ (r.mode = "dense" /\ n \in FromOf(r)..r.to)

\* It holds of every state of the invariant.
LEMMA ComparedInState == TypeOK /\ RangesOK => ComparedIsThis
BY ComparedAre DEF ComparedIsThis

\* The same of the state after a step.
LEMMA NextCompared == (TypeOK /\ RangesOK => ComparedIsThis)'
BY ComparedInState, PTL

\* The range that ends in the endpoint of the job is the one that was read, if
\* the endpoint is still stored: the headers that fill it are its parents.
LEMMA DensifyWriteKeeps ==
    ASSUME IndexInv, NEW j \in jobs, DensifyWrite(j)
    PROVE  IndexInv' /\ store'.checkpoint = store.checkpoint /\ store'.events = store.events
<1> DEFINE cp == store.checkpoint
<1>1. /\ TypeOK /\ ChainOK /\ HeadersOK /\ RangesOK /\ WalkOK /\ RollbackOK /\ BatchOK /\ JobsOK /\ LogInv
      /\ UNCHANGED <<chain, reorgs, crashes, mode, pc, scan, misread>> /\ jobs' = {}
  BY DEF IndexInv, StoreInv, DensifyWrite
<1>2. /\ cp \in Branch /\ store.blocks \in SUBSET Branch /\ Len(cp) \in Nat
      /\ store.ranges \in SUBSET Range_ /\ store.events \in SUBSET Event
      /\ \A q \in store.ranges : q.pred \in Branch /\ q.to \in Nat /\ Len(q.pred) \in Nat
                                   /\ FromOf(q) = Len(q.pred) + 1
  BY <1>1, Fields
<1>3. PICK e \in Branch : e = j.endpoint
  BY <1>1, JobFields
<1>4. /\ StoredAt(j.range.to) = {e} /\ e \in store.blocks
      /\ HeadersOf(j.range, e) \subseteq store.blocks \cup j.fetched
      /\ \A h \in HeadersOf(j.range, e) : StoredAt(Len(h)) \subseteq {h}
      /\ store' = [store EXCEPT !.blocks = @ \cup j.fetched, !.ranges = Promoted(j)]
  BY <1>3 DEF DensifyWrite, StoredAt
<1>5. PICK q \in store.ranges : q.pred = j.range.pred /\ q.to = j.range.to
  BY <1>1, <1>3, <1>4 DEF JobsOK
<1>6. /\ Seen(e) /\ Len(e) = q.to /\ j.fetched \subseteq HeadersOf(j.range, e)
      /\ RangeOK(q) /\ q \in Range_
  BY <1>1, <1>2, <1>3, <1>5 DEF JobsOK, RangesOK
<1>7. HeadersOf(j.range, e) = HeadersOf(q, e)
  BY <1>5 DEF HeadersOf, FromOf
<1>8. /\ \A n \in FromOf(q)..q.to : /\ Cut(e, n) \in Branch /\ Len(Cut(e, n)) = n /\ n >= 1
                                    /\ IsPrefix(Cut(e, n), e) /\ Seen(Cut(e, n))
                                    /\ Cut(e, n) \in HeadersOf(q, e)
      /\ \A b \in HeadersOf(q, e) : \E n \in FromOf(q)..q.to : b = Cut(e, n)
  BY <1>1, <1>2, <1>6, HeadersAre
<1> DEFINE full == [q EXCEPT !.mode = "dense"]
           added == j.fetched
<1>9. full \in Range_ /\ full.pred = q.pred /\ full.to = q.to /\ full.mode = "dense"
  BY <1>6 DEF Range_
<1>10. PICK x \in Range_ : x = full
  BY <1>9
<1>11. Promoted(j) = (store.ranges \ {q}) \cup {x}
  <2>1. \A p \in store.ranges : p.to = q.to => p = q
    <3> SUFFICES ASSUME NEW p \in store.ranges, p.to = q.to PROVE p = q
      OBVIOUS
    <3>1. RangeOK(p) /\ (p = q \/ p.to < FromOf(q) \/ q.to < FromOf(p))
      BY <1>1 DEF RangesOK
    <3> QED
      BY <1>2, <1>6, <3>1 DEF RangeOK
  <2>2. \A y : y \in Promoted(j) <=> \E p \in store.ranges : y = IF p.to = q.to THEN [p EXCEPT !.mode = "dense"] ELSE p
    BY <1>5 DEF Promoted
  <2>3. ASSUME NEW y
        PROVE  y \in Promoted(j) <=> y \in (store.ranges \ {q}) \cup {x}
    BY <1>10, <2>1, <2>2
  <2> QED
    BY <2>3
<1> HIDE DEF full, added
<1>12. store' = [checkpoint |-> cp, blocks |-> store.blocks \cup added,
                 ranges |-> (store.ranges \ {q}) \cup {x}, events |-> store.events]
  <2>1. store \in Store
    BY <1>1 DEF TypeOK
  <2> QED
    BY <1>4, <1>11, <2>1 DEF Store, added
<1>13. /\ store'.checkpoint = cp /\ store'.blocks = store.blocks \cup added
       /\ store'.ranges = (store.ranges \ {q}) \cup {x} /\ store'.events = store.events
  BY <1>12
<1>14. x.pred = q.pred /\ x.to = q.to /\ x.mode = "dense" /\ FromOf(x) = FromOf(q)
  BY <1>9, <1>10 DEF FromOf
<1>15. ASSUME NEW b \in added
       PROVE  /\ b \in Branch /\ Seen(b) /\ Len(b) <= Len(cp) /\ IsPrefix(b, e)
              /\ StoredAt(Len(b)) \subseteq {b}
              /\ \A c \in added : Len(b) = Len(c) => b = c
  <2>1. \A c \in added : c \in HeadersOf(q, e) /\ \E n \in FromOf(q)..q.to : c = Cut(e, n)
    BY <1>6, <1>7, <1>8 DEF added
  <2>2. PICK n \in FromOf(q)..q.to : b = Cut(e, n)
    BY <2>1
  <2>3. b \in Branch /\ Seen(b) /\ Len(b) = n /\ IsPrefix(b, e)
    BY <1>8, <2>2
  <2>4. Len(b) <= Len(cp)
    BY <1>2, <1>6, <2>3 DEF RangeOK
  <2>5. StoredAt(Len(b)) \subseteq {b}
    BY <1>4, <1>7, <2>1
  <2>6. ASSUME NEW c \in added, Len(b) = Len(c)
        PROVE  b = c
    <3>1. PICK m \in FromOf(q)..q.to : c = Cut(e, m)
      BY <2>1
    <3>2. Len(c) = m
      BY <1>8, <3>1
    <3> QED
      BY <2>2, <2>3, <2>6, <3>1, <3>2
  <2> QED
    BY <2>3, <2>4, <2>5, <2>6
<1>16. TypeOK'
  <2>1. added \in SUBSET Branch
    BY <1>15
  <2>2. store' \in Store
    BY <1>2, <1>10, <1>12, <2>1 DEF Store
  <2> QED
    BY <1>1, <2>2 DEF TypeOK
<1>17. HeadersOK'
  <2>1. \A h \in store'.blocks : Seen(h) /\ Len(h) <= Len(cp)
    BY <1>1, <1>13, <1>15 DEF HeadersOK
  <2>2. \A g, h \in store'.blocks : Len(g) = Len(h) => g = h
    <3>1. \A g, h \in store.blocks : Len(g) = Len(h) => g = h
      BY <1>1 DEF HeadersOK
    <3>2. \A g \in store.blocks, h \in added : Len(g) = Len(h) => g = h
      BY <1>15 DEF StoredAt
    <3> QED
      BY <1>13, <1>15, <3>1, <3>2
  <2> QED
    BY <1>1, <1>13, <2>1, <2>2 DEF HeadersOK, Seen
<1>18. \A n : StoredAt(n) # {} => StoredAt(n)' = StoredAt(n)
  BY <1>13, <1>17 DEF StoredAt, HeadersOK
<1>19. \A n \in FromOf(q)..q.to : StoredAt(n)' # {}
  <2> TAKE n \in FromOf(q)..q.to
  <2>1. Cut(e, n) \in store'.blocks /\ Len(Cut(e, n)) = n
    BY <1>4, <1>7, <1>8, <1>13 DEF added
  <2> QED
    BY <2>1 DEF StoredAt
<1>20. RangesOK'
  <2>1. ASSUME NEW r \in store.ranges
        PROVE  RangeOK(r)'
    <3>1. RangeOK(r)
      BY <1>1 DEF RangesOK
    <3> QED
      BY <1>13, <1>18, <3>1 DEF RangeOK, FromOf
  <2>2. RangeOK(x)'
    <3>1. Len(x.pred) < x.to /\ x.to <= Len(cp)
      BY <1>6, <1>14 DEF RangeOK
    <3>2. StoredAt(x.to)' # {}
      <4>1. StoredAt(x.to) # {}
        BY <1>6, <1>14 DEF RangeOK
      <4> QED
        BY <1>18, <4>1
    <3>3. \A n \in FromOf(x)..x.to : StoredAt(n)' # {}
      BY <1>14, <1>19
    <3> QED
      BY <1>13, <3>1, <3>2, <3>3 DEF RangeOK, FromOf
  <2>3. \A p, r \in store'.ranges : p = r \/ p.to < FromOf(r) \/ r.to < FromOf(p)
    BY <1>1, <1>13, <1>14 DEF RangesOK
  <2>4. \A n : Below(n)' => Below(n)
    <3>1. \A n : (\A r \in store'.ranges : n <= Len(r.pred)) => \A r \in store.ranges : n <= Len(r.pred)
      BY <1>13, <1>14
    <3> QED
      BY <1>13, <3>1 DEF Below
  <2>5. \A n \in 1..Len(store'.checkpoint) : Below(n)' => StoredAt(n)' # {}
    BY <1>1, <1>13, <1>18, <2>4 DEF RangesOK
  <2> QED
    BY <1>13, <2>1, <2>2, <2>3, <2>5 DEF RangesOK, FromOf
<1>21. ASSUME NEW n \in Compared
       PROVE  n \in Compared'
  <2>1. Below(n)' \/ \E r \in store'.ranges : n = r.to \/ (r.mode = "dense" /\ n \in FromOf(r)..r.to)
    <3>1. CASE Below(n)
      <4>1. \A r \in store'.ranges : n <= Len(r.pred)
        BY <1>13, <1>14, <3>1 DEF Below
      <4> QED
        BY <1>13, <3>1, <4>1 DEF Below
    <3>2. ASSUME NEW r \in store.ranges, n = r.to \/ (r.mode = "dense" /\ n \in FromOf(r)..r.to)
          PROVE  \E p \in store'.ranges : n = p.to \/ (p.mode = "dense" /\ n \in FromOf(p)..p.to)
      <4>1. CASE r = q
        <5>1. x \in store'.ranges
          BY <1>13
        <5>2. n = x.to \/ (x.mode = "dense" /\ n \in FromOf(x)..x.to)
          BY <1>14, <3>2, <4>1
        <5> QED
          BY <5>1, <5>2
      <4>2. CASE r # q
        BY <1>13, <3>2, <4>2
      <4> QED
        BY <4>1, <4>2
    <3> QED
      BY <1>1, <3>1, <3>2, ComparedAre
  <2>2. n \in Compared' <=>
          \/ Below(n)'
          \/ \E r \in store'.ranges : n = r.to \/ (r.mode = "dense" /\ n \in FromOf(r)..r.to)
    BY <1>16, <1>20, NextCompared DEF ComparedIsThis, FromOf
  <2> QED
    BY <2>1, <2>2
<1>22. ASSUME NEW r \in store'.ranges
       PROVE  \E p \in store.ranges : p.to = r.to /\ (OffChain(p.to) => OffChain(r.to)')
  <2>1. PICK p \in store.ranges : p.to = r.to
    BY <1>13, <1>14
  <2>2. StoredAt(p.to) # {}
    BY <1>1 DEF RangesOK, RangeOK
  <2> QED
    BY <1>1, <1>18, <2>1, <2>2 DEF OffChain, OnChain
<1>23. WalkOK'
  <2> SUFFICES ASSUME pc = "walk" PROVE WalkOK'
    BY <1>1 DEF WalkOK
  <2>1. /\ cp # <<>> /\ scan.walk \subseteq Compared
        /\ \A r \in store.ranges : r.to \in scan.walk \/ OffChain(r.to)
    BY <1>1 DEF WalkOK
  <2>2. \A r \in store'.ranges : r.to \in scan.walk \/ OffChain(r.to)'
    BY <1>22, <2>1
  <2> QED
    BY <1>1, <1>13, <1>21, <2>1, <2>2 DEF WalkOK
<1>24. RollbackOK'
  <2> SUFFICES ASSUME pc = "rollback" PROVE RollbackOK'
    BY <1>1 DEF RollbackOK
  <2>1. /\ scan.to \in Compared \cup {0} /\ scan.to < Len(cp)
        /\ \A r \in store.ranges : r.to > scan.to => OffChain(r.to)
    BY <1>1 DEF RollbackOK
  <2>2. \A r \in store'.ranges : r.to > scan.to => OffChain(r.to)'
    BY <1>22, <2>1
  <2> QED
    BY <1>1, <1>13, <1>21, <2>1, <2>2 DEF RollbackOK
<1>25. From' = From /\ BatchOK' /\ ChainOK' /\ JobsOK'
  <2>1. From' = From
    BY <1>1 DEF From, FromOf
  <2> QED
    BY <1>1, <1>13, <2>1 DEF BatchOK, Seen, AnchorHeights, ChainOK, ValidChain, JobsOK
<1>26. StoreInv'
  BY <1>16, <1>17, <1>20, <1>23, <1>24, <1>25 DEF StoreInv
<1>27. BranchOK => BranchOK'
  <2> HAVE BranchOK
  <2>1. IsPrefix(e, cp)
    BY <1>4 DEF BranchOK
  <2>2. \A b \in store'.blocks : IsPrefix(b, cp)
    <3> TAKE b \in store'.blocks
    <3>1. CASE b \in store.blocks
      BY <3>1 DEF BranchOK
    <3>2. CASE b \in added
      BY <1>2, <1>15, <2>1, <3>2, PrefixOrder
    <3> QED
      BY <1>13, <3>1, <3>2
  <2>3. Index!EventsOn(store.checkpoint)' = Index!EventsOn(store.checkpoint)
    BY <1>13 DEF Index!EventsOn, Index!HashOn
  <2> QED
    BY <1>13, <2>2, <2>3 DEF BranchOK
<1>28. TrustOK => TrustOK'
  <2> HAVE TrustOK
  <2>1. ASSUME pc = "rollback"
        PROVE  StoredAt(scan.to)' = StoredAt(scan.to)
    <3>1. scan.to \in Compared \cup {0}
      BY <1>1, <2>1 DEF RollbackOK
    <3>2. CASE scan.to \in Compared
      BY <1>1, <1>18, <3>2, ComparedStored
    <3>3. CASE scan.to = 0
      <4>1. \A h \in store'.blocks : Len(h) >= 1
        BY <1>17 DEF HeadersOK, Seen
      <4>2. \A h \in store.blocks : Len(h) >= 1
        BY <1>1 DEF HeadersOK, Seen
      <4> QED
        BY <1>1, <3>3, <4>1, <4>2 DEF StoredAt
    <3> QED
      BY <3>1, <3>2, <3>3
  <2> QED
    BY <1>1, <2>1 DEF TrustOK, OnChain
<1>29. (LooksSound <=> LooksSound') /\ (Complete <=> Complete')
  BY <1>1, <1>25 DEF LooksSound, Complete, OnChain, EventOf
<1>30. LogsOK => LogsOK'
  BY <1>1, <1>29 DEF LogsOK, OnChain
<1>31. FenceOK => FenceOK'
  BY <1>1, <1>25 DEF FenceOK, PieceOf, OnChain, EventOf
<1> QED
  BY <1>1, <1>13, <1>26, <1>27, <1>28, <1>30, <1>31 DEF IndexInv, LogInv

-----------------------------------------------------------------------------
(* The theorems.                                                           *)

\* The first checkpoint is the deployment, with nothing stored.
LEMMA InitIndex == Init => IndexInv
<1> SUFFICES ASSUME Init PROVE IndexInv
  OBVIOUS
<1>1. <<>> \in Branch /\ Len(<<>>) = 0
  BY EmptySeq DEF Branch
<1>2. /\ chain = <<>> /\ reorgs = 0 /\ crashes = 0 /\ mode \in Modes /\ pc = "idle"
      /\ store = [checkpoint |-> <<>>, blocks |-> {}, ranges |-> {}, events |-> {}]
      /\ scan = NoScan /\ jobs = {} /\ misread = FALSE
  BY DEF Init, NoBlock
<1>3. scan \in Scan /\ scan.logs = {} /\ scan.anchors = {}
  BY <1>2, NoScanIs
<1>4. TypeOK
  <2>1. store \in Store
    BY <1>1, <1>2 DEF Store
  <2> QED
    BY <1>1, <1>2, <1>3, <2>1 DEF TypeOK, Steps
<1>5. ChainOK
  <2>1. DOMAIN chain = {}
    BY <1>1, <1>2, LenProperties DEF Branch
  <2> QED
    BY <1>1, <1>2, <2>1 DEF ChainOK, ValidChain
<1>6. BranchOK
  <2>1. \A e : ~ EventOf(e, <<>>)
    <3> SUFFICES ASSUME NEW e, EventOf(e, <<>>) PROVE FALSE
      OBVIOUS
    <3>1. e.hash \in Branch /\ Len(e.hash) >= 1 /\ IsPrefix(e.hash, <<>>)
      BY DEF EventOf, Event
    <3>2. Len(e.hash) \in Nat /\ Len(e.hash) <= 0
      BY <1>1, <3>1, BranchHas, PrefixHolds
    <3> QED
      BY <3>1, <3>2
  <2>2. \A e : e \notin Index!EventsOn(<<>>)
    BY <1>1, <2>1, EventsAre
  <2> QED
    BY <1>1, <1>2, <2>2 DEF BranchOK
<1>7. HeadersOK /\ RangesOK /\ JobsOK
  BY <1>1, <1>2 DEF HeadersOK, RangesOK, Below, JobsOK
<1>8. WalkOK /\ RollbackOK /\ BatchOK /\ TrustOK /\ LogsOK /\ FenceOK
  BY <1>2, <1>3 DEF WalkOK, RollbackOK, BatchOK, TrustOK, LogsOK, FenceOK
<1> QED
  BY <1>4, <1>5, <1>6, <1>7, <1>8 DEF IndexInv, StoreInv, LogInv

\* The steps there are.
LEMMA StepsAre ==
    ASSUME [Next]_vars
    PROVE  \/ Reconcile \/ CompareNext \/ NoAncestor \/ RollBack
           \/ Discover \/ ReadLogs \/ ReadLateLogs \/ \E n \in AnchorHeights : ReadAnchor(n)
           \/ Commit \/ Crash
           \/ \E r \in store.ranges : DensifyFetch(r)
           \/ \E j \in jobs : DensifyWrite(j)
           \/ DensifyFails
           \/ ChainMoves
           \/ UNCHANGED vars
BY DEF Next, Step, Densify, ChainMoves

\* A step of the indexer, of the chain, or none.
LEMMA NextIndex == IndexInv /\ [Next]_vars => IndexInv'
<1> SUFFICES ASSUME IndexInv, [Next]_vars PROVE IndexInv'
  OBVIOUS
<1>1. CASE Reconcile
  BY <1>1, ReconcileKeeps
<1>2. CASE CompareNext
  BY <1>2, CompareNextKeeps
<1>3. CASE NoAncestor
  BY <1>3, NoAncestorKeeps
<1>4. CASE RollBack
  BY <1>4, RollBackKeeps
<1>5. CASE Discover
  BY <1>5, DiscoverKeeps
<1>6. CASE ReadLogs
  BY <1>6, ReadLogsKeeps
<1>7. CASE ReadLateLogs
  BY <1>7, ReadLateLogsKeeps
<1>8. ASSUME NEW n \in AnchorHeights, ReadAnchor(n) PROVE IndexInv'
  BY <1>8, ReadAnchorKeeps
<1>9. CASE Commit
  BY <1>9, CommitKeeps
<1>10. CASE Crash
  <2>1. crashes' \in Nat
    BY <1>10 DEF Crash, IndexInv, StoreInv, TypeOK
  <2> QED
    BY <1>10, <2>1, IdleKeeps DEF Crash, Abandon
<1>11. ASSUME NEW r \in store.ranges, DensifyFetch(r) PROVE IndexInv'
  BY <1>11, DensifyFetchKeeps
<1>12. ASSUME NEW j \in jobs, DensifyWrite(j) PROVE IndexInv'
  BY <1>12, DensifyWriteKeeps
<1>13. CASE DensifyFails
  BY <1>13, DensifyFailsKeeps
<1>14. CASE ChainMoves
  BY <1>14, ChainMovesKeepStore, ChainMovesKeepLog DEF IndexInv
<1>15. CASE UNCHANGED vars
  <2>1. jobs' \in SUBSET Job /\ JobsOK'
    BY <1>15 DEF vars, IndexInv, StoreInv, TypeOK, JobsOK, HeadersOf, FromOf, Seen, OnChain
  <2> QED
    BY <1>15, <2>1, JobStep DEF vars
<1> QED
  BY <1>1, <1>2, <1>3, <1>4, <1>5, <1>6, <1>7, <1>8, <1>9, <1>10, <1>11, <1>12, <1>13, <1>14, <1>15,
     StepsAre

\* The inductive invariant.  What is stored has its headers and ranges whatever
\* the chain, the node and the process do (StoreInv); it is one branch with all
\* its events, and a batch under way is a piece of it or will be given up,
\* unless a batch was misread (LogInv).
THEOREM IndexInvariant == Spec => []IndexInv
BY InitIndex, NextIndex, PTL DEF Spec

\* Every header the walk back compares is stored, one of a height, and the
\* ranges do not overlap (RecoveryHasItsHeaders): reconcileCheckpoint and
\* applyBatch find no hole and no contradiction after any crash, whatever was
\* misread.
THEOREM RecoveryFindsItsHeaders == Spec => []RecoveryHasItsHeaders
<1>1. IndexInv => RecoveryHasItsHeaders
  <2> SUFFICES ASSUME IndexInv PROVE RecoveryHasItsHeaders
    OBVIOUS
  <2>1. TypeOK /\ HeadersOK /\ RangesOK
    BY DEF IndexInv, StoreInv
  <2>2. \A n \in Compared : StoredAt(n) # {}
    BY <2>1, ComparedStored
  <2> QED
    BY <2>1, <2>2 DEF RecoveryHasItsHeaders, RangesOK, RangeOK, HeadersOK
<1> QED
  BY <1>1, IndexInvariant, PTL

\* Every step but a commit, a fall back and the write of a job leaves the store.
LEMMA StoreStays ==
    ASSUME [Next]_vars
    PROVE  \/ Commit \/ RollBack
           \/ \E j \in jobs : DensifyWrite(j)
           \/ UNCHANGED <<store, misread>>
<1>1. Reconcile \/ CompareNext \/ NoAncestor => UNCHANGED <<store, misread>>
  BY DEF Reconcile, CompareNext, NoAncestor
<1>2. Discover => UNCHANGED <<store, misread>>
  BY Zenon DEF Discover, Abandon
<1>3. ReadLogs \/ ReadLateLogs => UNCHANGED <<store, misread>>
  BY Zenon DEF ReadLogs, ReadLateLogs
<1>4. \A n : ReadAnchor(n) => UNCHANGED <<store, misread>>
  BY Zenon DEF ReadAnchor, Abandon
<1>5. Crash \/ ChainMoves \/ UNCHANGED vars => UNCHANGED <<store, misread>>
  BY DEF Crash, Abandon, ChainMoves, Grow, Reorganise, vars
<1>6. (\E r \in store.ranges : DensifyFetch(r)) \/ DensifyFails => UNCHANGED <<store, misread>>
  BY DEF DensifyFetch, DensifyFails
<1> QED
  BY <1>1, <1>2, <1>3, <1>4, <1>5, <1>6, StepsAre

\* A batch appends to the log, a fall back cuts it, and every other step leaves
\* it, unless a batch is misread or was.
LEMMA LogStep ==
    ASSUME IndexInv, IndexInv', [Next]_vars
    PROVE  \/ misread'
           \/ ~ misread /\ (Index!Append_ \/ Index!FallBack)
           \/ UNCHANGED <<store.checkpoint, store.events, misread>>
<1>1. misread \in BOOLEAN /\ misread' \in BOOLEAN
  BY DEF IndexInv, StoreInv, TypeOK
<1>2. ~ misread' => store'.events = Index!EventsOn(store'.checkpoint)
  BY DEF IndexInv, LogInv, BranchOK, Index!EventsOn, Index!HashOn
<1>3. CASE Commit
  <2>1. store' = store \/ misread' \/ IsStrictPrefix(store.checkpoint, store'.checkpoint)
    BY <1>3, CommitKeeps
  <2>2. misread => misread'
    BY <1>3, CommitKeeps
  <2> QED
    BY <1>1, <1>2, <2>1, <2>2 DEF Index!Append_,
           Index!IsStrictPrefix, Index!IsPrefix, IsStrictPrefix, IsPrefix
<1>4. CASE RollBack
  <2>1. misread' = misread /\ (misread \/ IsStrictPrefix(store'.checkpoint, store.checkpoint))
    BY <1>4, RollBackKeeps DEF RollBack
  <2> QED
    BY <1>1, <1>2, <2>1 DEF Index!FallBack,
           Index!IsStrictPrefix, Index!IsPrefix, IsStrictPrefix, IsPrefix
<1>5. ASSUME NEW j \in jobs, DensifyWrite(j)
      PROVE  UNCHANGED <<store.checkpoint, store.events, misread>>
  BY <1>5, DensifyWriteKeeps DEF DensifyWrite
<1>6. CASE UNCHANGED <<store, misread>>
  BY <1>6
<1> QED
  BY <1>3, <1>4, <1>5, <1>6, StoreStays

\* The database moves only along a branch, and serves the events of that branch
\* and no others (ImplementsCanonicalLog), over any reorganisations, lagging
\* answers, crashes and changes of mode, until a batch is misread: that is, it
\* commits one of the three kinds that ImplementsCanonicalLog names.
THEOREM IndexerImplementsLog == Spec => ImplementsCanonicalLog
<1>1. Init => Index!LogInit
  BY DEF Init, Index!LogInit, NoBlock
<1>2. IndexInv /\ IndexInv' /\ [Next]_vars =>
        [Index!LogNext]_<<store.checkpoint, store.events, misread>>
  BY LogStep DEF Index!LogNext
<1> QED
  BY <1>1, <1>2, IndexInvariant, PTL DEF Spec, ImplementsCanonicalLog, Index!LogSpec

\* A fall back gives up no range whose end is canonical (CanonicalRangesKept),
\* however the chain has moved between the walk back and rollbackAfter.
THEOREM CanonicalRangesStay == Spec => CanonicalRangesKept
<1>1. IndexInv /\ [Next]_vars =>
        [\A r \in store.ranges :
           (\A h \in StoredAt(r.to) : OnChain(h)) => Len(store'.checkpoint) >= r.to]_vars
  <2> SUFFICES ASSUME IndexInv, [Next]_vars,
                      NEW r \in store.ranges, \A h \in StoredAt(r.to) : OnChain(h)
               PROVE  Len(store'.checkpoint) >= r.to
    OBVIOUS
  <2>1. TypeOK /\ RangeOK(r)
    BY DEF IndexInv, StoreInv, RangesOK
  <2>2. Len(store.checkpoint) \in Nat /\ r.to \in Nat /\ r.to <= Len(store.checkpoint)
    BY <2>1, Fields DEF RangeOK
  <2>3. CASE Commit
    <3>1. IndexInv' /\ Len(store.checkpoint) <= Len(store'.checkpoint)
      BY <2>3, CommitKeeps
    <3>2. store'.checkpoint \in Branch
      BY <3>1 DEF IndexInv, StoreInv, TypeOK, Store
    <3> QED
      BY <2>2, <3>1, <3>2, BranchHas
  <2>4. CASE RollBack
    BY <2>4, RollBackKeeps
  <2>5. ASSUME NEW j \in jobs, DensifyWrite(j)
        PROVE  Len(store'.checkpoint) >= r.to
    BY <2>2, <2>5, DensifyWriteKeeps
  <2>6. CASE UNCHANGED <<store, misread>>
    BY <2>2, <2>6
  <2> QED
    BY <2>3, <2>4, <2>5, <2>6, StoreStays
<1> QED
  BY <1>1, IndexInvariant, PTL DEF Spec, CanonicalRangesKept

-----------------------------------------------------------------------------
(* What finality at the confirmations rules out.                           *)

\* No block below the confirmations is replaced.
Final    == \A n \in 1..(Len(chain) - Confirmations) : chain'[n] = chain[n]
Finality == [][Final]_vars

\* A height below the confirmations, or none.
Safe(n) == n = 0 \/ n <= Len(chain) - Confirmations

\* Nothing has been misread, and what is relied on is below the confirmations.
SettledInv ==
    /\ ~ misread /\ ~ scan.torn
    /\ Safe(Len(store.checkpoint)) /\ Safe(Len(scan.pred)) /\ Safe(scan.to)

\* The walk back and the fall back end at a height of the store.
LEMMA ReconcilingSettles ==
    ASSUME IndexInv, SettledInv,
           Reconcile \/ CompareNext \/ NoAncestor \/ RollBack \/ (UNCHANGED chain /\ Abandon /\ misread' = misread)
    PROVE  SettledInv'
<1> DEFINE cp == store.checkpoint
<1>1. /\ TypeOK /\ HeadersOK /\ RangesOK /\ WalkOK /\ ~ misread /\ ~ scan.torn
      /\ Safe(Len(cp)) /\ Safe(Len(scan.pred)) /\ Safe(scan.to)
  BY DEF IndexInv, StoreInv, SettledInv
<1>2. /\ cp \in Branch /\ Len(cp) \in Nat /\ <<>> \in Branch /\ Len(<<>>) = 0
      /\ Safe(0) /\ scan \in Scan /\ Len(chain) \in Nat /\ Confirmations \in Nat
  BY <1>1, Fields, EmptySeq, IndexerAssumption DEF Safe, TypeOK, Branch
<1>3. ASSUME NEW m, NEW w, NEW p, NEW t, ~ t, Safe(Len(p)), Safe(m),
             UNCHANGED <<chain, store, misread>>, NEW l, NEW a,
             scan' = [pred |-> p, to |-> m, logs |-> l, anchors |-> a, walk |-> w, torn |-> t]
      PROVE  SettledInv'
  <2>1. scan'.pred = p /\ scan'.to = m /\ scan'.torn = t
    BY ONLY <1>3
  <2> QED
    BY <1>1, <1>3, <2>1 DEF SettledInv, Safe
<1>4. NoScan = [pred |-> <<>>, to |-> 0, logs |-> {}, anchors |-> {}, walk |-> {}, torn |-> FALSE]
  BY NoScanIs
<1>5. CASE scan' = NoScan /\ UNCHANGED <<chain, store, misread>>
  BY <1>2, <1>3, <1>4, <1>5
<1>6. CASE Reconcile
  <2>1. \/ scan' = NoScan
        \/ scan' = [pred |-> <<>>, to |-> 0, logs |-> {}, anchors |-> {}, walk |-> Compared, torn |-> FALSE]
    BY <1>4, <1>6 DEF Reconcile
  <2>2. UNCHANGED <<chain, store, misread>>
    BY <1>6 DEF Reconcile
  <2> QED
    BY <1>2, <1>3, <1>5, <2>1, <2>2
<1>7. CASE CompareNext
  <2> DEFINE n == Max(scan.walk)
  <2>1. UNCHANGED <<chain, store, misread>> /\ pc = "walk" /\ scan.walk # {}
    BY <1>7 DEF CompareNext
  <2>2. scan.walk \subseteq Compared /\ \A m \in Compared : m \in 1..Len(cp)
    BY <1>1, <2>1, ComparedStored DEF WalkOK
  <2>3. scan.walk \in SUBSET (0..Len(cp))
    BY <1>2, <2>2
  <2>4. n \in 1..Len(cp)
    BY <1>2, <2>1, <2>2, <2>3, MaxIs
  <2>5. \/ scan' = [scan EXCEPT !.walk = @ \ {n}]
        \/ scan' = [NoScan EXCEPT !.pred = cp]
        \/ scan' = [NoScan EXCEPT !.to = n]
    BY <1>7 DEF CompareNext
  <2> HIDE DEF n
  <2>6. \/ scan' = [pred |-> scan.pred, to |-> scan.to, logs |-> scan.logs, anchors |-> scan.anchors,
                    walk |-> scan.walk \ {n}, torn |-> scan.torn]
        \/ scan' = [pred |-> cp, to |-> 0, logs |-> {}, anchors |-> {}, walk |-> {}, torn |-> FALSE]
        \/ scan' = [pred |-> <<>>, to |-> n, logs |-> {}, anchors |-> {}, walk |-> {}, torn |-> FALSE]
    BY <1>2, <1>4, <2>5 DEF Scan
  <2>7. Safe(n)
    BY <1>1, <1>2, <2>4 DEF Safe
  <2> QED
    BY <1>1, <1>2, <1>3, <2>1, <2>6, <2>7
<1>8. CASE NoAncestor
  BY <1>5, <1>8 DEF NoAncestor
<1>9. CASE RollBack
  <2>1. /\ UNCHANGED <<chain, misread>>
        /\ scan' = [NoScan EXCEPT !.pred = store'.checkpoint, !.torn = scan.torn]
    BY <1>9 DEF RollBack
  <2>2. IndexInv' /\ IsStrictPrefix(store'.checkpoint, cp)
    BY <1>1, <1>9, RollBackKeeps
  <2>3. PICK c \in Branch : c = store'.checkpoint
    BY <2>2 DEF IndexInv, StoreInv, TypeOK, Store
  <2>4. Len(c) <= Len(cp) /\ Len(c) \in Nat
    BY <1>2, <2>2, <2>3, PrefixHolds, BranchHas DEF IsStrictPrefix
  <2>5. Safe(Len(c))
    BY <1>1, <1>2, <2>4 DEF Safe
  <2>6. scan' = [pred |-> c, to |-> 0, logs |-> {}, anchors |-> {}, walk |-> {}, torn |-> scan.torn]
    BY <1>4, <2>1, <2>3
  <2>7. scan'.pred = c /\ scan'.to = 0 /\ scan'.torn = scan.torn
    BY ONLY <2>6
  <2> QED
    BY <1>1, <1>2, <2>1, <2>3, <2>5, <2>7 DEF SettledInv, Safe
<1>10. CASE UNCHANGED chain /\ Abandon /\ misread' = misread
  BY <1>5, <1>10 DEF Abandon
<1> QED
  BY <1>6, <1>7, <1>8, <1>9, <1>10

\* A batch whose range ends below the confirmations, of all the logs there are.
LEMMA ReadingSettles ==
    ASSUME IndexInv, SettledInv, Lagging \subseteq {"discovery"},
           Discover \/ ReadLogs \/ ReadLateLogs \/ \E n \in AnchorHeights : ReadAnchor(n)
    PROVE  SettledInv'
<1>1. /\ TypeOK /\ ~ misread /\ ~ scan.torn
      /\ Safe(Len(store.checkpoint)) /\ Safe(Len(scan.pred)) /\ Safe(scan.to)
  BY DEF IndexInv, StoreInv, SettledInv
<1>2. /\ scan \in Scan /\ Len(chain) \in Nat /\ Confirmations \in Nat /\ BatchSize \in Nat
      /\ From \in Nat
  BY <1>1, Fields, IndexerAssumption DEF TypeOK
<1>3. ASSUME NEW m, Safe(m), NEW t, ~ t, NEW l, NEW a, UNCHANGED <<chain, store, misread>>,
             scan' = [pred |-> scan.pred, to |-> m, logs |-> l, anchors |-> a, walk |-> scan.walk, torn |-> t]
      PROVE  SettledInv'
  <2>1. scan'.pred = scan.pred /\ scan'.to = m /\ scan'.torn = t
    BY ONLY <1>3
  <2> QED
    BY <1>1, <1>3, <2>1 DEF SettledInv, Safe
<1>4. CASE UNCHANGED chain /\ Abandon /\ misread' = misread
  BY <1>4, ReconcilingSettles
<1>5. CASE Discover
  <2> DEFINE safeHead == Len(chain) - Confirmations
             to == Min({From + BatchSize - 1, safeHead})
             found == \E seen \in Answers("discovery", LogsOf("created", From, to)) :
                        scan' = [scan EXCEPT !.to = to, !.logs = seen]
  <2>1. found => \E seen : scan' = [scan EXCEPT !.to = to, !.logs = seen]
    BY Zenon
  <2>2. /\ UNCHANGED <<chain, misread>>
        /\ Abandon \/ (found /\ UNCHANGED store)
    BY <1>5, Zenon DEF Discover
  <2>3. Safe(to)
    <3>1. From + BatchSize - 1 \in Int /\ safeHead \in Int
      BY <1>2
    <3> QED
      BY <3>1, MinOfTwo DEF Safe
  <2> HIDE DEF found, to
  <2>4. CASE Abandon
    BY <1>4, <2>2, <2>4
  <2>5. CASE found /\ UNCHANGED store
    <3>1. PICK seen : scan' = [scan EXCEPT !.to = to, !.logs = seen]
      BY <2>1, <2>5, Zenon
    <3>2. scan' = [pred |-> scan.pred, to |-> to, logs |-> seen, anchors |-> scan.anchors,
                   walk |-> scan.walk, torn |-> scan.torn]
      BY <1>2, <3>1 DEF Scan
    <3> QED
      BY <1>1, <1>3, <2>2, <2>3, <2>5, <3>2
  <2> QED
    BY <2>2, <2>4, <2>5
<1>6. ASSUME NEW query \in {"logs", "late"}, NEW all, NEW logs \in Answers(query, all),
             scan' = [scan EXCEPT !.logs = @ \cup logs, !.torn = @ \/ logs # all],
             UNCHANGED <<chain, store, misread>>
      PROVE  SettledInv'
  <2>1. logs = all
    BY <1>6 DEF Answers
  <2>2. PICK t : t = (scan.torn \/ logs # all)
    OBVIOUS
  <2>3. scan' = [pred |-> scan.pred, to |-> scan.to, logs |-> scan.logs \cup logs, anchors |-> scan.anchors,
                 walk |-> scan.walk, torn |-> t]
    BY <1>2, <1>6, <2>2 DEF Scan
  <2>4. ~ t
    BY <1>1, <2>1, <2>2
  <2> QED
    BY <1>1, <1>3, <1>6, <2>3, <2>4
<1>7. CASE ReadLogs
  <2> DEFINE known == Registered \/ scan.logs # {}
             all == LogsOf("created", From, scan.to)
                      \cup (IF known THEN LogsOf("traded", From, scan.to) ELSE {})
  <2>1. /\ UNCHANGED <<chain, store, misread>>
        /\ \E logs \in Answers("logs", all) :
             /\ scan' = [scan EXCEPT !.logs = @ \cup logs, !.torn = @ \/ logs # all]
             /\ pc' = IF ~known /\ logs # {} THEN "late" ELSE "anchors"
    BY ONLY <1>7, Zenon DEF ReadLogs
  <2> HIDE DEF known, all
  <2>2. PICK logs \in Answers("logs", all) :
          scan' = [scan EXCEPT !.logs = @ \cup logs, !.torn = @ \/ logs # all]
    BY ONLY <2>1, Zenon
  <2> QED
    BY <1>6, <2>1, <2>2, Zenon
<1>8. CASE ReadLateLogs
  <2> DEFINE all == LogsOf("traded", From, scan.to)
  <2>1. /\ UNCHANGED <<chain, store, misread>>
        /\ \E logs \in Answers("late", all) :
             scan' = [scan EXCEPT !.logs = @ \cup logs, !.torn = @ \/ logs # all]
    BY ONLY <1>8, Zenon DEF ReadLateLogs
  <2> HIDE DEF all
  <2>2. PICK logs \in Answers("late", all) :
          scan' = [scan EXCEPT !.logs = @ \cup logs, !.torn = @ \/ logs # all]
    BY ONLY <2>1, Zenon
  <2> QED
    BY <1>6, <2>1, <2>2, Zenon
<1>9. ASSUME NEW n \in AnchorHeights, ReadAnchor(n)
      PROVE  SettledInv'
  <2>1. /\ UNCHANGED <<chain, misread>>
        /\ \/ Abandon
           \/ UNCHANGED store /\ \E anchors : scan' = [scan EXCEPT !.anchors = anchors]
    BY <1>9, Zenon DEF ReadAnchor
  <2>2. ASSUME UNCHANGED store, NEW anchors, scan' = [scan EXCEPT !.anchors = anchors]
        PROVE  SettledInv'
    <3>1. scan' = [pred |-> scan.pred, to |-> scan.to, logs |-> scan.logs, anchors |-> anchors,
                   walk |-> scan.walk, torn |-> scan.torn]
      BY <1>2, <2>2 DEF Scan
    <3> QED
      BY <1>1, <1>3, <2>1, <2>2, <3>1
  <2> QED
    BY <1>4, <2>1, <2>2
<1> QED
  BY <1>5, <1>7, <1>8, <1>9

\* The chain replaces nothing that the batch relies on.
LEMMA FinalChainSettles ==
    ASSUME IndexInv, SettledInv, ChainMoves, Final
    PROVE  SettledInv'
<1>1. /\ TypeOK /\ ChainOK /\ ~ misread /\ ~ scan.torn
      /\ Safe(Len(store.checkpoint)) /\ Safe(Len(scan.pred)) /\ Safe(scan.to)
  BY DEF IndexInv, StoreInv, SettledInv
<1>2. /\ UNCHANGED <<store, misread>>
      /\ scan'.pred = scan.pred /\ scan'.to = scan.to
  BY <1>1, ChainMoveLeaves
<1>3. /\ chain \in Branch /\ Len(chain) \in Nat /\ Confirmations \in Nat /\ reorgs \in Nat
      /\ scan \in Scan /\ scan.to \in Nat /\ Len(scan.pred) \in Nat
      /\ Len(store.checkpoint) \in Nat
  BY <1>1, Fields, IndexerAssumption DEF TypeOK
<1>4. Len(chain) <= Len(chain') /\ Len(chain') \in Nat
  BY <1>1, ChainStep, BranchHas
<1>5. /\ Safe(Len(store.checkpoint))' /\ Safe(Len(scan.pred))' /\ Safe(scan.to)'
  BY <1>1, <1>2, <1>3, <1>4 DEF Safe
<1>6. CASE Grow
  BY <1>1, <1>2, <1>5, <1>6 DEF Grow, SettledInv
<1>7. ASSUME NEW n \in DOMAIN chain, Reorganise(n)
      PROVE  SettledInv'
  <2>1. /\ n \in 1..Len(chain) /\ \A m \in n..Len(chain) : chain'[m].fork = reorgs + 1
    BY <1>1, <1>7, ReorganisationReplaces
  <2>2. ~ Safe(n)
    <3>1. chain[n].fork <= reorgs /\ chain'[n].fork = reorgs + 1 /\ chain[n].fork \in Nat
      BY <1>1, <1>3, <2>1, BranchHas DEF ChainOK, Block
    <3>2. chain'[n] # chain[n]
      BY <1>3, <3>1
    <3> QED
      BY <1>3, <2>1, <3>2 DEF Final, Safe
  <2>3. ASSUME n \in Unseen
        PROVE  n <= Len(scan.pred) \/ n <= scan.to
    <3> DEFINE read  == {Len(a) : a \in scan.anchors}
               shown == {Len(l.hash) : l \in scan.logs}
               upTo  == IF pc \in {"range", "logs"} THEN Len(scan.pred)
                        ELSE IF pc = "rollback" \/ (pc = "anchors" /\ scan.to \notin read) THEN scan.to
                        ELSE 0
    <3>1. n \in 1..upTo \/ n \in From..scan.to
      BY <2>3, Zenon DEF Unseen
    <3>2. upTo = Len(scan.pred) \/ upTo = scan.to \/ upTo = 0
      OBVIOUS
    <3> HIDE DEF upTo
    <3> QED
      BY <1>1, <1>3, <2>1, <3>1, <3>2, Fields
  <2>4. n \notin Unseen
    BY <1>1, <1>3, <2>1, <2>2, <2>3 DEF Safe
  <2>5. PICK t : t = (scan.torn \/ n \in Unseen)
    OBVIOUS
  <2>6. scan' = [scan EXCEPT !.torn = t]
    BY <1>7, <2>5 DEF Reorganise
  <2>7. scan'.torn = t /\ ~ t
    BY <1>1, <1>3, <2>4, <2>5, <2>6 DEF Scan
  <2> QED
    BY <1>1, <1>2, <1>5, <2>7 DEF SettledInv
<1> QED
  BY <1>6, <1>7 DEF ChainMoves

\* What a step that commits or densifies relies on is stored.
LEMMA StoringSettles ==
    ASSUME IndexInv, SettledInv, Commit \/ \E j \in jobs : DensifyWrite(j)
    PROVE  SettledInv'
<1>1. /\ TypeOK /\ BatchOK /\ ~ misread /\ ~ scan.torn
      /\ Safe(Len(store.checkpoint)) /\ Safe(Len(scan.pred)) /\ Safe(scan.to)
  BY DEF IndexInv, StoreInv, SettledInv
<1>2. CASE Commit
  <2> DEFINE endpoint == CHOOSE a \in scan.anchors : Len(a) = scan.to
  <2>1. /\ pc = "fence" /\ UNCHANGED chain /\ scan' = NoScan
        /\ store' = IF OnChain(endpoint) /\ Appliable THEN Applied(endpoint) ELSE store
        /\ misread' = (misread \/ ((OnChain(endpoint) /\ Appliable) /\ scan.torn))
    BY <1>2 DEF Commit
  <2>2. Len(endpoint) = scan.to
    BY <1>1, <2>1, EndpointIs
  <2> HIDE DEF endpoint
  <2>3. store'.checkpoint = endpoint \/ store'.checkpoint = store.checkpoint
    BY <2>1 DEF Applied
  <2>4. Safe(Len(store'.checkpoint))
    BY <1>1, <2>2, <2>3
  <2>5. scan'.pred = <<>> /\ scan'.to = 0 /\ scan'.torn = FALSE /\ Len(<<>>) = 0
    BY <2>1, NoScanIs, EmptySeq
  <2> QED
    BY <1>1, <2>1, <2>4, <2>5 DEF SettledInv, Safe
<1>3. ASSUME NEW j \in jobs, DensifyWrite(j)
      PROVE  SettledInv'
  <2>1. UNCHANGED <<chain, scan, misread>>
    BY <1>3, Zenon DEF DensifyWrite
  <2>2. store'.checkpoint = store.checkpoint
    BY <1>3, DensifyWriteKeeps, Zenon
  <2> QED
    BY <1>1, <2>1, <2>2 DEF SettledInv, Safe
<1> QED
  BY <1>2, <1>3

\* Every step keeps what is relied on below the confirmations.
LEMMA NextSettled ==
    ASSUME Lagging \subseteq {"discovery"}, IndexInv, SettledInv, [Next]_vars, [Final]_vars
    PROVE  SettledInv'
<1>1. ChainMoves => Final \/ UNCHANGED vars
  OBVIOUS
<1>2. CASE Crash
  BY <1>2, ReconcilingSettles DEF Crash
<1>3. CASE (\E r \in store.ranges : DensifyFetch(r)) \/ DensifyFails
  BY <1>3 DEF DensifyFetch, DensifyFails, SettledInv, Safe
<1>4. CASE UNCHANGED vars
  BY <1>4 DEF vars, SettledInv, Safe
<1>5. CASE ChainMoves
  BY <1>1, <1>4, <1>5, FinalChainSettles
<1> QED
  BY <1>2, <1>3, <1>4, <1>5, StepsAre, ReconcilingSettles, ReadingSettles, StoringSettles

\* If no block below the confirmations is ever replaced, and a node that serves
\* a head serves its logs to the query that follows, no batch is misread:
\* beyond these two nothing has to be assumed of the chain or the node.
THEOREM FinalityPreventsMisreading ==
    ASSUME Lagging \subseteq {"discovery"}
    PROVE  Spec /\ Finality => []~misread
<1>1. Init => SettledInv
  <2>1. Len(<<>>) = 0 /\ Safe(0)
    BY EmptySeq DEF Safe
  <2> QED
    BY <2>1 DEF Init, SettledInv, NoScan, NoBlock, Safe
<1>2. IndexInv /\ SettledInv /\ [Next]_vars /\ [Final]_vars => SettledInv'
  BY NextSettled
<1>3. SettledInv => ~misread
  BY DEF SettledInv
<1> QED
  BY <1>1, <1>2, <1>3, IndexInvariant, PTL DEF Spec, Finality
=============================================================================
