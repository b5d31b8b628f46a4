---------------------------- MODULE IndexerProps ----------------------------
(* What the indexer must keep, over chains that reorganise. *)
EXTENDS Indexer

\* The database holds the events of the checkpoint's branch, all of them and
\* no others, and moves only along a branch: the promise of CanonicalLog,
\* whatever the chain and the node do between two requests, unless a batch was
\* misread, after which nothing is promised.  A batch is misread when it is
\* committed although
\*   - a node behind the others left logs out of its last answers, or
\*   - the chain replaced blocks of its range after the last query for logs,
\*     none of whose logs or headers the batch holds, or
\*   - in sparse mode, it replaced the checkpoint after the walk back compared
\*     it, or blocks of the range between two headers that do not adjoin, and
\*     no log that is still to be matched with a header lies above (Unseen).
\* The code does not notice these.  The first needs a node that serves a head
\* and not its logs; the others need a reorganisation deeper than the
\* confirmations (IndexerProofs!FinalityPreventsMisreading), which indexer.ts
\* claims to survive.
Index == INSTANCE CanonicalLog
           WITH branch <- store.checkpoint, log <- store.events, void <- misread
ImplementsCanonicalLog == Index!LogSpec

\* A restart never meets a hole or a contradiction: the stored branch has one
\* header of a height, ranges neither overlap nor lose the header they end in,
\* and every header the walk back compares is there, so that neither
\* reconcileCheckpoint nor applyBatch can fail for good.
RecoveryHasItsHeaders ==
    /\ \A n \in Compared : StoredAt(n) # {}
    /\ \A g, h \in store.blocks : Len(g) = Len(h) => g = h
    /\ \A q, r \in store.ranges : q = r \/ q.to < FromOf(r) \/ r.to < FromOf(q)
    /\ \A r \in store.ranges : StoredAt(r.to) # {}

\* A fall back gives up no range that still ends in a canonical block.  (The
\* rest of a range that was cut is given up with its checkpoint: it is no
\* range's end, and no later walk looks at it.)
CanonicalRangesKept ==
    [][\A r \in store.ranges :
         (\A h \in StoredAt(r.to) : OnChain(h)) => Len(store'.checkpoint) >= r.to]_vars

\* Once the chain stands still, the index ends at its newest safe block.
AtSafeHead ==
    /\ OnChain(store.checkpoint)
    /\ Len(store.checkpoint) = Max({Len(chain) - Confirmations, 0})

CatchesUp == <>[]AtSafeHead

=============================================================================
