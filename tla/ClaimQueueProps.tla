--------------------------- MODULE ClaimQueueProps ---------------------------
(* What the queue of the automatic claims must keep. *)
EXTENDS ClaimQueue

\* A candidate is in flight exactly as long as the journal holds its
\* transaction: no scan, reset or change of preference in between brings it
\* back to be signed twice, and none is forgotten in flight.
InflightIsSigned ==
    \A j \in Jobs : (candidates[j].state = "inflight") <=> (journal.job = j)

\* Nothing is signed for an owner who has opted out, although the sender and
\* the scans read the preference before they write.
OptOutHonoured ==
    [][journal = NoTx /\ journal' # NoTx => OwnerOf[journal'.job] \notin optedOut]_vars

\* A candidate of an earlier epoch came back from flight; it is never served,
\* and counts as work for ever.
LeftOver ==
    \E j \in Jobs : candidates[j].state = "deferred" /\ candidates[j].epoch # discovery.epoch

Wanted(j) == claim[j] = "due" /\ OwnerOf[j] \notin optedOut

\* On its way: an event discovery has still to read, a scope to scan, a
\* candidate, or a transaction.
OnItsWay(j) ==
    \/ discovery.epoch # ledger.epoch
    \/ \E n \in (discovery.cursor + 1)..Len(log) : log[n].job = j
    \/ scopes[j].due # "idle" \/ scopes[OwnerOf[j]].due # "idle"
    \/ Waiting(j) \/ journal.job = j

\* A claim on its way is only taken off it by a rejection that comes late, or
\* by the end of its own earlier transaction: no event or preference that
\* arrives during a scan is overwritten by what the scan had seen before.
\* (A fact that was never indexed can be undone without any event.)
WakesKept ==
    [][\A j \in Jobs :
          ~unseen /\ Wanted(j) /\ Wanted(j)' /\ OnItsWay(j) =>
              OnItsWay(j)' \/ Finish \/ (Act /\ sender.job = j /\ ~sender.sign)]_vars

\* A claim that stays due and wanted is signed at last: through lost wakes,
\* stale rejections, failures, rollbacks of the ledger and deadlines without
\* an event, as long as nothing is left over.
WantedIsSigned ==
    \A j \in Jobs : []<>(~Wanted(j) \/ journal.job = j \/ LeftOver)

\* The backstop starts its next round whenever the last is over.
BackstopComesRound == discovery.backstopDue ~> ~discovery.backstopDue

=============================================================================
