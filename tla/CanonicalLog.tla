---------------------------- MODULE CanonicalLog ----------------------------
(***************************************************************************)
(* What an index of chain events promises its readers: at every moment it  *)
(* holds exactly the events of one branch of the chain, up to the block it *)
(* has reached.  It moves by appending blocks to that branch or by falling *)
(* back to an earlier block of it, never by anything in between.           *)
(***************************************************************************)
EXTENDS Integers, Sequences, SequencesExt

VARIABLES
    branch,     \* the blocks indexed so far, the root first: [fork, logs]
    log,        \* the events served: [hash, kind]
    void        \* the promise binds no longer

\* A block is named by itself and everything below it, as its hash does.
HashOn(blocks, n) == SubSeq(blocks, 1, n)

EventsOn(blocks) ==
    UNION {{[hash |-> HashOn(blocks, n), kind |-> k] : k \in blocks[n].logs} :
             n \in DOMAIN blocks}

LogInit == branch = <<>> /\ log = {} /\ void = FALSE

Append_ ==
    /\ IsStrictPrefix(branch, branch')
    /\ log' = EventsOn(branch')

FallBack ==
    /\ IsStrictPrefix(branch', branch)
    /\ log' = EventsOn(branch')

\* Once void, anything may follow, but it is void for ever.
LogNext == void' \/ (~void /\ (Append_ \/ FallBack))

LogSpec == LogInit /\ [][LogNext]_<<branch, log, void>>

=============================================================================
