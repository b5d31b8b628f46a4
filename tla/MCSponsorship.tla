---------------------------- MODULE MCSponsorship ----------------------------
(* Values of the constants of Sponsorship for TLC. *)
EXTENDS SponsorshipProps, TLC

CONSTANTS Ann, Ben, r1, r2

Asks(subject, sender, nonce, cost, listings) ==
    [subject |-> subject, sender |-> sender, nonce |-> nonce,
     need |-> [cost |-> cost, createListing |-> listings, cancelListing |-> 0]]

SomeRequests == {Asks(Ann, Ann, 0, 2, 1), Asks(Ann, Ann, 1, 1, 0), Asks(Ben, Ben, 0, 2, 0)}

SomeLimits == [cost |-> 3, createListing |-> 1, cancelListing |-> 0]

Modest == [perOperation |-> 2, perUser |-> 2, global |-> 2]
Ample  == [perOperation |-> 2, perUser |-> 4, global |-> 4]
SomeBudgets == {Modest}

Alike == Permutations(Requests)

=============================================================================
