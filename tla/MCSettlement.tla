---------------------------- MODULE MCSettlement ----------------------------
(* Values for TLC of the constants that a .cfg cannot write: requests.     *)
EXTENDS SettlementProps, TLC

CONSTANTS u1, u2, m1, m2, tp, tc    \* model values: users, markets, treasuries

\* The maximal rake and the default platform share, on principals that make
\* every fee and pool non-zero and the floors matter.
RichRequest ==
    [mode |-> "FULL", marketCap |-> 110, userCap |-> 100, minUnits |-> 30,
     bond |-> 4, creatorRakeBps |-> 730, custom |-> FALSE, platformRakeShareBps |-> 0]

EarlyTerms ==
    [closeAfter |-> 3, outcomeAfter |-> 3, creatorTreasury |-> tc,
     features |-> {"EARLY_BIRD", "PERMIT2"}]

OneRequest == {RichRequest}

\* The creator and the protocol may name the same treasury.
SharedTreasuryTerms == {[EarlyTerms EXCEPT !.creatorTreasury = tp]}

Symmetry == Permutations({u1, u2})

\* A market of one or two purchases, for the runs about several markets.
SmallRequests ==
    {[RichRequest EXCEPT !.marketCap = 100, !.userCap = 100, !.minUnits = 40,
                         !.creatorRakeBps = 0]}
ShortTerms == {[EarlyTerms EXCEPT !.closeAfter = 1, !.outcomeAfter = 1, !.features = {}]}
MarketSymmetry == Permutations({m1, m2})

\* Both entry points of createMarket; the third request asks for more rake
\* than any configuration allows.
PlatformRequests ==
    {[RichRequest EXCEPT !.userCap = 60, !.minUnits = 40, !.creatorRakeBps = 1000],
     [RichRequest EXCEPT !.mode = "CLONE", !.marketCap = 50, !.userCap = 50, !.minUnits = 40,
                         !.custom = TRUE, !.platformRakeShareBps = 5000],
     [RichRequest EXCEPT !.creatorRakeBps = 5000, !.userCap = 60, !.minUnits = 40]}

BriefTerms  == {[EarlyTerms EXCEPT !.closeAfter = 1, !.outcomeAfter = 1]}

SeveralTerms == BriefTerms \cup {[EarlyTerms EXCEPT !.closeAfter = 1, !.outcomeAfter = 2, !.features = {}]}

FullPause == {PauseFlags}

=============================================================================
