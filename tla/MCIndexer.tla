----------------------------- MODULE MCIndexer -----------------------------
(* Values of the constants of Indexer for TLC. *)
EXTENDS IndexerProps

\* Blocks that create the vault, that trade in it, and empty ones.
SomeLogs == {{}, {"created"}, {"traded"}}

=============================================================================
