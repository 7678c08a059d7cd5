---------------------------- MODULE MCMemoryStore ----------------------------
\* The run of MemoryStore: two clients that campaign, and one key that comes,
\* changes and goes beside the keys of the election.
EXTENDS MemoryStore

CONSTANTS n1, n2

=============================================================================
