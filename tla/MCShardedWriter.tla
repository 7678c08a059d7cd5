-------------------------- MODULE MCShardedWriter --------------------------
\* Two shards: one with two ids, one with one.
EXTENDS ShardedWriter

MCIds == 0..2

=============================================================================
