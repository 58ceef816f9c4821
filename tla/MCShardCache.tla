---------------------------- MODULE MCShardCache ----------------------------
(* Small instances of ShardCache: shards told apart by nothing.              *)
EXTENDS ShardCache, TLC

CONSTANTS s1, s2, s3

ShardSymmetry == Permutations(Shards)
=============================================================================
