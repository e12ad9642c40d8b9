-------------------------- MODULE MCAccountStream --------------------------
(* ShardedSender implements AccountStream, on the instance of MCShardedSender. *)
EXTENDS MCShardedSender, SenderStream
=============================================================================
