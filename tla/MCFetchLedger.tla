---------------------------- MODULE MCFetchLedger ----------------------------
(* A source of one or two keys, polled by one or two ingests. *)
EXTENDS SourceHealth, TLC

UpstreamSymmetry == Permutations(Key) \cup Permutations(Payload)
=============================================================================
