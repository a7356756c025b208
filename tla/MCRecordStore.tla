---------------------------- MODULE MCRecordStore ----------------------------
(* RecordStore for TLC: every stage is in the same board, and clients are  *)
(* interchangeable.                                                        *)
EXTENDS RecordStore, TLC

CONSTANT FirstBoard

AllInFirst == [s \in Stages |-> FirstBoard]

Interchangeable == Permutations(Clients)
=============================================================================
