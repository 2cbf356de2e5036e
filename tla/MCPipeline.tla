----------------------------- MODULE MCPipeline -----------------------------
(* Model of Pipeline for TLC: two file workers.  The first has a file of   *)
(* two chunks (cut in one batch or in two), the second an empty file and   *)
(* files of one chunk: two, as many as a reader that leaves at once and a  *)
(* queue of depth one take, or three.                                      *)
EXTENDS Pipeline

CONSTANTS big, empty, small, more

TwoFiles == <<<<big>>, <<empty, small>>>>
ThreeFiles == <<<<big>>, <<empty, small, more>>>>

ChunksOf == [f \in Files |-> CASE f = big -> 2 [] f = empty -> 0 [] OTHER -> 1]
=============================================================================
