---------------------------- MODULE MCCompaction ----------------------------
(* Small instances of Compaction: two trees that share a chunk, so that a  *)
(* backup reuses one chunk, drops one that a snapshot may still need, and  *)
(* brings one back that a compaction may have left out.                    *)
EXTENDS Compaction, TLC

CONSTANTS c1, c2, c3

MCChunks == {c1, c2, c3}
MCTrees == {{c1, c2}, {c2, c3}}

(* The two trees are each other's image. *)
Mirror == Permutations({c1, c3})
=============================================================================
