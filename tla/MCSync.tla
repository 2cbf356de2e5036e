------------------------------- MODULE MCSync -------------------------------
(* Model of SyncAgent for TLC: the second backup adds a chunk that the     *)
(* third one keeps, so that a delta from the first to the third needs it.  *)
EXTENDS SyncAgent

CONSTANTS a, b, c

Snapshots == <<{a}, {a, b}, {b, c}>>

(* Every backup writes the chunks that are new.                            *)
Packs == <<{a}, {b}, {c}>>
=============================================================================
