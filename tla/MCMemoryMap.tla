---------------------------- MODULE MCMemoryMap -----------------------------
(* Tables of up to three entries of every kind: long enough for a rejected  *)
(* entry before, between and after accepted ones.                           *)
EXTENDS MemoryMap

MCTables == UNION {[1..n -> Entries] : n \in 1..3}
=============================================================================
