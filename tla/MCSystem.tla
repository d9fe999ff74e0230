------------------------------ MODULE MCSystem ------------------------------
(***************************************************************************)
(* An instance of System: files without a chunk, but for one of one chunk. *)
(***************************************************************************)
EXTENDS System

MCChunks == [s \in 1 .. 3 |-> IF s = 3 THEN 1 ELSE 0]
=============================================================================
