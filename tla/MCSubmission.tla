--------------------------- MODULE MCSubmission ---------------------------
(***************************************************************************)
(* Instances of Submission: a file of two chunks, an empty file and a file *)
(* of one chunk.                                                           *)
(***************************************************************************)
EXTENDS Submission, TLC

MCChunks == 1 :> 2 @@ 2 :> 0 @@ 3 :> 1
Symmetry == Permutations(Requests)
=============================================================================
