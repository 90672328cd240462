------------------------------ MODULE MCUpload ------------------------------
(* Calls of one kind are interchangeable. *)
EXTENDS Upload, TLC

UploadSymmetry == Permutations(Writers) \cup Permutations(Completes)

=============================================================================
