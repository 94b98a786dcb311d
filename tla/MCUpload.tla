------------------------------ MODULE MCUpload ------------------------------
(* Instances of the upload path for TLC. *)
EXTENDS UploadProperties, TLC

\* Connections are interchangeable; used for safety runs only.
Symmetry == Permutations(Request)
=============================================================================
