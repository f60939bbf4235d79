---------------------------- MODULE MCReleaseJob ----------------------------
EXTENDS ReleaseJob, TLC

(* Runs are interchangeable, and so are versions.                            *)
Symmetry == Permutations(Runs) \cup Permutations(Versions)
=============================================================================
