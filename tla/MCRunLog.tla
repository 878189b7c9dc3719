------------------------------- MODULE MCRunLog -------------------------------
(***************************************************************************)
(* Instances of RunLog for TLC.                                            *)
(***************************************************************************)
EXTENDS RunLog, TLC

SessionSymmetry == Permutations(Appenders) \cup Permutations(Creators)

=============================================================================
