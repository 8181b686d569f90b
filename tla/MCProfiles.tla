------------------------------ MODULE MCProfiles ----------------------------
(* Model checking of Profiles.  The processes are interchangeable.         *)
EXTENDS Profiles, TLC

MCMistakes == {{}, {"feeRate"}, {"gapLimit"}}

Symmetry == Permutations(Procs)
=============================================================================
