-------------------------- MODULE MCMatchScoring --------------------------
(* Small instances of MatchScoring: see the .cfg files.                    *)
EXTENDS MatchScoring, TLC

CONSTANTS alice, bob

OneName == {alice}
TwoNames == {alice, bob}
(* Names are interchangeable. *)
NameSymmetry == Permutations(Names)

OneLoss == {2}
TwoLosses == {1, 2}
===========================================================================
