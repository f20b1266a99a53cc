------------------------------ MODULE MCSubmit ------------------------------
(***************************************************************************)
(* Submitters, workflow runs and ways of GitHub for checking Submit with   *)
(* TLC.                                                                    *)
(***************************************************************************)
EXTENDS Submit, TLC

MCRunIds2 == 1 .. 2
MCRunIds3 == 1 .. 3

MCGitHubs == [returns_id : BOOLEAN, lists_promptly : BOOLEAN]
MCNoIds   == {[returns_id |-> FALSE, lists_promptly |-> TRUE]}

MCSymmetry == Permutations(Submitters)
=============================================================================
