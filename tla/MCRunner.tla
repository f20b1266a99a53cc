------------------------------ MODULE MCRunner ------------------------------
(***************************************************************************)
(* Command lines and clients for checking Runner with TLC.                 *)
(***************************************************************************)
EXTENDS Runner, TLC

CONSTANT b1

Plain == [fpga |-> NULL, force |-> FALSE, keep |-> FALSE, save |-> TRUE]
Quick == [Plain EXCEPT !.save = FALSE]

MCQuick   == {Quick}
MCSaving  == {Plain}
MCKeeping == {Plain, [Plain EXCEPT !.keep = TRUE]}
MCForced  == {Plain, [Plain EXCEPT !.force = TRUE]}
MCAnyMode == {Quick, [Quick EXCEPT !.force = TRUE, !.keep = TRUE],
              [Quick EXCEPT !.fpga = b1, !.force = TRUE]}

MCSymmetry == Permutations(Clients) \cup Permutations(Boards)
=============================================================================
