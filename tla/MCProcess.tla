----------------------------- MODULE MCProcess -------------------------------
(***************************************************************************)
(* Command lines and a host for checking Process with TLC.  Boards 1 and 2  *)
(* have a serial port of their own, board 3 has none.                      *)
(***************************************************************************)
EXTENDS Process, TLC

Batch ==
  [kind |-> "batch", jobs |-> 2, futures |-> 2, runs |-> 1, force |-> FALSE, fpga |-> NULL,
   rows |-> {1, 2}, max_retries |-> 0, faults |-> {"database"}]

\* Both jobs get the one board of the table.
ForcedBatch == [Batch EXCEPT !.force = TRUE, !.rows = {1}, !.faults = {}]

\* Both jobs at the board with one port, while counting fails and commands hang.
DrainedBatch == [ForcedBatch EXCEPT !.rows = {3}, !.faults = {"database", "hang"}]

OneBoard ==
  [Batch EXCEPT !.fpga = 3, !.faults = {"break", "kill", "left", "quota"}]

Sweep == [Batch EXCEPT !.kind = "sweep", !.faults = {"hang", "release"}]

\* One board and two bitfiles, one after the other.
LongSweep ==
  [Sweep EXCEPT !.jobs = 1, !.futures = 1, !.runs = 2, !.faults = {"break", "start", "left"}]

Stability ==
  [Batch EXCEPT !.kind = "stability", !.fpga = 1, !.jobs = 1, !.futures = 1, !.runs = 2,
                !.max_retries = 1, !.faults = FaultKinds]

MCCommands == {Batch, ForcedBatch, DrainedBatch, OneBoard, Sweep, LongSweep, Stability}

MCWorkers    == 1 .. 3
MCBoards     == 1 .. 3
MCBitfiles   == 1 .. 2
MCHwPort     == <<1, 2, 3>>
MCSerialPort == <<4, 5, 3>>
MCHalves     == MCBitfiles \X {"left", "right"}

\* Bitfile 2 never shows a legal display of its own, but its halves make one with
\* those of bitfile 1.
MCLegal == {<< <<d, "left">>, <<e, "right">> >> : d, e \in MCBitfiles}
             \ {<< <<2, "left">>, <<2, "right">> >>}
=============================================================================
