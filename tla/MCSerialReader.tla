--------------------------- MODULE MCSerialReader ----------------------------
(***************************************************************************)
(* Samples and bytes for checking Reading with TLC: two samples the task   *)
(* accepts, one legal display out of its range, and two illegal ones.      *)
(***************************************************************************)
EXTENDS Reading

CONSTANTS p1, p2, o1, x1, x2

MCPassing == {p1, p2}
MCLegal   == {p1, p2, o1}
MCSamples == {p1, p2, o1, x1, x2}

\* Waiting for stability, and the mode without it.
MCStable   == [stable |-> 2, idle |-> 1, max_payload |-> 0]
MCIdle     == [stable |-> 0, idle |-> 2, max_payload |-> 3]
MCSettings == {MCStable, MCIdle}
MCWaiting  == {MCStable}

\* A byte that has to be escaped, and one that could be mistaken for a command.
MCSendable == {"IAC", "SB"}
MCBytes    == {"SE"} \cup MCSendable \cup Verbs \cup Options
=============================================================================
