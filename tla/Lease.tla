------------------------------- MODULE Lease --------------------------------
(***************************************************************************)
(* What board allocation promises the people who submit designs, without  *)
(* a table, a clock or a heartbeat: a board has at most one holder, a      *)
(* board is only taken when nobody holds it, and only its holder changes   *)
(* the design it runs.  The module Runner is shown to implement this.      *)
(***************************************************************************)
CONSTANTS Clients, Boards, NULL

VARIABLES
  holder,      \* holder[b]: the client that holds board b, or NULL
  installed    \* installed[b]: whose design b runs, NULL when nobody's

vars == <<holder, installed>>

Init ==
  /\ holder = [b \in Boards |-> NULL]
  /\ installed = [b \in Boards |-> NULL]

Take(c, b) ==
  /\ holder[b] = NULL
  /\ holder' = [holder EXCEPT ![b] = c]
  /\ UNCHANGED installed

Install(c, b) ==
  /\ holder[b] = c
  /\ installed' = [installed EXCEPT ![b] = c]
  /\ UNCHANGED holder

GiveUp(c, b) ==
  /\ holder[b] = c
  /\ holder' = [holder EXCEPT ![b] = NULL]
  /\ UNCHANGED installed

\* A command ends: whatever it still held is free, and the designs it left
\* behind are nobody's.
Leave(c) ==
  /\ holder' = [b \in Boards |-> IF holder[b] = c THEN NULL ELSE holder[b]]
  /\ installed' = [b \in Boards |-> IF installed[b] = c THEN NULL ELSE installed[b]]

Next ==
  \E c \in Clients :
    \/ Leave(c)
    \/ \E b \in Boards : Take(c, b) \/ Install(c, b) \/ GiveUp(c, b)

Spec == Init /\ [][Next]_vars
=============================================================================
