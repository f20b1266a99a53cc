------------------------------- MODULE Account --------------------------------
(***************************************************************************)
(* What the quota promises the people who share an account, without a row, *)
(* a lock or a transaction: a bitfile is admitted in one instant, while    *)
(* there is room, and its ticket is the usage of that instant.  The module *)
(* Quota is shown to implement this.                                       *)
(***************************************************************************)
EXTENDS Naturals

CONSTANTS Clients, NULL, AdminLimits, AdminUsages

VARIABLES
  used,      \* bitfiles admitted
  limit,     \* how many may be; 0 for no limit
  ticket     \* ticket[c]: the number of the bitfile that c runs, or NULL

vars == <<used, limit, ticket>>

Init ==
  /\ used = 0
  /\ limit \in Nat
  /\ ticket = [c \in Clients |-> NULL]

Count ==
  /\ limit = 0 \/ used < limit
  /\ used' = used + 1
  /\ UNCHANGED limit

Admit(c) == Count /\ ticket' = [ticket EXCEPT ![c] = used]

\* The client does not learn that its bitfile was admitted.
AdmitUnanswered == Count /\ UNCHANGED ticket

Finish(c) ==
  /\ ticket' = [ticket EXCEPT ![c] = NULL]
  /\ UNCHANGED <<used, limit>>

Administer ==
  /\ used' \in AdminUsages \cup {used}
  /\ limit' \in AdminLimits \cup {limit}
  /\ UNCHANGED ticket

Next ==
  \/ AdmitUnanswered \/ Administer
  \/ \E c \in Clients : Admit(c) \/ Finish(c)

Spec == Init /\ [][Next]_vars
=============================================================================
