----------------------------- MODULE BoardTable -----------------------------
(***************************************************************************)
(* The shared table fpga_boards of the MySQL database port_manager, and    *)
(* the statements jyd_client/db.py runs against it.  Every client, thread  *)
(* and administrator command changes a board only through these.           *)
(*                                                                         *)
(* Time is the database's NOW(): a row does not keep the instant of its    *)
(* last heartbeat but how many ticks ago it was, and stops counting just   *)
(* beyond the stale threshold, where the code tells ages apart no more     *)
(* (except to order rows, which then have no defined order).               *)
(*                                                                         *)
(* The statements are written as actions on the two columns alone; the     *)
(* module Runner says who executes them and when.                          *)
(***************************************************************************)
EXTENDS Naturals

CONSTANTS
  Boards,            \* the rows of fpga_boards
  NULL,              \* SQL's NULL and Python's None
  STALE,             \* stale_board_minutes, in ticks
  HeartbeatColumn    \* does the table have the column last_heartbeat?

ASSUME BoardTableAssumption ==
  /\ NULL \notin Boards
  /\ NULL \notin Nat
  /\ STALE \in Nat
  /\ HeartbeatColumn \in BOOLEAN

VARIABLES
  status,            \* the column status of each board
  heartbeat_age      \* ticks since the column last_heartbeat, or NULL

tableVars == <<status, heartbeat_age>>

Status == {"available", "in_use"}
Age    == 0 .. (STALE + 1)

TableTypeOK ==
  /\ status \in [Boards -> Status]
  /\ heartbeat_age \in [Boards -> Age \cup {NULL}]

TableInit ==
  /\ status = [b \in Boards |-> "available"]
  /\ heartbeat_age = [b \in Boards |-> NULL]

-----------------------------------------------------------------------------
(* Selecting a row.                                                        *)

\* last_heartbeat < DATE_SUB(NOW(), INTERVAL m MINUTE): never true of NULL.
Stale(b) == heartbeat_age[b] # NULL /\ heartbeat_age[b] > STALE

Claimable(b) == status[b] = "available" \/ Stale(b)

\* The WHERE clause of the SELECT: a named board, or any board when forced, or
\* one that is free to claim.
Eligible(o) ==
  {b \in Boards : CASE o.fpga # NULL -> b = o.fpga
                    [] o.fpga = NULL -> o.force \/ Claimable(b)}

\* ORDER BY status DESC, last_heartbeat ASC: 'in_use' sorts before 'available',
\* NULL before every time, and an older heartbeat before a younger one.
Older(a, b) ==
  /\ heartbeat_age[b] # NULL
  /\ heartbeat_age[a] = NULL \/ heartbeat_age[a] > heartbeat_age[b]

Precedes(a, b) ==
  /\ HeartbeatColumn
  /\ \/ status[a] = "in_use" /\ status[b] = "available"
     \/ status[a] = status[b] /\ Older(a, b)

\* The rows LIMIT 1 may return: RAND() picks among the ones nothing precedes.
SelectedRows(o) ==
  {b \in Eligible(o) : \A a \in Eligible(o) : ~Precedes(a, b)}

-----------------------------------------------------------------------------
(* Statements that change rows, each its own committed transaction.        *)

\* What last_heartbeat = NOW() leaves in the column.
Stamp == IF HeartbeatColumn THEN 0 ELSE NULL

\* The status alone is set (a mutant of ClaimRow).
ClaimRowUnstamped(b) ==
  /\ status' = [status EXCEPT ![b] = "in_use"]
  /\ UNCHANGED heartbeat_age

\* SET status = 'in_use', last_heartbeat = NOW()
ClaimRow(b) ==
  /\ status' = [status EXCEPT ![b] = "in_use"]
  /\ heartbeat_age' = [heartbeat_age EXCEPT ![b] = Stamp]

\* SET last_heartbeat = NOW(), whatever the status is.
TouchRow(b) ==
  /\ heartbeat_age' = [heartbeat_age EXCEPT ![b] = Stamp]
  /\ UNCHANGED status

\* The heartbeat alone is cleared (a mutant of FreeRow).
FreeRowKeepingStatus(b) ==
  /\ heartbeat_age' = [heartbeat_age EXCEPT ![b] = NULL]
  /\ UNCHANGED status

\* SET status = 'available', last_heartbeat = NULL, whoever holds the board.
FreeRow(b) ==
  /\ status' = [status EXCEPT ![b] = "available"]
  /\ heartbeat_age' = [heartbeat_age EXCEPT ![b] = NULL]

\* SET status = 'available' in every row: the heartbeats stay.
ResetRows ==
  /\ status' = [b \in Boards |-> "available"]
  /\ UNCHANGED heartbeat_age

\* One tick of the database clock.
Aged(age) == IF age = NULL \/ age > STALE THEN age ELSE age + 1

AgeRows == heartbeat_age' = [b \in Boards |-> Aged(heartbeat_age[b])]
=============================================================================
