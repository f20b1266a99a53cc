------------------------------- MODULE Quota --------------------------------
(***************************************************************************)
(* The submission quota of one contest account: the row of the table users *)
(* that every process and batch worker logged in with the account counts   *)
(* its bitfiles in, and that `set-user-usage` rewrites.                    *)
(*                                                                         *)
(* increment_usage_count is one transaction of several statements.  Its    *)
(* SELECT ... FOR UPDATE takes the row's lock, which the server gives back *)
(* when the transaction commits, rolls back or loses its client.           *)
(***************************************************************************)
EXTENDS Integers

CONSTANTS
  Clients,       \* processes and worker threads that use the account
  Skipping,      \* the ones started with --skip-login
  NULL,
  MAX_FILES,     \* bitfiles each client is given
  InitialLimit,  \* limit_times in the beginning; 0 and NULL alike mean no limit
  AdminLimits,   \* values `set-user-usage --limit-times` may set
  AdminUsages,   \* values `set-user-usage --used-times` may set
  Faults         \* what may go wrong: a subset of FaultKinds

FaultKinds == {"crash", "database"}

ASSUME QuotaAssumption ==
  /\ NULL \notin Clients
  /\ NULL \notin Nat
  /\ Skipping \subseteq Clients
  /\ MAX_FILES \in Nat
  /\ InitialLimit \in Nat
  /\ AdminLimits \subseteq Nat
  /\ AdminUsages \subseteq Nat
  /\ Faults \subseteq FaultKinds

VARIABLES
  used,      \* the column used_times, as committed
  limit,     \* the column limit_times
  lock,      \* the client whose transaction has the row's lock, or NULL
  pc,        \* pc[c]: what client c is about to do
  files,     \* files[c]: bitfiles c has not taken up
  seen,      \* seen[c]: used_times as the SELECT ... FOR UPDATE returned it
  ticket,    \* ticket[c]: used_times_before in the result c is producing
  charged,   \* charged[c]: increments c committed (history)
  ran        \* ran[c]: bitfiles c has taken to a board (history)

row  == <<used, limit>>
vars == <<row, lock, pc, files, seen, ticket, charged, ran>>

Phases == {"login", "next", "count", "locked", "updated", "run", "end"}

Exhausted(u) == limit > 0 /\ u >= limit

Init ==
  /\ used = 0
  /\ limit = InitialLimit
  /\ lock = NULL
  /\ pc = [c \in Clients |-> IF c \in Skipping THEN "next" ELSE "login"]
  /\ files = [c \in Clients |-> MAX_FILES]
  /\ seen = [c \in Clients |-> 0]
  /\ ticket = [c \in Clients |-> NULL]
  /\ charged = [c \in Clients |-> 0]
  /\ ran = [c \in Clients |-> 0]

Goto(c, phase) == pc' = [pc EXCEPT ![c] = phase]

-----------------------------------------------------------------------------
(* A client's steps.                                                       *)

\* authenticate reads the row once, with no lock, and turns a spent account away.
Login(c) ==
  /\ pc[c] = "login"
  /\ ~Exhausted(used)
  /\ Goto(c, "next")
  /\ UNCHANGED <<row, lock, files, seen, ticket, charged, ran>>

LoginFails(c) ==
  /\ pc[c] = "login"
  /\ Exhausted(used) \/ "database" \in Faults
  /\ Goto(c, "end")
  /\ UNCHANGED <<row, lock, files, seen, ticket, charged, ran>>

\* The next bitfile is counted before it runs, unless --skip-login was given.
NextFile(c) ==
  /\ pc[c] = "next" /\ files[c] > 0
  /\ files' = [files EXCEPT ![c] = @ - 1]
  /\ Goto(c, IF c \in Skipping THEN "run" ELSE "count")
  /\ UNCHANGED <<row, lock, seen, ticket, charged, ran>>

\* A bitfile that is missing is not counted.
MissingFile(c) ==
  /\ pc[c] = "next" /\ files[c] > 0
  /\ files' = [files EXCEPT ![c] = @ - 1]
  /\ UNCHANGED <<row, lock, pc, seen, ticket, charged, ran>>

\* A SELECT without FOR UPDATE (a mutant of LockRow).
ReadRow(c) ==
  /\ pc[c] = "count"
  /\ UNCHANGED lock
  /\ seen' = [seen EXCEPT ![c] = used]
  /\ Goto(c, "locked")
  /\ UNCHANGED <<row, files, ticket, charged, ran>>

LockRow(c) ==
  /\ pc[c] = "count"
  /\ lock = NULL
  /\ lock' = c
  /\ seen' = [seen EXCEPT ![c] = used]
  /\ Goto(c, "locked")
  /\ UNCHANGED <<row, files, ticket, charged, ran>>

\* The refused transaction is left open (a mutant of Deny).
DenyKeepingLock(c) ==
  /\ pc[c] = "locked"
  /\ Exhausted(seen[c])
  /\ Goto(c, "next")
  /\ UNCHANGED <<row, lock, files, seen, ticket, charged, ran>>

\* The transaction is rolled back and the bitfile gets a result with an error.
Deny(c) ==
  /\ pc[c] = "locked"
  /\ Exhausted(seen[c])
  /\ lock' = NULL
  /\ Goto(c, "next")
  /\ UNCHANGED <<row, files, seen, ticket, charged, ran>>

\* The check is left to the login (a mutant of UpdateRow).
UpdateRowUnchecked(c) ==
  /\ pc[c] = "locked"
  /\ Goto(c, "updated")
  /\ UNCHANGED <<row, lock, files, seen, ticket, charged, ran>>

UpdateRow(c) ==
  /\ pc[c] = "locked"
  /\ ~Exhausted(seen[c])
  /\ Goto(c, "updated")
  /\ UNCHANGED <<row, lock, files, seen, ticket, charged, ran>>

\* The row changes in the eyes of others: SET used_times = used_times + 1.
CommitRow(c) ==
  /\ used' = used + 1
  /\ charged' = [charged EXCEPT ![c] = @ + 1]
  /\ UNCHANGED limit

\* One is taken off the usage from before the increment (a mutant of Commit).
CommitTicketLow(c) ==
  /\ pc[c] = "updated"
  /\ CommitRow(c)
  /\ lock' = NULL
  /\ ticket' = [ticket EXCEPT ![c] = seen[c] - 1]
  /\ Goto(c, "run")
  /\ UNCHANGED <<files, seen, ran>>

\* used_times_before is what the usage was less this increment.
Commit(c) ==
  /\ pc[c] = "updated"
  /\ CommitRow(c)
  /\ lock' = NULL
  /\ ticket' = [ticket EXCEPT ![c] = seen[c]]
  /\ Goto(c, "run")
  /\ UNCHANGED <<files, seen, ran>>

\* The failure is swallowed and the bitfile runs (a mutant of CountFails).
CountFailsUnseen(c) ==
  /\ "database" \in Faults
  /\ pc[c] \in {"count", "locked", "updated"}
  /\ lock' = IF lock = c THEN NULL ELSE lock
  /\ Goto(c, "run")
  /\ UNCHANGED <<row, charged, files, seen, ticket, ran>>

\* The connection breaks in the transaction: the exception takes the bitfile with
\* it, though it was counted when the COMMIT had reached the server.
CountFails(c) ==
  /\ "database" \in Faults
  /\ \/ pc[c] \in {"count", "locked", "updated"} /\ UNCHANGED <<row, charged>>
     \/ pc[c] = "updated" /\ CommitRow(c)
  /\ lock' = IF lock = c THEN NULL ELSE lock
  /\ Goto(c, "next")
  /\ UNCHANGED <<files, seen, ticket, ran>>

\* The bitfile runs, with all its retries.
RunFile(c) ==
  /\ pc[c] = "run"
  /\ ran' = [ran EXCEPT ![c] = @ + 1]
  /\ ticket' = [ticket EXCEPT ![c] = NULL]
  /\ Goto(c, "next")
  /\ UNCHANGED <<row, lock, files, seen, charged>>

\* The server rolls back the transaction of a client that is gone.
Crash(c) ==
  /\ "crash" \in Faults
  /\ pc[c] # "end"
  /\ lock' = IF lock = c THEN NULL ELSE lock
  /\ Goto(c, "end")
  /\ UNCHANGED <<row, files, seen, ticket, charged, ran>>

\* The UPDATE waits for nobody (a mutant of SetUsage).
SetUsageAtOnce ==
  /\ used' \in AdminUsages \cup {used}
  /\ limit' \in AdminLimits \cup {limit}
  /\ UNCHANGED <<lock, pc, files, seen, ticket, charged, ran>>

\* set-user-usage assigns absolute values; its UPDATE waits for the row's lock.
SetUsage ==
  /\ lock = NULL
  /\ used' \in AdminUsages \cup {used}
  /\ limit' \in AdminLimits \cup {limit}
  /\ UNCHANGED <<lock, pc, files, seen, ticket, charged, ran>>

-----------------------------------------------------------------------------
(* The specification.                                                      *)

Step(c) ==
  \/ Login(c) \/ LoginFails(c) \/ NextFile(c) \/ MissingFile(c) \/ LockRow(c)
  \/ Deny(c) \/ UpdateRow(c) \/ Commit(c) \/ RunFile(c)

Next == SetUsage \/ \E c \in Clients : Step(c) \/ CountFails(c) \/ Crash(c)

Spec == Init /\ [][Next]_vars

\* A client that is not done goes on.  Nobody has to change the account.
FairSpec == Spec /\ \A c \in Clients : WF_vars(Step(c))

-----------------------------------------------------------------------------
(* Properties.                                                             *)

TypeOK ==
  /\ used \in Nat
  /\ limit \in Nat
  /\ lock \in Clients \cup {NULL}
  /\ pc \in [Clients -> Phases]
  /\ files \in [Clients -> 0 .. MAX_FILES]
  /\ seen \in [Clients -> Nat]
  /\ ticket \in [Clients -> Nat \cup {NULL}]
  /\ charged \in [Clients -> Nat]
  /\ ran \in [Clients -> Nat]

\* No increment lands on a spent account, however many workers count at once and
\* whatever they read when they logged in.
NeverOverrun == [][charged' # charged => limit = 0 \/ used < limit]_vars

\* Every bitfile that a logged-in client takes to a board was counted before, and
\* no bitfile is counted twice: what a client paid is at least its runs and at
\* most the bitfiles it took up.
RunsArePaid ==
  \A c \in Clients \ Skipping :
    /\ charged[c] >= IF pc[c] = "run" THEN ran[c] + 1 ELSE ran[c]
    /\ charged[c] <= MAX_FILES - files[c]

\* Two results never carry the same used_times_before, unless the administrator
\* set the usage back.
TicketsDiffer ==
  AdminUsages = {} =>
    \A c, d \in Clients \ Skipping :
      c # d /\ pc[c] = "run" /\ pc[d] = "run" => ticket[c] # ticket[d]

\* The transaction is as good as one instant, the COMMIT: a bitfile is admitted while
\* the account has room, and its ticket is the usage of that instant, whatever other
\* clients, the administrator and breaking connections do in between.
Accounts == INSTANCE Account
ImplementsAccount == Accounts!Spec

\* Every client gets through its bitfiles: nobody waits for the row for ever.
EverybodyFinishes ==
  \A c \in Clients : <>(pc[c] = "end" \/ (pc[c] = "next" /\ files[c] = 0))
=============================================================================
