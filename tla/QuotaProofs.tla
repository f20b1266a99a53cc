----------------------------- MODULE QuotaProofs -----------------------------
(***************************************************************************)
(* Quota, for any number of clients, bitfiles and limits: the row's lock   *)
(* makes check and increment one, so no account is overrun, no bitfile     *)
(* runs unpaid and no two results carry the same count.                    *)
(***************************************************************************)
EXTENDS Quota, TLAPS

LEMMA TypingInit == Init => TypeOK
BY QuotaAssumption DEF Init, TypeOK, Phases

LEMMA TypingStep == TypeOK /\ [Next]_vars => TypeOK'
<1> SUFFICES ASSUME TypeOK, [Next]_vars PROVE TypeOK'
  OBVIOUS
<1> USE QuotaAssumption DEF TypeOK, Phases, Goto, row
<1>1. CASE SetUsage
  BY <1>1 DEF SetUsage
<1>2. ASSUME NEW c \in Clients, Step(c) \/ CountFails(c) \/ Crash(c) PROVE TypeOK'
  <2>1. CASE Login(c)
    BY <2>1 DEF Login
  <2>2. CASE LoginFails(c)
    BY <2>2 DEF LoginFails
  <2>3. CASE NextFile(c)
    BY <2>3 DEF NextFile
  <2>4. CASE MissingFile(c)
    BY <2>4 DEF MissingFile
  <2>5. CASE LockRow(c)
    BY <2>5 DEF LockRow
  <2>6. CASE Deny(c)
    BY <2>6 DEF Deny
  <2>7. CASE UpdateRow(c)
    BY <2>7 DEF UpdateRow
  <2>8. CASE Commit(c)
    BY <2>8 DEF Commit, CommitRow
  <2>9. CASE CountFails(c)
    BY <2>9 DEF CountFails, CommitRow
  <2>10. CASE RunFile(c)
    BY <2>10 DEF RunFile
  <2>11. CASE Crash(c)
    BY <2>11 DEF Crash
  <2> QED
    BY <1>2, <2>1, <2>2, <2>3, <2>4, <2>5, <2>6, <2>7, <2>8, <2>9, <2>10, <2>11 DEF Step
<1>3. CASE UNCHANGED vars
  BY <1>3 DEF vars
<1> QED
  BY <1>1, <1>2, <1>3 DEF Next

\* Every variable keeps to its values; a client takes up no bitfile it was not given.
THEOREM AccountTyped == Spec => []TypeOK
<1> QED
  BY TypingInit, TypingStep, PTL DEF Spec

-----------------------------------------------------------------------------
(* What the row's lock gives its holder.                                   *)

InTransaction(c) == pc[c] \in {"locked", "updated"}

Locked ==
  /\ \A c \in Clients : InTransaction(c) <=> lock = c
  /\ \A c \in Clients : InTransaction(c) => seen[c] = used
  /\ \A c \in Clients : pc[c] = "updated" => ~Exhausted(seen[c])

LEMMA LockedInit == Init => Locked
BY QuotaAssumption DEF Init, Locked, InTransaction

LEMMA LockedStep == TypeOK /\ Locked /\ [Next]_vars => Locked'
<1> SUFFICES ASSUME TypeOK, Locked, [Next]_vars PROVE Locked'
  OBVIOUS
<1> USE QuotaAssumption DEF TypeOK, Phases, Goto, row, Locked, InTransaction, Exhausted
<1>1. CASE SetUsage
  BY <1>1 DEF SetUsage
<1>2. ASSUME NEW c \in Clients, Step(c) \/ CountFails(c) \/ Crash(c) PROVE Locked'
  <2>1. CASE Login(c)
    BY <2>1 DEF Login
  <2>2. CASE LoginFails(c)
    BY <2>2 DEF LoginFails
  <2>3. CASE NextFile(c)
    BY <2>3 DEF NextFile
  <2>4. CASE MissingFile(c)
    BY <2>4 DEF MissingFile
  <2>5. CASE LockRow(c)
    BY <2>5 DEF LockRow
  <2>6. CASE Deny(c)
    BY <2>6 DEF Deny
  <2>7. CASE UpdateRow(c)
    BY <2>7 DEF UpdateRow
  <2>8. CASE Commit(c)
    BY <2>8 DEF Commit, CommitRow
  <2>9. CASE CountFails(c)
    BY <2>9 DEF CountFails, CommitRow
  <2>10. CASE RunFile(c)
    BY <2>10 DEF RunFile
  <2>11. CASE Crash(c)
    BY <2>11 DEF Crash
  <2> QED
    BY <1>2, <2>1, <2>2, <2>3, <2>4, <2>5, <2>6, <2>7, <2>8, <2>9, <2>10, <2>11 DEF Step
<1>3. CASE UNCHANGED vars
  BY <1>3 DEF vars
<1> QED
  BY <1>1, <1>2, <1>3 DEF Next

LEMMA LockHolds == Spec => [](TypeOK /\ Locked)
<1> QED
  BY TypingInit, TypingStep, LockedInit, LockedStep, PTL DEF Spec

\* No increment lands on a spent account, however many workers count at once and
\* whatever they read when they logged in.
THEOREM AccountsAreNotOverrun == Spec => NeverOverrun
<1>1. ASSUME TypeOK, Locked, [Next]_vars
      PROVE  [charged' # charged => limit = 0 \/ used < limit]_vars
  <2> SUFFICES ASSUME charged' # charged PROVE limit = 0 \/ used < limit
    OBVIOUS
  <2>1. PICK c \in Clients : pc[c] = "updated"
    BY <1>1 DEF Next, SetUsage, Step, Crash, Login, LoginFails, NextFile, MissingFile, LockRow,
                Deny, UpdateRow, Commit, CountFails, RunFile, vars
  <2>2. seen[c] = used /\ ~Exhausted(used)
    BY <1>1, <2>1 DEF Locked, InTransaction
  <2> QED
    BY <1>1, <2>2 DEF Exhausted, TypeOK
<1> QED
  BY <1>1, LockHolds, PTL DEF Spec, NeverOverrun

-----------------------------------------------------------------------------
(* Payment: a client that counts a bitfile has taken it up and not paid yet. *)

Counting(c) == pc[c] \in {"count", "locked", "updated"}

Paid ==
  \A c \in Clients \ Skipping :
    /\ charged[c] >= IF pc[c] = "run" THEN ran[c] + 1 ELSE ran[c]
    /\ charged[c] <= MAX_FILES - files[c] - (IF Counting(c) THEN 1 ELSE 0)

LEMMA PaidInit == Init => Paid
<1> SUFFICES ASSUME Init, NEW c \in Clients \ Skipping
    PROVE  /\ charged[c] >= IF pc[c] = "run" THEN ran[c] + 1 ELSE ran[c]
           /\ charged[c] <= MAX_FILES - files[c] - (IF Counting(c) THEN 1 ELSE 0)
  BY DEF Paid
<1>1. pc[c] \in {"next", "login"} /\ charged[c] = 0 /\ ran[c] = 0 /\ files[c] = MAX_FILES
  BY DEF Init
<1>2. pc[c] # "run" /\ ~Counting(c)
  BY <1>1 DEF Counting
<1> QED
  BY <1>1, <1>2, QuotaAssumption

LEMMA PaidStep == TypeOK /\ Paid /\ [Next]_vars => Paid'
<1> SUFFICES ASSUME TypeOK, Paid, [Next]_vars PROVE Paid'
  OBVIOUS
<1> USE QuotaAssumption DEF TypeOK, Phases, Goto, row, Paid, Counting
<1>1. CASE SetUsage
  BY <1>1 DEF SetUsage
<1>2. ASSUME NEW c \in Clients, Step(c) \/ CountFails(c) \/ Crash(c) PROVE Paid'
  <2>1. CASE Login(c)
    BY <2>1 DEF Login
  <2>2. CASE LoginFails(c)
    BY <2>2 DEF LoginFails
  <2>3. CASE NextFile(c)
    BY <2>3 DEF NextFile
  <2>4. CASE MissingFile(c)
    BY <2>4 DEF MissingFile
  <2>5. CASE LockRow(c)
    BY <2>5 DEF LockRow
  <2>6. CASE Deny(c)
    BY <2>6 DEF Deny
  <2>7. CASE UpdateRow(c)
    BY <2>7 DEF UpdateRow
  <2>8. CASE Commit(c)
    BY <2>8 DEF Commit, CommitRow
  <2>9. CASE CountFails(c)
    BY <2>9 DEF CountFails, CommitRow
  <2>10. CASE RunFile(c)
    BY <2>10 DEF RunFile
  <2>11. CASE Crash(c)
    BY <2>11 DEF Crash
  <2> QED
    BY <1>2, <2>1, <2>2, <2>3, <2>4, <2>5, <2>6, <2>7, <2>8, <2>9, <2>10, <2>11 DEF Step
<1>3. CASE UNCHANGED vars
  BY <1>3 DEF vars
<1> QED
  BY <1>1, <1>2, <1>3 DEF Next

\* Every bitfile that a logged-in client takes to a board was counted before, and
\* no bitfile is counted twice.
THEOREM EveryRunIsPaid == Spec => []RunsArePaid
<1>1. TypeOK /\ Paid => RunsArePaid
  <2> SUFFICES ASSUME TypeOK, Paid, NEW c \in Clients \ Skipping
               PROVE  charged[c] <= MAX_FILES - files[c]
    BY DEF Paid, RunsArePaid
  <2>1. charged[c] \in Nat /\ files[c] \in 0 .. MAX_FILES
    BY DEF TypeOK
  <2> QED
    BY <2>1, QuotaAssumption DEF Paid
<1> QED
  BY <1>1, TypingInit, TypingStep, PaidInit, PaidStep, PTL DEF Spec

-----------------------------------------------------------------------------
(* Tickets: each is below the count, which only grows.                     *)

Ticketed ==
  AdminUsages = {} =>
    /\ \A c \in Clients \ Skipping : pc[c] = "run" => ticket[c] \in Nat /\ ticket[c] < used
    /\ TicketsDiffer

LEMMA TicketedInit == Init => Ticketed
BY DEF Init, Ticketed, TicketsDiffer

LEMMA TicketedStep == TypeOK /\ Locked /\ Ticketed /\ [Next]_vars => Ticketed'
<1> SUFFICES ASSUME TypeOK, Locked, Ticketed, [Next]_vars, AdminUsages = {} PROVE Ticketed'
  BY DEF Ticketed
<1> USE QuotaAssumption DEF TypeOK, Phases, Goto, row, Ticketed, TicketsDiffer
<1>1. CASE SetUsage
  BY <1>1 DEF SetUsage
<1>2. ASSUME NEW c \in Clients, Step(c) \/ CountFails(c) \/ Crash(c) PROVE Ticketed'
  <2>1. CASE Login(c)
    BY <2>1 DEF Login
  <2>2. CASE LoginFails(c)
    BY <2>2 DEF LoginFails
  <2>3. CASE NextFile(c)
    BY <2>3 DEF NextFile
  <2>4. CASE MissingFile(c)
    BY <2>4 DEF MissingFile
  <2>5. CASE LockRow(c)
    BY <2>5 DEF LockRow
  <2>6. CASE Deny(c)
    BY <2>6 DEF Deny
  <2>7. CASE UpdateRow(c)
    BY <2>7 DEF UpdateRow
  <2>8. CASE Commit(c)
    <3>1. seen[c] = used
      BY <2>8 DEF Commit, Locked, InTransaction
    <3> QED
      BY <2>8, <3>1 DEF Commit, CommitRow
  <2>9. CASE CountFails(c)
    BY <2>9 DEF CountFails, CommitRow
  <2>10. CASE RunFile(c)
    BY <2>10 DEF RunFile
  <2>11. CASE Crash(c)
    BY <2>11 DEF Crash
  <2> QED
    BY <1>2, <2>1, <2>2, <2>3, <2>4, <2>5, <2>6, <2>7, <2>8, <2>9, <2>10, <2>11 DEF Step
<1>3. CASE UNCHANGED vars
  BY <1>3 DEF vars
<1> QED
  BY <1>1, <1>2, <1>3 DEF Next

\* Two results never carry the same used_times_before, unless the administrator
\* set the usage back.
THEOREM TicketsAreUnique == Spec => []TicketsDiffer
<1>1. Ticketed => TicketsDiffer
  BY DEF Ticketed, TicketsDiffer
<1> QED
  BY <1>1, TypingInit, TypingStep, LockedInit, LockedStep, TicketedInit, TicketedStep, PTL DEF Spec

-----------------------------------------------------------------------------
(* The abstract account.                                                   *)

LEMMA CountIsAdmission ==
  ASSUME TypeOK, Locked, NEW c \in Clients, pc[c] = "updated", CommitRow(c)
  PROVE  Accounts!Count /\ seen[c] = used
<1>1. seen[c] = used /\ ~Exhausted(used)
  BY DEF Locked, InTransaction
<1> QED
  BY <1>1 DEF TypeOK, Exhausted, CommitRow, Accounts!Count

LEMMA AccountStep == TypeOK /\ Locked /\ [Next]_vars => [Accounts!Next]_(Accounts!vars)
<1> SUFFICES ASSUME TypeOK, Locked, [Next]_vars PROVE [Accounts!Next]_(Accounts!vars)
  OBVIOUS
<1>1. CASE SetUsage
  BY <1>1 DEF SetUsage, Accounts!Next, Accounts!Administer
<1>2. ASSUME NEW c \in Clients, Step(c) \/ CountFails(c) \/ Crash(c)
      PROVE  [Accounts!Next]_(Accounts!vars)
  <2>1. CASE Commit(c)
    <3>1. Accounts!Count /\ ticket' = [ticket EXCEPT ![c] = used]
      BY <2>1, CountIsAdmission DEF Commit
    <3> QED
      BY <3>1 DEF Accounts!Next, Accounts!Admit
  <2>2. CASE CountFails(c)
    <3>1. CASE UNCHANGED row
      BY <2>2, <3>1 DEF CountFails, row, Accounts!vars
    <3>2. CASE pc[c] = "updated" /\ CommitRow(c)
      BY <2>2, <3>2, CountIsAdmission DEF CountFails, Accounts!Next, Accounts!AdmitUnanswered
    <3> QED
      BY <2>2, <3>1, <3>2 DEF CountFails
  <2>3. CASE RunFile(c)
    BY <2>3 DEF RunFile, row, Accounts!Next, Accounts!Finish
  <2>4. CASE \/ Login(c) \/ LoginFails(c) \/ NextFile(c) \/ MissingFile(c) \/ LockRow(c)
             \/ Deny(c) \/ UpdateRow(c) \/ Crash(c)
    BY <2>4 DEF Login, LoginFails, NextFile, MissingFile, LockRow, Deny, UpdateRow, Crash,
                row, Accounts!vars
  <2> QED
    BY <1>2, <2>1, <2>2, <2>3, <2>4 DEF Step
<1>3. CASE UNCHANGED vars
  BY <1>3 DEF vars, row, Accounts!vars
<1> QED
  BY <1>1, <1>2, <1>3 DEF Next

\* The SELECT ... FOR UPDATE, the check, the UPDATE and the COMMIT of
\* increment_usage_count are as good as one step that checks and counts, for any
\* number of clients, and also when the answer to the COMMIT is lost.
THEOREM QuotaImplementsAccount == Spec => ImplementsAccount
<1>1. Init => Accounts!Init
  BY QuotaAssumption DEF Init, Accounts!Init
<1> QED
  BY <1>1, LockHolds, AccountStep, PTL DEF Spec, ImplementsAccount, Accounts!Spec
=============================================================================
