------------------------------- MODULE Drivers -------------------------------
(***************************************************************************)
(* The commands of cli.py that run many bitfiles: batch and sweep-fpgas    *)
(* with their thread pools, and stability, which loops in the main thread. *)
(*                                                                         *)
(* A future is what a worker takes from the pool's queue: one bitfile of a *)
(* batch, or one board of a sweep with all the bitfiles; stability counts  *)
(* as one future with all its iterations.  An attempt to run a bitfile is  *)
(* one step here; the modules RemoteHost and DisplayParser say what        *)
(* happens in it.                                                          *)
(***************************************************************************)
EXTENDS CommandFaults, Naturals

CONSTANT
  Commands         \* records [kind, jobs, futures, runs, force, fpga, rows, max_retries,
                   \* faults]: force is --force-use; rows are the boards of the
                   \* table, without those of other clients when it is not forced

ASSUME DriversAssumption ==
  /\ NULL \notin Nat
  /\ \A k \in Commands :
       /\ k.kind \in {"batch", "sweep", "stability"}
       /\ k.jobs \in 1 .. 3
       /\ k.futures \in Nat /\ k.runs \in Nat \ {0}
       /\ k.force \in BOOLEAN /\ k.fpga \in Nat \cup {NULL} /\ k.rows \subseteq Nat
       /\ k.max_retries \in Nat
       /\ k.faults \subseteq FaultKinds
       /\ k.kind = "batch" => k.runs = 1
       /\ k.kind = "stability" => k.futures = 1
       /\ k.kind = "sweep" => k.futures > 0

VARIABLES
  command,         \* the command line
  main,            \* the main thread: starting, collecting, draining, ending, exited
  next_future,     \* the head of the pool's queue
  stage,           \* stage[w]: what worker w is about to do
  doing,           \* doing[w]: its future, or NULL
  run,             \* run[w]: which of the future's runs it is at
  attempt,         \* attempt[w]: retries made in this run
  outcome,         \* outcome[w]: how the run ended
  settled,         \* settled[t]: how future t ended, or "pending"
  passes,          \* passes[t]: runs of future t that its worker counted a success
  success, total,  \* the counts of the main thread
  rows,            \* rows written: <<future, run, outcome>>
  exit             \* the exit code, or NULL

driverVars == <<faults, command, main, next_future, stage, doing, run, attempt, outcome,
                settled, passes, success, total, rows, exit>>

Workers == 1 .. 3
Futures == 1 .. command.futures

\* "unsaved": the display passed and the result is in error all the same, because
\* it could not be saved or the board not be released.  "silent": it failed by an
\* exception without a message, which leaves the error empty.
Outcomes == {"passed", "judgment", "error", "silent", "unsaved"}

\* --jobs as given (a mutant of Jobs).
JobsAsGiven == command.jobs

Jobs ==
  CASE command.kind = "stability" -> 1
    [] command.kind = "batch"     -> IF command.fpga = NULL THEN command.jobs ELSE 1
    [] command.kind = "sweep"     -> IF command.futures < 3 THEN command.futures ELSE 3

DriversInit ==
  /\ command \in Commands
  /\ faults = command.faults
  /\ main = "starting"
  /\ next_future = 1
  /\ stage = [w \in Workers |-> "idle"]
  /\ doing = [w \in Workers |-> NULL]
  /\ run = [w \in Workers |-> 1]
  /\ attempt = [w \in Workers |-> 0]
  /\ outcome = [w \in Workers |-> NULL]
  /\ settled = [t \in Futures |-> "pending"]
  /\ passes = [t \in Futures |-> 0]
  /\ success = 0 /\ total = 0
  /\ rows = {}
  /\ exit = NULL

-----------------------------------------------------------------------------
(* Workers.                                                                *)

EnterStage(w, next) == stage' = [stage EXCEPT ![w] = next]

mainVars == <<main, success, total, exit>>

TakeFuture(w) ==
  /\ main \in {"collecting", "draining"}
  /\ w <= Jobs /\ stage[w] = "idle" /\ next_future <= command.futures
  /\ next_future' = next_future + 1
  /\ doing' = [doing EXCEPT ![w] = next_future]
  /\ run' = [run EXCEPT ![w] = 1]
  /\ attempt' = [attempt EXCEPT ![w] = 0]
  /\ EnterStage(w, IF command.kind = "batch" THEN "count" ELSE "run")
  /\ UNCHANGED <<faults, command, mainVars, outcome, settled, passes, rows>>

CountBitfile(w) ==
  /\ stage[w] = "count"
  /\ EnterStage(w, "run")
  /\ UNCHANGED <<faults, command, mainVars, next_future, doing, run, attempt, outcome,
                 settled, passes, rows>>

\* The quota is spent or the file is missing: a result with an error, no run.
RefuseBitfile(w) ==
  /\ stage[w] = "count" /\ "quota" \in faults
  /\ EnterStage(w, "record")
  /\ outcome' = [outcome EXCEPT ![w] = "error"]
  /\ UNCHANGED <<faults, command, mainVars, next_future, doing, run, attempt, settled, passes, rows>>

Settle(w, how) ==
  /\ settled' = [settled EXCEPT ![doing[w]] = how]
  /\ doing' = [doing EXCEPT ![w] = NULL]
  /\ outcome' = [outcome EXCEPT ![w] = NULL]
  /\ EnterStage(w, "idle")

\* The exception of a count that fails leaves the worker and stays in the future.
CountRaises(w) ==
  /\ stage[w] = "count" /\ "database" \in faults
  /\ Settle(w, "raised")
  /\ UNCHANGED <<faults, command, mainVars, next_future, run, attempt, passes, rows>>

\* stability looks at task_success alone, the others at the error as well.
Passed(o) == o = "passed" \/ (command.kind = "stability" /\ o = "unsaved")

\* One retry too many (a mutant of Retries).
RetriesOnceMore(w, o) == ~Passed(o) /\ attempt[w] <= command.max_retries

Retries(w, o) == ~Passed(o) /\ o \in {"error", "unsaved"} /\ attempt[w] < command.max_retries

EndAttempt(w, o) ==
  /\ stage[w] = "run"
  /\ IF Retries(w, o)
       THEN /\ attempt' = [attempt EXCEPT ![w] = @ + 1]
            /\ UNCHANGED <<stage, outcome>>
       ELSE /\ EnterStage(w, "record")
            /\ outcome' = [outcome EXCEPT ![w] = o]
            /\ UNCHANGED attempt
  /\ UNCHANGED <<faults, command, mainVars, next_future, doing, run, settled, passes, rows>>

\* Any result counts as a success (a mutant of Tally).
TallyAll(o) == 1

Tally(o) == IF Passed(o) THEN 1 ELSE 0

\* A row names no run (a mutant of Row).
RowOfFuture(w) == <<doing[w], 1, outcome[w]>>

Row(w) == <<doing[w], run[w], outcome[w]>>

\* Workers of a sweep and stability write a row after each run; a batch worker
\* hands its result to the main thread.
Record(w) ==
  /\ stage[w] = "record"
  /\ rows' = IF command.kind = "batch" THEN rows ELSE rows \cup {Row(w)}
  /\ passes' = [passes EXCEPT ![doing[w]] = @ + Tally(outcome[w])]
  /\ IF run[w] < command.runs
       THEN /\ run' = [run EXCEPT ![w] = @ + 1]
            /\ attempt' = [attempt EXCEPT ![w] = 0]
            /\ EnterStage(w, "run")
            /\ UNCHANGED <<doing, outcome, settled>>
       ELSE Settle(w, outcome[w]) /\ UNCHANGED <<run, attempt>>
  /\ UNCHANGED <<faults, command, mainVars, next_future>>

-----------------------------------------------------------------------------
(* The main thread.                                                        *)

workerVars == <<next_future, stage, doing, run, attempt, outcome, passes>>

OpenOutput ==
  /\ main = "starting"
  /\ main' = "collecting"
  /\ UNCHANGED <<faults, command, workerVars, settled, success, total, rows, exit>>

\* Logging the usage or listing the boards fails before there is a pool.
StartFails ==
  /\ main = "starting" /\ "database" \in faults
  /\ main' = "exited" /\ exit' \in {1, 2}
  /\ UNCHANGED <<faults, command, workerVars, settled, success, total, rows>>

\* as_completed hands over a future, and its result is written and counted.
Collect(t) ==
  /\ main = "collecting"
  /\ settled[t] \in Outcomes
  /\ settled' = [settled EXCEPT ![t] = "collected"]
  /\ rows' = IF command.kind = "batch" THEN rows \cup {<<t, 1, settled[t]>>} ELSE rows
  /\ success' = success + passes[t]
  /\ total' = total + command.runs
  /\ UNCHANGED <<faults, command, main, workerVars, exit>>

\* The loop is left, but the pool still runs every future that is queued.
CollectRaises(t) ==
  /\ main = "collecting"
  /\ settled[t] = "raised"
  /\ main' = "draining"
  /\ UNCHANGED <<faults, command, workerVars, settled, success, total, rows, exit>>

\* The pool is left when every result has been collected (a mutant of PoolDone).
PoolDoneCollected == \A t \in Futures : settled[t] = "collected"

\* The loop has had every future, or an exception waits for the pool to finish.
PoolDone ==
  IF main = "draining" THEN \A t \in Futures : settled[t] # "pending"
  ELSE \A t \in Futures : settled[t] = "collected"

ShutDown ==
  /\ main \in {"collecting", "draining"} /\ PoolDone
  /\ main' = "ending"
  /\ UNCHANGED <<faults, command, workerVars, settled, success, total, rows, exit>>

\* The exit code: 2 or a traceback's 1 after an exception.
ExitCodes ==
  IF \E t \in Futures : settled[t] = "raised" THEN {1, 2}
  ELSE {IF success = total THEN 0 ELSE 1}

ExitCommand ==
  /\ main = "ending"
  /\ main' = "exited"
  /\ exit' \in ExitCodes \cup IF command.kind = "stability" /\ "release" \in faults
                                THEN {1} ELSE {}
  /\ UNCHANGED <<faults, command, workerVars, settled, success, total, rows>>

WorkerStep(w) ==
  \/ TakeFuture(w) \/ CountBitfile(w) \/ RefuseBitfile(w) \/ CountRaises(w) \/ Record(w)

MainStep ==
  \/ OpenOutput \/ StartFails \/ ShutDown \/ ExitCommand
  \/ \E t \in Futures : Collect(t) \/ CollectRaises(t)

DriversNext ==
  \/ MainStep
  \/ \E w \in Workers : WorkerStep(w) \/ \E o \in Outcomes : EndAttempt(w, o)

DriversSpec == DriversInit /\ [][DriversNext]_driverVars

-----------------------------------------------------------------------------
(* Properties.                                                             *)

DriversTypeOK ==
  /\ command \in Commands
  /\ main \in {"starting", "collecting", "draining", "ending", "exited"}
  /\ next_future \in 1 .. (command.futures + 1)
  /\ stage \in [Workers -> {"idle", "count", "run", "record"}]
  /\ doing \in [Workers -> Futures \cup {NULL}]
  /\ run \in [Workers -> 1 .. command.runs]
  /\ attempt \in [Workers -> 0 .. command.max_retries]
  /\ outcome \in [Workers -> Outcomes \cup {NULL}]
  /\ settled \in [Futures -> Outcomes \cup {"pending", "raised", "collected"}]
  /\ passes \in [Futures -> 0 .. command.runs]
  /\ success \in Nat /\ total \in Nat
  /\ rows \subseteq Futures \X (1 .. command.runs) \X Outcomes
  /\ exit \in {NULL, 0, 1, 2}

AllRuns == Futures \X (1 .. command.runs)
Written == {<<r[1], r[2]>> : r \in rows}

\* The exit code 0 tells the truth: every run that was asked for has a row, and all
\* the rows are of runs that passed.
ZeroMeansAllPassed ==
  exit = 0 => Written = AllRuns /\ \A r \in rows : Passed(r[3])

\* A finished run is only missing from the output when a worker's exception made
\* the main thread stop collecting; a sweep loses none.
NoRunUnwritten ==
  main \in {"ending", "exited"} =>
    \/ Written = AllRuns
    \/ next_future = 1 /\ total = 0
    \/ command.kind = "batch" /\ \E t \in Futures : settled[t] = "raised"
=============================================================================
