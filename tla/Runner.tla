------------------------------- MODULE Runner -------------------------------
(***************************************************************************)
(* Clients that each run one bitfile at a time on a board of the shared    *)
(* table: the loop of cli._run_bitfile_with_retry_info around              *)
(* Runner.run_bitfile, its heartbeat thread, and the administrator's       *)
(* release commands.  A client stands for a process running `run`, for a   *)
(* worker thread of `batch`, or for a later command of the same user.      *)
(*                                                                         *)
(* Every call that reaches the database or the board's host is a step of   *)
(* its own, so that clients, heartbeat threads, the clock and crashes      *)
(* interleave between any two of them.                                     *)
(***************************************************************************)
EXTENDS BoardTable

CONSTANTS
  Clients,           \* processes and worker threads
  Options,           \* the command lines: records [fpga, force, keep, save]
  BEAT_EVERY,        \* heartbeat_interval_seconds, in ticks
  BEAT_BY,           \* the longest time between two heartbeats that land
  CLAIM_TRIES,       \* how often allocate_board selects a row (5)
  MAX_RETRIES,       \* --max-retries
  HeartbeatEnabled,  \* the setting heartbeat_enabled
  Faults,            \* what may go wrong: a subset of FaultKinds
  Admin              \* do `release` and `reset-boards` run meanwhile?

\* "late" is a heartbeat's statement that outlives the five seconds its client
\* waits for the thread, or the client itself.
FaultKinds ==
  {"crash", "claim", "first_beat", "beat", "late", "remote", "save", "release", "bitfile"}

ASSUME RunnerAssumption ==
  /\ NULL \notin Clients
  /\ \A o \in Options : /\ o.force \in BOOLEAN
                        /\ o.keep \in BOOLEAN
                        /\ o.save \in BOOLEAN
                        /\ o.fpga # NULL => o.force
  /\ BEAT_EVERY \in Nat
  /\ BEAT_BY \in Nat
  /\ BEAT_EVERY <= BEAT_BY
  /\ BEAT_BY <= STALE
  /\ CLAIM_TRIES \in Nat \ {0}
  /\ MAX_RETRIES \in Nat
  /\ HeartbeatEnabled \in BOOLEAN
  /\ Faults \subseteq FaultKinds
  /\ Admin \in BOOLEAN

VARIABLES
  opts,         \* opts[c]: the command line client c runs with
  pc,           \* pc[c]: the call client c is about to make
  attempt,      \* attempt[c]: retries made so far
  tries,        \* tries[c]: rows selected and lost in this allocate_board
  board,        \* board[c]: the row selected, then the board allocated
  fpga_name,    \* fpga_name[c]: the board named in the result of the attempt
  error,        \* error[c]: what result.error holds, as far as retrying goes
  reading,      \* reading[c]: whose design produced the result c accepted
  saved,        \* saved[c]: is the result in experiment_results?
  thread,       \* thread[c]: the state of c's heartbeat thread
  elapsed,      \* elapsed[c]: ticks since c last stamped its board
  late_beats,   \* boards with a heartbeat in flight whose client moved on
  installed,    \* installed[b]: whose design board b runs
  bridged       \* boards whose serial bridge (com2tcp) is up

localVars  == <<attempt, tries, board, fpga_name, error, reading, saved>>
threadVars == <<thread, elapsed, late_beats>>
remoteVars == <<installed, bridged>>
vars == <<tableVars, opts, pc, localVars, threadVars, remoteVars>>

\* The phases between the commit that claims a board and the end of the
\* statement that releases it.
UsePhases == {"heartbeat", "hold", "servers", "program", "serial", "save",
              "stop_ports", "release"}
\* With --keep-in-use the board is still held on the way to the next attempt.
KeptPhases == {"stop_heartbeat", "join", "decide", "retry_release"}
Phases == UsePhases \cup KeptPhases \cup {"idle", "select", "claim"}

Uses(c)  == pc[c] \in UsePhases
Keeps(c) == opts[c].keep /\ fpga_name[c] # NULL /\ pc[c] \in KeptPhases
Holds(c) == Uses(c) \/ Keeps(c)

Init ==
  /\ TableInit
  /\ opts \in [Clients -> Options]
  /\ pc = [c \in Clients |-> "idle"]
  /\ attempt = [c \in Clients |-> 0]
  /\ tries = [c \in Clients |-> 0]
  /\ board = [c \in Clients |-> NULL]
  /\ fpga_name = [c \in Clients |-> NULL]
  /\ error = [c \in Clients |-> "none"]
  /\ reading = [c \in Clients |-> NULL]
  /\ saved = [c \in Clients |-> FALSE]
  /\ thread = [c \in Clients |-> "off"]
  /\ elapsed = [c \in Clients |-> 0]
  /\ late_beats = {}
  /\ installed = [b \in Boards |-> NULL]
  /\ bridged = {}

-----------------------------------------------------------------------------
(* Small steps the actions below are made of.                              *)

Goto(c, phase) == pc' = [pc EXCEPT ![c] = phase]

\* A failure sets result.error.  The only one that can follow the verdict "task
\* judgment failed" is a failed release, which is appended to it.
Raise(c) == error' = [error EXCEPT ![c] = IF @ = "judgment" THEN @ ELSE "error"]

\* The end of a command: its locals and its heartbeat thread (a daemon) go with
\* the process, and designs it left on boards are no longer its own.
EndCommand(c) ==
  /\ Goto(c, "idle")
  /\ attempt' = [attempt EXCEPT ![c] = 0]
  /\ tries' = [tries EXCEPT ![c] = 0]
  /\ board' = [board EXCEPT ![c] = NULL]
  /\ fpga_name' = [fpga_name EXCEPT ![c] = NULL]
  /\ error' = [error EXCEPT ![c] = "none"]
  /\ reading' = [reading EXCEPT ![c] = NULL]
  /\ saved' = [saved EXCEPT ![c] = FALSE]
  /\ thread' = [thread EXCEPT ![c] = "off"]
  /\ elapsed' = [elapsed EXCEPT ![c] = 0]
  /\ installed' = [b \in Boards |-> IF installed[b] = c THEN NULL ELSE installed[b]]

-----------------------------------------------------------------------------
(* Allocating a board.                                                     *)

StartRun(c) ==
  /\ pc[c] = "idle"
  /\ Goto(c, "select")
  /\ UNCHANGED <<tableVars, opts, localVars, threadVars, remoteVars>>

\* run_bitfile returns at once when the file is gone.
MissingBitfile(c) ==
  /\ pc[c] = "select" /\ tries[c] = 0
  /\ "bitfile" \in Faults
  /\ Goto(c, "decide")
  /\ Raise(c)
  /\ UNCHANGED <<tableVars, opts, attempt, tries, board, fpga_name, reading,
                 saved, threadVars, remoteVars>>

\* allocate_board raises: no row, too many lost races, or the database failed.
NoBoard(c) ==
  /\ Goto(c, "decide")
  /\ Raise(c)
  /\ board' = [board EXCEPT ![c] = NULL]
  /\ UNCHANGED <<opts, attempt, tries, fpga_name, reading, saved, threadVars, remoteVars>>

SelectBoard(c) ==
  /\ pc[c] = "select"
  /\ \E b \in SelectedRows(opts[c]) : board' = [board EXCEPT ![c] = b]
  /\ Goto(c, "claim")
  /\ UNCHANGED <<tableVars, opts, attempt, tries, fpga_name, error, reading,
                 saved, threadVars, remoteVars>>

SelectNothing(c) ==
  /\ pc[c] = "select"
  /\ SelectedRows(opts[c]) = {} \/ "claim" \in Faults
  /\ NoBoard(c)
  /\ UNCHANGED tableVars

\* The row count is not looked at (a mutant of ClaimBoard).
ClaimBoardUnchecked(c) ==
  /\ pc[c] = "claim"
  /\ ClaimRow(board[c])
  /\ Goto(c, "heartbeat")
  /\ elapsed' = [elapsed EXCEPT ![c] = 0]
  /\ UNCHANGED <<opts, localVars, thread, late_beats, remoteVars>>

\* The UPDATE repeats the condition of the SELECT, and the row count tells
\* whether it still held.  A forced claim has no condition.
ClaimBoard(c) ==
  /\ pc[c] = "claim"
  /\ opts[c].force \/ Claimable(board[c])
  /\ ClaimRow(board[c])
  /\ Goto(c, "heartbeat")
  /\ elapsed' = [elapsed EXCEPT ![c] = 0]
  /\ UNCHANGED <<opts, localVars, thread, late_beats, remoteVars>>

\* One selection too many (a mutant of LoseRace).
LoseRaceOnceMore(c) ==
  /\ pc[c] = "claim"
  /\ ~opts[c].force /\ ~Claimable(board[c])
  /\ tries[c] + 1 <= CLAIM_TRIES
  /\ tries' = [tries EXCEPT ![c] = @ + 1]
  /\ board' = [board EXCEPT ![c] = NULL]
  /\ Goto(c, "select")
  /\ UNCHANGED <<tableVars, opts, attempt, fpga_name, error, reading, saved,
                 threadVars, remoteVars>>

LoseRace(c) ==
  /\ pc[c] = "claim"
  /\ ~opts[c].force /\ ~Claimable(board[c])
  /\ tries[c] + 1 < CLAIM_TRIES
  /\ tries' = [tries EXCEPT ![c] = @ + 1]
  /\ board' = [board EXCEPT ![c] = NULL]
  /\ Goto(c, "select")
  /\ UNCHANGED <<tableVars, opts, attempt, fpga_name, error, reading, saved,
                 threadVars, remoteVars>>

LoseLastRace(c) ==
  /\ pc[c] = "claim"
  /\ ~opts[c].force /\ ~Claimable(board[c])
  /\ tries[c] + 1 = CLAIM_TRIES
  /\ NoBoard(c)
  /\ UNCHANGED tableVars

\* The connection breaks during the UPDATE or its COMMIT: the client gives up,
\* and the row is claimed for nobody when the commit had reached the server.
ClaimFails(c) ==
  /\ pc[c] = "claim"
  /\ "claim" \in Faults
  /\ \/ UNCHANGED tableVars
     \/ (opts[c].force \/ Claimable(board[c])) /\ ClaimRow(board[c])
  /\ NoBoard(c)

-----------------------------------------------------------------------------
(* Running the design on the board.                                        *)

\* The statements below leave the clients' bookkeeping alone but for pc.
LocalsKept == UNCHANGED <<opts, localVars>>

\* An exception in the body of run_bitfile goes to its finally clause.
GiveUpAttempt(c) ==
  /\ Goto(c, "stop_ports")
  /\ Raise(c)
  /\ UNCHANGED <<opts, attempt, tries, board, fpga_name, reading, saved>>

\* The first heartbeat is sent by the client itself; the thread follows only if
\* the table has the column.
StartHeartbeat(c) ==
  /\ pc[c] = "heartbeat"
  /\ IF HeartbeatEnabled /\ HeartbeatColumn
       THEN TouchRow(board[c]) /\ thread' = [thread EXCEPT ![c] = "waiting"]
       ELSE UNCHANGED <<tableVars, thread>>
  /\ elapsed' = [elapsed EXCEPT ![c] = 0]
  /\ fpga_name' = [fpga_name EXCEPT ![c] = board[c]]
  /\ Goto(c, IF opts[c].keep THEN "hold" ELSE "servers")
  /\ UNCHANGED <<opts, attempt, tries, board, error, reading, saved, late_beats, remoteVars>>

StartHeartbeatFails(c) ==
  /\ pc[c] = "heartbeat"
  /\ HeartbeatEnabled /\ "first_beat" \in Faults
  /\ TouchRow(board[c]) \/ UNCHANGED tableVars
  /\ GiveUpAttempt(c)
  /\ UNCHANGED <<threadVars, remoteVars>>

MarkInUse(c) ==
  /\ pc[c] = "hold"
  /\ ClaimRow(board[c])
  /\ Goto(c, "servers")
  /\ LocalsKept
  /\ UNCHANGED <<threadVars, remoteVars>>

MarkInUseFails(c) ==
  /\ pc[c] = "hold"
  /\ "claim" \in Faults
  /\ ClaimRow(board[c]) \/ UNCHANGED tableVars
  /\ GiveUpAttempt(c)
  /\ UNCHANGED <<threadVars, remoteVars>>

\* hw_server and com2tcp are restarted on the board's ports.
StartServers(c) ==
  /\ pc[c] = "servers"
  /\ bridged' = bridged \cup {board[c]}
  /\ Goto(c, "program")
  /\ LocalsKept
  /\ UNCHANGED <<tableVars, threadVars, installed>>

StartServersFails(c) ==
  /\ pc[c] = "servers"
  /\ "remote" \in Faults
  /\ \E up \in {{}, {board[c]}} : bridged' = (bridged \ {board[c]}) \cup up
  /\ GiveUpAttempt(c)
  /\ UNCHANGED <<tableVars, threadVars, installed>>

ProgramBitstream(c) ==
  /\ pc[c] = "program"
  /\ installed' = [installed EXCEPT ![board[c]] = c]
  /\ Goto(c, "serial")
  /\ LocalsKept
  /\ UNCHANGED <<tableVars, threadVars, bridged>>

\* The exit status is not looked at (a mutant of ProgramBitstreamFails).
ProgramBitstreamFailsUnseen(c) ==
  /\ pc[c] = "program"
  /\ "remote" \in Faults
  /\ \E d \in {installed[board[c]], c} : installed' = [installed EXCEPT ![board[c]] = d]
  /\ Goto(c, "serial")
  /\ LocalsKept
  /\ UNCHANGED <<tableVars, threadVars, bridged>>

\* Uploading, extracting, Vivado or the final cleanup fails: the design may be
\* on the board already.
ProgramBitstreamFails(c) ==
  /\ pc[c] = "program"
  /\ "remote" \in Faults
  /\ \E d \in {installed[board[c]], c} : installed' = [installed EXCEPT ![board[c]] = d]
  /\ GiveUpAttempt(c)
  /\ UNCHANGED <<tableVars, threadVars, bridged>>

\* The display is read through the bridge, and judged to be in range.
ReadSerial(c) ==
  /\ pc[c] = "serial"
  /\ board[c] \in bridged
  /\ reading' = [reading EXCEPT ![c] = installed[board[c]]]
  /\ Goto(c, IF opts[c].save THEN "save" ELSE "stop_ports")
  /\ UNCHANGED <<tableVars, opts, attempt, tries, board, fpga_name, error, saved,
                 threadVars, remoteVars>>

\* Nothing legal was displayed: "task judgment failed", which is never retried.
JudgeFailed(c) ==
  /\ pc[c] = "serial"
  /\ board[c] \in bridged
  /\ error' = [error EXCEPT ![c] = "judgment"]
  /\ Goto(c, "stop_ports")
  /\ UNCHANGED <<tableVars, opts, attempt, tries, board, fpga_name, reading, saved,
                 threadVars, remoteVars>>

ReadSerialFails(c) ==
  /\ pc[c] = "serial"
  /\ board[c] \notin bridged \/ "remote" \in Faults
  /\ GiveUpAttempt(c)
  /\ UNCHANGED <<tableVars, threadVars, remoteVars>>

SaveResult(c) ==
  /\ pc[c] = "save"
  /\ saved' = [saved EXCEPT ![c] = TRUE]
  /\ Goto(c, "stop_ports")
  /\ UNCHANGED <<tableVars, opts, attempt, tries, board, fpga_name, error, reading,
                 threadVars, remoteVars>>

\* The INSERT or its COMMIT fails; the row may be there all the same.
SaveResultFails(c) ==
  /\ pc[c] = "save"
  /\ "save" \in Faults
  /\ \E s \in BOOLEAN : saved' = [saved EXCEPT ![c] = s]
  /\ Goto(c, "stop_ports")
  /\ Raise(c)
  /\ UNCHANGED <<tableVars, opts, attempt, tries, board, fpga_name, reading,
                 threadVars, remoteVars>>

-----------------------------------------------------------------------------
(* The finally clause of run_bitfile: the board is released first, then the *)
(* heartbeat thread is stopped.                                            *)

StopPorts(c) ==
  /\ pc[c] = "stop_ports"
  /\ \/ bridged' = bridged \ {board[c]}
     \/ "remote" \in Faults /\ UNCHANGED bridged
  /\ Goto(c, "release")
  /\ LocalsKept
  /\ UNCHANGED <<tableVars, threadVars, installed>>

\* release_board is ignored (a mutant of Release).
ReleaseEvenKept(c) ==
  /\ pc[c] = "release"
  /\ FreeRow(board[c])
  /\ Goto(c, "stop_heartbeat")
  /\ LocalsKept
  /\ UNCHANGED <<threadVars, remoteVars>>

Release(c) ==
  /\ pc[c] = "release"
  /\ IF opts[c].keep THEN UNCHANGED tableVars ELSE FreeRow(board[c])
  /\ Goto(c, "stop_heartbeat")
  /\ LocalsKept
  /\ UNCHANGED <<threadVars, remoteVars>>

ReleaseFails(c) ==
  /\ pc[c] = "release"
  /\ ~opts[c].keep /\ "release" \in Faults
  /\ FreeRow(board[c]) \/ UNCHANGED tableVars
  /\ Goto(c, "stop_heartbeat")
  /\ Raise(c)
  /\ UNCHANGED <<opts, attempt, tries, board, fpga_name, reading, saved, threadVars, remoteVars>>

\* heartbeat.stop() tells the thread to end, which it does at once unless it is
\* sending a heartbeat: then it ends after that one.
StopHeartbeat(c) ==
  /\ pc[c] = "stop_heartbeat"
  /\ thread' = [thread EXCEPT ![c] = IF @ = "beating" THEN "last_beat" ELSE "off"]
  /\ Goto(c, "join")
  /\ LocalsKept
  /\ UNCHANGED <<tableVars, elapsed, late_beats, remoteVars>>

\* The client joins the thread, but gives up after five seconds: the heartbeat
\* then lands later.
JoinHeartbeat(c) ==
  /\ pc[c] = "join"
  /\ \/ thread[c] = "off" /\ UNCHANGED late_beats
     \/ /\ thread[c] = "last_beat" /\ "late" \in Faults
        /\ late_beats' = late_beats \cup {board[c]}
  /\ thread' = [thread EXCEPT ![c] = "off"]
  /\ elapsed' = [elapsed EXCEPT ![c] = IF Keeps(c) THEN @ ELSE 0]
  /\ Goto(c, "decide")
  /\ LocalsKept
  /\ UNCHANGED <<tableVars, remoteVars>>

-----------------------------------------------------------------------------
(* The retry loop around run_bitfile.                                      *)

MayRetry(c) == error[c] = "error" /\ attempt[c] < MAX_RETRIES

Finish(c) ==
  /\ pc[c] = "decide"
  /\ ~MayRetry(c)
  /\ EndCommand(c)
  /\ UNCHANGED <<tableVars, opts, late_beats, bridged>>

\* attempt is not incremented (a mutant of NextAttempt).
NextAttemptUncounted(c) ==
  /\ Goto(c, "select")
  /\ tries' = [tries EXCEPT ![c] = 0]
  /\ board' = [board EXCEPT ![c] = NULL]
  /\ fpga_name' = [fpga_name EXCEPT ![c] = NULL]
  /\ error' = [error EXCEPT ![c] = "none"]
  /\ reading' = [reading EXCEPT ![c] = NULL]
  /\ saved' = [saved EXCEPT ![c] = FALSE]
  /\ elapsed' = [elapsed EXCEPT ![c] = 0]
  /\ UNCHANGED <<opts, attempt, thread, late_beats, remoteVars>>

\* run_bitfile starts afresh, with a new RunResult.
NextAttempt(c) ==
  /\ Goto(c, "select")
  /\ attempt' = [attempt EXCEPT ![c] = @ + 1]
  /\ tries' = [tries EXCEPT ![c] = 0]
  /\ board' = [board EXCEPT ![c] = NULL]
  /\ fpga_name' = [fpga_name EXCEPT ![c] = NULL]
  /\ error' = [error EXCEPT ![c] = "none"]
  /\ reading' = [reading EXCEPT ![c] = NULL]
  /\ saved' = [saved EXCEPT ![c] = FALSE]
  /\ elapsed' = [elapsed EXCEPT ![c] = 0]
  /\ UNCHANGED <<opts, thread, late_beats, remoteVars>>

Retry(c) ==
  /\ pc[c] = "decide"
  /\ MayRetry(c) /\ ~Keeps(c)
  /\ NextAttempt(c)
  /\ UNCHANGED tableVars

\* With --keep-in-use the board named in the result is released before the
\* retry; a failure to do so is only logged.
RetryKept(c) ==
  /\ pc[c] = "decide"
  /\ MayRetry(c) /\ Keeps(c)
  /\ Goto(c, "retry_release")
  /\ LocalsKept
  /\ UNCHANGED <<tableVars, threadVars, remoteVars>>

RetryRelease(c) ==
  /\ pc[c] = "retry_release"
  /\ FreeRow(fpga_name[c]) \/ ("release" \in Faults /\ UNCHANGED tableVars)
  /\ NextAttempt(c)

-----------------------------------------------------------------------------
(* Heartbeat threads, crashes, the administrator and the clock.            *)

BeginBeat(c) ==
  /\ thread[c] = "waiting" /\ elapsed[c] >= BEAT_EVERY
  /\ thread' = [thread EXCEPT ![c] = "beating"]
  /\ LocalsKept
  /\ UNCHANGED <<tableVars, pc, elapsed, late_beats, remoteVars>>

Beating(c) == thread[c] \in {"beating", "last_beat"}

\* The heartbeat is never committed (a mutant of EndBeat).
EndBeatUncommitted(c) ==
  /\ Beating(c)
  /\ thread' = [thread EXCEPT ![c] = IF @ = "beating" THEN "waiting" ELSE "off"]
  /\ elapsed' = [elapsed EXCEPT ![c] = 0]
  /\ LocalsKept
  /\ UNCHANGED <<tableVars, pc, late_beats, remoteVars>>

EndBeat(c) ==
  /\ Beating(c)
  /\ TouchRow(board[c])
  /\ thread' = [thread EXCEPT ![c] = IF @ = "beating" THEN "waiting" ELSE "off"]
  /\ elapsed' = [elapsed EXCEPT ![c] = 0]
  /\ LocalsKept
  /\ UNCHANGED <<pc, late_beats, remoteVars>>

\* The thread returns at its first exception, and nobody starts another.
FailBeat(c) ==
  /\ Beating(c)
  /\ "beat" \in Faults
  /\ TouchRow(board[c]) \/ UNCHANGED tableVars
  /\ thread' = [thread EXCEPT ![c] = "off"]
  /\ elapsed' = [elapsed EXCEPT ![c] = 0]
  /\ LocalsKept
  /\ UNCHANGED <<pc, late_beats, remoteVars>>

LateBeat(b) ==
  /\ b \in late_beats
  /\ TouchRow(b)
  /\ late_beats' = late_beats \ {b}
  /\ LocalsKept
  /\ UNCHANGED <<pc, thread, elapsed, remoteVars>>

Crash(c) ==
  /\ pc[c] # "idle"
  /\ "crash" \in Faults
  /\ EndCommand(c)
  /\ \/ UNCHANGED late_beats
     \/ Beating(c) /\ "late" \in Faults /\ late_beats' = late_beats \cup {board[c]}
  /\ UNCHANGED <<tableVars, opts, bridged>>

AdminRelease(b) ==
  /\ Admin
  /\ FreeRow(b)
  /\ LocalsKept
  /\ UNCHANGED <<pc, threadVars, remoteVars>>

AdminReset ==
  /\ Admin
  /\ ResetRows
  /\ LocalsKept
  /\ UNCHANGED <<pc, threadVars, remoteVars>>

\* While a client is about to stamp its board, and between the last stamp of a
\* kept board and its release, at most BEAT_BY ticks pass.
OnDeadline(c) ==
  \/ thread[c] # "off"
  \/ pc[c] = "heartbeat"
  \/ Keeps(c)

Tick ==
  /\ \A c \in Clients : OnDeadline(c) => elapsed[c] < BEAT_BY
  /\ AgeRows
  /\ elapsed' = [c \in Clients |-> IF OnDeadline(c) THEN elapsed[c] + 1 ELSE elapsed[c]]
  /\ LocalsKept
  /\ UNCHANGED <<status, pc, thread, late_beats, remoteVars>>

-----------------------------------------------------------------------------
(* The specification.                                                      *)

Allocate(c) ==
  \/ MissingBitfile(c) \/ SelectBoard(c) \/ SelectNothing(c)
  \/ ClaimBoard(c) \/ LoseRace(c) \/ LoseLastRace(c) \/ ClaimFails(c)

UseBoard(c) ==
  \/ StartHeartbeat(c) \/ StartHeartbeatFails(c) \/ MarkInUse(c) \/ MarkInUseFails(c)
  \/ StartServers(c) \/ StartServersFails(c)
  \/ ProgramBitstream(c) \/ ProgramBitstreamFails(c)
  \/ ReadSerial(c) \/ JudgeFailed(c) \/ ReadSerialFails(c)
  \/ SaveResult(c) \/ SaveResultFails(c)

CleanUp(c) ==
  \/ StopPorts(c) \/ Release(c) \/ ReleaseFails(c) \/ StopHeartbeat(c) \/ JoinHeartbeat(c)
  \/ Finish(c) \/ Retry(c) \/ RetryKept(c) \/ RetryRelease(c)

ClientStep(c) == Allocate(c) \/ UseBoard(c) \/ CleanUp(c)
BeatStep(c)   == BeginBeat(c) \/ EndBeat(c) \/ FailBeat(c)

Next ==
  \/ \E c \in Clients : StartRun(c) \/ ClientStep(c) \/ BeatStep(c) \/ Crash(c)
  \/ \E b \in Boards : LateBeat(b) \/ AdminRelease(b)
  \/ AdminReset
  \/ Tick

Spec == Init /\ [][Next]_vars

\* A command that runs takes its next step, a thread keeps beating, a statement
\* in flight arrives and the clock goes on.  Nobody has to start a run.
Fairness ==
  /\ \A c \in Clients : WF_vars(ClientStep(c)) /\ WF_vars(BeatStep(c))
  /\ \A b \in Boards : WF_vars(LateBeat(b))
  /\ WF_vars(Tick)

FairSpec == Spec /\ Fairness

-----------------------------------------------------------------------------
(* Properties.                                                             *)

\* Every variable keeps to its values, the retry and selection counters to their
\* bounds included.
TypeOK ==
  /\ TableTypeOK
  /\ opts \in [Clients -> Options]
  /\ pc \in [Clients -> Phases]
  /\ attempt \in [Clients -> 0 .. MAX_RETRIES]
  /\ tries \in [Clients -> 0 .. (CLAIM_TRIES - 1)]
  /\ board \in [Clients -> Boards \cup {NULL}]
  /\ fpga_name \in [Clients -> Boards \cup {NULL}]
  /\ error \in [Clients -> {"none", "error", "judgment"}]
  /\ reading \in [Clients -> Clients \cup {NULL}]
  /\ saved \in [Clients -> BOOLEAN]
  /\ thread \in [Clients -> {"off", "waiting", "beating", "last_beat"}]
  /\ elapsed \in [Clients -> 0 .. BEAT_BY]
  /\ late_beats \subseteq Boards
  /\ installed \in [Boards -> Clients \cup {NULL}]
  /\ bridged \subseteq Boards

\* Two clients never hold the same board: the check-and-set of the UPDATE and the
\* heartbeats keep a board from being claimed while it is held.
Exclusive ==
  \A c, d \in Clients : c # d /\ Holds(c) /\ Holds(d) => board[c] # board[d]

\* A board that is held reads in_use in the table: no release, late or repeated,
\* of an earlier holder frees the board under a later one.
HeldIsInUse ==
  \A c \in Clients : Holds(c) => status[board[c]] = "in_use"

\* A run that reports success has judged the display of its own design, and its
\* result is in the database if it was to be saved.
SuccessIsOwn ==
  \A c \in Clients :
    pc[c] = "decide" /\ error[c] = "none" => reading[c] = c /\ (opts[c].save => saved[c])

\* Nobody stops the serial bridge that a client is about to read.
SerialHasBridge ==
  \A c \in Clients : pc[c] = "serial" => board[c] \in bridged

\* A board in use has a heartbeat that can grow stale, so that no history of
\* crashes, failures and administrator commands strands it; a table without the
\* column never shows one.
InUseStamped ==
  \A b \in Boards :
    IF HeartbeatColumn THEN status[b] = "in_use" => heartbeat_age[b] # NULL
                       ELSE heartbeat_age[b] = NULL

\* Who holds a board, for the abstract specification.
holder ==
  [b \in Boards |->
     IF \E c \in Clients : Holds(c) /\ board[c] = b
       THEN CHOOSE c \in Clients : Holds(c) /\ board[c] = b
       ELSE NULL]

Leases == INSTANCE Lease WITH holder <- holder, installed <- installed

\* Allocation gives out leases: a board is taken only from nobody and only its
\* holder changes the design on it.
ImplementsLease == Leases!Spec

\* A board left in_use by a client that is gone can be claimed again some day.
OrphanReclaimed ==
  \A b \in Boards :
    status[b] = "in_use" ~> Claimable(b) \/ \E c \in Clients : Uses(c) /\ board[c] = b

\* Every run comes to an end, whatever it lost, failed or retried.
RunTerminates == \A c \in Clients : pc[c] = "select" ~> pc[c] = "idle"

-----------------------------------------------------------------------------
(* What the documentation says of the program.                             *)

\* "refreshes last_heartbeat ... while a board is allocated" (README).
AllocatedNeverStale ==
  \A c \in Clients : Uses(c) => ~Stale(board[c])
=============================================================================
