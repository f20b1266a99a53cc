# Formal models of submit-bits

TLA+ models of the JYD FPGA client (`jyd_client/`), of the submit helper
`call_submit.py` and of the workflow `.github/workflows/test-bitstream.yml`,
with TLC configurations and TLAPS proofs. Paths below are relative to the
repository.

## The system

Many processes share a few FPGA boards. There is no server of our own: clients
coordinate through two MySQL tables, and reach the boards through Windows hosts.

| Component | State | Operations | Talks to |
|---|---|---|---|
| Board table (`db.py`, table `fpga_boards`) | `status` and `last_heartbeat` of each board | allocate (SELECT, then a conditional UPDATE), release, mark in use, heartbeat, reset all | every client, heartbeat thread and administrator, one transaction each |
| Runner (`runner.py`) | locals of `run_bitfile`: board, result, heartbeat thread | allocate, start servers, program, read, judge, save, clean up | board table, remote host, serial reader |
| Retry loop and drivers (`cli.py`) | attempt counter; thread pools of `batch` and `sweep-fpgas` | run, batch, stability, sweep, release, reset-boards | runner, quota |
| Quota (`db.py`, table `users`) | `used_times`, `limit_times`, the row's lock | login check, increment before a run, `set-user-usage` | every client of the account |
| Serial reader (`serial_reader.py`) and filter (`runner.py`) | payload so far, the last legal sample, the stability clock | receive, time out, end | com2tcp on the host |
| Display parser (`parser.py`) | two module globals with half displays | parse frames | filter |
| Remote session (`remote.py`) | processes and ports of the host, temporary files | start and stop servers, upload, Vivado | board's host |
| Submit helper (`call_submit.py`) | run ids known before, id taken for its own | upload, dispatch, find, poll, print | GitHub API |
| Workflow (`test-bitstream.yml`) | exit code in the environment, artifact, conclusion | prepare, test, summarise, upload, judge | `jyd_client`, GitHub |
| Configuration, logging, records | read-only or output | | |

What is hard here: a check-and-set over two statements; leases that expire while
their holder lives; a second thread that keeps a lease alive and may die, be late
or outlive its client; cleanup in `finally` whose steps fail one by one; crashes
at any statement; retries of what was already done; a commit whose outcome the
client does not learn; an HTTP POST that is repeated; results that are matched
to submissions by guessing; threads that share a parser's globals; a host whose
ports, files and boards outlive the attempt that used them, and whose servers
come up when they like; a thread pool that is left by an exception. What makes
each part correct:

- boards: never two users of one board, no board stranded, a reported success
  is of the client's own design;
- quota: no submission beyond the limit, none uncounted, nobody locked out by
  another's failure;
- reading: the newest legal display is reported, it was steady, the wait ends;
- submitting: one's own result, one test per try, an end, one JSON object;
- the host: the display that is read is of the bitfile that was programmed, over
  a bridge that is still there, and nothing is left behind;
- parsing: a display is made of the payload's own halves;
- drivers: one thread per board unless a batch is forced, every run has its row, an
  exit code that tells the truth, and a worker that hangs holds up nobody but itself.

The full list of hazards, each at its line with the properties that watch it, is
in `PROJECT.json`.

## The modules

| Module | Models | State and actions in the code |
|---|---|---|
| `BoardTable` | `fpga_boards` and the SQL of `db.py` | two columns; one action per UPDATE; `Eligible` is WHERE, `Precedes` is ORDER BY, `SelectedRows` what LIMIT 1 may return |
| `Runner` | `run_bitfile`, `_BoardHeartbeat`, the retry loop, release and reset-boards | `pc[c]` is the next external call of client `c`; every statement and remote call is one action, its failure another; `thread[c]` is the heartbeat thread; `late_beats` are heartbeats whose client stopped waiting |
| `Lease` | what allocation promises | who holds a board and whose design it runs |
| `Quota` | the login check, `increment_usage_count`, the counting loop, `set-user-usage` | `lock` is the InnoDB row lock; SELECT FOR UPDATE, UPDATE and COMMIT are separate actions |
| `Account` | what the quota promises | how many bitfiles were admitted, and each one's number |
| `SerialReader` | the loop of `read_tcp_serial`, `_SignalSampleFilter`, the verdict in `run_bitfile` | one action per outcome of `recv`; samples are model values; `shown`, `raw` and their times are history |
| `Telnet` | `handle_telnet_and_extract_payload` | `CollectedFrom` is the loop over one piece; `piece` is the piece in hand, `rest` what recv has yet to bring of a unit it cut |
| `Reading` | `read_tcp_serial` on its connection | composes `Telnet` and `SerialReader`: a piece with payload becomes a sample |
| `DisplayParser` | `parse_signal_bytes` of `parser.py` | `left_digits` and `right_digits` are the two globals; one action per access to one of them, in any number of threads |
| `RemoteHost` | `RemoteSession` as `run_bitfile` uses it, and the Windows host | `call[c]` is the next call of session `c`; `listening` the owners of ports, `extracted` and `zips` the temporary files, `installed` the boards' designs, `starting` servers that are late; forced sessions may share a board, and `crossed` marks them |
| `Drivers` | `batch`, `sweep-fpgas`, `stability` and the retry policy in `cli.py` | `settled[t]` is a future, `stage[w]` a worker, `main` the main thread; `rows` is the output |
| `Process` | a process of the client | composes `Drivers`, `RemoteHost` and `DisplayParser`; `BoardsFor` is what an allocation may return, `held[w]` the newest legal display in the filter of a worker's run, from whichever call of the parser |
| `CommandFaults` | | what the three parts of `Process` share: `NULL` and the faults of a behaviour, by who fails |
| `Submit` | `call_submit.py` and the workflow | `pc[s]` is the submitter's phase; the job is test, report or cancellation; `owner` says whose bitstream a run tests |
| `MC*` | values for TLC | |
| `*Proofs` | theorems | |

Compositions and refinements hold the parts together.

- Between processes: `Runner` extends `BoardTable` and implements `Lease`
  (`INSTANCE Lease WITH holder <- holder, installed <- installed`, where
  `holder` is computed from the clients' states).
- Within a process: `Process` extends `Drivers`, `RemoteHost` and
  `DisplayParser`. A worker's stage "run" is a session, from `Allocate` to
  `FinishAttempt`, in which the display is read by calls of the parser, and each
  call that returns gives the filter a sample. Steps of two modules that are one in
  the code are one step of `Process`: the attempt ends for the driver when the
  session closes, with an outcome that depends on what failed and on what the
  filter holds. `Process` implements each of its three parts.
- `Runner` and `Process` meet in allocation (`BoardsFor`). Not forced, an allocated
  board is used by no other session of the process, which `Exclusive` shows of
  `Runner`. With `--fpga` it is the named one. A batch that is forced and names none
  gets any row of the table, also one where another of its threads is. `Runner` sees
  an attempt's calls as steps that succeed or fail.
- `Reading` extends `SerialReader` and `Telnet` and implements `SerialReader`; a
  display that passes there is a "passed" verdict in `Process`.
- `Quota` implements `Account` (`INSTANCE Account`, with the same `used`, `limit`
  and `ticket`): the locked transaction is as good as one instant.

`Quota` and `Submit` stand alone: they share no variable with the others. A
counted bitfile becomes one `RunFile` in `Quota`, which `Drivers` takes in one
step; one `TestBitstream` in `Submit` is one run of a client.

Decisions worth knowing:

- *Time.* A row keeps the age of its heartbeat, counted just past the
  threshold, not an instant. A client's heartbeat is at most `BEAT_BY` ticks
  from landing, with `BEAT_BY <= STALE`: the code sends one every 45 seconds
  and boards are reclaimed after three minutes. This is an assumption on the
  network and the scheduler, written into the guard of `Tick`; what happens
  without it is `runner_lost_beat`. Between the claim and the first heartbeat,
  and for a kept board between its last heartbeat and its release before a
  retry, the same bound is assumed.
- *Failures.* `Faults` names the kinds that are switched on. A failed statement
  may have been carried out all the same: both outcomes are there. A process
  that dies loses its locals, its thread and its sessions; the table stays.
- *Retries.* `error` tells apart only what the retry loop does: none, an error
  that is retried, "task judgment failed".
- *Modes.* `Options` are records of `--fpga`, `--force-use`, `--keep-in-use` and
  saving. A client picks one at the start and runs commands with it again and
  again.
- *Submit.* GET requests with their retries are one step. `github` is chosen once
  per behaviour: whether the dispatch answers with the id of the run, and
  whether a run is listed as soon as it exists. Ids grow in the order in which
  runs are created.
- *Faults of a process.* A command of `Process` carries the kinds of faults that
  may occur in its behaviours: a connection that breaks before, after or in the
  middle of a call, a `taskkill` without effect, a server that is late or never
  comes up, a command that never exits, leftovers of a client that died,
  statements that fail, a refused bitfile, an exception without a message.
- *Sharing the parser.* Two threads that parse at the same time can pair halves of
  two boards, and one can find None where it has just tested for a half, so that
  `zip` raises TypeError. Both happen in the model, as in the code. `disturbed`
  marks the threads whose call overlapped another's, and `OwnHalves` and
  `PassedOnOwnBitfile` speak of the others only: with more than one worker a pass
  does not prove that the board showed both halves. What is reported is the newest
  legal display that the filter took in the whole run, so `suspect` keeps, until a
  later legal display replaces it, that the call which gave it was disturbed.
- *Sharing a board.* `batch --force-use` without `--fpga` keeps its workers
  (`cli.py:516`) and lets each take any board (`db.py:182`). Sessions that meet on a
  board stop each other's servers, overwrite the file and the design, and may fail in
  ways one alone cannot (`Refused`). They are in `crossed` until they end; what is
  said of own displays and bridges leaves them out, and what is said of zips, of rows
  and of hangs does not.
- *Legal displays.* `LegalDisplays` are the pairs of halves that make at least
  0x37000000 (`runner.py:224`). Half a display is never one. With `--stable-seconds 0`
  as without, the newest decides.
- *Bytes.* Nothing of a piece is kept for the next one. A piece that begins inside
  a command yields garbage, which shifts all later frames, as the parser counts
  them off in 18 bytes from the first (`parser.py:98`); `Reading` lets such a
  payload become any sample.
- *Reading.* `settings` is chosen once per behaviour: to wait for stability, or
  to end by silence and by the payload limit.

## What TLC checks

| Run | Question | Result |
|---|---|---|
| `runner_cooperating` | two clients, some keeping their board: can it be held twice, freed under its holder, lose its bridge, or show a success that is not one's own? does allocation implement `Lease`? | no; yes |
| `runner_any_mode` | types and bounds, and can any mixture of forced, named, kept, failing and administered boards strand one? | no |
| `runner_progress` | is a board left behind by a dead client claimable again, and does every run end? | yes |
| `quota_account` | is the limit kept, every run counted, every ticket unique, every client served? does counting implement `Account`? | yes; yes |
| `submit_two_submitters` | own run where ids are returned, one test per try, a new run where they are not | holds |
| `submit_ends` | types and bounds, a true success and, unless a `gh` call hangs, an end, under all faults | holds |
| `serialreader_reading` | pieces of bytes understood, newest legal display, stability, verdict, an end, in both modes | holds |
| `process_commands` | does a run read its own bitfile's display, over a live bridge, with its own halves; is the host left clean; do threads keep apart; do rows and exit code tell the truth; whom does a hanging command hold up? | its own, as far as no other thread parses at the same time or is at the board; yes; yes, except in a forced batch; yes; its own worker |
| `runner_forced_release` | does a held board read `in_use` when runs may be forced? | no |
| `runner_lost_beat` | is the heartbeat refreshed as long as a board is allocated, after one UPDATE of the heartbeat thread failed? | no |
| `submit_someone_elses` | is the run that is found the dispatched one? | no |
| `serialreader_silence` | is a reading that waited for stability and timed out retried? | no |

The last four are where the program and what its README, an option's help or a
message says of it part; `findings` in `PROJECT.json` quotes both. While
modelling we met six more that have no run of their own, each one step away
from the definition named:

- `--keep-in-use` promises to "keep the FPGA board status as in_use after the
  command exits" (`cli.py:204`), but the heartbeat ends with the run, and the
  next allocation after the threshold takes the board (`Claimable`).
- `--force-use` "randomly selects from all FPGA resources" (`README.md:30-31`),
  but the ORDER BY of `db.py:193` prefers boards in use, and among them the
  longest silent (`SelectedRows`).
- "In batch mode, `--fpga` runs with one worker to avoid programming the same board
  concurrently" (`README.md:32-33`), but `--force-use` alone keeps up to three, which
  may get one board, the more so as boards in use come first (`TakesAnyBoard`,
  `BoardsFor`).
- A display that alternates between one legal value and illegal ones counts as
  unchanged (`Snapshot`), although "the parsed display and LED state" are to
  stay unchanged (`README.md:132`). `StableIsSettled` speaks of legal displays only and
  holds in spite of that.
- "Each programming attempt cleans remote `bits.z*` files before upload"
  (`README.md:150-152`), but the code removes only the name it has just invented
  (`remote.py:173-175`), so a zip whose final cleanup failed stays for good
  (`CleanZip`, `litter`).
- An answer of GitHub that is not the expected JSON or zip ends
  `call_submit.py` with a traceback and nothing on stdout (`AnswerIsGarbled`),
  which is to hold "a single machine-readable JSON object" (`README.md:116-117`).

Every property has a mutant in its module, a plausible slip of the code that
breaks it (the definitions marked "a mutant of").

### Bounds

Two clients are enough to race for a board, to reclaim it from a slow or dead
holder and to be hit by a late heartbeat of the one before. One board makes them
meet; that more clients and boards, longer thresholds and a table without
`last_heartbeat` change nothing is what the theorems add. `STALE` and `BEAT_BY`
are one tick: a holder beats at the last moment and survives, or dies and is
overtaken a tick later. `CLAIM_TRIES` is 2 (5 in the code): one lost race that is
repeated and one that is final. One retry shows an attempt with the leftovers
of the one before. Clients that finish start again, so histories have no bound
in length; runs with symmetry check no liveness, except the refinement, whose
abstract specification has no fairness.

Two counting clients with two bitfiles each meet a limit of 3 in the middle of
their work, a third client skips the login, and the administrator's limits lie
below and within what they use. Two submitters with up to three workflow runs,
one repetition of the POST and pages of two meet every confusion of runs that the
page size allows; the faults that cannot mix runs up are left to the
single submitter of `submit_ends`. Two passing displays, one legal one out of
range and two illegal ones are all that the filter and the verdict tell apart;
a window of 2 ticks within 5 allows a change before, in and after it. Two bytes
are sent besides the commands, one that has to be escaped and one that could be
mistaken for a command; pieces of two units hold what precedes a cut. Bytes are
looked at until the board's payload begins, since the reader carries nothing
over.

`process_commands` starts one of seven commands: a batch with two workers and two
boards of which one row's count may fail; a forced batch whose two workers both
get the one board of the table; another at the board with one port, in which counting
fails and commands hang, so that the pool is drained while a worker hangs; a batch
with `--jobs 2 --fpga`, which must become one worker, on the board whose serial port
is its hw_server port;
a sweep of two boards with hangs and failed releases; a sweep of one board with
two bitfiles, so that the second meets the bitstream of the first; and stability
with a retry under every fault. Faults are divided among the commands because
what they disturb is: races of threads need the two-worker commands, and
leftovers and late servers need two runs on one board. All command lines and all
faults at once are what the theorems add. `PENDING` is 1: one server that is late
enough to collide with the next start. `FRAMES` is 2: a whole display, or two
halves of one. Two workers race as three would; the third stays idle. Bitfile 2
shows no legal display of its own, but its halves make one with those of bitfile 1
(`MCLegal`): a filter that kept its display for the next run would let it pass.

`CHECK_DEADLOCK FALSE` stands where the program really ends: quota clients finish
their files, submitters print, a reading is judged, a command exits or all its
workers hang. `Runner` never stops.

### Fairness

`Runner`: a client takes its next step, a heartbeat thread goes on, a statement
in flight arrives, the clock ticks (weak fairness each). MySQL calls and waits for
ports have time limits; the exit status of a remote command has none
(`remote.py:44`), so that remote commands end is an assumption. Nobody has to
start a command. `Quota`: clients that are not done go on; the administrator need
not act. `Reading`: the clock ticks however fast pieces come (strong fairness,
as a piece in hand holds the model's clock), a piece is handled, and the loop
looks at the clock every 0.2 seconds, as the socket timeout makes it; data need
never arrive. `Process`: as long as the main thread or a worker can go on, one of
them does; a late server need not come up, and nothing makes a hanging command exit:
`HangIsContained` says what is left then. `Submit`: the submitter goes on once the
call it made has returned. `gh api` is run without a timeout (`call_submit.py:79`),
so a call may also never return (`CallHangs`), and `SubmissionEnds` sets those
submitters apart; uploads have time limits of their own. What the answers say, and
whether the workflow ever does anything, is left open: polls are bounded by the
submitter's own deadlines.

## What is proved

With TLAPS, for all values of the constants that the named assumptions admit.

`RunnerProofs`:

- `TypeCorrect` and `InUseIsStamped` need nothing more: in all modes and under
  all faults the variables keep to their values and bounds, and a board in use
  has a heartbeat to grow stale. The inductive invariants are `TypeOK` with
  `Flow` (a thread runs only within a run, an allocated client has a board, a
  retry was allowed) and `InUseStamped` itself: each statement keeps it.
- `BoardsAreExclusive`, `HeldBoardsAreInUse`, `SuccessesAreOwn`, `BridgesStayUp`
  and `RunnerImplementsLease` assume `Cooperative`: no forced runs, no
  administrator, heartbeats on and not failing, neither the first UPDATE
  (`"first_beat"`) nor the thread's later ones (`"beat"`). Without any of these TLC refutes
  exclusivity (`runner_forced_release`, `runner_lost_beat` show where). The invariant
  `CooperativeInv` adds to the above `Bookkeeping` (a used board has a live
  heartbeat thread, and the result names the client's own board) and `Tenure`.
  Exclusive use alone is not inductive: a claim is refused only because the row
  is in use and fresh. `HeldIsFresh` ties the age of the row to the client's own
  count since its last heartbeat, which `Tick` keeps below the threshold; late
  heartbeats only make rows younger, and releases touch only the releaser's own
  board because nobody else holds it.
- The refinement maps each step to a step of `Lease` or a stutter; `holder` is
  a CHOOSE that exclusivity makes unique.

`QuotaProofs`: types; `AccountsAreNotOverrun` from `Locked` (in the transaction
the lock is the client's and what it saw is what the row holds);
`EveryRunIsPaid` from `Paid`, an exact balance of bitfiles per phase;
`TicketsAreUnique` from `Locked` and `Ticketed` (every ticket is below the
counter and no other client's). `QuotaImplementsAccount`, from `Locked` again: a
COMMIT is an admission, whether or not its answer arrives, and what surrounds it
is a stutter. It says of tickets what `TicketsDiffer` cannot when the
administrator sets the usage back.

`ReadingProofs`, about samples: `ReaderTyped`, `NewestLegalIsReported`,
`StabilityIsSettled` and `PassingWasShown` from `ReaderInv`, which relates the
filter's two fields to what was received, the stability clock to the last change,
and the phases to the verdict. They are about `SerialReader`;
`ReadingImplementsReader` and `ReadingReports` carry them over to `Reading`, whose
bytes leave the reader alone.

`ReadingProofs`, about bytes: `PieceIsUnderstood`, for streams of any length over any
bytes, data that are command bytes included. The property is inductive by itself,
as the reader keeps nothing of a piece; the work is in what the recursive
`CollectedFrom` computes. A recursive function is a CHOOSE, so first it has to be
shown that there is one: the loop only goes onward (`OnwardIsAhead`, `LoopExists`).
Then each unit is read in one round (`UnitRead`), one that is cut adds nothing and
leaves nothing (`UnitCut`), and the units before it are read one by one
(`StreamRead`). The induction in these is `Induction`, which is about a set instead
of a predicate and follows from the theorem on injections of finite sets, since
the library's own induction theorems cannot be instantiated here.

`DisplayParserProofs`: `DisplayIsOwn` from `ParserInv`, for any threads and payloads of
any length: a thread in a call that nobody disturbs is alone in the parser
(`Alone`), so that what it finds in the globals is what the frames so far have
shown, and a half that was tested stays until it is read (`GlobalsOwn`).

`RemoteHostProofs`: `OwnBitfileRead`, `ZipsCleaned` and `BridgeStays` from `HostInv`,
under any faults and leftovers and with any number of sessions at one board. `SoFar`
says how far a session is and `OnBoard`, for one whose board nobody else was given,
what it has made of the host by then: the file is its own once it is extracted, the
board once Vivado has returned without an error, the bridge from the moment it has
been waited for. `BoardsApart` says that two sessions at one board are both in
`crossed`, so the steps of one leave alone what `OnBoard` says of an uncrossed other.
`PortsOwn` is needed for that: whoever listens on a port was started for it, so a
hw_server found on the board's port programs that board. It is assumed that boards
share no ports (`HostAssumption`); one board's two ports may be the same.

`DriversProofs`: `ExitCodeHonest` and `RunsWritten` from `DriversInv`, for every command
line: a future in work belongs to one worker (`Assigned`), the rows of a future
are complete up to the run it is at, and all passed when its count says so
(`Recorded`), and the counts of the main thread are equal only if every collected
future is a full success (`Counted`).

`ProcessProofs`: `ProcessImplementsDrivers`, `ProcessImplementsHost` and
`ProcessImplementsParser` show that the composition implements its parts, so that
all of the above holds in it. `ThreadsApart` and `PassIsOwn` are of the whole:
`SessionsOfRuns` ties a session to its worker's future, `FramesOwn` says that what an
uncrossed thread parses in a run is its own bitfile's display, `HeldOwn` that what
its filter holds is that display too, if the call that gave it was not disturbed
(`SampleIsOwn`, from what is proved of the parser), however many calls came after, and
`VerdictsEarned` that only a display the filter holds has passed. `ThreadsApart` is
about every command line but a forced batch without `--fpga`; it rests on futures being
different boards in a sweep, on `Jobs` being 1 with `--fpga`, and else on allocation
(`AllocateApart`, `Uncrossed`). `ProcessAssumption` states what command lines are.

`SubmitProofs`, for any submitters, numbers of runs and retries, page sizes and
faults, each theorem with the part of the state it needs:

- `SubmitTyped` from `Typed`: who waits for a run has taken one.
- `SubmissionsArePaidFor` from `RunsSent`: the runs a submitter owns are finitely many
  and no more than the POSTs it has sent (`Sent`), counted also while the answer to
  the last one is out.
- `OwnRunIsReported` from `OwnTaken`: where ids are returned nobody looks for a run,
  and the one that is taken is of the submitter's own POST.
- `FoundRunIsFresh` from `Fresh`, where runs are listed at once. A run that is on no
  page before the dispatch may be an old one that the page was too short for:
  `BeforeDispatch` says that at least a page of later runs went before it then, and
  as runs are never taken off the list, it will be on no later page either.
- `SuccessWasTested` from `Judged` (a run that concluded with success is complete and
  both its test and its artifact say success) and `Told` (who printed a success
  has ended, and its run so concluded).

Every invariant that a run checks is thus stated by a theorem, and so are the
action properties and refinements. Only model-checked is liveness
(`OrphanReclaimed`, `RunTerminates`, `EverybodyFinishes`, `SubmissionEnds`,
`ReadingEnds`, `HangIsContained`), which TLAPS cannot treat under fairness.

## What is not modelled

- The bits of a frame: `DisplayParser` takes a frame for a side and a half, so the
  segment table, the order of digits and the LEDs are left out, and with them
  `parse_display` and `parse_full_display`, which keep no state.
- What the reader sends: line settings and the poll byte. Errors there are ignored
  by the code, and hub4com's state is not ours.
- Boards shared between processes, on the host: `RemoteHost` lets any sessions share a
  board, but `Process` has one process; forced runs of two clients on one board are
  `Runner`'s (`runner_any_mode`, `runner_forced_release`).
- Heartbeats that miss the threshold although their thread lives: `Tick` excludes them
  (see *Time* above).
- KeyboardInterrupt: a crash, as far as the table is concerned, or a run whose
  `finally` is done.
- `list-boards`, `login` by itself and `config`, which read or write no shared
  state but a configuration file; configuration and logging, whose values are
  constants here.
- Building and decrypting zips, the secret and `update` in `call_submit.py`.
- Rows of the results table: whether a result could be saved is an outcome
  ("unsaved"), the rows are not counted.

## Plan

1. Done: `BoardTable`, `Runner`, `Lease`, `Quota`, `SerialReader`, `Submit`;
   `Telnet`, `Reading`, `DisplayParser`, `RemoteHost`, `Drivers`, `Process`; and
   the proofs above.
2. Done: the proofs about `Submit` and about the bytes of `Reading`, and the abstract
   `Account`.
3. `keep-in-use` followed over several commands (`runner.py:52`, `runner.py:166`),
   and the rows of the results table with a COMMIT whose answer is lost
   (`runner.py:143`).
4. `Process` shown to implement `Lease` as `Runner` does, so that what it takes for
   granted of allocation is stated once; a variant for each command that has to end,
   as far as safety can say it.
