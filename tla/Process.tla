------------------------------- MODULE Process -------------------------------
(***************************************************************************)
(* One process of the client with its worker threads on one host: the      *)
(* drivers of cli.py, whose runs are sessions on the host and calls of the *)
(* display parser.  What the threads share is the pool, the host and the   *)
(* parser's globals.  The boards come from the shared table, which keeps   *)
(* them apart (Runner) unless the allocation is forced.                    *)
(***************************************************************************)
EXTENDS Drivers, RemoteHost, DisplayParser

CONSTANTS
  LegalDisplays,   \* the pairs of halves that make at least 0x37000000
  FRAMES           \* bound: frames of a display that are received in a run

ASSUME ProcessAssumption ==
  /\ Sessions = Workers /\ Threads = Workers
  /\ LegalDisplays \subseteq (Halves \X Halves) \ {NULL}
  /\ FRAMES \in Nat \ {0}
  /\ Boards \subseteq Nat
  /\ \A d \in Bitfiles : {<<d, "left">>, <<d, "right">>} \subseteq Halves
  /\ \A k \in Commands :
       /\ k.fpga \in Boards \cup {NULL} /\ k.rows \subseteq Boards
       /\ k.kind = "batch" => 1 .. k.futures \subseteq Bitfiles
       /\ k.kind = "sweep" => 1 .. k.futures \subseteq Boards /\ 1 .. k.runs \subseteq Bitfiles
       /\ k.kind = "stability" => k.fpga # NULL /\ 1 \in Bitfiles

VARIABLES
  held,            \* held[w]: the newest legal display the filter of w's run has, or NULL
  suspect,         \* workers whose call that parsed it was disturbed (history)
  verdict          \* verdict[w]: what the reading of w's run came to

readingVars == <<held, suspect, verdict>>
vars == <<driverVars, remoteVars, parserVars, readingVars>>

Init ==
  /\ DriversInit
  /\ HostInit
  /\ ParserInit
  /\ held = [w \in Workers |-> NULL]
  /\ suspect = {}
  /\ verdict = [w \in Workers |-> "error"]

-----------------------------------------------------------------------------

BitfileOf(w) ==
  CASE command.kind = "batch" -> doing[w]
    [] command.kind = "sweep" -> run[w]
    [] command.kind = "stability" -> 1

\* batch --force-use without --fpga, which goes through the whole table.
TakesAnyBoard ==
  command.kind = "batch" /\ command.force /\ command.fpga = NULL

\* A sweep's future is a board, and a named board is given whoever is at it.  Forced
\* without a name any row may come first, the boards in use included; not forced,
\* what the other clients and this process have left free.
BoardsFor(w) ==
  CASE command.kind = "sweep" -> {doing[w]}
    [] command.kind # "sweep" /\ command.fpga # NULL -> {command.fpga}
    [] TakesAnyBoard -> command.rows
    [] OTHER -> {b \in command.rows : AtBoard(b) = {}}

Allocate(w) ==
  /\ stage[w] = "run"
  /\ \E b \in BoardsFor(w) : OpenSession(w, b, BitfileOf(w))
  /\ UNCHANGED <<driverVars, parserVars, readingVars>>

AllocateFails(w) ==
  /\ stage[w] = "run" /\ call[w] = "none"
  /\ BoardsFor(w) = {} \/ "database" \in faults
  /\ EndAttempt(w, "error")
  /\ UNCHANGED <<remoteVars, parserVars, readingVars>>

UseHost(w) ==
  /\ SessionStep(w)
  /\ UNCHANGED <<driverVars, parserVars, readingVars>>

\* The board shows its two halves in turn, and the payload so far is parsed anew
\* after each piece of it.
Halved(d, side) == [side |-> side, half |-> <<d, side>>]
Other(side) == IF side = "left" THEN "right" ELSE "left"

Received(w) ==
  LET n == Len(frames[w])
  IN  IF n = 0 THEN {"left", "right"} ELSE {Other(frames[w][n].side)}

ReceiveFrame(w) ==
  /\ call[w] = "serial" /\ Bridged(w) /\ installed[board[w]] # NULL
  /\ parsing[w] \in {"idle", "returned"} /\ Len(frames[w]) < FRAMES
  /\ \E side \in Received(w) :
       ParseSignal(w, Append(frames[w], Halved(installed[board[w]], side)))
  /\ UNCHANGED <<driverVars, remoteVars, readingVars>>

\* The filter takes the display of the call that returns if it is legal, which half a
\* display never is, and else keeps the one it has.
Sample(w) ==
  IF parsing'[w] = "returned" /\ parsed'[w] \in LegalDisplays
    THEN /\ held' = [held EXCEPT ![w] = parsed'[w]]
         /\ suspect' = IF w \in disturbed THEN suspect \cup {w} ELSE suspect \ {w}
    ELSE UNCHANGED <<held, suspect>>

Parse(w) ==
  /\ ParserStep(w)
  /\ Sample(w)
  /\ UNCHANGED <<driverVars, remoteVars, verdict>>

\* A legal display may pass, and its result then fail to be saved.
Verdicts(w) ==
  {"judgment"} \cup
    IF held[w] = NULL THEN {}
    ELSE {"passed"} \cup IF "database" \in faults THEN {"unsaved"} ELSE {}

\* The reading ends by itself, by an exception of the parser or without a bridge.
ReadDisplay(w) ==
  /\ call[w] = "serial"
  /\ \/ /\ parsing[w] # "raised" /\ Bridged(w)
        /\ \E v \in Verdicts(w) : verdict' = [verdict EXCEPT ![w] = v]
        /\ EndSerial(w, TRUE)
     \/ /\ parsing[w] = "raised" \/ ~Bridged(w)
        /\ EndSerial(w, FALSE)
        /\ UNCHANGED verdict
  /\ Forget(w)
  /\ UNCHANGED <<driverVars, held, suspect>>

\* What the caller of run_bitfile sees of the attempt.
Results(w) ==
  IF failed[w] THEN {"error"} \cup ({"silent"} \cap faults)
  ELSE {verdict[w]} \cup IF verdict[w] = "passed" /\ "release" \in faults
                           THEN {"unsaved"} ELSE {}

\* The filter outlives its run (a mutant of NextFilter).
FilterOfLastRun(w) == held[w]

NextFilter(w) == NULL

FinishAttempt(w) ==
  /\ CloseSession(w)
  /\ \E o \in Results(w) : EndAttempt(w, o)
  /\ held' = [held EXCEPT ![w] = NextFilter(w)]
  /\ suspect' = suspect \ {w}
  /\ verdict' = [verdict EXCEPT ![w] = "error"]
  /\ UNCHANGED parserVars

Work(w) == WorkerStep(w) /\ UNCHANGED <<remoteVars, parserVars, readingVars>>
MainThread == MainStep /\ UNCHANGED <<remoteVars, parserVars, readingVars>>

HangForever(w) == Hang(w) /\ UNCHANGED <<driverVars, parserVars, readingVars>>
ServerUp(s) == ComeUp(s) /\ UNCHANGED <<driverVars, parserVars, readingVars>>

ThreadStep(w) ==
  \/ Work(w) \/ Allocate(w) \/ AllocateFails(w) \/ UseHost(w) \/ ReceiveFrame(w)
  \/ Parse(w) \/ ReadDisplay(w) \/ FinishAttempt(w)

Next ==
  \/ MainThread
  \/ \E w \in Workers : ThreadStep(w) \/ HangForever(w)
  \/ \E s \in Servers : ServerUp(s)

Spec == Init /\ [][Next]_vars

\* As long as a thread of the process can go on, one does; which one, and whether a
\* late server ever comes up, is left open.
FairSpec == Spec /\ WF_vars(MainThread \/ \E w \in Workers : ThreadStep(w))

-----------------------------------------------------------------------------
(* Properties.                                                             *)

TypeOK ==
  /\ DriversTypeOK /\ HostTypeOK /\ ParserTypeOK
  /\ held \in [Workers -> LegalDisplays \cup {NULL}]
  /\ suspect \subseteq Workers
  /\ verdict \in [Workers -> Outcomes]

\* No two threads of a process program one board at the same time ("`--fpga` runs
\* with one worker to avoid programming the same board concurrently", README), except
\* in a batch that is forced and names no board.
OneThreadPerBoard ==
  TakesAnyBoard \/
    \A v, w \in Workers : v # w /\ call[v] # "none" /\ call[w] # "none" => board[v] # board[w]

OwnDisplay(w) == << <<BitfileOf(w), "left">>, <<BitfileOf(w), "right">> >>

\* A run that passes showed both halves of the very bitfile the row names: the display
\* the filter had in the end is that one, unless another thread parsed during the very
\* call that displayed it, or another session was given the board.
PassedOnOwnBitfile ==
  \A w \in Workers \ (suspect \cup crossed) :
    verdict[w] \in {"passed", "unsaved"} /\ call[w] \in {"stop_all", "closed"}
      => held[w] = OwnDisplay(w)

\* A command that hangs on the host stops its own worker and nobody else: the other
\* workers get through the queue, and without a hang the command ends.
HangIsContained ==
  <>(\/ main = "exited"
     \/ \E w \in Workers : call[w] = "hung" /\
          \A t \in Futures :
            \/ settled[t] # "pending"
            \/ \E v \in Workers : doing[v] = t /\ call[v] = "hung"
            \/ \A v \in 1 .. Jobs : call[v] = "hung")
=============================================================================
