---------------------------- MODULE ProcessProofs ----------------------------
(***************************************************************************)
(* Proofs about Process: its threads together are a behaviour of each of   *)
(* the three modules it is composed of, whose invariants it so inherits.   *)
(***************************************************************************)
EXTENDS Process, DriversProofs, RemoteHostProofs, DisplayParserProofs

-----------------------------------------------------------------------------
(* The inductive invariant.                                                *)

\* A session belongs to a worker in a run, and has the board and the bitfile of its
\* future.
SessionsOfRuns ==
  \A w \in Workers :
    /\ stage[w] # "idle" => w <= Jobs
    /\ Active(w) =>
         /\ stage[w] = "run"
         /\ bitfile[w] = BitfileOf(w)
         /\ command.kind = "sweep" => board[w] = doing[w]

\* Only in a batch that is forced and names no board does a thread come to a board
\* where another one is.
Uncrossed == TakesAnyBoard \/ crossed = {}

\* A thread parses while it reads the display, which shows its own bitfile if nobody
\* else was at the board.
FramesOwn ==
  \A w \in Workers :
    /\ InCall(w) => call[w] = "serial"
    /\ call[w] # "serial" => frames[w] = <<>>
    /\ w \notin crossed =>
         \A i \in DOMAIN frames[w] : frames[w][i].half = <<bitfile[w], frames[w][i].side>>

AfterReading == {"stop_all", "closed", "hung"}

\* What the filter holds was displayed in the run, by the bitfile itself if nobody was
\* in the way.
HeldOwn ==
  /\ held \in [Workers -> LegalDisplays \cup {NULL}]
  /\ suspect \subseteq Workers
  /\ \A w \in Workers : held[w] # NULL =>
       /\ call[w] \in AfterReading \cup {"serial"}
       /\ w \notin suspect \cup crossed =>
            held[w] = << <<bitfile[w], "left">>, <<bitfile[w], "right">> >>

\* Only a display that the filter holds has passed.
VerdictsEarned ==
  /\ verdict \in [Workers -> Outcomes]
  /\ \A w \in Workers : verdict[w] \in {"passed", "unsaved"}
       => call[w] \in AfterReading /\ held[w] # NULL

ProcessInv ==
  /\ DriversInv /\ HostInv /\ ParserInv
  /\ SessionsOfRuns /\ Uncrossed /\ FramesOwn /\ HeldOwn /\ VerdictsEarned

LEMMA ProcessInitInv ==
  ASSUME Init
  PROVE  ProcessInv
<1>1. DriversInv /\ HostInv /\ ParserInv
  BY DriversInitInv, HostInitInv, ParserInitInv DEF Init
<1>2. \A w \in Workers : stage[w] = "idle" /\ call[w] = "none" /\ parsing[w] = "idle" /\ frames[w] = <<>>
  BY ProcessAssumption DEF Init, DriversInit, HostInit, ParserInit
<1>3. SessionsOfRuns /\ FramesOwn
  BY <1>2 DEF SessionsOfRuns, FramesOwn, Active, InCall, Accesses
<1>4. Uncrossed /\ HeldOwn /\ VerdictsEarned
  BY DEF Uncrossed, HeldOwn, VerdictsEarned, Init, HostInit, Outcomes
<1> QED
  BY <1>1, <1>3, <1>4 DEF ProcessInv

-----------------------------------------------------------------------------
(* The steps as the three modules see them.                                *)

LEMMA BitfileOfTyped ==
  ASSUME DriversTypeOK, NEW w \in Workers, doing[w] # NULL
  PROVE  /\ BitfileOf(w) \in Bitfiles
         /\ command.kind = "sweep" => doing[w] \in Boards
<1>1. /\ command \in Commands /\ doing[w] \in 1 .. command.futures /\ run[w] \in 1 .. command.runs
      /\ command.kind \in {"batch", "sweep", "stability"}
  BY CommandTyped DEF DriversTypeOK, Futures
<1>2. CASE command.kind = "batch"
  BY <1>1, <1>2, ProcessAssumption DEF BitfileOf
<1>3. CASE command.kind = "sweep"
  BY <1>1, <1>3, ProcessAssumption DEF BitfileOf
<1>4. CASE command.kind = "stability"
  BY <1>1, <1>4, ProcessAssumption DEF BitfileOf
<1> QED
  BY <1>1, <1>2, <1>3, <1>4

\* An allocation puts a thread on a board that another one is at only where any row
\* of the table is taken.
LEMMA AllocateApart ==
  ASSUME ProcessInv, NEW w \in Workers, Allocate(w)
  PROVE  \E b \in Boards :
           /\ OpenSession(w, b, BitfileOf(w)) /\ BitfileOf(w) \in Bitfiles
           /\ command.kind = "sweep" => b = doing[w]
           /\ TakesAnyBoard \/ AtBoard(b) = {}
<1> USE DEF ProcessInv, DriversInv
<1>1. PICK b \in BoardsFor(w) : OpenSession(w, b, BitfileOf(w))
  BY DEF Allocate
<1>2. /\ stage[w] = "run" /\ ~Active(w) /\ doing[w] # NULL /\ w <= Jobs
      /\ command \in Commands /\ command.kind \in {"batch", "sweep", "stability"}
      /\ command.rows \subseteq Boards
  BY <1>1, CommandTyped, ProcessAssumption
     DEF Allocate, OpenSession, Active, Assigned, SessionsOfRuns, DriversTypeOK
<1>3. BitfileOf(w) \in Bitfiles /\ (command.kind = "sweep" => doing[w] \in Boards)
  BY <1>2, BitfileOfTyped
<1>4. CASE command.kind = "sweep"
  <2>1. b = doing[w]
    BY <1>1, <1>4 DEF BoardsFor, TakesAnyBoard
  <2>2. ASSUME NEW e \in Workers, Active(e)
        PROVE  board[e] # b
    BY <1>2, <1>4, <2>1, <2>2 DEF SessionsOfRuns, Assigned
  <2> QED
    BY <1>1, <1>3, <1>4, <2>1, <2>2, ProcessAssumption DEF AtBoard, Active
<1>5. CASE command.kind # "sweep" /\ command.fpga # NULL
  <2>1. command.fpga \in Boards /\ b = command.fpga
    BY <1>1, <1>2, <1>5, ProcessAssumption DEF BoardsFor, TakesAnyBoard
  <2>2. Jobs = 1
    BY <1>2, <1>5 DEF Jobs
  <2>3. \A e \in Workers : ~Active(e)
    BY <1>2, <2>2 DEF SessionsOfRuns, Workers
  <2> QED
    BY <1>1, <1>3, <1>5, <2>1, <2>3, ProcessAssumption DEF AtBoard, Active
<1>6. CASE command.kind # "sweep" /\ command.fpga = NULL
  <2>1. b \in command.rows /\ (TakesAnyBoard \/ AtBoard(b) = {})
    BY <1>1, <1>6 DEF BoardsFor
  <2> QED
    BY <1>1, <1>2, <1>3, <1>6, <2>1
<1> QED
  BY <1>4, <1>5, <1>6

LEMMA ResultsTyped ==
  ASSUME VerdictsEarned, NEW w \in Workers
  PROVE  Results(w) \subseteq Outcomes
BY DEF Results, VerdictsEarned, Outcomes

LEMMA ReceiveIsParse ==
  ASSUME ProcessInv, NEW w \in Workers, ReceiveFrame(w)
  PROVE  \E d \in Bitfiles, side \in {"left", "right"} :
           /\ w \notin crossed => d = bitfile[w]
           /\ Append(frames[w], Halved(d, side)) \in Seq(Frames)
           /\ ParseSignal(w, Append(frames[w], Halved(d, side)))
<1> USE DEF ProcessInv
<1> DEFINE d == installed[board[w]]
<1>1. /\ d \in Bitfiles /\ frames[w] \in Seq(Frames)
      /\ w \notin crossed => d = bitfile[w]
  BY ProcessAssumption
     DEF ReceiveFrame, HostInv, HostTypeOK, SoFar, OnBoard, BoardsApart, Active, ParserInv, ParserTypeOK
<1>2. PICK side \in Received(w) : ParseSignal(w, Append(frames[w], Halved(d, side)))
  BY DEF ReceiveFrame
<1>3. side \in {"left", "right"}
  BY <1>2 DEF Received, Other
<1>4. Halved(d, side) \in Frames
  BY <1>1, <1>3, ProcessAssumption DEF Halved, Frames
<1> QED
  BY <1>1, <1>2, <1>3, <1>4

LEMMA StepOfDrivers ==
  ASSUME ProcessInv, [Next]_vars
  PROVE  [DriversNext]_driverVars
<1>1. ASSUME NEW w \in Workers, ThreadStep(w)
      PROVE  [DriversNext]_driverVars
  <2>1. CASE Work(w)
    BY <2>1 DEF Work, DriversNext
  <2>2. CASE AllocateFails(w)
    BY <2>2 DEF AllocateFails, DriversNext, Outcomes
  <2>3. CASE FinishAttempt(w)
    BY <2>3, ResultsTyped DEF FinishAttempt, DriversNext, ProcessInv
  <2>4. CASE Allocate(w) \/ UseHost(w) \/ ReceiveFrame(w) \/ Parse(w) \/ ReadDisplay(w)
    BY <2>4 DEF Allocate, UseHost, ReceiveFrame, Parse, ReadDisplay
  <2> QED
    BY <1>1, <2>1, <2>2, <2>3, <2>4 DEF ThreadStep
<1>2. CASE MainThread
  BY <1>2 DEF MainThread, DriversNext
<1>3. CASE \/ \E w \in Workers : HangForever(w)
           \/ \E s \in Servers : ServerUp(s)
           \/ UNCHANGED vars
  BY <1>3 DEF HangForever, ServerUp, vars
<1> QED
  BY <1>1, <1>2, <1>3 DEF Next

LEMMA StepOfHost ==
  ASSUME ProcessInv, [Next]_vars
  PROVE  [HostNext /\ UNCHANGED faults]_<<remoteVars, faults>>
<1>0. UNCHANGED driverVars => UNCHANGED faults
  BY DEF driverVars
<1>1. ASSUME NEW w \in Workers, ThreadStep(w)
      PROVE  [HostNext /\ UNCHANGED faults]_<<remoteVars, faults>>
  <2>1. CASE Work(w)
    BY <2>1 DEF Work, WorkerStep, TakeFuture, CountBitfile, RefuseBitfile, CountRaises, Record
  <2>2. CASE AllocateFails(w)
    BY <2>2 DEF AllocateFails, EndAttempt
  <2>3. CASE FinishAttempt(w)
    BY <2>3, ProcessAssumption DEF FinishAttempt, EndAttempt, HostNext
  <2>4. CASE Allocate(w)
    BY <1>0, <2>4, AllocateApart, ProcessAssumption DEF Allocate, HostNext
  <2>5. CASE UseHost(w)
    BY <1>0, <2>5, ProcessAssumption DEF UseHost, HostNext
  <2>6. CASE ReadDisplay(w)
    BY <1>0, <2>6, ProcessAssumption DEF ReadDisplay, HostNext
  <2>7. CASE ReceiveFrame(w) \/ Parse(w)
    BY <1>0, <2>7 DEF ReceiveFrame, Parse
  <2> QED
    BY <1>1, <2>1, <2>2, <2>3, <2>4, <2>5, <2>6, <2>7 DEF ThreadStep
<1>2. CASE MainThread
  BY <1>2 DEF MainThread, MainStep, OpenOutput, StartFails, ShutDown, ExitCommand, Collect, CollectRaises
<1>3. CASE \E w \in Workers : HangForever(w)
  BY <1>0, <1>3, ProcessAssumption DEF HangForever, HostNext
<1>4. CASE \E s \in Servers : ServerUp(s)
  BY <1>0, <1>4 DEF ServerUp, HostNext
<1>5. CASE UNCHANGED vars
  BY <1>0, <1>5 DEF vars
<1> QED
  BY <1>1, <1>2, <1>3, <1>4, <1>5 DEF Next

LEMMA StepOfParser ==
  ASSUME ProcessInv, [Next]_vars
  PROVE  [ParserNext]_parserVars
<1>1. ASSUME NEW w \in Workers, ThreadStep(w)
      PROVE  [ParserNext]_parserVars
  <2>1. CASE ReceiveFrame(w)
    BY <2>1, ReceiveIsParse, ProcessAssumption DEF ParserNext
  <2>2. CASE Parse(w)
    BY <2>2, ProcessAssumption DEF Parse, ParserNext
  <2>3. CASE ReadDisplay(w)
    BY <2>3, ProcessAssumption DEF ReadDisplay, ParserNext
  <2>4. CASE Work(w) \/ Allocate(w) \/ AllocateFails(w) \/ UseHost(w) \/ FinishAttempt(w)
    BY <2>4 DEF Work, Allocate, AllocateFails, UseHost, FinishAttempt
  <2> QED
    BY <1>1, <2>1, <2>2, <2>3, <2>4 DEF ThreadStep
<1>2. CASE \/ MainThread \/ \E w \in Workers : HangForever(w)
           \/ \E s \in Servers : ServerUp(s)
           \/ UNCHANGED vars
  BY <1>2 DEF MainThread, HangForever, ServerUp, vars
<1> QED
  BY <1>1, <1>2 DEF Next

-----------------------------------------------------------------------------
(* Every step keeps the invariant.                                         *)

\* A worker in a run stays with it while the others work.
LEMMA RunsStay ==
  ASSUME ProcessInv, [Next]_vars, NEW v \in Workers, stage[v] = "run", stage'[v] = "run"
  PROVE  doing'[v] = doing[v] /\ run'[v] = run[v] /\ command' = command
<1>1. ASSUME NEW w \in Workers, Work(w)
      PROVE  doing'[v] = doing[v] /\ run'[v] = run[v] /\ command' = command
  <2>1. stage[w] # "run"
    BY <1>1 DEF Work, WorkerStep, TakeFuture, CountBitfile, RefuseBitfile, CountRaises, Record
  <2> QED
    BY <1>1, <2>1 DEF Work, WorkerStep, TakeFuture, CountBitfile, RefuseBitfile, CountRaises, Record,
                      Settle, ProcessInv, DriversInv, DriversTypeOK
<1>2. ASSUME NEW w \in Workers, ThreadStep(w), ~Work(w)
      PROVE  doing'[v] = doing[v] /\ run'[v] = run[v] /\ command' = command
  BY <1>2 DEF ThreadStep, Allocate, AllocateFails, UseHost, ReceiveFrame, Parse, ReadDisplay,
              FinishAttempt, EndAttempt, driverVars
<1>3. CASE MainThread
  BY <1>3 DEF MainThread, MainStep, OpenOutput, StartFails, ShutDown, ExitCommand, Collect,
              CollectRaises, workerVars
<1>4. CASE \/ \E w \in Workers : HangForever(w)
           \/ \E s \in Servers : ServerUp(s)
           \/ UNCHANGED vars
  BY <1>4 DEF HangForever, ServerUp, vars, driverVars
<1> QED
  BY <1>1, <1>2, <1>3, <1>4 DEF Next

\* Nobody but its worker ends a run.
LEMMA StagesOfStep ==
  ASSUME ProcessInv, [Next]_vars, NEW v \in Workers, stage[v] = "run"
  PROVE  stage'[v] = "run" \/ AllocateFails(v) \/ FinishAttempt(v)
<1> USE DEF ProcessInv, DriversInv, DriversTypeOK
<1>1. ASSUME NEW w \in Workers, Work(w)
      PROVE  stage'[v] = "run"
  <2>1. stage[w] # "run"
    BY <1>1 DEF Work, WorkerStep, TakeFuture, CountBitfile, RefuseBitfile, CountRaises, Record
  <2> QED
    BY <1>1, <2>1 DEF Work, WorkerStep, TakeFuture, CountBitfile, RefuseBitfile, CountRaises, Record,
                      Settle, EnterStage
<1>2. ASSUME NEW w \in Workers \ {v}, AllocateFails(w) \/ FinishAttempt(w)
      PROVE  stage'[v] = "run"
  BY <1>2 DEF AllocateFails, FinishAttempt, EndAttempt, EnterStage
<1>3. ASSUME NEW w \in Workers, Allocate(w) \/ UseHost(w) \/ ReceiveFrame(w) \/ Parse(w) \/ ReadDisplay(w)
      PROVE  stage'[v] = "run"
  BY <1>3 DEF Allocate, UseHost, ReceiveFrame, Parse, ReadDisplay, driverVars
<1>4. CASE MainThread
  BY <1>4 DEF MainThread, MainStep, OpenOutput, StartFails, ShutDown, ExitCommand, Collect,
              CollectRaises, workerVars
<1>5. CASE \/ \E w \in Workers : HangForever(w)
           \/ \E s \in Servers : ServerUp(s)
           \/ UNCHANGED vars
  BY <1>5 DEF HangForever, ServerUp, vars, driverVars
<1> QED
  BY <1>1, <1>2, <1>3, <1>4, <1>5 DEF Next, ThreadStep

\* What a step does to the calls of the sessions, thread by thread.
LEMMA CallsOfStep ==
  ASSUME ProcessInv, [Next]_vars, NEW v \in Workers
  PROVE  \/ FinishAttempt(v) /\ call'[v] = "none"
         \/ Allocate(v) /\ call[v] = "none" /\ call'[v] = "start_hw"
         \/ /\ bitfile'[v] = bitfile[v] /\ board'[v] = board[v]
            /\ v \in crossed => v \in crossed'
            /\ \/ call'[v] = call[v]
               \/ ReadDisplay(v) /\ call[v] = "serial" /\ call'[v] = "stop_all"
               \/ call[v] \in Tries /\ call'[v] # "none"
               \/ call[v] = "stop_all" /\ call'[v] \in {"closed", "hung"}
<1> USE ProcessAssumption DEF ProcessInv, HostInv, HostTypeOK
<1> DEFINE Kept(e) == /\ call'[e] = call[e] /\ bitfile'[e] = bitfile[e] /\ board'[e] = board[e]
                      /\ e \in crossed => e \in crossed'
<1>1. ASSUME NEW w \in Workers, Allocate(w)
      PROVE  call[w] = "none" /\ call'[w] = "start_hw" /\ \A e \in Workers \ {w} : Kept(e)
  BY <1>1 DEF Allocate, OpenSession, Goto
<1>2. ASSUME NEW w \in Workers, FinishAttempt(w)
      PROVE  call'[w] = "none" /\ \A e \in Workers \ {w} : Kept(e)
  BY <1>2 DEF FinishAttempt, CloseSession, Goto
<1>3. ASSUME NEW w \in Workers, ReadDisplay(w)
      PROVE  /\ call[w] = "serial" /\ call'[w] = "stop_all"
             /\ bitfile' = bitfile /\ board' = board /\ crossed' = crossed
             /\ \A e \in Workers \ {w} : call'[e] = call[e]
  BY <1>3 DEF ReadDisplay, EndSerial, Goto
<1>4. ASSUME NEW w \in Workers, UseHost(w)
      PROVE  /\ call[w] \in Tries \/ (call[w] = "stop_all" /\ call'[w] = "closed")
             /\ call'[w] # "none" /\ bitfile' = bitfile /\ board' = board /\ crossed' = crossed
             /\ \A e \in Workers \ {w} : call'[e] = call[e]
  BY <1>4, SessionStepCalls DEF UseHost, Tries
<1>5. ASSUME NEW w \in Workers, HangForever(w)
      PROVE  /\ call[w] \in Tries \cup {"stop_all"} /\ call'[w] = "hung"
             /\ bitfile' = bitfile /\ board' = board /\ crossed' = crossed
             /\ \A e \in Workers \ {w} : call'[e] = call[e]
  <2>1. call[w] \in Tries \cup {"stop_all"}
    BY <1>5, CallOrder DEF HangForever, Hang
  <2>2. call' = [call EXCEPT ![w] = "hung"] /\ bitfile' = bitfile /\ board' = board /\ crossed' = crossed
    BY <1>5 DEF HangForever, Hang, Goto
  <2> QED
    BY <2>1, <2>2
<1>6. ASSUME \/ \E w \in Workers : Work(w) \/ AllocateFails(w) \/ ReceiveFrame(w) \/ Parse(w)
             \/ MainThread \/ (\E s \in Servers : ServerUp(s)) \/ UNCHANGED vars
      PROVE  call' = call /\ bitfile' = bitfile /\ board' = board /\ crossed' = crossed
  BY <1>6 DEF Work, AllocateFails, ReceiveFrame, Parse, MainThread, ServerUp, ComeUp, vars, remoteVars,
              sessionVars
<1> QED
  BY <1>1, <1>2, <1>3, <1>4, <1>5, <1>6 DEF Next, ThreadStep

LEMMA CommandStays ==
  ASSUME ProcessInv, [Next]_vars
  PROVE  command' = command
BY StepOfDrivers DEF DriversNext, driverVars, MainStep, WorkerStep, OpenOutput, StartFails, ShutDown,
   ExitCommand, Collect, CollectRaises, TakeFuture, CountBitfile, RefuseBitfile, CountRaises, Record,
   EndAttempt

LEMMA StepKeepsSessions ==
  ASSUME ProcessInv, [Next]_vars
  PROVE  SessionsOfRuns'
<1> USE DEF ProcessInv
<1>1. command' = command
  BY CommandStays
<1>2. ASSUME NEW v \in Workers, stage'[v] # "idle"
      PROVE  v <= Jobs /\ Jobs' = Jobs
  <2>1. stage[v] # "idle" \/ v <= Jobs
    BY <1>2, StepOfDrivers
       DEF DriversNext, driverVars, MainStep, WorkerStep, OpenOutput, StartFails, ShutDown, ExitCommand,
           Collect, CollectRaises, TakeFuture, CountBitfile, RefuseBitfile, CountRaises, Record,
           EndAttempt, Settle, EnterStage, workerVars, DriversInv, DriversTypeOK
  <2> QED
    BY <1>1, <2>1 DEF SessionsOfRuns, Jobs
<1>3. ASSUME NEW v \in Workers, Active(v)'
      PROVE  stage[v] = "run" /\ stage'[v] = "run"
  <2>1. stage[v] = "run" /\ ~FinishAttempt(v)
    <3>1. FinishAttempt(v) => call'[v] = "none"
      BY ProcessAssumption DEF FinishAttempt, CloseSession, Goto, HostInv, HostTypeOK
    <3>2. Active(v) \/ Allocate(v)
      BY <1>3, CallsOfStep DEF Active, Tries
    <3> QED
      BY <1>3, <3>1, <3>2 DEF Active, SessionsOfRuns, Allocate
  <2>2. ~AllocateFails(v)
    BY <1>3 DEF AllocateFails, Active, remoteVars, sessionVars
  <2> QED
    BY <2>1, <2>2, StagesOfStep
<1>4. ASSUME NEW v \in Workers, Active(v)'
      PROVE  /\ bitfile'[v] = BitfileOf(v)'
             /\ command'.kind = "sweep" => board'[v] = doing'[v]
  <2>1. /\ doing'[v] = doing[v] /\ run'[v] = run[v]
        /\ BitfileOf(v)' = BitfileOf(v)
    BY <1>1, <1>3, <1>4, RunsStay DEF BitfileOf
  <2>2. CASE Allocate(v)
    BY <1>1, <2>1, <2>2, AllocateApart, ProcessAssumption DEF OpenSession, HostInv, HostTypeOK
  <2>3. CASE ~Allocate(v) /\ Active(v) /\ bitfile'[v] = bitfile[v] /\ board'[v] = board[v]
    BY <1>1, <2>1, <2>3 DEF SessionsOfRuns
  <2>4. Allocate(v) \/ (Active(v) /\ bitfile'[v] = bitfile[v] /\ board'[v] = board[v])
    BY <1>4, CallsOfStep DEF Active, Tries
  <2> QED
    BY <2>2, <2>3, <2>4
<1> QED
  BY <1>1, <1>2, <1>3, <1>4 DEF SessionsOfRuns

\* Two sessions come to one board only where any row is taken.
LEMMA StepKeepsUncrossed ==
  ASSUME ProcessInv, [Next]_vars
  PROVE  Uncrossed'
<1> USE DEF ProcessInv
<1>1. TakesAnyBoard' = TakesAnyBoard
  BY CommandStays DEF TakesAnyBoard
<1>2. TakesAnyBoard \/ crossed' \subseteq crossed
  <2>1. ASSUME NEW w \in Workers, Allocate(w)
        PROVE  TakesAnyBoard \/ crossed' \subseteq crossed
    BY <2>1, AllocateApart DEF OpenSession
  <2>2. ASSUME NEW w \in Workers, ThreadStep(w), ~Allocate(w)
        PROVE  crossed' \subseteq crossed
    BY <2>2, SessionStepCalls, ProcessAssumption
       DEF ThreadStep, Work, AllocateFails, UseHost, ReceiveFrame, Parse, ReadDisplay, EndSerial,
           FinishAttempt, CloseSession, remoteVars, sessionVars, HostInv
  <2>3. CASE \/ MainThread \/ \E w \in Workers : HangForever(w)
             \/ \E s \in Servers : ServerUp(s)
             \/ UNCHANGED vars
    BY <2>3 DEF MainThread, HangForever, Hang, ServerUp, ComeUp, vars, remoteVars, sessionVars
  <2> QED
    BY <2>1, <2>2, <2>3 DEF Next
<1> QED
  BY <1>1, <1>2 DEF Uncrossed

\* What a step does to the parser's threads.
LEMMA ParserOfStep ==
  ASSUME ProcessInv, [Next]_vars, NEW v \in Workers
  PROVE  \/ parsing'[v] = parsing[v] /\ frames'[v] = frames[v]
         \/ ReceiveFrame(v)
         \/ Parse(v)
         \/ ReadDisplay(v) /\ parsing'[v] = "idle" /\ frames'[v] = <<>>
<1> USE ProcessAssumption DEF ProcessInv, ParserInv, ParserTypeOK
<1>1. ASSUME NEW w \in Workers \ {v}, ReceiveFrame(w)
      PROVE  parsing'[v] = parsing[v] /\ frames'[v] = frames[v]
  BY <1>1 DEF ReceiveFrame, ParseSignal
<1>2. ASSUME NEW w \in Workers \ {v}, Parse(w)
      PROVE  parsing'[v] = parsing[v] /\ frames'[v] = frames[v]
  BY <1>2, StepFrame DEF Parse
<1>3. ASSUME NEW w \in Workers, ReadDisplay(w)
      PROVE  /\ parsing'[w] = "idle" /\ frames'[w] = <<>>
             /\ w # v => parsing'[v] = parsing[v] /\ frames'[v] = frames[v]
  BY <1>3 DEF ReadDisplay, Forget
<1>4. ASSUME \/ \E w \in Workers : \/ Work(w) \/ Allocate(w) \/ AllocateFails(w) \/ UseHost(w)
                                  \/ FinishAttempt(w) \/ HangForever(w)
             \/ MainThread \/ (\E s \in Servers : ServerUp(s)) \/ UNCHANGED vars
      PROVE  parsing' = parsing /\ frames' = frames
  BY <1>4 DEF Work, Allocate, AllocateFails, UseHost, FinishAttempt, HangForever, MainThread, ServerUp,
              vars, parserVars
<1> QED
  BY <1>1, <1>2, <1>3, <1>4 DEF Next, ThreadStep

LEMMA StepKeepsFrames ==
  ASSUME ProcessInv, [Next]_vars
  PROVE  FramesOwn'
<1> USE ProcessAssumption DEF ProcessInv
<1> SUFFICES ASSUME NEW v \in Workers
             PROVE  /\ InCall(v)' => call'[v] = "serial"
                    /\ call'[v] # "serial" => frames'[v] = <<>>
                    /\ v \notin crossed' => \A i \in DOMAIN frames'[v] :
                         frames'[v][i].half = <<bitfile'[v], frames'[v][i].side>>
  BY DEF FramesOwn
<1>1. CASE ReadDisplay(v)
  <2>1. parsing'[v] = "idle" /\ frames'[v] = <<>>
    BY <1>1 DEF ReadDisplay, Forget, ParserInv, ParserTypeOK
  <2> QED
    BY <2>1 DEF InCall, Accesses
<1>2. CASE parsing'[v] = parsing[v] /\ frames'[v] = frames[v] /\ ~ReadDisplay(v)
  <2>1. CASE call[v] # "serial"
    BY <1>2, <2>1 DEF FramesOwn, InCall
  <2>2. CASE call[v] = "serial"
    <3>1. /\ call'[v] = "serial" /\ bitfile'[v] = bitfile[v]
          /\ v \in crossed => v \in crossed'
      BY <1>2, <2>2, CallsOfStep DEF Tries, FinishAttempt, CloseSession
    <3> QED
      BY <1>2, <3>1 DEF FramesOwn
  <2> QED
    BY <2>1, <2>2
<1>3. CASE ReceiveFrame(v)
  <2>1. PICK d \in Bitfiles, side \in {"left", "right"} :
          /\ frames'[v] = Append(frames[v], Halved(d, side)) /\ frames[v] \in Seq(Frames)
          /\ v \notin crossed => d = bitfile[v]
    BY <1>3, ReceiveIsParse DEF ParseSignal, ParserInv, ParserTypeOK
  <2>2. call[v] = "serial" /\ call' = call /\ bitfile' = bitfile /\ crossed' = crossed
    BY <1>3 DEF ReceiveFrame, remoteVars, sessionVars
  <2>3. Halved(d, side).side = side /\ Halved(d, side).half = <<d, side>>
    BY DEF Halved
  <2>4. ASSUME NEW i \in DOMAIN frames'[v], v \notin crossed'
        PROVE  frames'[v][i].half = <<bitfile'[v], frames'[v][i].side>>
    <3>1. CASE i \in DOMAIN frames[v]
      BY <2>1, <2>2, <2>4, <3>1 DEF FramesOwn
    <3>2. CASE i \notin DOMAIN frames[v]
      <4>1. frames'[v][i] = Halved(d, side)
        BY <2>1, <2>4, <3>2
      <4> QED
        BY <2>1, <2>2, <2>3, <2>4, <4>1
    <3> QED
      BY <3>1, <3>2
  <2> QED
    BY <2>2, <2>4
<1>4. CASE Parse(v)
  <2>1. InCall(v) /\ frames' = frames
    BY <1>4, StepFrame DEF Parse, ParserInv
  <2>2. call[v] = "serial" /\ call' = call /\ bitfile' = bitfile /\ crossed' = crossed
    BY <1>4, <2>1 DEF Parse, FramesOwn, remoteVars, sessionVars
  <2> QED
    BY <2>1, <2>2 DEF FramesOwn
<1> QED
  BY <1>1, <1>2, <1>3, <1>4, ParserOfStep

\* A call that nobody disturbs gives the filter a display of its own board's frames.
LEMMA SampleIsOwn ==
  ASSUME ProcessInv, [Next]_vars, NEW w \in Workers, Parse(w),
         w \notin disturbed \cup crossed, parsed'[w] \in LegalDisplays
  PROVE  parsed'[w] = << <<bitfile[w], "left">>, <<bitfile[w], "right">> >>
<1> USE ProcessAssumption DEF ProcessInv
<1>1. parsed'[w] \in Halves \X Halves /\ Len(parsed'[w]) = 2
  OBVIOUS
<1>2. frames' = frames /\ disturbed' = disturbed
  BY StepFrame DEF Parse, ParserInv
<1>3. DisplayOwn(w)'
  <2>1. ParserInv'
    BY StepOfParser, ParserNextKeepsInv
  <2> QED
    BY <1>2, <2>1 DEF ParserInv
<1>4. /\ parsed'[w][1] \in Shown(frames[w], frame'[w], "left")
      /\ parsed'[w][2] \in Shown(frames[w], frame'[w], "right")
  BY <1>1, <1>2, <1>3 DEF DisplayOwn, Shown
<1>5. parsed'[w][1] = <<bitfile[w], "left">> /\ parsed'[w][2] = <<bitfile[w], "right">>
  BY <1>4 DEF Shown, FramesOwn
<1> QED
  BY <1>1, <1>5

\* What a step does to the filters.
LEMMA FiltersOfStep ==
  ASSUME ProcessInv, [Next]_vars
  PROVE  \/ UNCHANGED <<held, suspect>>
         \/ \E w \in Workers :
              /\ Parse(w) /\ parsed'[w] \in LegalDisplays /\ call' = call /\ call[w] = "serial"
              /\ held' = [held EXCEPT ![w] = parsed'[w]]
              /\ suspect' = IF w \in disturbed THEN suspect \cup {w} ELSE suspect \ {w}
         \/ \E w \in Workers :
              /\ FinishAttempt(w)
              /\ held' = [held EXCEPT ![w] = NULL] /\ suspect' = suspect \ {w}
<1> USE ProcessAssumption DEF ProcessInv
<1>1. ASSUME NEW w \in Workers, Parse(w)
      PROVE  \/ UNCHANGED <<held, suspect>>
             \/ /\ parsed'[w] \in LegalDisplays /\ call' = call /\ call[w] = "serial"
                /\ held' = [held EXCEPT ![w] = parsed'[w]]
                /\ suspect' = IF w \in disturbed THEN suspect \cup {w} ELSE suspect \ {w}
  <2>1. call' = call /\ call[w] = "serial"
    BY <1>1, StepFrame DEF Parse, ParserInv, FramesOwn, remoteVars, sessionVars
  <2> QED
    BY <1>1, <2>1 DEF Parse, Sample
<1>2. ASSUME NEW w \in Workers, FinishAttempt(w)
      PROVE  held' = [held EXCEPT ![w] = NULL] /\ suspect' = suspect \ {w}
  BY <1>2 DEF FinishAttempt, NextFilter
<1>3. ASSUME NEW w \in Workers, ThreadStep(w), ~Parse(w), ~FinishAttempt(w)
      PROVE  UNCHANGED <<held, suspect>>
  BY <1>3 DEF ThreadStep, Work, Allocate, AllocateFails, UseHost, ReceiveFrame, ReadDisplay, readingVars
<1>4. CASE \/ MainThread \/ \E w \in Workers : HangForever(w)
           \/ \E s \in Servers : ServerUp(s)
           \/ UNCHANGED vars
  BY <1>4 DEF MainThread, HangForever, ServerUp, vars, readingVars
<1> QED
  BY <1>1, <1>2, <1>3, <1>4 DEF Next

LEMMA StepKeepsHeld ==
  ASSUME ProcessInv, [Next]_vars
  PROVE  HeldOwn'
<1> USE ProcessAssumption DEF ProcessInv
<1>1. held' \in [Workers -> LegalDisplays \cup {NULL}] /\ suspect' \subseteq Workers
  BY FiltersOfStep DEF HeldOwn
<1>2. ASSUME NEW v \in Workers, held'[v] # NULL
      PROVE  /\ call'[v] \in AfterReading \cup {"serial"}
             /\ v \notin suspect' \cup crossed' =>
                  held'[v] = << <<bitfile'[v], "left">>, <<bitfile'[v], "right">> >>
  <2>1. CASE /\ Parse(v) /\ held'[v] = parsed'[v] /\ parsed'[v] \in LegalDisplays
             /\ call' = call /\ call[v] = "serial"
             /\ suspect' = IF v \in disturbed THEN suspect \cup {v} ELSE suspect \ {v}
    <3>1. bitfile' = bitfile /\ crossed' = crossed
      BY <2>1 DEF Parse, remoteVars, sessionVars
    <3> QED
      BY <2>1, <3>1, SampleIsOwn
  <2>2. CASE held'[v] = held[v] /\ (v \in suspect <=> v \in suspect') /\ ~FinishAttempt(v)
    <3>1. call[v] \in AfterReading \cup {"serial"}
      BY <1>2, <2>2 DEF HeldOwn
    <3>2. /\ call'[v] \in AfterReading \cup {"serial"} /\ bitfile'[v] = bitfile[v]
          /\ v \in crossed => v \in crossed'
      BY <2>2, <3>1, CallsOfStep DEF AfterReading, Tries
    <3> QED
      BY <1>2, <2>2, <3>2 DEF HeldOwn
  <2>3. \/ /\ Parse(v) /\ held'[v] = parsed'[v] /\ parsed'[v] \in LegalDisplays
           /\ call' = call /\ call[v] = "serial"
           /\ suspect' = IF v \in disturbed THEN suspect \cup {v} ELSE suspect \ {v}
        \/ held'[v] = held[v] /\ (v \in suspect <=> v \in suspect') /\ ~FinishAttempt(v)
    <3>1. held \in [Workers -> LegalDisplays \cup {NULL}]
      BY DEF HeldOwn
    <3>2. FinishAttempt(v) => held'[v] = NULL
      BY <3>1 DEF FinishAttempt, NextFilter
    <3> QED
      BY <1>2, <3>1, <3>2, FiltersOfStep
  <2> QED
    BY <2>1, <2>2, <2>3
<1> QED
  BY <1>1, <1>2 DEF HeldOwn

LEMMA StepKeepsVerdicts ==
  ASSUME ProcessInv, [Next]_vars
  PROVE  VerdictsEarned'
<1> USE ProcessAssumption DEF ProcessInv
<1>1. verdict \in [Workers -> Outcomes] /\ held \in [Workers -> LegalDisplays \cup {NULL}]
  BY DEF VerdictsEarned, HeldOwn
<1>2. \/ UNCHANGED verdict
      \/ \E w \in Workers : ReadDisplay(w) /\ \E x \in Verdicts(w) : verdict' = [verdict EXCEPT ![w] = x]
      \/ \E w \in Workers : FinishAttempt(w) /\ verdict' = [verdict EXCEPT ![w] = "error"]
  <2>1. ASSUME NEW w \in Workers, ThreadStep(w), ~ReadDisplay(w), ~FinishAttempt(w)
        PROVE  UNCHANGED verdict
    BY <2>1 DEF ThreadStep, Work, Allocate, AllocateFails, UseHost, ReceiveFrame, Parse, readingVars
  <2>2. ASSUME NEW w \in Workers, ReadDisplay(w)
        PROVE  UNCHANGED verdict \/ \E x \in Verdicts(w) : verdict' = [verdict EXCEPT ![w] = x]
    BY <2>2 DEF ReadDisplay
  <2>3. ASSUME NEW w \in Workers, FinishAttempt(w)
        PROVE  verdict' = [verdict EXCEPT ![w] = "error"]
    BY <2>3 DEF FinishAttempt
  <2>4. CASE \/ MainThread \/ \E w \in Workers : HangForever(w)
             \/ \E s \in Servers : ServerUp(s)
             \/ UNCHANGED vars
    BY <2>4 DEF MainThread, HangForever, ServerUp, vars, readingVars
  <2> QED
    BY <2>1, <2>2, <2>3, <2>4 DEF Next
<1>3. verdict' \in [Workers -> Outcomes]
  <2>1. \A w \in Workers : Verdicts(w) \subseteq Outcomes
    BY DEF Verdicts, Outcomes
  <2> QED
    BY <1>1, <1>2, <2>1 DEF Outcomes
<1>4. ASSUME NEW v \in Workers, verdict'[v] \in {"passed", "unsaved"}
      PROVE  call'[v] \in AfterReading /\ held'[v] # NULL
  <2>0. ~FinishAttempt(v)
    BY <1>1, <1>4 DEF FinishAttempt
  <2>1. CASE ReadDisplay(v) /\ verdict'[v] \in Verdicts(v)
    <3>1. call'[v] = "stop_all" /\ held' = held
      BY <2>1 DEF ReadDisplay, EndSerial, Goto, HostInv, HostTypeOK
    <3>2. held[v] # NULL
      BY <1>4, <2>1 DEF Verdicts
    <3> QED
      BY <3>1, <3>2 DEF AfterReading
  <2>2. CASE verdict'[v] = verdict[v]
    <3>1. call[v] \in AfterReading /\ held[v] # NULL
      BY <1>4, <2>2 DEF VerdictsEarned
    <3>2. call'[v] \in AfterReading
      BY <2>0, <3>1, CallsOfStep DEF AfterReading, Tries
    <3>3. held'[v] = held[v]
      BY <1>1, <2>0, <3>1, FiltersOfStep DEF AfterReading
    <3> QED
      BY <3>1, <3>2, <3>3
  <2> QED
    BY <1>1, <1>2, <2>0, <2>1, <2>2
<1> QED
  BY <1>3, <1>4 DEF VerdictsEarned

LEMMA NextKeepsInv ==
  ASSUME ProcessInv, [Next]_vars
  PROVE  ProcessInv'
<1>1. DriversInv'
  BY StepOfDrivers, DriversNextKeepsInv DEF ProcessInv
<1>2. HostInv'
  BY StepOfHost, HostNextKeepsInv DEF ProcessInv
<1>3. ParserInv'
  BY StepOfParser, ParserNextKeepsInv DEF ProcessInv
<1> QED
  BY <1>1, <1>2, <1>3, StepKeepsSessions, StepKeepsUncrossed, StepKeepsFrames, StepKeepsHeld,
     StepKeepsVerdicts
     DEF ProcessInv

-----------------------------------------------------------------------------
(* The results.                                                            *)

\* However the threads interleave, the invariant of the composition holds.
THEOREM ProcessInvHolds == Spec => []ProcessInv
<1> QED
  BY ProcessInitInv, NextKeepsInv, PTL DEF Spec

\* With its threads, sessions and displays the process is still the drivers of cli.py ...
THEOREM ProcessImplementsDrivers == Spec => DriversSpec
<1>1. Init => DriversInit
  BY DEF Init
<1> QED
  BY <1>1, StepOfDrivers, ProcessInvHolds, PTL DEF Spec, DriversSpec

\* ... its sessions use the host as RemoteHost lets them, whoever shares a board ...
THEOREM ProcessImplementsHost == Spec => HostSpec
<1>1. Init => HostInit
  BY DEF Init
<1> QED
  BY <1>1, StepOfHost, ProcessInvHolds, PTL DEF Spec, HostSpec

\* ... and its threads call the parser as DisplayParser lets them.
THEOREM ProcessImplementsParser == Spec => ParserSpec
<1>1. Init => ParserInit
  BY DEF Init
<1> QED
  BY <1>1, StepOfParser, ProcessInvHolds, PTL DEF Spec, ParserSpec

\* Every variable of the process keeps to its type.
THEOREM ProcessTyped == Spec => []TypeOK
<1>1. ProcessInv => TypeOK
  BY DEF ProcessInv, DriversInv, HostInv, ParserInv, HeldOwn, VerdictsEarned, TypeOK
<1> QED
  BY <1>1, ProcessInvHolds, PTL

\* A command's threads never work on one board at the same time, with --fpga or without,
\* unless it is a batch that is forced and names no board.
THEOREM ThreadsApart == Spec => []OneThreadPerBoard
<1>1. ProcessInv => OneThreadPerBoard
  BY ProcessAssumption DEF ProcessInv, Uncrossed, HostInv, BoardsApart, Active, OneThreadPerBoard
<1> QED
  BY <1>1, ProcessInvHolds, PTL

\* A pass is the bitfile's own: the display that the filter had in the end is, whenever
\* it was parsed, if no other thread parsed during that call and nobody was given the
\* board meanwhile.
THEOREM PassIsOwn == Spec => []PassedOnOwnBitfile
<1>1. ASSUME ProcessInv, NEW w \in Workers \ (suspect \cup crossed),
             verdict[w] \in {"passed", "unsaved"}, call[w] \in {"stop_all", "closed"}
      PROVE  held[w] = OwnDisplay(w)
  <2>1. held[w] = << <<bitfile[w], "left">>, <<bitfile[w], "right">> >>
    BY <1>1 DEF ProcessInv, VerdictsEarned, HeldOwn
  <2>2. bitfile[w] = BitfileOf(w)
    BY <1>1 DEF ProcessInv, SessionsOfRuns, Active
  <2> QED
    BY <2>1, <2>2 DEF OwnDisplay
<1>2. ProcessInv => PassedOnOwnBitfile
  BY <1>1 DEF PassedOnOwnBitfile
<1> QED
  BY <1>2, ProcessInvHolds, PTL
=============================================================================
