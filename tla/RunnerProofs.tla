---------------------------- MODULE RunnerProofs ----------------------------
(***************************************************************************)
(* Proofs about Runner, for any number of clients and boards, any command  *)
(* lines and any bounds that RunnerAssumption admits.                      *)
(***************************************************************************)
EXTENDS Runner, TLAPS

-----------------------------------------------------------------------------
(* Every step does to the table what one of the statements does.           *)

LEMMA AgedInRange ==
  ASSUME NEW age \in Age \cup {NULL}
  PROVE  Aged(age) \in Age \cup {NULL}
BY BoardTableAssumption DEF Aged, Age

\* The statements keep the two columns to their values.
LEMMA TableStatementsTyped ==
  ASSUME TableTypeOK,
         \/ \E b : ClaimRow(b) \/ TouchRow(b) \/ FreeRow(b)
         \/ ResetRows
         \/ AgeRows /\ UNCHANGED status
         \/ UNCHANGED tableVars
  PROVE  TableTypeOK'
<1>0. Stamp \in Age \cup {NULL}
  BY BoardTableAssumption DEF Stamp, Age
<1>1. CASE \E b : ClaimRow(b) \/ TouchRow(b) \/ FreeRow(b)
  BY <1>0, <1>1 DEF TableTypeOK, ClaimRow, TouchRow, FreeRow, Status
<1>2. CASE ResetRows
  BY <1>2 DEF TableTypeOK, ResetRows, Status
<1>3. CASE AgeRows /\ UNCHANGED status
  BY <1>3, AgedInRange DEF TableTypeOK, AgeRows
<1>4. CASE UNCHANGED tableVars
  BY <1>4 DEF TableTypeOK, tableVars
<1> QED
  BY <1>1, <1>2, <1>3, <1>4

-----------------------------------------------------------------------------
(* Type correctness.                                                       *)

\* No step changes the table in any other way.
LEMMA TableStep ==
  ASSUME [Next]_vars
  PROVE  \/ \E b : ClaimRow(b) \/ TouchRow(b) \/ FreeRow(b)
         \/ ResetRows
         \/ AgeRows /\ UNCHANGED status
         \/ UNCHANGED tableVars
<1>1. ASSUME NEW c \in Clients, StartRun(c) \/ Allocate(c) \/ Crash(c)
      PROVE  UNCHANGED tableVars \/ ClaimRow(board[c])
  BY <1>1 DEF StartRun, Allocate, MissingBitfile, SelectBoard, SelectNothing, ClaimBoard,
              LoseRace, LoseLastRace, ClaimFails, Crash, EndCommand
<1>2. ASSUME NEW c \in Clients, UseBoard(c)
      PROVE  UNCHANGED tableVars \/ TouchRow(board[c]) \/ ClaimRow(board[c])
  BY <1>2 DEF UseBoard, StartHeartbeat, StartHeartbeatFails, MarkInUse, MarkInUseFails,
              StartServers, StartServersFails, ProgramBitstream, ProgramBitstreamFails,
              ReadSerial, JudgeFailed, ReadSerialFails, SaveResult, SaveResultFails,
              GiveUpAttempt, tableVars
<1>3. ASSUME NEW c \in Clients, CleanUp(c)
      PROVE  UNCHANGED tableVars \/ FreeRow(board[c]) \/ FreeRow(fpga_name[c])
  BY <1>3 DEF CleanUp, StopPorts, Release, ReleaseFails, StopHeartbeat, JoinHeartbeat,
              Finish, Retry, RetryKept, RetryRelease, tableVars
<1>4. ASSUME NEW c \in Clients, BeatStep(c)
      PROVE  UNCHANGED tableVars \/ TouchRow(board[c])
  BY <1>4 DEF BeatStep, BeginBeat, EndBeat, FailBeat
<1>5. ASSUME NEW b \in Boards, LateBeat(b) \/ AdminRelease(b)
      PROVE  TouchRow(b) \/ FreeRow(b)
  BY <1>5 DEF LateBeat, AdminRelease
<1>6. ASSUME AdminReset \/ Tick
      PROVE  ResetRows \/ (AgeRows /\ UNCHANGED status)
  BY <1>6 DEF AdminReset, Tick
<1>7. UNCHANGED vars => UNCHANGED tableVars
  BY DEF vars
<1> QED
  BY <1>1, <1>2, <1>3, <1>4, <1>5, <1>6, <1>7 DEF Next, ClientStep

\* How the phases agree with what a client remembers: the invariant that type
\* correctness rests on.
ThreadWithinRun ==
  \A c \in Clients :
    thread[c] # "off" => pc[c] \in (UsePhases \ {"heartbeat"}) \cup {"stop_heartbeat", "join"}

BoardNamed ==
  \A c \in Clients : pc[c] \in UsePhases \cup {"claim", "stop_heartbeat", "join"} => board[c] # NULL

RetryAllowed ==
  \A c \in Clients : pc[c] = "retry_release" => MayRetry(c)

Flow == ThreadWithinRun /\ BoardNamed /\ RetryAllowed

LEMMA TypeInitially == Init => TypeOK /\ Flow
BY RunnerAssumption, BoardTableAssumption
   DEF Init, TypeOK, TableInit, TableTypeOK, Status, Phases, Flow, ThreadWithinRun,
       BoardNamed, RetryAllowed, UsePhases

LEMMA TypeInductive ==
  ASSUME TypeOK, Flow, [Next]_vars
  PROVE  TypeOK'
<1> USE RunnerAssumption DEF TypeOK, Phases, UsePhases, KeptPhases, Flow, ThreadWithinRun,
                             BoardNamed, RetryAllowed
<1>0. TableTypeOK'
  BY TableStep, TableStatementsTyped
<1>1. ASSUME NEW c \in Clients, StartRun(c) PROVE TypeOK'
  BY <1>0, <1>1 DEF StartRun, Goto, localVars, threadVars, remoteVars
<1>2. ASSUME NEW c \in Clients, MissingBitfile(c) PROVE TypeOK'
  BY <1>0, <1>2 DEF MissingBitfile, Goto, Raise, threadVars, remoteVars
<1>3. ASSUME NEW c \in Clients, SelectBoard(c) PROVE TypeOK'
  BY <1>0, <1>3 DEF SelectBoard, Goto, SelectedRows, Eligible, threadVars, remoteVars
<1>4. ASSUME NEW c \in Clients, SelectNothing(c) PROVE TypeOK'
  BY <1>0, <1>4 DEF SelectNothing, NoBoard, Goto, Raise, threadVars, remoteVars
<1>5. ASSUME NEW c \in Clients, ClaimBoard(c) PROVE TypeOK'
  BY <1>0, <1>5 DEF ClaimBoard, Goto, localVars, remoteVars
<1>6. ASSUME NEW c \in Clients, LoseRace(c) PROVE TypeOK'
  BY <1>0, <1>6 DEF LoseRace, Goto, threadVars, remoteVars
<1>7. ASSUME NEW c \in Clients, LoseLastRace(c) PROVE TypeOK'
  BY <1>0, <1>7 DEF LoseLastRace, NoBoard, Goto, Raise, threadVars, remoteVars
<1>8. ASSUME NEW c \in Clients, ClaimFails(c) PROVE TypeOK'
  BY <1>0, <1>8 DEF ClaimFails, NoBoard, Goto, Raise, threadVars, remoteVars
<1>9. ASSUME NEW c \in Clients, StartHeartbeat(c) PROVE TypeOK'
  BY <1>0, <1>9 DEF StartHeartbeat, Goto, remoteVars
<1>10. ASSUME NEW c \in Clients, StartHeartbeatFails(c) PROVE TypeOK'
  BY <1>0, <1>10 DEF StartHeartbeatFails, GiveUpAttempt, Goto, Raise, threadVars, remoteVars
<1>11. ASSUME NEW c \in Clients, MarkInUse(c) PROVE TypeOK'
  BY <1>0, <1>11 DEF MarkInUse, LocalsKept, localVars, Goto, threadVars, remoteVars
<1>12. ASSUME NEW c \in Clients, MarkInUseFails(c) PROVE TypeOK'
  BY <1>0, <1>12 DEF MarkInUseFails, GiveUpAttempt, Goto, Raise, threadVars, remoteVars
<1>13. ASSUME NEW c \in Clients, StartServers(c) PROVE TypeOK'
  BY <1>0, <1>13 DEF StartServers, LocalsKept, localVars, Goto, threadVars
<1>14. ASSUME NEW c \in Clients, StartServersFails(c) PROVE TypeOK'
  BY <1>0, <1>14 DEF StartServersFails, GiveUpAttempt, Goto, Raise, threadVars
<1>15. ASSUME NEW c \in Clients, ProgramBitstream(c) PROVE TypeOK'
  BY <1>0, <1>15 DEF ProgramBitstream, LocalsKept, localVars, Goto, threadVars
<1>16. ASSUME NEW c \in Clients, ProgramBitstreamFails(c) PROVE TypeOK'
  BY <1>0, <1>16 DEF ProgramBitstreamFails, GiveUpAttempt, Goto, Raise, threadVars
<1>17. ASSUME NEW c \in Clients, ReadSerial(c) PROVE TypeOK'
  BY <1>0, <1>17 DEF ReadSerial, Goto, threadVars, remoteVars
<1>18. ASSUME NEW c \in Clients, JudgeFailed(c) PROVE TypeOK'
  BY <1>0, <1>18 DEF JudgeFailed, Goto, threadVars, remoteVars
<1>19. ASSUME NEW c \in Clients, ReadSerialFails(c) PROVE TypeOK'
  BY <1>0, <1>19 DEF ReadSerialFails, GiveUpAttempt, Goto, Raise, threadVars, remoteVars
<1>20. ASSUME NEW c \in Clients, SaveResult(c) PROVE TypeOK'
  BY <1>0, <1>20 DEF SaveResult, Goto, threadVars, remoteVars
<1>21. ASSUME NEW c \in Clients, SaveResultFails(c) PROVE TypeOK'
  BY <1>0, <1>21 DEF SaveResultFails, Goto, Raise, threadVars, remoteVars
<1>22. ASSUME NEW c \in Clients, StopPorts(c) PROVE TypeOK'
  BY <1>0, <1>22 DEF StopPorts, LocalsKept, localVars, Goto, threadVars
<1>23. ASSUME NEW c \in Clients, Release(c) PROVE TypeOK'
  BY <1>0, <1>23 DEF Release, LocalsKept, localVars, Goto, threadVars, remoteVars
<1>24. ASSUME NEW c \in Clients, ReleaseFails(c) PROVE TypeOK'
  BY <1>0, <1>24 DEF ReleaseFails, Goto, Raise, threadVars, remoteVars
<1>25. ASSUME NEW c \in Clients, StopHeartbeat(c) PROVE TypeOK'
  BY <1>0, <1>25 DEF StopHeartbeat, LocalsKept, localVars, Goto, remoteVars
<1>26. ASSUME NEW c \in Clients, JoinHeartbeat(c) PROVE TypeOK'
  BY <1>0, <1>26 DEF JoinHeartbeat, LocalsKept, localVars, Goto, remoteVars
<1>27. ASSUME NEW c \in Clients, Finish(c) PROVE TypeOK'
  BY <1>0, <1>27 DEF Finish, EndCommand, Goto
<1>28. ASSUME NEW c \in Clients, Retry(c) PROVE TypeOK'
  BY <1>0, <1>28 DEF Retry, NextAttempt, MayRetry, Goto, remoteVars
<1>29. ASSUME NEW c \in Clients, RetryKept(c) PROVE TypeOK'
  BY <1>0, <1>29 DEF RetryKept, LocalsKept, localVars, Goto, MayRetry, threadVars, remoteVars
<1>30. ASSUME NEW c \in Clients, RetryRelease(c) PROVE TypeOK'
  BY <1>0, <1>30 DEF RetryRelease, NextAttempt, Goto, MayRetry, remoteVars
<1>31. ASSUME NEW c \in Clients, BeginBeat(c) PROVE TypeOK'
  BY <1>0, <1>31 DEF BeginBeat, LocalsKept, localVars, remoteVars
<1>32. ASSUME NEW c \in Clients, EndBeat(c) PROVE TypeOK'
  BY <1>0, <1>32 DEF EndBeat, LocalsKept, localVars, Beating, remoteVars
<1>33. ASSUME NEW c \in Clients, FailBeat(c) PROVE TypeOK'
  BY <1>0, <1>33 DEF FailBeat, LocalsKept, localVars, Beating, remoteVars
<1>34. ASSUME NEW c \in Clients, Crash(c) PROVE TypeOK'
  BY <1>0, <1>34 DEF Crash, EndCommand, Goto, Beating
<1>35. ASSUME NEW b \in Boards, LateBeat(b) \/ AdminRelease(b) PROVE TypeOK'
  BY <1>0, <1>35 DEF LateBeat, AdminRelease, LocalsKept, localVars, threadVars, remoteVars
<1>36. ASSUME AdminReset PROVE TypeOK'
  BY <1>0, <1>36 DEF AdminReset, LocalsKept, localVars, threadVars, remoteVars
<1>37. ASSUME Tick PROVE TypeOK'
  BY <1>0, <1>37 DEF Tick, LocalsKept, localVars, remoteVars
<1>38. ASSUME UNCHANGED vars PROVE TypeOK'
  BY <1>0, <1>38 DEF vars, localVars, threadVars, remoteVars
<1> QED
  BY <1>1, <1>2, <1>3, <1>4, <1>5, <1>6, <1>7, <1>8, <1>9, <1>10, <1>11, <1>12, <1>13, <1>14, <1>15, <1>16, <1>17, <1>18, <1>19, <1>20, <1>21, <1>22, <1>23, <1>24, <1>25, <1>26, <1>27, <1>28, <1>29, <1>30, <1>31, <1>32, <1>33, <1>34, <1>35, <1>36, <1>37, <1>38
     DEF Next, ClientStep, Allocate, UseBoard, CleanUp, BeatStep

LEMMA FlowInductive ==
  ASSUME TypeOK, Flow, [Next]_vars
  PROVE  Flow'
<1> USE RunnerAssumption, BoardTableAssumption
    DEF TypeOK, UsePhases, KeptPhases, Flow, ThreadWithinRun, BoardNamed, RetryAllowed, MayRetry
<1>1. ASSUME NEW c \in Clients, StartRun(c) PROVE Flow'
  BY <1>1 DEF StartRun, Goto, localVars, threadVars, remoteVars
<1>2. ASSUME NEW c \in Clients, MissingBitfile(c) PROVE Flow'
  BY <1>2 DEF MissingBitfile, Goto, Raise, threadVars, remoteVars
<1>3. ASSUME NEW c \in Clients, SelectBoard(c) PROVE Flow'
  BY <1>3 DEF SelectBoard, Goto, SelectedRows, Eligible, threadVars, remoteVars
<1>4. ASSUME NEW c \in Clients, SelectNothing(c) PROVE Flow'
  BY <1>4 DEF SelectNothing, NoBoard, Goto, Raise, threadVars, remoteVars
<1>5. ASSUME NEW c \in Clients, ClaimBoard(c) PROVE Flow'
  BY <1>5 DEF ClaimBoard, Goto, localVars, remoteVars
<1>6. ASSUME NEW c \in Clients, LoseRace(c) PROVE Flow'
  BY <1>6 DEF LoseRace, Goto, threadVars, remoteVars
<1>7. ASSUME NEW c \in Clients, LoseLastRace(c) PROVE Flow'
  BY <1>7 DEF LoseLastRace, NoBoard, Goto, Raise, threadVars, remoteVars
<1>8. ASSUME NEW c \in Clients, ClaimFails(c) PROVE Flow'
  BY <1>8 DEF ClaimFails, NoBoard, Goto, Raise, threadVars, remoteVars
<1>9. ASSUME NEW c \in Clients, StartHeartbeat(c) PROVE Flow'
  BY <1>9 DEF StartHeartbeat, Goto, remoteVars
<1>10. ASSUME NEW c \in Clients, StartHeartbeatFails(c) PROVE Flow'
  BY <1>10 DEF StartHeartbeatFails, GiveUpAttempt, Goto, Raise, threadVars, remoteVars
<1>11. ASSUME NEW c \in Clients, MarkInUse(c) PROVE Flow'
  BY <1>11 DEF MarkInUse, LocalsKept, localVars, Goto, threadVars, remoteVars
<1>12. ASSUME NEW c \in Clients, MarkInUseFails(c) PROVE Flow'
  BY <1>12 DEF MarkInUseFails, GiveUpAttempt, Goto, Raise, threadVars, remoteVars
<1>13. ASSUME NEW c \in Clients, StartServers(c) PROVE Flow'
  BY <1>13 DEF StartServers, LocalsKept, localVars, Goto, threadVars
<1>14. ASSUME NEW c \in Clients, StartServersFails(c) PROVE Flow'
  BY <1>14 DEF StartServersFails, GiveUpAttempt, Goto, Raise, threadVars
<1>15. ASSUME NEW c \in Clients, ProgramBitstream(c) PROVE Flow'
  BY <1>15 DEF ProgramBitstream, LocalsKept, localVars, Goto, threadVars
<1>16. ASSUME NEW c \in Clients, ProgramBitstreamFails(c) PROVE Flow'
  BY <1>16 DEF ProgramBitstreamFails, GiveUpAttempt, Goto, Raise, threadVars
<1>17. ASSUME NEW c \in Clients, ReadSerial(c) PROVE Flow'
  BY <1>17 DEF ReadSerial, Goto, threadVars, remoteVars
<1>18. ASSUME NEW c \in Clients, JudgeFailed(c) PROVE Flow'
  BY <1>18 DEF JudgeFailed, Goto, threadVars, remoteVars
<1>19. ASSUME NEW c \in Clients, ReadSerialFails(c) PROVE Flow'
  BY <1>19 DEF ReadSerialFails, GiveUpAttempt, Goto, Raise, threadVars, remoteVars
<1>20. ASSUME NEW c \in Clients, SaveResult(c) PROVE Flow'
  BY <1>20 DEF SaveResult, Goto, threadVars, remoteVars
<1>21. ASSUME NEW c \in Clients, SaveResultFails(c) PROVE Flow'
  BY <1>21 DEF SaveResultFails, Goto, Raise, threadVars, remoteVars
<1>22. ASSUME NEW c \in Clients, StopPorts(c) PROVE Flow'
  BY <1>22 DEF StopPorts, LocalsKept, localVars, Goto, threadVars
<1>23. ASSUME NEW c \in Clients, Release(c) PROVE Flow'
  BY <1>23 DEF Release, LocalsKept, localVars, Goto, threadVars, remoteVars
<1>24. ASSUME NEW c \in Clients, ReleaseFails(c) PROVE Flow'
  BY <1>24 DEF ReleaseFails, Goto, Raise, threadVars, remoteVars
<1>25. ASSUME NEW c \in Clients, StopHeartbeat(c) PROVE Flow'
  BY <1>25 DEF StopHeartbeat, LocalsKept, localVars, Goto, remoteVars
<1>26. ASSUME NEW c \in Clients, JoinHeartbeat(c) PROVE Flow'
  BY <1>26 DEF JoinHeartbeat, LocalsKept, localVars, Goto, remoteVars
<1>27. ASSUME NEW c \in Clients, Finish(c) PROVE Flow'
  BY <1>27 DEF Finish, EndCommand, Goto
<1>28. ASSUME NEW c \in Clients, Retry(c) PROVE Flow'
  BY <1>28 DEF Retry, NextAttempt, MayRetry, Goto, remoteVars
<1>29. ASSUME NEW c \in Clients, RetryKept(c) PROVE Flow'
  BY <1>29 DEF RetryKept, LocalsKept, localVars, Goto, MayRetry, threadVars, remoteVars
<1>30. ASSUME NEW c \in Clients, RetryRelease(c) PROVE Flow'
  BY <1>30 DEF RetryRelease, NextAttempt, Goto, MayRetry, remoteVars
<1>31. ASSUME NEW c \in Clients, BeginBeat(c) PROVE Flow'
  BY <1>31 DEF BeginBeat, LocalsKept, localVars, remoteVars
<1>32. ASSUME NEW c \in Clients, EndBeat(c) PROVE Flow'
  BY <1>32 DEF EndBeat, LocalsKept, localVars, Beating, remoteVars
<1>33. ASSUME NEW c \in Clients, FailBeat(c) PROVE Flow'
  BY <1>33 DEF FailBeat, LocalsKept, localVars, Beating, remoteVars
<1>34. ASSUME NEW c \in Clients, Crash(c) PROVE Flow'
  BY <1>34 DEF Crash, EndCommand, Goto, Beating
<1>35. ASSUME NEW b \in Boards, LateBeat(b) \/ AdminRelease(b) PROVE Flow'
  BY <1>35 DEF LateBeat, AdminRelease, LocalsKept, localVars, threadVars, remoteVars
<1>36. ASSUME AdminReset PROVE Flow'
  BY <1>36 DEF AdminReset, LocalsKept, localVars, threadVars, remoteVars
<1>37. ASSUME Tick PROVE Flow'
  BY <1>37 DEF Tick, LocalsKept, localVars, remoteVars
<1>38. ASSUME UNCHANGED vars PROVE Flow'
  BY <1>38 DEF vars, localVars, threadVars, remoteVars
<1> QED
  BY <1>1, <1>2, <1>3, <1>4, <1>5, <1>6, <1>7, <1>8, <1>9, <1>10, <1>11, <1>12, <1>13, <1>14, <1>15, <1>16, <1>17, <1>18, <1>19, <1>20, <1>21, <1>22, <1>23, <1>24, <1>25, <1>26, <1>27, <1>28, <1>29, <1>30, <1>31, <1>32, <1>33, <1>34, <1>35, <1>36, <1>37, <1>38
     DEF Next, ClientStep, Allocate, UseBoard, CleanUp, BeatStep

\* Every variable keeps to its values in every reachable state, in every mode.
THEOREM TypeCorrect == Spec => []TypeOK
<1>1. TypeOK /\ Flow /\ [Next]_vars => (TypeOK /\ Flow)'
  BY TypeInductive, FlowInductive
<1> QED
  BY TypeInitially, <1>1, PTL DEF Spec


-----------------------------------------------------------------------------
(* A board in use has a heartbeat.                                         *)

LEMMA TableStatementsStamp ==
  ASSUME TableTypeOK, InUseStamped,
         \/ \E b : ClaimRow(b) \/ TouchRow(b) \/ FreeRow(b)
         \/ ResetRows
         \/ AgeRows /\ UNCHANGED status
         \/ UNCHANGED tableVars
  PROVE  InUseStamped'
<1> USE BoardTableAssumption DEF TableTypeOK, InUseStamped, Status
<1>1. CASE \E b : ClaimRow(b) \/ TouchRow(b) \/ FreeRow(b)
  BY <1>1 DEF ClaimRow, TouchRow, FreeRow, Stamp
<1>2. CASE ResetRows
  BY <1>2 DEF ResetRows
<1>3. CASE AgeRows /\ UNCHANGED status
  BY <1>3 DEF AgeRows, Aged, Age
<1>4. CASE UNCHANGED tableVars
  BY <1>4 DEF tableVars
<1> QED
  BY <1>1, <1>2, <1>3, <1>4

\* In every mode, with every fault and whatever the administrator does, a board
\* in use has a heartbeat, so that it can grow stale and be claimed again.
THEOREM InUseIsStamped == Spec => []InUseStamped
<1>1. Init => InUseStamped
  BY DEF Init, TableInit, InUseStamped
<1>2. TypeOK /\ InUseStamped /\ [Next]_vars => InUseStamped'
  BY TableStep, TableStatementsStamp DEF TypeOK
<1> QED
  BY <1>1, <1>2, TypeCorrect, PTL DEF Spec

-----------------------------------------------------------------------------
(* Exclusive use.                                                          *)

\* When clients respect each other: nobody forces a claim or frees the boards of
\* others, and heartbeats, where the table has a column for them, are enabled
\* and do not fail.
Cooperative ==
  /\ \A o \in Options : ~o.force
  /\ Faults \cap {"first_beat", "beat"} = {}
  /\ ~Admin
  /\ HeartbeatColumn => HeartbeatEnabled

\* The heartbeat thread runs for as long as the board is used.
ThreadBeats ==
  HeartbeatColumn =>
    \A c \in Clients :
      pc[c] \in (UsePhases \ {"heartbeat"}) \cup {"stop_heartbeat"}
        => thread[c] \in {"waiting", "beating"}

\* The result names no other board than the one allocated, and none before it is.
ResultNamesBoard ==
  \A c \in Clients :
    /\ fpga_name[c] \in {NULL, board[c]}
    /\ pc[c] \in {"idle", "select", "claim", "heartbeat"} => fpga_name[c] = NULL
    /\ pc[c] = "retry_release" => Keeps(c)

\* The heartbeat of a board that is held is no older than its holder knows.
HeldIsFresh ==
  HeartbeatColumn =>
    \A c \in Clients :
      Holds(c) => heartbeat_age[board[c]] # NULL /\ heartbeat_age[board[c]] <= elapsed[c]

Bookkeeping == ThreadBeats /\ ResultNamesBoard
Tenure      == HeldIsFresh /\ HeldIsInUse /\ Exclusive

LEMMA BookkeepingInductive ==
  ASSUME Cooperative, TypeOK, Flow, Bookkeeping, [Next]_vars
  PROVE  Bookkeeping'
<1> USE RunnerAssumption, BoardTableAssumption
    DEF Cooperative, TypeOK, UsePhases, KeptPhases, Flow, ThreadWithinRun, BoardNamed,
        Bookkeeping, ThreadBeats, ResultNamesBoard, Keeps
<1>1. ASSUME NEW c \in Clients, StartRun(c) PROVE Bookkeeping'
  BY <1>1 DEF StartRun, Goto, localVars, threadVars, remoteVars
<1>2. ASSUME NEW c \in Clients, MissingBitfile(c) PROVE Bookkeeping'
  BY <1>2 DEF MissingBitfile, Goto, Raise, threadVars, remoteVars
<1>3. ASSUME NEW c \in Clients, SelectBoard(c) PROVE Bookkeeping'
  BY <1>3 DEF SelectBoard, Goto, SelectedRows, Eligible, threadVars, remoteVars
<1>4. ASSUME NEW c \in Clients, SelectNothing(c) PROVE Bookkeeping'
  BY <1>4 DEF SelectNothing, NoBoard, Goto, Raise, threadVars, remoteVars
<1>5. ASSUME NEW c \in Clients, ClaimBoard(c) PROVE Bookkeeping'
  BY <1>5 DEF ClaimBoard, Goto, localVars, remoteVars
<1>6. ASSUME NEW c \in Clients, LoseRace(c) PROVE Bookkeeping'
  BY <1>6 DEF LoseRace, Goto, threadVars, remoteVars
<1>7. ASSUME NEW c \in Clients, LoseLastRace(c) PROVE Bookkeeping'
  BY <1>7 DEF LoseLastRace, NoBoard, Goto, Raise, threadVars, remoteVars
<1>8. ASSUME NEW c \in Clients, ClaimFails(c) PROVE Bookkeeping'
  BY <1>8 DEF ClaimFails, NoBoard, Goto, Raise, threadVars, remoteVars
<1>9. ASSUME NEW c \in Clients, StartHeartbeat(c) PROVE Bookkeeping'
  BY <1>9 DEF StartHeartbeat, Goto, remoteVars
<1>10. ASSUME NEW c \in Clients, StartHeartbeatFails(c) PROVE Bookkeeping'
  BY <1>10 DEF StartHeartbeatFails, GiveUpAttempt, Goto, Raise, threadVars, remoteVars
<1>11. ASSUME NEW c \in Clients, MarkInUse(c) PROVE Bookkeeping'
  BY <1>11 DEF MarkInUse, LocalsKept, localVars, Goto, threadVars, remoteVars
<1>12. ASSUME NEW c \in Clients, MarkInUseFails(c) PROVE Bookkeeping'
  BY <1>12 DEF MarkInUseFails, GiveUpAttempt, Goto, Raise, threadVars, remoteVars
<1>13. ASSUME NEW c \in Clients, StartServers(c) PROVE Bookkeeping'
  BY <1>13 DEF StartServers, LocalsKept, localVars, Goto, threadVars
<1>14. ASSUME NEW c \in Clients, StartServersFails(c) PROVE Bookkeeping'
  BY <1>14 DEF StartServersFails, GiveUpAttempt, Goto, Raise, threadVars
<1>15. ASSUME NEW c \in Clients, ProgramBitstream(c) PROVE Bookkeeping'
  BY <1>15 DEF ProgramBitstream, LocalsKept, localVars, Goto, threadVars
<1>16. ASSUME NEW c \in Clients, ProgramBitstreamFails(c) PROVE Bookkeeping'
  BY <1>16 DEF ProgramBitstreamFails, GiveUpAttempt, Goto, Raise, threadVars
<1>17. ASSUME NEW c \in Clients, ReadSerial(c) PROVE Bookkeeping'
  BY <1>17 DEF ReadSerial, Goto, threadVars, remoteVars
<1>18. ASSUME NEW c \in Clients, JudgeFailed(c) PROVE Bookkeeping'
  BY <1>18 DEF JudgeFailed, Goto, threadVars, remoteVars
<1>19. ASSUME NEW c \in Clients, ReadSerialFails(c) PROVE Bookkeeping'
  BY <1>19 DEF ReadSerialFails, GiveUpAttempt, Goto, Raise, threadVars, remoteVars
<1>20. ASSUME NEW c \in Clients, SaveResult(c) PROVE Bookkeeping'
  BY <1>20 DEF SaveResult, Goto, threadVars, remoteVars
<1>21. ASSUME NEW c \in Clients, SaveResultFails(c) PROVE Bookkeeping'
  BY <1>21 DEF SaveResultFails, Goto, Raise, threadVars, remoteVars
<1>22. ASSUME NEW c \in Clients, StopPorts(c) PROVE Bookkeeping'
  BY <1>22 DEF StopPorts, LocalsKept, localVars, Goto, threadVars
<1>23. ASSUME NEW c \in Clients, Release(c) PROVE Bookkeeping'
  BY <1>23 DEF Release, LocalsKept, localVars, Goto, threadVars, remoteVars
<1>24. ASSUME NEW c \in Clients, ReleaseFails(c) PROVE Bookkeeping'
  BY <1>24 DEF ReleaseFails, Goto, Raise, threadVars, remoteVars
<1>25. ASSUME NEW c \in Clients, StopHeartbeat(c) PROVE Bookkeeping'
  BY <1>25 DEF StopHeartbeat, LocalsKept, localVars, Goto, remoteVars
<1>26. ASSUME NEW c \in Clients, JoinHeartbeat(c) PROVE Bookkeeping'
  BY <1>26 DEF JoinHeartbeat, LocalsKept, localVars, Goto, remoteVars
<1>27. ASSUME NEW c \in Clients, Finish(c) PROVE Bookkeeping'
  BY <1>27 DEF Finish, EndCommand, Goto
<1>28. ASSUME NEW c \in Clients, Retry(c) PROVE Bookkeeping'
  BY <1>28 DEF Retry, NextAttempt, MayRetry, Goto, remoteVars
<1>29. ASSUME NEW c \in Clients, RetryKept(c) PROVE Bookkeeping'
  BY <1>29 DEF RetryKept, LocalsKept, localVars, Goto, MayRetry, threadVars, remoteVars
<1>30. ASSUME NEW c \in Clients, RetryRelease(c) PROVE Bookkeeping'
  BY <1>30 DEF RetryRelease, NextAttempt, Goto, MayRetry, remoteVars
<1>31. ASSUME NEW c \in Clients, BeginBeat(c) PROVE Bookkeeping'
  BY <1>31 DEF BeginBeat, LocalsKept, localVars, remoteVars
<1>32. ASSUME NEW c \in Clients, EndBeat(c) PROVE Bookkeeping'
  BY <1>32 DEF EndBeat, LocalsKept, localVars, Beating, remoteVars
<1>33. ASSUME NEW c \in Clients, FailBeat(c) PROVE Bookkeeping'
  BY <1>33 DEF FailBeat, LocalsKept, localVars, Beating, remoteVars
<1>34. ASSUME NEW c \in Clients, Crash(c) PROVE Bookkeeping'
  BY <1>34 DEF Crash, EndCommand, Goto, Beating
<1>35. ASSUME NEW b \in Boards, LateBeat(b) \/ AdminRelease(b) PROVE Bookkeeping'
  BY <1>35 DEF LateBeat, AdminRelease, LocalsKept, localVars, threadVars, remoteVars
<1>36. ASSUME AdminReset PROVE Bookkeeping'
  BY <1>36 DEF AdminReset, LocalsKept, localVars, threadVars, remoteVars
<1>37. ASSUME Tick PROVE Bookkeeping'
  BY <1>37 DEF Tick, LocalsKept, localVars, remoteVars
<1>38. ASSUME UNCHANGED vars PROVE Bookkeeping'
  BY <1>38 DEF vars, localVars, threadVars, remoteVars
<1> QED
  BY <1>1, <1>2, <1>3, <1>4, <1>5, <1>6, <1>7, <1>8, <1>9, <1>10, <1>11, <1>12, <1>13, <1>14, <1>15, <1>16, <1>17, <1>18, <1>19, <1>20, <1>21, <1>22, <1>23, <1>24, <1>25, <1>26, <1>27, <1>28, <1>29, <1>30, <1>31, <1>32, <1>33, <1>34, <1>35, <1>36, <1>37, <1>38
     DEF Next, ClientStep, Allocate, UseBoard, CleanUp, BeatStep

LEMMA HeldIsNamed ==
  ASSUME TypeOK, Flow, Bookkeeping, NEW c \in Clients, Holds(c)
  PROVE  board[c] \in Boards
BY DEF TypeOK, Flow, BoardNamed, Bookkeeping, ResultNamesBoard, Holds, Uses, Keeps

\* Nobody holds a board that may be claimed: it would be in use, and its heartbeat
\* too young to be stale.
LEMMA HeldIsNotClaimable ==
  ASSUME TypeOK, Flow, InUseStamped, Bookkeeping, Tenure, NEW c \in Clients, Holds(c)
  PROVE  ~Claimable(board[c])
<1>1. board[c] \in Boards
  BY HeldIsNamed
<1>2. status[board[c]] # "available"
  BY DEF Tenure, HeldIsInUse
<1>3. ~Stale(board[c])
  <2>1. CASE HeartbeatColumn
    <3>1. heartbeat_age[board[c]] \in Age /\ heartbeat_age[board[c]] <= elapsed[c]
      BY <1>1, <2>1 DEF Tenure, HeldIsFresh, TypeOK, TableTypeOK
    <3>2. elapsed[c] \in 0 .. BEAT_BY
      BY DEF TypeOK
    <3> QED
      BY <3>1, <3>2, RunnerAssumption, BoardTableAssumption DEF Stale, Age
  <2>2. CASE ~HeartbeatColumn
    BY <1>1, <2>2 DEF InUseStamped, Stale
  <2> QED
    BY <2>1, <2>2
<1> QED
  BY <1>2, <1>3 DEF Claimable

\* No step of others takes a board from its holder.
LEMMA TenureInductive ==
  ASSUME Cooperative, TypeOK, TypeOK', Flow, InUseStamped, Bookkeeping, Tenure, [Next]_vars
  PROVE  Tenure'
<1> USE RunnerAssumption, BoardTableAssumption
    DEF Cooperative, TypeOK, TableTypeOK, Flow, ThreadWithinRun, BoardNamed, Bookkeeping, ThreadBeats, ResultNamesBoard,
        Tenure, HeldIsFresh, HeldIsInUse, Exclusive, Holds, Uses, Keeps, UsePhases, KeptPhases
<1>1. ASSUME NEW c \in Clients, StartRun(c) PROVE Tenure'
  BY <1>1 DEF StartRun, Goto, localVars, threadVars, remoteVars, tableVars, ClaimRow, TouchRow, FreeRow, AgeRows, Aged, Stamp
<1>2. ASSUME NEW c \in Clients, MissingBitfile(c) PROVE Tenure'
  BY <1>2 DEF MissingBitfile, Goto, Raise, threadVars, remoteVars, tableVars, ClaimRow, TouchRow, FreeRow, AgeRows, Aged, Stamp
<1>3. ASSUME NEW c \in Clients, SelectBoard(c) PROVE Tenure'
  BY <1>3 DEF SelectBoard, Goto, SelectedRows, Eligible, threadVars, remoteVars, tableVars, ClaimRow, TouchRow, FreeRow, AgeRows, Aged, Stamp
<1>4. ASSUME NEW c \in Clients, SelectNothing(c) PROVE Tenure'
  BY <1>4 DEF SelectNothing, NoBoard, Goto, Raise, threadVars, remoteVars, tableVars, ClaimRow, TouchRow, FreeRow, AgeRows, Aged, Stamp
<1>5. ASSUME NEW c \in Clients, ClaimBoard(c) PROVE Tenure'
  <2>1. board[c] \in Boards /\ Claimable(board[c])
    BY <1>5 DEF ClaimBoard
  <2>2. \A d \in Clients : Holds(d) => board[d] # board[c]
    BY <2>1, HeldIsNotClaimable
  <2>3. /\ ClaimRow(board[c])
        /\ pc' = [pc EXCEPT ![c] = "heartbeat"]
        /\ elapsed' = [elapsed EXCEPT ![c] = 0]
        /\ UNCHANGED <<board, opts, fpga_name>>
    BY <1>5 DEF ClaimBoard, Goto, localVars
  <2>4. Exclusive'
    BY <2>2, <2>3
  <2>5. HeldIsInUse'
    BY <2>1, <2>2, <2>3 DEF ClaimRow
  <2>6. HeldIsFresh'
    BY <2>1, <2>2, <2>3 DEF ClaimRow, Stamp
  <2> QED
    BY <2>4, <2>5, <2>6
<1>6. ASSUME NEW c \in Clients, LoseRace(c) PROVE Tenure'
  BY <1>6 DEF LoseRace, Goto, threadVars, remoteVars, tableVars, ClaimRow, TouchRow, FreeRow, AgeRows, Aged, Stamp
<1>7. ASSUME NEW c \in Clients, LoseLastRace(c) PROVE Tenure'
  BY <1>7 DEF LoseLastRace, NoBoard, Goto, Raise, threadVars, remoteVars, tableVars, ClaimRow, TouchRow, FreeRow, AgeRows, Aged, Stamp
<1>8. ASSUME NEW c \in Clients, ClaimFails(c) PROVE Tenure'
  <2>1. /\ pc' = [pc EXCEPT ![c] = "decide"] /\ board' = [board EXCEPT ![c] = NULL]
        /\ pc[c] = "claim" /\ UNCHANGED <<opts, fpga_name, elapsed>>
    BY <1>8 DEF ClaimFails, NoBoard, Goto, threadVars
  <2>2. ~Holds(c)' /\ \A d \in Clients \ {c} : (Holds(d)' <=> Holds(d)) /\ board'[d] = board[d]
    BY <2>1
  <2>3. CASE UNCHANGED tableVars
    BY <2>1, <2>2, <2>3 DEF tableVars
  <2>4. CASE Claimable(board[c]) /\ ClaimRow(board[c])
    <3>1. \A d \in Clients : Holds(d) => board[d] # board[c]
      BY <2>1, <2>4, HeldIsNotClaimable
    <3> QED
      BY <2>1, <2>2, <2>4, <3>1 DEF ClaimRow
  <2> QED
    BY <1>8, <2>3, <2>4 DEF ClaimFails
<1>9. ASSUME NEW c \in Clients, StartHeartbeat(c) PROVE Tenure'
  BY <1>9 DEF StartHeartbeat, Goto, remoteVars, tableVars, ClaimRow, TouchRow, FreeRow, AgeRows, Aged, Stamp
<1>10. ASSUME NEW c \in Clients, StartHeartbeatFails(c) PROVE Tenure'
  BY <1>10 DEF StartHeartbeatFails, GiveUpAttempt, Goto, Raise, threadVars, remoteVars, tableVars, ClaimRow, TouchRow, FreeRow, AgeRows, Aged, Stamp
<1>11. ASSUME NEW c \in Clients, MarkInUse(c) PROVE Tenure'
  BY <1>11 DEF MarkInUse, LocalsKept, localVars, Goto, threadVars, remoteVars, tableVars, ClaimRow, TouchRow, FreeRow, AgeRows, Aged, Stamp
<1>12. ASSUME NEW c \in Clients, MarkInUseFails(c) PROVE Tenure'
  BY <1>12 DEF MarkInUseFails, GiveUpAttempt, Goto, Raise, threadVars, remoteVars, tableVars, ClaimRow, TouchRow, FreeRow, AgeRows, Aged, Stamp
<1>13. ASSUME NEW c \in Clients, StartServers(c) PROVE Tenure'
  BY <1>13 DEF StartServers, LocalsKept, localVars, Goto, threadVars, tableVars, ClaimRow, TouchRow, FreeRow, AgeRows, Aged, Stamp
<1>14. ASSUME NEW c \in Clients, StartServersFails(c) PROVE Tenure'
  BY <1>14 DEF StartServersFails, GiveUpAttempt, Goto, Raise, threadVars, tableVars, ClaimRow, TouchRow, FreeRow, AgeRows, Aged, Stamp
<1>15. ASSUME NEW c \in Clients, ProgramBitstream(c) PROVE Tenure'
  BY <1>15 DEF ProgramBitstream, LocalsKept, localVars, Goto, threadVars, tableVars, ClaimRow, TouchRow, FreeRow, AgeRows, Aged, Stamp
<1>16. ASSUME NEW c \in Clients, ProgramBitstreamFails(c) PROVE Tenure'
  BY <1>16 DEF ProgramBitstreamFails, GiveUpAttempt, Goto, Raise, threadVars, tableVars, ClaimRow, TouchRow, FreeRow, AgeRows, Aged, Stamp
<1>17. ASSUME NEW c \in Clients, ReadSerial(c) PROVE Tenure'
  BY <1>17 DEF ReadSerial, Goto, threadVars, remoteVars, tableVars, ClaimRow, TouchRow, FreeRow, AgeRows, Aged, Stamp
<1>18. ASSUME NEW c \in Clients, JudgeFailed(c) PROVE Tenure'
  BY <1>18 DEF JudgeFailed, Goto, threadVars, remoteVars, tableVars, ClaimRow, TouchRow, FreeRow, AgeRows, Aged, Stamp
<1>19. ASSUME NEW c \in Clients, ReadSerialFails(c) PROVE Tenure'
  BY <1>19 DEF ReadSerialFails, GiveUpAttempt, Goto, Raise, threadVars, remoteVars, tableVars, ClaimRow, TouchRow, FreeRow, AgeRows, Aged, Stamp
<1>20. ASSUME NEW c \in Clients, SaveResult(c) PROVE Tenure'
  BY <1>20 DEF SaveResult, Goto, threadVars, remoteVars, tableVars, ClaimRow, TouchRow, FreeRow, AgeRows, Aged, Stamp
<1>21. ASSUME NEW c \in Clients, SaveResultFails(c) PROVE Tenure'
  BY <1>21 DEF SaveResultFails, Goto, Raise, threadVars, remoteVars, tableVars, ClaimRow, TouchRow, FreeRow, AgeRows, Aged, Stamp
<1>22. ASSUME NEW c \in Clients, StopPorts(c) PROVE Tenure'
  BY <1>22 DEF StopPorts, LocalsKept, localVars, Goto, threadVars, tableVars, ClaimRow, TouchRow, FreeRow, AgeRows, Aged, Stamp
<1>23. ASSUME NEW c \in Clients, Release(c) PROVE Tenure'
  BY <1>23 DEF Release, LocalsKept, localVars, Goto, threadVars, remoteVars, tableVars, ClaimRow, TouchRow, FreeRow, AgeRows, Aged, Stamp
<1>24. ASSUME NEW c \in Clients, ReleaseFails(c) PROVE Tenure'
  BY <1>24 DEF ReleaseFails, Goto, Raise, threadVars, remoteVars, tableVars, ClaimRow, TouchRow, FreeRow, AgeRows, Aged, Stamp
<1>25. ASSUME NEW c \in Clients, StopHeartbeat(c) PROVE Tenure'
  BY <1>25 DEF StopHeartbeat, LocalsKept, localVars, Goto, remoteVars, tableVars, ClaimRow, TouchRow, FreeRow, AgeRows, Aged, Stamp
<1>26. ASSUME NEW c \in Clients, JoinHeartbeat(c) PROVE Tenure'
  BY <1>26 DEF JoinHeartbeat, LocalsKept, localVars, Goto, remoteVars, tableVars, ClaimRow, TouchRow, FreeRow, AgeRows, Aged, Stamp
<1>27. ASSUME NEW c \in Clients, Finish(c) PROVE Tenure'
  BY <1>27 DEF Finish, EndCommand, Goto, tableVars, ClaimRow, TouchRow, FreeRow, AgeRows, Aged, Stamp
<1>28. ASSUME NEW c \in Clients, Retry(c) PROVE Tenure'
  BY <1>28 DEF Retry, NextAttempt, MayRetry, Goto, remoteVars, tableVars, ClaimRow, TouchRow, FreeRow, AgeRows, Aged, Stamp
<1>29. ASSUME NEW c \in Clients, RetryKept(c) PROVE Tenure'
  BY <1>29 DEF RetryKept, LocalsKept, localVars, Goto, MayRetry, threadVars, remoteVars, tableVars, ClaimRow, TouchRow, FreeRow, AgeRows, Aged, Stamp
<1>30. ASSUME NEW c \in Clients, RetryRelease(c) PROVE Tenure'
  BY <1>30 DEF RetryRelease, NextAttempt, Goto, MayRetry, remoteVars, tableVars, ClaimRow, TouchRow, FreeRow, AgeRows, Aged, Stamp
<1>31. ASSUME NEW c \in Clients, BeginBeat(c) PROVE Tenure'
  BY <1>31 DEF BeginBeat, LocalsKept, localVars, remoteVars, tableVars, ClaimRow, TouchRow, FreeRow, AgeRows, Aged, Stamp
<1>32. ASSUME NEW c \in Clients, EndBeat(c) PROVE Tenure'
  BY <1>32 DEF EndBeat, LocalsKept, localVars, Beating, remoteVars, tableVars, ClaimRow, TouchRow, FreeRow, AgeRows, Aged, Stamp
<1>33. ASSUME NEW c \in Clients, FailBeat(c) PROVE Tenure'
  BY <1>33 DEF FailBeat, LocalsKept, localVars, Beating, remoteVars, tableVars, ClaimRow, TouchRow, FreeRow, AgeRows, Aged, Stamp
<1>34. ASSUME NEW c \in Clients, Crash(c) PROVE Tenure'
  BY <1>34 DEF Crash, EndCommand, Goto, Beating, tableVars, ClaimRow, TouchRow, FreeRow, AgeRows, Aged, Stamp
<1>35. ASSUME NEW b \in Boards, LateBeat(b) \/ AdminRelease(b) PROVE Tenure'
  BY <1>35 DEF LateBeat, AdminRelease, LocalsKept, localVars, threadVars, remoteVars, tableVars, ClaimRow, TouchRow, FreeRow, AgeRows, Aged, Stamp
<1>36. ASSUME AdminReset PROVE Tenure'
  BY <1>36 DEF AdminReset, LocalsKept, localVars, threadVars, remoteVars, tableVars, ClaimRow, TouchRow, FreeRow, AgeRows, Aged, Stamp
<1>37. ASSUME Tick PROVE Tenure'
  <2>1. UNCHANGED <<status, pc, board, opts, fpga_name>>
    BY <1>37 DEF Tick, LocalsKept, localVars
  <2>2. Exclusive' /\ HeldIsInUse'
    BY <2>1
  <2>3. ASSUME HeartbeatColumn, NEW c \in Clients, Holds(c)
        PROVE  heartbeat_age'[board[c]] # NULL /\ heartbeat_age'[board[c]] <= elapsed'[c]
    <3>1. board[c] \in Boards
      BY <2>3, HeldIsNamed
    <3>2. OnDeadline(c)
      BY <2>3 DEF OnDeadline
    <3>3. elapsed'[c] = elapsed[c] + 1
      BY <1>37, <3>2 DEF Tick
    <3>4. heartbeat_age[board[c]] \in Age /\ heartbeat_age[board[c]] <= elapsed[c]
      BY <2>3, <3>1
    <3>5. heartbeat_age'[board[c]] \in {heartbeat_age[board[c]], heartbeat_age[board[c]] + 1}
      BY <1>37, <3>1, <3>4 DEF Tick, AgeRows, Aged
    <3> QED
      BY <3>3, <3>4, <3>5 DEF Age
  <2> QED
    BY <2>1, <2>2, <2>3
<1>38. ASSUME UNCHANGED vars PROVE Tenure'
  BY <1>38 DEF vars, localVars, threadVars, remoteVars, tableVars, ClaimRow, TouchRow, FreeRow, AgeRows, Aged, Stamp
<1> QED
  BY <1>1, <1>2, <1>3, <1>4, <1>5, <1>6, <1>7, <1>8, <1>9, <1>10, <1>11, <1>12, <1>13, <1>14, <1>15, <1>16, <1>17, <1>18, <1>19, <1>20, <1>21, <1>22, <1>23, <1>24, <1>25, <1>26, <1>27, <1>28, <1>29, <1>30, <1>31, <1>32, <1>33, <1>34, <1>35, <1>36, <1>37, <1>38
     DEF Next, ClientStep, Allocate, UseBoard, CleanUp, BeatStep

\* All that holds when clients respect each other.
CooperativeInv == TypeOK /\ Flow /\ InUseStamped /\ Bookkeeping /\ Tenure

LEMMA CooperativeInvariant == ASSUME Cooperative PROVE Spec => []CooperativeInv
<1>1. Init => CooperativeInv
  <2>1. Init => Bookkeeping /\ Tenure
    BY BoardTableAssumption
       DEF Init, Bookkeeping, ThreadBeats, ResultNamesBoard, Tenure, HeldIsFresh, HeldIsInUse,
           Exclusive, Holds, Uses, Keeps, UsePhases, KeptPhases
  <2>2. Init => InUseStamped
    BY DEF Init, TableInit, InUseStamped
  <2> QED
    BY <2>1, <2>2, TypeInitially DEF CooperativeInv
<1>2. CooperativeInv /\ [Next]_vars => CooperativeInv'
  <2> SUFFICES ASSUME CooperativeInv, [Next]_vars PROVE CooperativeInv'
    OBVIOUS
  <2>1. TypeOK' /\ Flow'
    BY TypeInductive, FlowInductive DEF CooperativeInv
  <2>2. InUseStamped'
    BY TableStep, TableStatementsStamp DEF CooperativeInv, TypeOK
  <2>3. Bookkeeping'
    BY BookkeepingInductive DEF CooperativeInv
  <2>4. Tenure'
    BY <2>1, TenureInductive DEF CooperativeInv
  <2> QED
    BY <2>1, <2>2, <2>3, <2>4 DEF CooperativeInv
<1> QED
  BY <1>1, <1>2, PTL DEF Spec

\* Two clients never hold the same board.
THEOREM BoardsAreExclusive == ASSUME Cooperative PROVE Spec => []Exclusive
<1>1. CooperativeInv => Exclusive
  BY DEF CooperativeInv, Tenure
<1> QED
  BY <1>1, CooperativeInvariant, PTL

\* A held board reads in_use: nobody's release frees it under its holder.
THEOREM HeldBoardsAreInUse == ASSUME Cooperative PROVE Spec => []HeldIsInUse
<1>1. CooperativeInv => HeldIsInUse
  BY DEF CooperativeInv, Tenure
<1> QED
  BY <1>1, CooperativeInvariant, PTL

-----------------------------------------------------------------------------
(* A run measures its own design.                                          *)

\* What a client did to its board is still so when it relies on it: the bridge is
\* up, the design is its own, and a success is what it read and saved.
OwnBoard ==
  \A c \in Clients :
    /\ pc[c] \in {"program", "serial"} => board[c] \in bridged
    /\ pc[c] = "serial" => installed[board[c]] = c
    /\ pc[c] = "save" => reading[c] = c
    /\ pc[c] \in {"stop_ports", "release", "stop_heartbeat", "join", "decide"} /\ error[c] = "none"
         => reading[c] = c /\ (opts[c].save => saved[c])

LEMMA OwnBoardInductive ==
  ASSUME CooperativeInv, OwnBoard, [Next]_vars
  PROVE  OwnBoard'
<1>0. /\ \A c \in Clients : pc[c] \in UsePhases => board[c] \in Boards
      /\ \A c, d \in Clients :
           c # d /\ pc[c] \in UsePhases /\ pc[d] \in UsePhases => board[c] # board[d]
  BY HeldIsNamed DEF CooperativeInv, Tenure, Exclusive, Holds, Uses
<1> USE <1>0, RunnerAssumption, BoardTableAssumption DEF CooperativeInv, TypeOK, OwnBoard, UsePhases
<1>1. ASSUME NEW c \in Clients, StartRun(c) PROVE OwnBoard'
  BY <1>1 DEF StartRun, Goto, localVars, threadVars, remoteVars
<1>2. ASSUME NEW c \in Clients, MissingBitfile(c) PROVE OwnBoard'
  BY <1>2 DEF MissingBitfile, Goto, Raise, threadVars, remoteVars
<1>3. ASSUME NEW c \in Clients, SelectBoard(c) PROVE OwnBoard'
  BY <1>3 DEF SelectBoard, Goto, SelectedRows, Eligible, threadVars, remoteVars
<1>4. ASSUME NEW c \in Clients, SelectNothing(c) PROVE OwnBoard'
  BY <1>4 DEF SelectNothing, NoBoard, Goto, Raise, threadVars, remoteVars
<1>5. ASSUME NEW c \in Clients, ClaimBoard(c) PROVE OwnBoard'
  BY <1>5 DEF ClaimBoard, Goto, localVars, remoteVars
<1>6. ASSUME NEW c \in Clients, LoseRace(c) PROVE OwnBoard'
  BY <1>6 DEF LoseRace, Goto, threadVars, remoteVars
<1>7. ASSUME NEW c \in Clients, LoseLastRace(c) PROVE OwnBoard'
  BY <1>7 DEF LoseLastRace, NoBoard, Goto, Raise, threadVars, remoteVars
<1>8. ASSUME NEW c \in Clients, ClaimFails(c) PROVE OwnBoard'
  BY <1>8 DEF ClaimFails, NoBoard, Goto, Raise, threadVars, remoteVars
<1>9. ASSUME NEW c \in Clients, StartHeartbeat(c) PROVE OwnBoard'
  BY <1>9 DEF StartHeartbeat, Goto, remoteVars
<1>10. ASSUME NEW c \in Clients, StartHeartbeatFails(c) PROVE OwnBoard'
  BY <1>10 DEF StartHeartbeatFails, GiveUpAttempt, Goto, Raise, threadVars, remoteVars
<1>11. ASSUME NEW c \in Clients, MarkInUse(c) PROVE OwnBoard'
  BY <1>11 DEF MarkInUse, LocalsKept, localVars, Goto, threadVars, remoteVars
<1>12. ASSUME NEW c \in Clients, MarkInUseFails(c) PROVE OwnBoard'
  BY <1>12 DEF MarkInUseFails, GiveUpAttempt, Goto, Raise, threadVars, remoteVars
<1>13. ASSUME NEW c \in Clients, StartServers(c) PROVE OwnBoard'
  BY <1>13 DEF StartServers, LocalsKept, localVars, Goto, threadVars
<1>14. ASSUME NEW c \in Clients, StartServersFails(c) PROVE OwnBoard'
  BY <1>14 DEF StartServersFails, GiveUpAttempt, Goto, Raise, threadVars
<1>15. ASSUME NEW c \in Clients, ProgramBitstream(c) PROVE OwnBoard'
  BY <1>15 DEF ProgramBitstream, LocalsKept, localVars, Goto, threadVars
<1>16. ASSUME NEW c \in Clients, ProgramBitstreamFails(c) PROVE OwnBoard'
  BY <1>16 DEF ProgramBitstreamFails, GiveUpAttempt, Goto, Raise, threadVars
<1>17. ASSUME NEW c \in Clients, ReadSerial(c) PROVE OwnBoard'
  BY <1>17 DEF ReadSerial, Goto, threadVars, remoteVars
<1>18. ASSUME NEW c \in Clients, JudgeFailed(c) PROVE OwnBoard'
  BY <1>18 DEF JudgeFailed, Goto, threadVars, remoteVars
<1>19. ASSUME NEW c \in Clients, ReadSerialFails(c) PROVE OwnBoard'
  BY <1>19 DEF ReadSerialFails, GiveUpAttempt, Goto, Raise, threadVars, remoteVars
<1>20. ASSUME NEW c \in Clients, SaveResult(c) PROVE OwnBoard'
  BY <1>20 DEF SaveResult, Goto, threadVars, remoteVars
<1>21. ASSUME NEW c \in Clients, SaveResultFails(c) PROVE OwnBoard'
  BY <1>21 DEF SaveResultFails, Goto, Raise, threadVars, remoteVars
<1>22. ASSUME NEW c \in Clients, StopPorts(c) PROVE OwnBoard'
  BY <1>22 DEF StopPorts, LocalsKept, localVars, Goto, threadVars
<1>23. ASSUME NEW c \in Clients, Release(c) PROVE OwnBoard'
  BY <1>23 DEF Release, LocalsKept, localVars, Goto, threadVars, remoteVars
<1>24. ASSUME NEW c \in Clients, ReleaseFails(c) PROVE OwnBoard'
  BY <1>24 DEF ReleaseFails, Goto, Raise, threadVars, remoteVars
<1>25. ASSUME NEW c \in Clients, StopHeartbeat(c) PROVE OwnBoard'
  BY <1>25 DEF StopHeartbeat, LocalsKept, localVars, Goto, remoteVars
<1>26. ASSUME NEW c \in Clients, JoinHeartbeat(c) PROVE OwnBoard'
  BY <1>26 DEF JoinHeartbeat, LocalsKept, localVars, Goto, remoteVars
<1>27. ASSUME NEW c \in Clients, Finish(c) PROVE OwnBoard'
  BY <1>27 DEF Finish, EndCommand, Goto
<1>28. ASSUME NEW c \in Clients, Retry(c) PROVE OwnBoard'
  BY <1>28 DEF Retry, NextAttempt, Goto, remoteVars
<1>29. ASSUME NEW c \in Clients, RetryKept(c) PROVE OwnBoard'
  BY <1>29 DEF RetryKept, LocalsKept, localVars, Goto, threadVars, remoteVars
<1>30. ASSUME NEW c \in Clients, RetryRelease(c) PROVE OwnBoard'
  BY <1>30 DEF RetryRelease, NextAttempt, Goto, remoteVars
<1>31. ASSUME NEW c \in Clients, BeginBeat(c) PROVE OwnBoard'
  BY <1>31 DEF BeginBeat, LocalsKept, localVars, remoteVars
<1>32. ASSUME NEW c \in Clients, EndBeat(c) PROVE OwnBoard'
  BY <1>32 DEF EndBeat, LocalsKept, localVars, remoteVars
<1>33. ASSUME NEW c \in Clients, FailBeat(c) PROVE OwnBoard'
  BY <1>33 DEF FailBeat, LocalsKept, localVars, remoteVars
<1>34. ASSUME NEW c \in Clients, Crash(c) PROVE OwnBoard'
  BY <1>34 DEF Crash, EndCommand, Goto
<1>35. ASSUME NEW b \in Boards, LateBeat(b) \/ AdminRelease(b) PROVE OwnBoard'
  BY <1>35 DEF LateBeat, AdminRelease, LocalsKept, localVars, threadVars, remoteVars
<1>36. ASSUME AdminReset PROVE OwnBoard'
  BY <1>36 DEF AdminReset, LocalsKept, localVars, threadVars, remoteVars
<1>37. ASSUME Tick PROVE OwnBoard'
  BY <1>37 DEF Tick, LocalsKept, localVars, remoteVars
<1>38. ASSUME UNCHANGED vars PROVE OwnBoard'
  BY <1>38 DEF vars, localVars, threadVars, remoteVars
<1> QED
  BY <1>1, <1>2, <1>3, <1>4, <1>5, <1>6, <1>7, <1>8, <1>9, <1>10, <1>11, <1>12, <1>13, <1>14, <1>15, <1>16, <1>17, <1>18, <1>19, <1>20, <1>21, <1>22, <1>23, <1>24, <1>25, <1>26, <1>27, <1>28, <1>29, <1>30, <1>31, <1>32, <1>33, <1>34, <1>35, <1>36, <1>37, <1>38
     DEF Next, ClientStep, Allocate, UseBoard, CleanUp, BeatStep

LEMMA OwnBoardInvariant == ASSUME Cooperative PROVE Spec => []OwnBoard
<1>1. Init => OwnBoard
  BY DEF Init, OwnBoard
<1>2. CooperativeInv /\ OwnBoard /\ [Next]_vars => OwnBoard'
  BY OwnBoardInductive
<1> QED
  BY <1>1, <1>2, CooperativeInvariant, PTL DEF Spec

\* A run that reports success has judged its own design and saved the result.
THEOREM SuccessesAreOwn == ASSUME Cooperative PROVE Spec => []SuccessIsOwn
<1>1. OwnBoard => SuccessIsOwn
  BY DEF OwnBoard, SuccessIsOwn
<1> QED
  BY <1>1, OwnBoardInvariant, PTL

\* The bridge a client reads from is not stopped by another.
THEOREM BridgesStayUp == ASSUME Cooperative PROVE Spec => []SerialHasBridge
<1>1. OwnBoard => SerialHasBridge
  BY DEF OwnBoard, SerialHasBridge
<1> QED
  BY <1>1, OwnBoardInvariant, PTL


-----------------------------------------------------------------------------
(* Runner implements Lease.                                                *)

HolderIs(b, h) ==
  IF h = NULL THEN \A c \in Clients : ~(Holds(c) /\ board[c] = b)
              ELSE h \in Clients /\ Holds(h) /\ board[h] = b

HolderNamed ==
  \A b \in Boards, h \in Clients \cup {NULL} : HolderIs(b, h) => holder[b] = h

\* While holding is exclusive, holder[b] is the one client that holds b.
LEMMA HolderIsUnique == Exclusive => HolderNamed
<1> SUFFICES ASSUME Exclusive, NEW b \in Boards, NEW h \in Clients \cup {NULL}, HolderIs(b, h)
             PROVE  holder[b] = h
  BY DEF HolderNamed
<1>1. CASE h = NULL
  BY <1>1 DEF holder, HolderIs
<1>2. CASE h # NULL
  <2>1. h \in Clients /\ Holds(h) /\ board[h] = b
    BY <1>2 DEF HolderIs
  <2>2. \A c \in Clients : Holds(c) /\ board[c] = b => c = h
    BY <2>1 DEF Exclusive
  <2> DEFINE g == CHOOSE c \in Clients : Holds(c) /\ board[c] = b
  <2>3. g \in Clients /\ Holds(g) /\ board[g] = b
    BY <2>1
  <2>4. holder[b] = g
    BY <2>1 DEF holder
  <2> QED
    BY <2>2, <2>3, <2>4
<1> QED
  BY <1>1, <1>2

LEMMA HolderIsUniqueNext == Exclusive' => HolderNamed'
BY HolderIsUnique, PTL

LEMMA HolderNow ==
  ASSUME Exclusive
  PROVE  /\ holder \in [Boards -> Clients \cup {NULL}]
         /\ \A b \in Boards : HolderIs(b, holder[b])
<1>1. \A b \in Boards : \E h \in Clients \cup {NULL} : HolderIs(b, h)
  BY RunnerAssumption DEF HolderIs
<1>2. \A b \in Boards : holder[b] \in Clients \cup {NULL} /\ HolderIs(b, holder[b])
  BY <1>1, HolderIsUnique DEF HolderNamed
<1> QED
  BY <1>2 DEF holder

\* A board keeps its holder, or its being free, unless a client that holds or comes
\* to hold it takes the step.
LEMMA HolderKept ==
  ASSUME Exclusive, Exclusive', NEW b \in Boards,
         \A c \in Clients : (Holds(c) /\ board[c] = b) <=> (Holds(c) /\ board[c] = b)'
  PROVE  holder'[b] = holder[b]
<1>1. holder[b] \in Clients \cup {NULL} /\ HolderIs(b, holder[b])
  BY HolderNow
<1> DEFINE h == holder[b]
<1>2. PICK k \in Clients \cup {NULL} : k = holder[b]
  BY <1>1
<1>3. HolderIs(b, k)
  BY <1>1, <1>2
<1>4. HolderIs(b, k)'
  BY <1>3 DEF HolderIs
<1> QED
  BY <1>2, <1>4, HolderIsUniqueNext DEF HolderNamed

\* No client comes to hold a board or ceases to.
SameHolders == \A c \in Clients, b \in Boards :
                 (Holds(c) /\ board[c] = b) <=> (Holds(c) /\ board[c] = b)'

LEMMA HoldersKept ==
  ASSUME Exclusive, Exclusive', SameHolders
  PROVE  holder' = holder
<1>1. \A b \in Boards : holder'[b] = holder[b]
  BY HolderKept DEF SameHolders
<1>2. holder = [b \in Boards |-> holder[b]] /\ holder' = [b \in Boards |-> holder'[b]]
  BY DEF holder
<1> QED
  BY <1>1, <1>2

\* The client that takes a board is its holder from then on.
LEMMA HolderTaken ==
  ASSUME Exclusive', NEW c \in Clients, Holds(c)', board'[c] \in Boards
  PROVE  holder'[board'[c]] = c
<1>1. PICK b \in Boards : b = board'[c]
  OBVIOUS
<1>2. HolderIs(b, c)'
  BY <1>1, RunnerAssumption DEF HolderIs
<1> QED
  BY <1>1, <1>2, HolderIsUniqueNext DEF HolderNamed

LEMMA HolderHeld ==
  ASSUME Exclusive, NEW c \in Clients, Holds(c), board[c] \in Boards
  PROVE  holder[board[c]] = c
BY HolderIsUnique, RunnerAssumption DEF HolderNamed, HolderIs

LEMMA HolderFree ==
  ASSUME Exclusive, NEW b \in Boards, \A c \in Clients : ~(Holds(c) /\ board[c] = b)
  PROVE  holder[b] = NULL
BY HolderIsUnique DEF HolderNamed, HolderIs

LEMMA HolderFreed ==
  ASSUME Exclusive', NEW b \in Boards, \A c \in Clients : ~(Holds(c) /\ board[c] = b)'
  PROVE  holder'[b] = NULL
BY HolderIsUniqueNext DEF HolderNamed, HolderIs


\* The steps that change neither who holds a board nor what it runs.
LEMMA QuietSteps ==
  ASSUME TypeOK, Flow, Bookkeeping,
         \/ \E c \in Clients :
              \/ StartRun(c) \/ MissingBitfile(c) \/ SelectBoard(c) \/ SelectNothing(c)
              \/ LoseRace(c) \/ LoseLastRace(c) \/ ClaimFails(c) \/ StartHeartbeat(c)
              \/ StartHeartbeatFails(c) \/ MarkInUse(c) \/ MarkInUseFails(c)
              \/ StartServers(c) \/ StartServersFails(c) \/ ReadSerial(c)
              \/ JudgeFailed(c) \/ ReadSerialFails(c) \/ SaveResult(c)
              \/ SaveResultFails(c) \/ StopPorts(c) \/ StopHeartbeat(c)
              \/ JoinHeartbeat(c) \/ Retry(c) \/ RetryKept(c) \/ BeginBeat(c)
              \/ EndBeat(c) \/ FailBeat(c)
         \/ \E b \in Boards : LateBeat(b) \/ AdminRelease(b)
         \/ AdminReset \/ Tick \/ UNCHANGED vars
  PROVE  SameHolders /\ UNCHANGED installed
<1> USE DEF TypeOK, Flow, ThreadWithinRun, BoardNamed, Bookkeeping, ResultNamesBoard,
            SameHolders, Holds, Uses, Keeps, UsePhases, KeptPhases
<1>1. ASSUME NEW c \in Clients, StartRun(c) PROVE SameHolders /\ UNCHANGED installed
  BY <1>1 DEF StartRun, Goto, localVars, remoteVars
<1>2. ASSUME NEW c \in Clients, MissingBitfile(c) PROVE SameHolders /\ UNCHANGED installed
  BY <1>2 DEF MissingBitfile, Goto, remoteVars
<1>3. ASSUME NEW c \in Clients, SelectBoard(c) PROVE SameHolders /\ UNCHANGED installed
  BY <1>3 DEF SelectBoard, Goto, SelectedRows, Eligible, remoteVars
<1>4. ASSUME NEW c \in Clients, SelectNothing(c) PROVE SameHolders /\ UNCHANGED installed
  BY <1>4 DEF SelectNothing, NoBoard, Goto, remoteVars
<1>5. ASSUME NEW c \in Clients, LoseRace(c) PROVE SameHolders /\ UNCHANGED installed
  BY <1>5 DEF LoseRace, Goto, remoteVars
<1>6. ASSUME NEW c \in Clients, LoseLastRace(c) PROVE SameHolders /\ UNCHANGED installed
  BY <1>6 DEF LoseLastRace, NoBoard, Goto, remoteVars
<1>7. ASSUME NEW c \in Clients, ClaimFails(c) PROVE SameHolders /\ UNCHANGED installed
  BY <1>7 DEF ClaimFails, NoBoard, Goto, remoteVars
<1>8. ASSUME NEW c \in Clients, StartHeartbeat(c) PROVE SameHolders /\ UNCHANGED installed
  BY <1>8 DEF StartHeartbeat, Goto, remoteVars
<1>9. ASSUME NEW c \in Clients, StartHeartbeatFails(c) PROVE SameHolders /\ UNCHANGED installed
  BY <1>9 DEF StartHeartbeatFails, GiveUpAttempt, Goto, remoteVars
<1>10. ASSUME NEW c \in Clients, MarkInUse(c) PROVE SameHolders /\ UNCHANGED installed
  BY <1>10 DEF MarkInUse, LocalsKept, localVars, Goto, remoteVars
<1>11. ASSUME NEW c \in Clients, MarkInUseFails(c) PROVE SameHolders /\ UNCHANGED installed
  BY <1>11 DEF MarkInUseFails, GiveUpAttempt, Goto, remoteVars
<1>12. ASSUME NEW c \in Clients, StartServers(c) PROVE SameHolders /\ UNCHANGED installed
  BY <1>12 DEF StartServers, LocalsKept, localVars, Goto, remoteVars
<1>13. ASSUME NEW c \in Clients, StartServersFails(c) PROVE SameHolders /\ UNCHANGED installed
  BY <1>13 DEF StartServersFails, GiveUpAttempt, Goto, remoteVars
<1>14. ASSUME NEW c \in Clients, ReadSerial(c) PROVE SameHolders /\ UNCHANGED installed
  BY <1>14 DEF ReadSerial, Goto, remoteVars
<1>15. ASSUME NEW c \in Clients, JudgeFailed(c) PROVE SameHolders /\ UNCHANGED installed
  BY <1>15 DEF JudgeFailed, Goto, remoteVars
<1>16. ASSUME NEW c \in Clients, ReadSerialFails(c) PROVE SameHolders /\ UNCHANGED installed
  BY <1>16 DEF ReadSerialFails, GiveUpAttempt, Goto, remoteVars
<1>17. ASSUME NEW c \in Clients, SaveResult(c) PROVE SameHolders /\ UNCHANGED installed
  BY <1>17 DEF SaveResult, Goto, remoteVars
<1>18. ASSUME NEW c \in Clients, SaveResultFails(c) PROVE SameHolders /\ UNCHANGED installed
  BY <1>18 DEF SaveResultFails, Goto, remoteVars
<1>19. ASSUME NEW c \in Clients, StopPorts(c) PROVE SameHolders /\ UNCHANGED installed
  BY <1>19 DEF StopPorts, LocalsKept, localVars, Goto, remoteVars
<1>20. ASSUME NEW c \in Clients, StopHeartbeat(c) PROVE SameHolders /\ UNCHANGED installed
  BY <1>20 DEF StopHeartbeat, LocalsKept, localVars, Goto, remoteVars
<1>21. ASSUME NEW c \in Clients, JoinHeartbeat(c) PROVE SameHolders /\ UNCHANGED installed
  BY <1>21 DEF JoinHeartbeat, LocalsKept, localVars, Goto, remoteVars
<1>22. ASSUME NEW c \in Clients, Retry(c) PROVE SameHolders /\ UNCHANGED installed
  BY <1>22 DEF Retry, NextAttempt, Goto, remoteVars
<1>23. ASSUME NEW c \in Clients, RetryKept(c) PROVE SameHolders /\ UNCHANGED installed
  BY <1>23 DEF RetryKept, LocalsKept, localVars, Goto, remoteVars
<1>24. ASSUME NEW c \in Clients, BeginBeat(c) PROVE SameHolders /\ UNCHANGED installed
  BY <1>24 DEF BeginBeat, LocalsKept, localVars, remoteVars
<1>25. ASSUME NEW c \in Clients, EndBeat(c) PROVE SameHolders /\ UNCHANGED installed
  BY <1>25 DEF EndBeat, LocalsKept, localVars, Beating, remoteVars
<1>26. ASSUME NEW c \in Clients, FailBeat(c) PROVE SameHolders /\ UNCHANGED installed
  BY <1>26 DEF FailBeat, LocalsKept, localVars, Beating, remoteVars
<1>27. ASSUME NEW b \in Boards, LateBeat(b) \/ AdminRelease(b) PROVE SameHolders /\ UNCHANGED installed
  BY <1>27 DEF LateBeat, AdminRelease, LocalsKept, localVars, remoteVars
<1>28. ASSUME AdminReset PROVE SameHolders /\ UNCHANGED installed
  BY <1>28 DEF AdminReset, LocalsKept, localVars, remoteVars
<1>29. ASSUME Tick PROVE SameHolders /\ UNCHANGED installed
  BY <1>29 DEF Tick, LocalsKept, localVars, remoteVars
<1>30. ASSUME UNCHANGED vars PROVE SameHolders /\ UNCHANGED installed
  BY <1>30 DEF vars, localVars, threadVars, remoteVars
<1> QED
  BY <1>1, <1>2, <1>3, <1>4, <1>5, <1>6, <1>7, <1>8, <1>9, <1>10, <1>11, <1>12, <1>13, <1>14, <1>15, <1>16, <1>17, <1>18, <1>19, <1>20, <1>21, <1>22, <1>23, <1>24, <1>25, <1>26, <1>27, <1>28, <1>29, <1>30

\* A client that comes to hold a board, or ceases to, changes that lease only.
LEMMA OneLeaseChanges ==
  ASSUME Exclusive, Exclusive', NEW b \in Boards, NEW h,
         holder'[b] = h,
         \A e \in Boards \ {b} : \A c \in Clients :
           (Holds(c) /\ board[c] = e) <=> (Holds(c) /\ board[c] = e)'
  PROVE  holder' = [holder EXCEPT ![b] = h]
<1>1. \A e \in Boards \ {b} : holder'[e] = holder[e]
  BY HolderKept
<1>2. holder = [e \in Boards |-> holder[e]] /\ holder' = [e \in Boards |-> holder'[e]]
  BY DEF holder
<1> QED
  BY <1>1, <1>2

LEMMA ClaimTakes ==
  ASSUME Cooperative, CooperativeInv, CooperativeInv', NEW c \in Clients, ClaimBoard(c)
  PROVE  Leases!Take(c, board[c])
<1> USE DEF CooperativeInv, Tenure
<1>1. board[c] \in Boards /\ Claimable(board[c]) /\ pc[c] = "claim"
  BY DEF ClaimBoard, Cooperative, TypeOK, Flow, BoardNamed
<1>2. \A d \in Clients : ~(Holds(d) /\ board[d] = board[c])
  BY <1>1, HeldIsNotClaimable
<1>3. /\ pc' = [pc EXCEPT ![c] = "heartbeat"]
      /\ UNCHANGED <<board, opts, fpga_name, installed>>
  BY DEF ClaimBoard, Goto, localVars, remoteVars
<1>4. holder[board[c]] = NULL
  BY <1>1, <1>2, HolderFree
<1>5. Holds(c)' /\ board'[c] = board[c]
  BY <1>3 DEF Holds, Uses, UsePhases, TypeOK
<1>6. holder'[board[c]] = c
  BY <1>1, <1>5, HolderTaken
<1>7. \A e \in Boards \ {board[c]} : \A d \in Clients :
        (Holds(d) /\ board[d] = e) <=> (Holds(d) /\ board[d] = e)'
  BY <1>1, <1>3 DEF Holds, Uses, Keeps, UsePhases, KeptPhases, TypeOK
<1>8. holder' = [holder EXCEPT ![board[c]] = c]
  BY <1>1, <1>6, <1>7, OneLeaseChanges
<1> QED
  BY <1>3, <1>4, <1>8 DEF Leases!Take

LEMMA ProgrammingInstalls ==
  ASSUME CooperativeInv, CooperativeInv', NEW c \in Clients,
         ProgramBitstream(c) \/ ProgramBitstreamFails(c)
  PROVE  Leases!Install(c, board[c]) \/ UNCHANGED Leases!vars
<1> USE DEF CooperativeInv, Tenure
<1>1. Holds(c) /\ board[c] \in Boards
  BY HeldIsNamed DEF ProgramBitstream, ProgramBitstreamFails, Holds, Uses, UsePhases
<1>2. /\ \E d \in {installed[board[c]], c} : installed' = [installed EXCEPT ![board[c]] = d]
      /\ \E p \in {"serial", "stop_ports"} : pc' = [pc EXCEPT ![c] = p]
      /\ pc[c] = "program"
      /\ UNCHANGED <<board, opts, fpga_name>>
  BY DEF ProgramBitstream, ProgramBitstreamFails, GiveUpAttempt, Goto, LocalsKept, localVars
<1>3. SameHolders
  BY <1>2 DEF SameHolders, Holds, Uses, Keeps, UsePhases, KeptPhases, TypeOK
<1>4. holder' = holder /\ holder[board[c]] = c
  BY <1>1, <1>3, HoldersKept, HolderHeld
<1>5. installed' = [installed EXCEPT ![board[c]] = c] \/ installed' = installed
  <2>1. PICK d \in {installed[board[c]], c} : installed' = [installed EXCEPT ![board[c]] = d]
    BY <1>2
  <2>2. CASE d = installed[board[c]]
    <3>1. \A b \in Boards : installed'[b] = installed[b]
      BY <2>1, <2>2 DEF TypeOK
    <3>2. /\ installed = [b \in Boards |-> installed[b]]
          /\ installed' = [b \in Boards |-> installed'[b]]
      BY <2>1 DEF TypeOK
    <3> QED
      BY <3>1, <3>2
  <2> QED
    BY <2>1, <2>2
<1> QED
  BY <1>4, <1>5 DEF Leases!Install, Leases!vars

LEMMA ReleaseGivesUp ==
  ASSUME CooperativeInv, CooperativeInv', NEW c \in Clients,
         Release(c) \/ ReleaseFails(c) \/ RetryRelease(c)
  PROVE  Leases!GiveUp(c, board[c]) \/ UNCHANGED Leases!vars
<1> USE DEF CooperativeInv, Tenure
<1>1. Holds(c) /\ board[c] \in Boards
  BY HeldIsNamed DEF Release, ReleaseFails, RetryRelease, Bookkeeping, ResultNamesBoard,
                     Holds, Uses, UsePhases
<1>2. /\ \E p \in {"stop_heartbeat", "select"} : pc' = [pc EXCEPT ![c] = p]
      /\ \A d \in Clients \ {c} : board'[d] = board[d] /\ fpga_name'[d] = fpga_name[d]
      /\ UNCHANGED <<opts, installed>>
  BY DEF Release, ReleaseFails, RetryRelease, NextAttempt, Goto, LocalsKept, localVars,
         remoteVars, TypeOK
<1>3. \A d \in Clients \ {c} :
        (Holds(d) <=> Holds(d)') /\ board'[d] = board[d] /\ (Holds(d) => board[d] # board[c])
  BY <1>1, <1>2 DEF Holds, Uses, Keeps, TypeOK, Exclusive
<1>4. CASE Holds(c)'
  <2>1. board'[c] = board[c]
    BY <1>2, <1>4 DEF Release, ReleaseFails, RetryRelease, NextAttempt, Goto, LocalsKept,
                      localVars, Holds, Uses, Keeps, UsePhases, KeptPhases, TypeOK
  <2>2. SameHolders
    BY <1>1, <1>3, <1>4, <2>1 DEF SameHolders
  <2> QED
    BY <1>2, <2>2, HoldersKept DEF Leases!vars
<1>5. CASE ~Holds(c)'
  <2>1. holder'[board[c]] = NULL
    BY <1>1, <1>3, <1>5, HolderFreed
  <2>2. \A e \in Boards \ {board[c]} : \A d \in Clients :
          (Holds(d) /\ board[d] = e) <=> (Holds(d) /\ board[d] = e)'
    BY <1>3, <1>5
  <2>3. holder' = [holder EXCEPT ![board[c]] = NULL]
    BY <1>1, <2>1, <2>2, OneLeaseChanges
  <2> QED
    BY <1>1, <1>2, <2>3, HolderHeld DEF Leases!GiveUp
<1> QED
  BY <1>4, <1>5

LEMMA EndingLeaves ==
  ASSUME CooperativeInv, CooperativeInv', NEW c \in Clients, Finish(c) \/ Crash(c)
  PROVE  Leases!Leave(c)
<1> USE DEF CooperativeInv, Tenure
<1>1. /\ pc' = [pc EXCEPT ![c] = "idle"]
      /\ \A d \in Clients \ {c} : board'[d] = board[d] /\ fpga_name'[d] = fpga_name[d]
      /\ installed' = [b \in Boards |-> IF installed[b] = c THEN NULL ELSE installed[b]]
      /\ UNCHANGED opts
  BY DEF Finish, Crash, EndCommand, Goto, TypeOK
<1>2. ~Holds(c)'
  BY <1>1 DEF Holds, Uses, Keeps, UsePhases, KeptPhases, TypeOK
<1>3. \A d \in Clients \ {c} : (Holds(d) <=> Holds(d)') /\ board'[d] = board[d]
  BY <1>1 DEF Holds, Uses, Keeps, TypeOK
<1>4. ASSUME NEW b \in Boards
      PROVE  holder'[b] = IF holder[b] = c THEN NULL ELSE holder[b]
  <2>1. HolderIs(b, holder[b])
    BY HolderNow
  <2>2. CASE holder[b] = c
    <3>1. \A d \in Clients : ~(Holds(d) /\ board[d] = b)'
      BY <1>2, <1>3, <2>1, <2>2, RunnerAssumption DEF HolderIs, Exclusive
    <3> QED
      BY <2>2, <3>1, HolderFreed
  <2>3. CASE holder[b] # c
    <3>1. \A d \in Clients : (Holds(d) /\ board[d] = b) <=> (Holds(d) /\ board[d] = b)'
      <4>1. ~(Holds(c) /\ board[c] = b)
        BY <2>3, HolderHeld
      <4> QED
        BY <1>2, <1>3, <4>1
    <3> QED
      BY <2>3, <3>1, HolderKept
  <2> QED
    BY <2>2, <2>3
<1>5. holder' = [b \in Boards |-> holder'[b]]
  BY DEF holder
<1> QED
  BY <1>1, <1>4, <1>5 DEF Leases!Leave

\* Every step of Runner gives out, uses or takes back a lease, or leaves them alone.
LEMMA LeaseStep ==
  ASSUME Cooperative, CooperativeInv, CooperativeInv', [Next]_vars
  PROVE  [Leases!Next]_(Leases!vars)
<1>0. \A c \in Clients : pc[c] \in UsePhases => board[c] \in Boards
  BY HeldIsNamed DEF CooperativeInv, Holds, Uses
<1>1. ASSUME NEW c \in Clients,
             StartRun(c) \/ ClientStep(c) \/ BeatStep(c) \/ Crash(c)
      PROVE  [Leases!Next]_(Leases!vars)
  <2>1. CASE ClaimBoard(c)
    BY <2>1, ClaimTakes DEF Leases!Next, CooperativeInv, Flow, BoardNamed, ClaimBoard, TypeOK
  <2>2. CASE ProgramBitstream(c) \/ ProgramBitstreamFails(c)
    BY <1>0, <2>2, ProgrammingInstalls DEF Leases!Next, ProgramBitstream, ProgramBitstreamFails, UsePhases
  <2>3. CASE Release(c) \/ ReleaseFails(c)
    BY <1>0, <2>3, ReleaseGivesUp DEF Leases!Next, Release, ReleaseFails, UsePhases
  <2>4. CASE RetryRelease(c)
    <3>1. board[c] \in Boards
      BY <2>4, HeldIsNamed DEF RetryRelease, CooperativeInv, Bookkeeping, ResultNamesBoard, Holds
    <3> QED
      BY <2>4, <3>1, ReleaseGivesUp DEF Leases!Next
  <2>5. CASE Finish(c) \/ Crash(c)
    BY <2>5, EndingLeaves DEF Leases!Next
  <2>6. CASE ~( \/ ClaimBoard(c) \/ ProgramBitstream(c) \/ ProgramBitstreamFails(c) \/ Release(c)
                \/ ReleaseFails(c) \/ RetryRelease(c) \/ Finish(c) \/ Crash(c))
    <3>1. SameHolders /\ UNCHANGED installed
      BY <1>1, <2>6, QuietSteps DEF CooperativeInv, ClientStep, Allocate, UseBoard, CleanUp, BeatStep
    <3> QED
      BY <3>1, HoldersKept DEF CooperativeInv, Tenure, Leases!vars
  <2> QED
    BY <2>1, <2>2, <2>3, <2>4, <2>5, <2>6
<1>2. ASSUME (\E b \in Boards : LateBeat(b) \/ AdminRelease(b)) \/ AdminReset \/ Tick \/ UNCHANGED vars
      PROVE  [Leases!Next]_(Leases!vars)
  <2>1. SameHolders /\ UNCHANGED installed
    BY <1>2, QuietSteps DEF CooperativeInv
  <2> QED
    BY <2>1, HoldersKept DEF CooperativeInv, Tenure, Leases!vars
<1> QED
  BY <1>1, <1>2 DEF Next

\* Runner implements Lease: every behaviour of cooperating clients is one of the
\* abstract specification.
THEOREM RunnerImplementsLease == ASSUME Cooperative PROVE Spec => ImplementsLease
<1>1. Init => Leases!Init
  <2> SUFFICES ASSUME Init PROVE Leases!Init
    OBVIOUS
  <2>1. \A c \in Clients : ~Holds(c)
    BY DEF Init, Holds, Uses, Keeps, UsePhases, KeptPhases
  <2> QED
    BY <2>1 DEF Init, Leases!Init, holder
<1>2. CooperativeInv /\ CooperativeInv' /\ [Next]_vars => [Leases!Next]_(Leases!vars)
  BY LeaseStep
<1> QED
  BY <1>1, <1>2, CooperativeInvariant, PTL DEF Spec, ImplementsLease, Leases!Spec
=============================================================================
