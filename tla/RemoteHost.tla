----------------------------- MODULE RemoteHost ------------------------------
(***************************************************************************)
(* The Windows host the boards hang on, and what RemoteSession does there  *)
(* for run_bitfile: servers on the board's two ports, the zip and the      *)
(* bitstream in the temporary directory, Vivado.  A session stands for one *)
(* attempt to run a bitfile; ports and directory outlive it.  Forced       *)
(* allocations may give one board to several sessions at once, which then  *)
(* work on the same ports, file and design.                                *)
(*                                                                         *)
(* A server is started asynchronously: it may come up late, long after the *)
(* request, and not at all when its port is taken by then.                 *)
(***************************************************************************)
EXTENDS CommandFaults, Naturals, FiniteSets

CONSTANTS
  Sessions,        \* attempts that may be under way at once
  Boards,
  Bitfiles,
  HwPort,          \* HwPort[b]: total_port
  SerialPort,      \* SerialPort[b]: serial_tcp_port, total_port when a row names no other
  PENDING          \* bound: servers of the host that are late at one time

Ports == {HwPort[b] : b \in Boards} \cup {SerialPort[b] : b \in Boards}
Servers == {"hw", "com"} \X Boards
PortOf(s) == IF s[1] = "hw" THEN HwPort[s[2]] ELSE SerialPort[s[2]]

ASSUME HostAssumption ==
  /\ NULL \notin Boards \cup Bitfiles \cup Servers
  /\ HwPort \in [Boards -> Nat] /\ SerialPort \in [Boards -> Nat]
  /\ \A a, b \in Boards : a # b =>
       {HwPort[a], SerialPort[a]} \cap {HwPort[b], SerialPort[b]} = {}
  /\ PENDING \in Nat

VARIABLES
  call,            \* call[c]: the call session c is about to make
  board,           \* board[c]: its board
  bitfile,         \* bitfile[c]: what it is to program
  failed,          \* failed[c]: did an exception reach the except clause?
  litter,          \* sessions whose last cleanup of the zip failed (history)
  crossed,         \* sessions whose board another one had during the attempt (history)
  zips,            \* sessions whose zip lies on the host
  extracted,       \* extracted[b]: the bitstream in <fpga_name>_fpga.bit, or NULL
  starting,        \* servers that were started and have not come up
  listening,       \* listening[p]: the server that owns port p, or NULL
  installed        \* installed[b]: the bitstream board b runs

sessionVars == <<call, board, bitfile, failed, litter, crossed>>
hostVars    == <<zips, extracted, starting, listening, installed>>
remoteVars  == <<sessionVars, hostVars>>

\* The calls of the try clause in their order; the ones in program_bitstream
\* after the first cleanup have a finally clause of their own.
After ==
  [start_hw |-> "start_com", start_com |-> "wait_com", wait_com |-> "wait_hw",
   wait_hw |-> "clean_before", clean_before |-> "upload", upload |-> "extract",
   extract |-> "clean_after", clean_after |-> "vivado", vivado |-> "final_clean",
   final_clean |-> "stop_hw", stop_hw |-> "serial"]

Unzipping == {"upload", "extract", "clean_after", "vivado"}
Cleaning  == {"clean_before", "clean_after", "final_clean"}

\* What an earlier attempt with bitfile d, or none at all, may have left there.
HostLeftBy(d) ==
  /\ extracted = [b \in Boards |-> d]
  /\ installed = [b \in Boards |-> d]
  /\ listening \in {[p \in Ports |-> NULL],
                    [p \in Ports |-> IF d = NULL THEN NULL ELSE CHOOSE s \in Servers : PortOf(s) = p]}

HostInit ==
  /\ call = [c \in Sessions |-> "none"]
  /\ board = [c \in Sessions |-> NULL]
  /\ bitfile = [c \in Sessions |-> NULL]
  /\ failed = [c \in Sessions |-> FALSE]
  /\ litter = {} /\ crossed = {}
  /\ zips = {}
  /\ starting = {}
  /\ \E d \in {NULL} \cup (IF "left" \in faults THEN Bitfiles ELSE {}) : HostLeftBy(d)

-----------------------------------------------------------------------------
(* What the commands of a session do to the host.                          *)

Hw(c)  == <<"hw", board[c]>>
Com(c) == <<"com", board[c]>>

\* stop_port_owner, whose exit status nobody looks at.
StopOwner(ports, p) ==
  {[ports EXCEPT ![p] = NULL]} \cup IF "kill" \in faults THEN {ports} ELSE {}

\* A server takes its port unless somebody owns it by then.
TakePort(ports, s) == [ports EXCEPT ![PortOf(s)] = IF @ = NULL THEN s ELSE @]

\* It has come up before the next call to this host, or it is late or fails.
Restart(s) ==
  /\ \E ports \in StopOwner(listening, PortOf(s)) :
       \/ listening' = TakePort(ports, s) /\ UNCHANGED starting
       \/ /\ "start" \in faults /\ s \notin starting /\ Cardinality(starting) < PENDING
          /\ listening' = ports /\ starting' = starting \cup {s}
  /\ UNCHANGED <<zips, extracted, installed>>

\* wait_local_port asks whether anybody listens.
Await(s) == listening[PortOf(s)] # NULL /\ UNCHANGED hostVars

CleanZip(c) == zips' = zips \ {c} /\ UNCHANGED <<extracted, starting, listening, installed>>

UploadZip(c) == zips' = zips \cup {c} /\ UNCHANGED <<extracted, starting, listening, installed>>

\* The old bitstream is removed first: the archive does not overwrite it.
ExtractTo(c, d) ==
  /\ extracted' = [extracted EXCEPT ![board[c]] = d]
  /\ UNCHANGED <<zips, starting, listening, installed>>

\* What the Tcl script finds behind the port, which has to be a hw_server.
Owner(c) == listening[HwPort[board[c]]]
Programmable(c) == Owner(c) # NULL /\ Owner(c)[1] = "hw" /\ extracted[board[c]] # NULL

RunVivado(c) ==
  /\ Programmable(c)
  /\ installed' = [installed EXCEPT ![Owner(c)[2]] = extracted[board[c]]]
  /\ UNCHANGED <<zips, extracted, starting, listening>>

\* Stopping hw_server frees the serial port (a mutant of StopHw).
StopSerialInstead(c) ==
  /\ listening' \in StopOwner(listening, SerialPort[board[c]])
  /\ UNCHANGED <<zips, extracted, starting, installed>>

StopHw(c) ==
  /\ listening' \in StopOwner(listening, HwPort[board[c]])
  /\ UNCHANGED <<zips, extracted, starting, installed>>

Do(c) ==
  \/ call[c] = "start_hw" /\ Restart(Hw(c))
  \/ call[c] = "start_com" /\ Restart(Com(c))
  \/ call[c] = "wait_com" /\ Await(Com(c))
  \/ call[c] = "wait_hw" /\ Await(Hw(c))
  \/ call[c] \in Cleaning /\ CleanZip(c)
  \/ call[c] = "upload" /\ UploadZip(c)
  \/ call[c] = "extract" /\ ExtractTo(c, bitfile[c])
  \/ call[c] = "vivado" /\ RunVivado(c)
  \/ call[c] = "stop_hw" /\ StopHw(c)

-----------------------------------------------------------------------------
(* A session.                                                              *)

Goto(c, next) == call' = [call EXCEPT ![c] = next]

AtBoard(b) == {e \in Sessions : call[e] # "none" /\ board[e] = b}

\* A zip gets a new name in every attempt: one left behind before is not c's.
OpenSession(c, b, d) ==
  /\ call[c] = "none"
  /\ Goto(c, "start_hw")
  /\ board' = [board EXCEPT ![c] = b]
  /\ bitfile' = [bitfile EXCEPT ![c] = d]
  /\ failed' = [failed EXCEPT ![c] = FALSE]
  /\ litter' = litter \ {c}
  /\ crossed' = IF AtBoard(b) = {} THEN crossed ELSE crossed \cup AtBoard(b) \cup {c}
  /\ zips' = zips \ {c}
  /\ UNCHANGED <<extracted, starting, listening, installed>>

\* The exit status of Vivado is not looked at (a mutant of NextCall).
NextCallIfAny(c) == IF call[c] = "final_clean" THEN "stop_hw" ELSE After[call[c]]

\* The exception that program_bitstream's finally clause held back goes on.
NextCall(c) == IF call[c] = "final_clean" /\ failed[c] THEN "stop_all" ELSE After[call[c]]

Proceed(c) ==
  /\ call[c] \in DOMAIN After
  /\ Do(c)
  /\ Goto(c, NextCall(c))
  /\ UNCHANGED <<board, bitfile, failed, litter, crossed>>

\* The finally clause of program_bitstream is left out (a mutant of Handler).
HandlerOutside(c) == "stop_all"

Handler(c) == IF call[c] \in Unzipping THEN "final_clean" ELSE "stop_all"

\* Nobody listens within the time allowed, or Vivado exits with an error.  Sessions
\* at one board get in each other's way: the archive finds a file again where it has
\* removed one, and Vivado a target that is in use.
Refused(c) ==
  \/ call[c] = "wait_com" /\ listening[PortOf(Com(c))] = NULL
  \/ call[c] = "wait_hw" /\ listening[PortOf(Hw(c))] = NULL
  \/ call[c] = "vivado" /\ ~Programmable(c)
  \/ call[c] \in {"extract", "vivado"} /\ AtBoard(board[c]) # {c}

\* A call raises: it was refused, or the connection broke before, in the middle of
\* or after the command.
Raises(c) ==
  /\ call[c] \in DOMAIN After
  /\ \/ Refused(c) /\ UNCHANGED hostVars
     \/ "break" \in faults /\ (Do(c) \/ UNCHANGED hostVars)
     \/ "break" \in faults /\ call[c] = "extract" /\ ExtractTo(c, NULL)
  /\ Goto(c, Handler(c))
  /\ failed' = [failed EXCEPT ![c] = TRUE]
  /\ litter' = IF call[c] = "final_clean" THEN litter \cup {c} ELSE litter
  /\ UNCHANGED <<board, bitfile, crossed>>

\* The display is read: over the bridge, or not at all.
Bridged(c) == listening[SerialPort[board[c]]] = Com(c)

EndSerial(c, ok) ==
  /\ call[c] = "serial"
  /\ ok => Bridged(c)
  /\ Goto(c, "stop_all")
  /\ failed' = [failed EXCEPT ![c] = ~ok]
  /\ UNCHANGED <<board, bitfile, litter, crossed, hostVars>>

\* The finally clause opens a session of its own; an exception in it is logged.
StopAll(c) ==
  /\ call[c] = "stop_all"
  /\ Goto(c, "closed")
  /\ \/ \E ports \in StopOwner(listening, HwPort[board[c]]) :
          listening' \in StopOwner(ports, SerialPort[board[c]])
     \/ "break" \in faults /\ listening' \in {listening} \cup StopOwner(listening, HwPort[board[c]])
  /\ UNCHANGED <<board, bitfile, failed, litter, crossed, zips, extracted, starting, installed>>

\* run_bitfile returns, and nothing of the attempt is left but the host.
CloseSession(c) ==
  /\ call[c] = "closed"
  /\ Goto(c, "none")
  /\ board' = [board EXCEPT ![c] = NULL]
  /\ bitfile' = [bitfile EXCEPT ![c] = NULL]
  /\ failed' = [failed EXCEPT ![c] = FALSE]
  /\ crossed' = crossed \ {c}
  /\ UNCHANGED <<litter, hostVars>>

\* recv_exit_status waits without a timeout, whatever timeout exec was given.
Hang(c) ==
  /\ "hang" \in faults
  /\ call[c] \in DOMAIN After \cup {"stop_all"}
  /\ Goto(c, "hung")
  /\ UNCHANGED <<board, bitfile, failed, litter, crossed, hostVars>>

ComeUp(s) ==
  /\ s \in starting
  /\ starting' = starting \ {s}
  /\ listening' \in {TakePort(listening, s), listening}
  /\ UNCHANGED <<sessionVars, zips, extracted, installed>>

SessionStep(c) == Proceed(c) \/ Raises(c) \/ StopAll(c)

HostNext ==
  \/ \E c \in Sessions :
       \/ SessionStep(c) \/ CloseSession(c) \/ Hang(c)
       \/ \E b \in Boards, d \in Bitfiles : OpenSession(c, b, d)
       \/ \E ok \in BOOLEAN : EndSerial(c, ok)
  \/ \E s \in Servers : ComeUp(s)

HostSpec == HostInit /\ [][HostNext /\ UNCHANGED faults]_<<remoteVars, faults>>

-----------------------------------------------------------------------------
(* Properties.                                                             *)

HostTypeOK ==
  /\ call \in [Sessions -> DOMAIN After \cup {"none", "serial", "stop_all", "closed", "hung"}]
  /\ board \in [Sessions -> Boards \cup {NULL}]
  /\ bitfile \in [Sessions -> Bitfiles \cup {NULL}]
  /\ failed \in [Sessions -> BOOLEAN]
  /\ litter \subseteq Sessions /\ crossed \subseteq Sessions
  /\ zips \subseteq Sessions
  /\ extracted \in [Boards -> Bitfiles \cup {NULL}]
  /\ starting \subseteq Servers
  /\ listening \in [Ports -> Servers \cup {NULL}]
  /\ installed \in [Boards -> Bitfiles \cup {NULL}]

\* A session gets to read the display only of its own bitstream: neither an older
\* file in the directory, nor an extraction or a Vivado that failed, nor a server
\* left over on the port makes it take another design for its own, as long as no
\* other session is given its board meanwhile.
ReadsOwnBitfile ==
  \A c \in Sessions \ crossed : call[c] = "serial" => installed[board[c]] = bitfile[c]

\* No attempt leaves its zip on the host, however it fails and whoever else is at its
\* board, unless the final cleanup itself failed ("cleans remote bits.z* files ... again during final
\* cleanup", README).
NoZipLeft ==
  \A c \in Sessions \ litter : call[c] \in {"serial", "stop_all", "closed"} => c \notin zips

\* When the display is read, the board's serial bridge is still there: stopping
\* hw_server does not take it down, if the board has a serial port of its own and is
\* not shared.
BridgeOutlivesHwServer ==
  \A c \in Sessions \ crossed :
    call[c] = "serial" /\ SerialPort[board[c]] # HwPort[board[c]]
      => Bridged(c)
=============================================================================
