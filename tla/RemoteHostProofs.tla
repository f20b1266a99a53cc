-------------------------- MODULE RemoteHostProofs ---------------------------
(***************************************************************************)
(* Proofs about RemoteHost, for any number of sessions, boards and         *)
(* bitfiles and whatever faults the behaviour starts with.                 *)
(***************************************************************************)
EXTENDS RemoteHost, TLAPS

-----------------------------------------------------------------------------
(* The inductive invariant.                                                *)

Active(c) == call[c] # "none"

\* A session has a board, and no other session has it without both being crossed.
BoardsApart ==
  \A c \in Sessions : Active(c) =>
    /\ board[c] \in Boards /\ bitfile[c] \in Bitfiles
    /\ \A e \in Sessions \ {c} : Active(e) => board[e] # board[c] \/ c \in crossed

\* A port is owned by a server that was started on it.
PortsOwn == \A p \in Ports : listening[p] # NULL => PortOf(listening[p]) = p

\* Calls before the zip is uploaded or after the final cleanup.
ZipFree == {"start_hw", "start_com", "wait_com", "wait_hw", "clean_before", "upload",
            "stop_hw", "serial", "stop_all", "closed"}

\* Calls after the serial bridge has been waited for.
Bridging == {"wait_hw", "clean_before", "upload", "extract", "clean_after", "vivado",
             "final_clean", "stop_hw", "serial"}

\* What a session has made of a board it has for itself.
OnBoard(c) ==
  /\ call[c] \in {"clean_after", "vivado"} => extracted[board[c]] = bitfile[c]
  /\ (call[c] = "final_clean" /\ ~failed[c]) \/ call[c] \in {"stop_hw", "serial"}
       => installed[board[c]] = bitfile[c]
  /\ call[c] \in Bridging /\ SerialPort[board[c]] # HwPort[board[c]] => Bridged(c)

\* How far a session is, and what it has made of the host by then.
SoFar(c) ==
  /\ call[c] \in DOMAIN After \ {"final_clean"} => ~failed[c]
  /\ call[c] \in ZipFree /\ c \notin litter => c \notin zips
  /\ c \notin crossed => OnBoard(c)

HostInv ==
  /\ HostTypeOK
  /\ BoardsApart
  /\ PortsOwn
  /\ \A c \in Sessions : SoFar(c)

-----------------------------------------------------------------------------
(* Lemmas about calls and ports.                                           *)

Tries == {"start_hw", "start_com", "wait_com", "wait_hw", "clean_before", "upload",
          "extract", "clean_after", "vivado", "final_clean", "stop_hw"}

LEMMA CallOrder ==
  /\ DOMAIN After = Tries
  /\ \A x \in Tries \ {"stop_hw"} : After[x] \in Tries
  /\ After["start_hw"] = "start_com" /\ After["start_com"] = "wait_com"
  /\ After["wait_com"] = "wait_hw" /\ After["wait_hw"] = "clean_before"
  /\ After["clean_before"] = "upload" /\ After["upload"] = "extract"
  /\ After["extract"] = "clean_after" /\ After["clean_after"] = "vivado"
  /\ After["vivado"] = "final_clean" /\ After["final_clean"] = "stop_hw"
  /\ After["stop_hw"] = "serial"
BY DEF After, Tries

LEMMA PortsTyped ==
  /\ \A s \in Servers : PortOf(s) \in Ports /\ s # NULL
  /\ \A b \in Boards :
       /\ HwPort[b] \in Ports /\ SerialPort[b] \in Ports
       /\ <<"hw", b>> \in Servers /\ <<"com", b>> \in Servers
       /\ PortOf(<<"hw", b>>) = HwPort[b] /\ PortOf(<<"com", b>>) = SerialPort[b]
BY HostAssumption DEF Servers, PortOf, Ports

\* Only a board's own servers have its ports.
LEMMA OwnersAreOwn ==
  ASSUME NEW b \in Boards, NEW s \in Servers
  PROVE  /\ PortOf(s) \in {HwPort[b], SerialPort[b]} => s[2] = b
         /\ PortOf(s) = SerialPort[b] /\ SerialPort[b] # HwPort[b] => s = <<"com", b>>
<1>1. s = <<s[1], s[2]>> /\ s[1] \in {"hw", "com"} /\ s[2] \in Boards
  BY DEF Servers
<1>2. PortOf(s) \in {HwPort[s[2]], SerialPort[s[2]]}
  BY DEF PortOf
<1>3. PortOf(s) \in {HwPort[b], SerialPort[b]} => s[2] = b
  BY <1>1, <1>2, HostAssumption
<1>4. s[1] = "hw" => PortOf(s) = HwPort[s[2]]
  BY DEF PortOf
<1> QED
  BY <1>1, <1>3, <1>4

\* What a kill and a start make of the ports.
LEMMA PortsKeptTyped ==
  ASSUME NEW ports \in [Ports -> Servers \cup {NULL}],
         \A p \in Ports : ports[p] # NULL => PortOf(ports[p]) = p,
         NEW q \in Ports, NEW s \in Servers,
         NEW result \in StopOwner(ports, q) \cup {TakePort(ports, s)}
  PROVE  /\ result \in [Ports -> Servers \cup {NULL}]
         /\ \A p \in Ports : result[p] # NULL => PortOf(result[p]) = p
         /\ result \in StopOwner(ports, q) => \A p \in Ports \ {q} : result[p] = ports[p]
         /\ result = TakePort(ports, s) =>
              \A p \in Ports : p # PortOf(s) \/ ports[p] # NULL => result[p] = ports[p]
<1>1. PortOf(s) \in Ports
  BY PortsTyped
<1>2. CASE result \in StopOwner(ports, q)
  <2>1. result = ports \/ result = [ports EXCEPT ![q] = NULL]
    BY <1>2 DEF StopOwner
  <2>2. NULL \notin Servers
    BY HostAssumption
  <2> QED
    BY <1>1, <2>1, <2>2 DEF TakePort
<1>3. CASE result = TakePort(ports, s)
  <2>1. /\ result \in [Ports -> Servers \cup {NULL}]
        /\ \A p \in Ports :
             result[p] = IF p = PortOf(s) /\ ports[p] = NULL THEN s ELSE ports[p]
    BY <1>1, <1>3 DEF TakePort
  <2>2. \A r \in StopOwner(ports, q) : r = ports \/ r = [ports EXCEPT ![q] = NULL]
    BY DEF StopOwner
  <2> QED
    BY <1>1, <2>1, <2>2
<1> QED
  BY <1>2, <1>3

-----------------------------------------------------------------------------
(* The initial states.                                                     *)

LEMMA HostInitInv ==
  ASSUME HostInit
  PROVE  HostInv
<1>1. \A p \in Ports : \E s \in Servers : PortOf(s) = p
  BY PortsTyped DEF Ports
<1>2. \A p \in Ports : /\ (CHOOSE s \in Servers : PortOf(s) = p) \in Servers
                       /\ PortOf(CHOOSE s \in Servers : PortOf(s) = p) = p
  BY <1>1
<1>3. /\ listening \in [Ports -> Servers \cup {NULL}] /\ PortsOwn
      /\ extracted \in [Boards -> Bitfiles \cup {NULL}]
      /\ installed \in [Boards -> Bitfiles \cup {NULL}]
  BY <1>2 DEF HostInit, HostLeftBy, PortsOwn
<1>4. HostTypeOK
  BY <1>3 DEF HostInit, HostTypeOK
<1>5. \A c \in Sessions : call[c] = "none"
  BY DEF HostInit
<1>6. BoardsApart /\ \A c \in Sessions : SoFar(c)
  BY <1>5, CallOrder DEF BoardsApart, Active, SoFar, OnBoard, ZipFree, Bridging, Tries
<1> QED
  BY <1>3, <1>4, <1>6 DEF HostInv

-----------------------------------------------------------------------------
(* What a step of a session does to the host.                              *)

\* Every command keeps the host's variables to their values, and a port to the
\* servers that were started on it.
LEMMA DoKeepsPorts ==
  ASSUME HostTypeOK, PortsOwn, NEW c \in Sessions, board[c] \in Boards, bitfile[c] \in Bitfiles,
         Do(c) \/ ExtractTo(c, NULL)
  PROVE  /\ zips' \subseteq Sessions
         /\ extracted' \in [Boards -> Bitfiles \cup {NULL}]
         /\ installed' \in [Boards -> Bitfiles \cup {NULL}]
         /\ starting' \subseteq Servers
         /\ listening' \in [Ports -> Servers \cup {NULL}]
         /\ PortsOwn'
<1> USE DEF HostTypeOK, PortsOwn
<1>0. /\ Hw(c) \in Servers /\ Com(c) \in Servers
      /\ HwPort[board[c]] \in Ports /\ SerialPort[board[c]] \in Ports
      /\ \A s \in Servers : PortOf(s) \in Ports
  BY PortsTyped DEF Hw, Com
<1>1. ASSUME NEW s \in {Hw(c), Com(c)}, Restart(s)
      PROVE  /\ UNCHANGED <<zips, extracted, installed>>
             /\ starting' \subseteq Servers
             /\ listening' \in [Ports -> Servers \cup {NULL}] /\ PortsOwn'
  <2>1. PICK ports \in StopOwner(listening, PortOf(s)) :
          \/ listening' = TakePort(ports, s) /\ UNCHANGED starting
          \/ listening' = ports /\ starting' = starting \cup {s}
    BY <1>1 DEF Restart
  <2>2. /\ ports \in [Ports -> Servers \cup {NULL}]
        /\ \A p \in Ports : ports[p] # NULL => PortOf(ports[p]) = p
    BY <1>0, <1>1, PortsKeptTyped
  <2>3. /\ TakePort(ports, s) \in [Ports -> Servers \cup {NULL}]
        /\ \A p \in Ports : TakePort(ports, s)[p] # NULL => PortOf(TakePort(ports, s)[p]) = p
    BY <1>0, <1>1, <2>2, PortsKeptTyped
  <2> QED
    BY <1>0, <1>1, <2>1, <2>2, <2>3 DEF Restart
<1>2. CASE CleanZip(c) \/ UploadZip(c) \/ ExtractTo(c, bitfile[c]) \/ ExtractTo(c, NULL)
  BY <1>2 DEF CleanZip, UploadZip, ExtractTo
<1>3. CASE RunVivado(c)
  BY <1>3 DEF RunVivado
<1>4. CASE StopHw(c)
  <2>1. /\ listening' \in [Ports -> Servers \cup {NULL}]
        /\ \A p \in Ports : listening'[p] # NULL => PortOf(listening'[p]) = p
    BY <1>0, <1>4, PortsKeptTyped DEF StopHw
  <2> QED
    BY <1>4, <2>1 DEF StopHw
<1>5. CASE UNCHANGED hostVars
  BY <1>5 DEF hostVars
<1> QED
  BY <1>1, <1>2, <1>3, <1>4, <1>5 DEF Do, Await

\* It changes nothing of the other boards and no other session's zip.
Elsewhere(c) ==
  /\ \A e \in Sessions \ {c} : e \in zips' <=> e \in zips
  /\ \A b \in Boards \ {board[c]} :
       /\ extracted'[b] = extracted[b] /\ installed'[b] = installed[b]
       /\ listening'[HwPort[b]] = listening[HwPort[b]]
       /\ listening'[SerialPort[b]] = listening[SerialPort[b]]

LEMMA PortsOfOthers ==
  ASSUME HostTypeOK, PortsOwn, NEW a \in Boards,
         NEW q \in {HwPort[a], SerialPort[a]},
         NEW s \in Servers, PortOf(s) = q,
         NEW ports \in StopOwner(listening, q),
         NEW b \in Boards \ {a}, NEW p \in {HwPort[b], SerialPort[b]}
  PROVE  /\ p \in Ports /\ p # q
         /\ ports[p] = listening[p]
         /\ TakePort(ports, s)[p] = listening[p]
<1>1. p \in Ports /\ q \in Ports
  BY PortsTyped
<1>2. p # q
  BY HostAssumption
<1>3. ports \in [Ports -> Servers \cup {NULL}] /\ ports[p] = listening[p]
  BY <1>1, <1>2, PortsKeptTyped DEF HostTypeOK, PortsOwn
<1>4. TakePort(ports, s)[p] = ports[p]
  BY <1>1, <1>2, <1>3 DEF TakePort
<1> QED
  BY <1>1, <1>2, <1>3, <1>4

LEMMA DoKeepsElsewhere ==
  ASSUME HostTypeOK, PortsOwn, NEW c \in Sessions, board[c] \in Boards,
         Do(c) \/ ExtractTo(c, NULL)
  PROVE  Elsewhere(c)
<1>0. /\ Hw(c) \in Servers /\ PortOf(Hw(c)) = HwPort[board[c]]
      /\ Com(c) \in Servers /\ PortOf(Com(c)) = SerialPort[board[c]]
  BY PortsTyped DEF Hw, Com
<1>1. ASSUME NEW s \in {Hw(c), Com(c)}, Restart(s)
      PROVE  Elsewhere(c)
  <2>1. PICK ports \in StopOwner(listening, PortOf(s)) :
          listening' \in {TakePort(ports, s), ports}
    BY <1>1 DEF Restart
  <2>2. ASSUME NEW b \in Boards \ {board[c]}, NEW p \in {HwPort[b], SerialPort[b]}
        PROVE  listening'[p] = listening[p]
    BY <1>0, <1>1, <2>1, <2>2, PortsOfOthers
  <2> QED
    BY <1>1, <2>2 DEF Restart, Elsewhere
<1>2. CASE CleanZip(c) \/ UploadZip(c)
  BY <1>2 DEF CleanZip, UploadZip, Elsewhere, HostTypeOK
<1>3. CASE ExtractTo(c, bitfile[c]) \/ ExtractTo(c, NULL)
  BY <1>3 DEF ExtractTo, Elsewhere, HostTypeOK
<1>4. CASE RunVivado(c)
  <2>1. Owner(c) \in Servers /\ PortOf(Owner(c)) = HwPort[board[c]]
    BY <1>4, PortsTyped DEF RunVivado, Programmable, Owner, HostTypeOK, PortsOwn
  <2>2. Owner(c)[2] = board[c]
    BY <2>1, OwnersAreOwn
  <2> QED
    BY <1>4, <2>2 DEF RunVivado, Elsewhere, HostTypeOK
<1>5. CASE StopHw(c)
  <2>1. ASSUME NEW b \in Boards \ {board[c]}, NEW p \in {HwPort[b], SerialPort[b]}
        PROVE  listening'[p] = listening[p]
    BY <1>0, <1>5, <2>1, PortsOfOthers DEF StopHw
  <2> QED
    BY <1>5, <2>1 DEF StopHw, Elsewhere
<1>6. CASE UNCHANGED hostVars
  BY <1>6 DEF hostVars, Elsewhere
<1> QED
  BY <1>1, <1>2, <1>3, <1>4, <1>5, <1>6 DEF Do, Await

-----------------------------------------------------------------------------
(* What a step of a session does to the sessions.                          *)

Untouched(e) ==
  /\ call'[e] = call[e] /\ board'[e] = board[e] /\ bitfile'[e] = bitfile[e]
  /\ failed'[e] = failed[e] /\ (e \in litter' <=> e \in litter)
  /\ (e \in crossed' <=> e \in crossed)

\* A session keeps what it has made of the host while others step.
LEMMA OthersSoFar ==
  ASSUME NEW c \in Sessions, NEW e \in Sessions \ {c}, SoFar(e), Elsewhere(c), Untouched(e),
         Active(e) => board[e] \in Boards /\ (board[e] # board[c] \/ e \in crossed)
  PROVE  SoFar(e)'
<1>1. CASE Active(e)
  <2>1. e \notin crossed => OnBoard(e)'
    BY <1>1 DEF SoFar, OnBoard, Elsewhere, Untouched, Bridged, Com
  <2> QED
    BY <2>1 DEF SoFar, Elsewhere, Untouched
<1>2. CASE ~Active(e)
  BY <1>2, CallOrder DEF Active, SoFar, OnBoard, Untouched, ZipFree, Bridging, Tries
<1> QED
  BY <1>1, <1>2

\* The bridge that is waited for is the board's own.
LEMMA BridgeFound ==
  ASSUME HostTypeOK, PortsOwn, NEW c \in Sessions, board[c] \in Boards,
         listening[PortOf(Com(c))] # NULL, SerialPort[board[c]] # HwPort[board[c]]
  PROVE  Bridged(c)
<1>1. /\ SerialPort[board[c]] \in Ports
      /\ PortOf(Com(c)) = SerialPort[board[c]]
  BY PortsTyped DEF Com
<1>2. /\ listening[SerialPort[board[c]]] \in Servers
      /\ PortOf(listening[SerialPort[board[c]]]) = SerialPort[board[c]]
  BY <1>1 DEF HostTypeOK, PortsOwn
<1> QED
  BY <1>2, OwnersAreOwn DEF Bridged, Com

\* A call that succeeds.
LEMMA ProceedSoFar ==
  ASSUME HostInv, NEW c \in Sessions, Proceed(c)
  PROVE  SoFar(c)'
<1> USE CallOrder DEF Tries, ZipFree, Bridging
<1>0. /\ call[c] \in Tries /\ Do(c) /\ SoFar(c) /\ Active(c)
      /\ call'[c] = NextCall(c) /\ board' = board /\ bitfile' = bitfile
      /\ failed' = failed /\ litter' = litter /\ crossed' = crossed
      /\ board[c] \in Boards /\ bitfile[c] \in Bitfiles
  BY DEF HostInv, HostTypeOK, Proceed, Goto, Active, BoardsApart
<1>1. CASE call[c] \in {"start_hw", "start_com"}
  <2>1. zips' = zips /\ call'[c] \in {"start_com", "wait_com"}
    BY <1>0, <1>1 DEF Do, Restart, NextCall, Cleaning
  <2> QED
    BY <1>0, <1>1, <2>1 DEF SoFar, OnBoard
<1>2. CASE call[c] \in {"wait_com", "wait_hw"}
  <2>1. /\ UNCHANGED hostVars
        /\ \/ call[c] = "wait_com" /\ call'[c] = "wait_hw" /\ listening[PortOf(Com(c))] # NULL
           \/ call[c] = "wait_hw" /\ call'[c] = "clean_before"
    BY <1>0, <1>2 DEF Do, Await, NextCall, Cleaning
  <2>2. c \notin crossed /\ SerialPort[board[c]] # HwPort[board[c]] => Bridged(c)
    BY <1>0, <2>1, BridgeFound DEF HostInv, SoFar, OnBoard
  <2> QED
    BY <1>0, <2>1, <2>2 DEF SoFar, OnBoard, hostVars, Bridged, Com
<1>3. CASE call[c] \in Cleaning
  <2>1. /\ zips' = zips \ {c} /\ UNCHANGED <<extracted, listening, installed>>
        /\ \/ call[c] = "clean_before" /\ call'[c] = "upload"
           \/ call[c] = "clean_after" /\ call'[c] = "vivado"
           \/ call[c] = "final_clean" /\ failed[c] /\ call'[c] = "stop_all"
           \/ call[c] = "final_clean" /\ ~failed[c] /\ call'[c] = "stop_hw"
    BY <1>0, <1>3 DEF Do, CleanZip, NextCall, Cleaning
  <2> QED
    BY <1>0, <2>1 DEF SoFar, OnBoard, Bridged, Com
<1>4. CASE call[c] = "upload"
  <2>1. call'[c] = "extract" /\ UNCHANGED <<extracted, listening, installed>>
    BY <1>0, <1>4 DEF Do, UploadZip, NextCall, Cleaning
  <2> QED
    BY <1>0, <1>4, <2>1 DEF SoFar, OnBoard, Bridged, Com
<1>5. CASE call[c] = "extract"
  <2>1. /\ call'[c] = "clean_after" /\ UNCHANGED <<zips, listening, installed>>
        /\ extracted'[board[c]] = bitfile[c]
    BY <1>0, <1>5 DEF Do, ExtractTo, NextCall, Cleaning, HostInv, HostTypeOK
  <2> QED
    BY <1>0, <1>5, <2>1 DEF SoFar, OnBoard, Bridged, Com
<1>6. CASE call[c] = "vivado"
  <2>1. RunVivado(c) /\ call'[c] = "final_clean"
    BY <1>0, <1>6 DEF Do, NextCall, Cleaning
  <2>2. Owner(c) \in Servers /\ PortOf(Owner(c)) = HwPort[board[c]]
    <3>1. HwPort[board[c]] \in Ports /\ Owner(c) # NULL
      BY <1>0, <2>1, PortsTyped DEF RunVivado, Programmable
    <3>2. listening \in [Ports -> Servers \cup {NULL}] /\ PortsOwn
      BY DEF HostInv, HostTypeOK
    <3> QED
      BY <3>1, <3>2 DEF Owner, PortsOwn
  <2>3. Owner(c)[2] = board[c]
    BY <1>0, <2>2, OwnersAreOwn
  <2>4. /\ c \notin crossed => installed'[board[c]] = bitfile[c]
        /\ listening' = listening
    BY <1>0, <1>6, <2>1, <2>3 DEF RunVivado, SoFar, OnBoard, HostInv, HostTypeOK
  <2> QED
    BY <1>0, <1>6, <2>1, <2>4 DEF SoFar, OnBoard, Bridged, Com
<1>7. CASE call[c] = "stop_hw"
  <2>1. /\ call'[c] = "serial" /\ UNCHANGED <<zips, installed>>
        /\ listening' \in StopOwner(listening, HwPort[board[c]])
    BY <1>0, <1>7 DEF Do, StopHw, NextCall, Cleaning
  <2>2. HwPort[board[c]] \in Ports /\ SerialPort[board[c]] \in Ports /\ Com(c) \in Servers
    BY <1>0, PortsTyped DEF Com
  <2>3. SerialPort[board[c]] # HwPort[board[c]]
          => listening'[SerialPort[board[c]]] = listening[SerialPort[board[c]]]
    BY <2>1, <2>2, PortsKeptTyped DEF HostInv, HostTypeOK, PortsOwn
  <2> QED
    BY <1>0, <1>7, <2>1, <2>3 DEF SoFar, OnBoard, Bridged, Com
<1> QED
  BY <1>0, <1>1, <1>2, <1>3, <1>4, <1>5, <1>6, <1>7 DEF Cleaning

\* A call that raises, with or without having had its effect.
LEMMA RaisesSoFar ==
  ASSUME HostInv, NEW c \in Sessions, Raises(c)
  PROVE  SoFar(c)'
<1> USE CallOrder DEF Tries, ZipFree, Bridging
<1>0. /\ call[c] \in Tries /\ SoFar(c)
      /\ Do(c) \/ UNCHANGED hostVars \/ (call[c] = "extract" /\ ExtractTo(c, NULL))
      /\ call'[c] = Handler(c) /\ board' = board /\ bitfile' = bitfile /\ failed'[c]
      /\ crossed' = crossed
      /\ litter' = IF call[c] = "final_clean" THEN litter \cup {c} ELSE litter
  BY DEF HostInv, HostTypeOK, Raises, Goto
<1>1. CASE call[c] \in Unzipping
  <2>1. call'[c] = "final_clean" /\ listening' = listening
    BY <1>0, <1>1 DEF Unzipping, Handler, Do, Cleaning, UploadZip, ExtractTo, CleanZip, RunVivado, hostVars
  <2> QED
    BY <1>0, <1>1, <2>1 DEF Unzipping, SoFar, OnBoard, Bridged, Com
<1>2. CASE call[c] \notin Unzipping
  <2>1. call'[c] = "stop_all" /\ zips' \subseteq zips
    BY <1>0, <1>2 DEF Unzipping, Handler, Do, Cleaning, CleanZip, Restart, Await, StopHw, hostVars
  <2> QED
    BY <1>0, <1>2, <2>1 DEF Unzipping, SoFar, OnBoard
<1> QED
  BY <1>1, <1>2

-----------------------------------------------------------------------------
(* Every step keeps the invariant.                                         *)

\* Sessions that go on, end or hang keep their boards.
LEMMA BoardsStayApart ==
  ASSUME BoardsApart,
         \A e \in Sessions :
           \/ call'[e] = "none"
           \/ /\ Active(e) /\ board'[e] = board[e] /\ bitfile'[e] = bitfile[e]
              /\ e \in crossed => e \in crossed'
  PROVE  BoardsApart'
BY DEF BoardsApart, Active

LEMMA SessionStepCalls ==
  ASSUME HostTypeOK, NEW c \in Sessions, SessionStep(c)
  PROVE  /\ call[c] \in Tries \cup {"stop_all"}
         /\ call'[c] \in Tries \cup {"serial", "stop_all", "closed"}
         /\ call[c] = "stop_all" => call'[c] = "closed"
         /\ call' \in [Sessions -> Tries \cup {"none", "serial", "stop_all", "closed", "hung"}]
         /\ board' = board /\ bitfile' = bitfile /\ crossed' = crossed
         /\ failed' \in [Sessions -> BOOLEAN] /\ litter' \in {litter, litter \cup {c}}
         /\ \A e \in Sessions \ {c} : call'[e] = call[e] /\ failed'[e] = failed[e]
<1>1. PICK next \in Tries \cup {"serial", "stop_all", "closed"} :
        Goto(c, next) /\ (call[c] = "stop_all" => next = "closed")
  <2>1. NextCall(c) \in Tries \cup {"serial", "stop_all"} \/ call[c] \notin Tries
    BY CallOrder DEF NextCall, Tries
  <2>2. Handler(c) \in {"final_clean", "stop_all"}
    BY DEF Handler
  <2> QED
    BY <2>1, <2>2, CallOrder DEF SessionStep, Proceed, Raises, StopAll, Tries
<1>2. /\ board' = board /\ bitfile' = bitfile /\ crossed' = crossed
      /\ failed' \in [Sessions -> BOOLEAN] /\ litter' \in {litter, litter \cup {c}}
      /\ \A e \in Sessions \ {c} : failed'[e] = failed[e]
  BY DEF HostTypeOK, SessionStep, Proceed, Raises, StopAll
<1>3. call[c] \in Tries \cup {"stop_all"}
  BY CallOrder DEF SessionStep, Proceed, Raises, StopAll
<1> QED
  BY <1>1, <1>2, <1>3, CallOrder DEF HostTypeOK, Goto

LEMMA SessionStepKeepsInv ==
  ASSUME HostInv, NEW c \in Sessions, SessionStep(c)
  PROVE  HostInv'
<1> USE DEF HostInv
<1>0. /\ call[c] \in Tries \cup {"stop_all"} /\ Active(c)
      /\ board[c] \in Boards /\ bitfile[c] \in Bitfiles
  BY CallOrder DEF SessionStep, Proceed, Raises, StopAll, Active, Tries, BoardsApart
<1>1. /\ call' \in [Sessions -> DOMAIN After \cup {"none", "serial", "stop_all", "closed", "hung"}]
      /\ board' = board /\ bitfile' = bitfile /\ crossed' = crossed
      /\ failed' \in [Sessions -> BOOLEAN] /\ litter' \subseteq Sessions
      /\ call'[c] # "none"
      /\ \A e \in Sessions \ {c} : Untouched(e)
  BY SessionStepCalls, CallOrder DEF HostTypeOK, Tries, Untouched
<1>2. BoardsApart'
  BY <1>0, <1>1, BoardsStayApart DEF Untouched, Active, BoardsApart
<1>3. /\ HostTypeOK' /\ PortsOwn' /\ Elsewhere(c)
      /\ StopAll(c) => zips' = zips
  <2>1. CASE StopAll(c)
    <3>0. /\ HwPort[board[c]] \in Ports /\ SerialPort[board[c]] \in Ports
          /\ Hw(c) \in Servers /\ Com(c) \in Servers
          /\ PortOf(Hw(c)) = HwPort[board[c]] /\ PortOf(Com(c)) = SerialPort[board[c]]
      BY <1>0, PortsTyped DEF Hw, Com
    <3>1. PICK ports \in StopOwner(listening, HwPort[board[c]]) :
            \/ listening' \in StopOwner(ports, SerialPort[board[c]])
            \/ listening' \in {listening, ports}
      BY <2>1 DEF StopAll, StopOwner
    <3>2. /\ ports \in [Ports -> Servers \cup {NULL}]
          /\ \A p \in Ports : ports[p] # NULL => PortOf(ports[p]) = p
          /\ \A p \in Ports \ {HwPort[board[c]]} : ports[p] = listening[p]
      BY <3>0, PortsKeptTyped DEF HostTypeOK, PortsOwn
    <3>3. /\ listening' \in [Ports -> Servers \cup {NULL}]
          /\ \A p \in Ports : listening'[p] # NULL => PortOf(listening'[p]) = p
          /\ \A p \in Ports \ {HwPort[board[c]], SerialPort[board[c]]} : listening'[p] = listening[p]
      <4>1. CASE listening' \in StopOwner(ports, SerialPort[board[c]])
        <5>1. /\ listening' \in [Ports -> Servers \cup {NULL}]
              /\ \A p \in Ports : listening'[p] # NULL => PortOf(listening'[p]) = p
              /\ \A p \in Ports \ {SerialPort[board[c]]} : listening'[p] = ports[p]
          BY <3>0, <3>2, <4>1, PortsKeptTyped
        <5> QED
          BY <3>2, <5>1
      <4>2. CASE listening' \in {listening, ports}
        BY <3>2, <4>2 DEF HostTypeOK, PortsOwn
      <4> QED
        BY <3>1, <4>1, <4>2
    <3>4. UNCHANGED <<zips, extracted, starting, installed>>
      BY <2>1 DEF StopAll
    <3>5. \A b \in Boards \ {board[c]} :
            /\ HwPort[b] \in Ports \ {HwPort[board[c]], SerialPort[board[c]]}
            /\ SerialPort[b] \in Ports \ {HwPort[board[c]], SerialPort[board[c]]}
      BY <1>0, PortsTyped, HostAssumption
    <3>6. HostTypeOK'
      BY <1>1, <3>3, <3>4 DEF HostTypeOK
    <3> QED
      BY <3>3, <3>4, <3>5, <3>6 DEF PortsOwn, Elsewhere
  <2>2. CASE Do(c) \/ ExtractTo(c, NULL)
    <3>1. /\ zips' \subseteq Sessions
          /\ extracted' \in [Boards -> Bitfiles \cup {NULL}]
          /\ installed' \in [Boards -> Bitfiles \cup {NULL}]
          /\ starting' \subseteq Servers
          /\ listening' \in [Ports -> Servers \cup {NULL}]
          /\ PortsOwn'
      BY <1>0, <2>2, DoKeepsPorts
    <3>2. HostTypeOK'
      BY <1>1, <3>1 DEF HostTypeOK
    <3>3. Elsewhere(c)
      BY <1>0, <2>2, DoKeepsElsewhere
    <3> QED
      BY <3>1, <3>2, <3>3 DEF StopAll
  <2>3. CASE UNCHANGED hostVars
    BY <1>1, <2>3 DEF hostVars, HostTypeOK, PortsOwn, Elsewhere
  <2> QED
    BY <2>1, <2>2, <2>3 DEF SessionStep, Proceed, Raises
<1>4. SoFar(c)'
  <2>1. CASE StopAll(c)
    <3>1. /\ call[c] = "stop_all" /\ call'[c] = "closed" /\ zips' = zips /\ litter' = litter
      BY <2>1 DEF StopAll, Goto, HostTypeOK
    <3> QED
      BY <3>1, CallOrder DEF SoFar, OnBoard, ZipFree, Bridging, Tries
  <2> QED
    BY <2>1, ProceedSoFar, RaisesSoFar DEF SessionStep
<1>5. \A e \in Sessions \ {c} : SoFar(e)'
  BY <1>0, <1>1, <1>3, OthersSoFar DEF BoardsApart
<1> QED
  BY <1>2, <1>3, <1>4, <1>5

\* Steps of a session that leave the host alone.
LEMMA QuietStepKeepsInv ==
  ASSUME HostInv, NEW c \in Sessions,
         CloseSession(c) \/ Hang(c) \/ \E ok \in BOOLEAN : EndSerial(c, ok)
  PROVE  HostInv'
<1> USE DEF HostInv
<1>1. /\ UNCHANGED hostVars /\ litter' = litter
      /\ Active(c) /\ call'[c] \in {"none", "hung", "stop_all"}
      /\ call'[c] = "stop_all" => call[c] = "serial"
      /\ call'[c] # "none" =>
           board'[c] = board[c] /\ bitfile'[c] = bitfile[c] /\ crossed' = crossed
      /\ \A e \in Sessions \ {c} : Untouched(e)
  BY CallOrder DEF HostTypeOK, CloseSession, Hang, EndSerial, Goto, Untouched, Active, Tries
<1>2. HostTypeOK'
  BY CallOrder DEF HostTypeOK, CloseSession, Hang, EndSerial, Goto, hostVars
<1>3. BoardsApart'
  BY <1>1, BoardsStayApart DEF Untouched, Active
<1>4. PortsOwn'
  BY <1>1 DEF hostVars, PortsOwn
<1>5. SoFar(c)'
  BY <1>1, CallOrder DEF hostVars, SoFar, OnBoard, ZipFree, Bridging, Tries
<1>6. Elsewhere(c)
  BY <1>1 DEF hostVars, Elsewhere
<1>7. \A e \in Sessions \ {c} : SoFar(e)'
  BY <1>1, <1>6, OthersSoFar DEF BoardsApart
<1> QED
  BY <1>2, <1>3, <1>4, <1>5, <1>7

LEMMA OpenKeepsInv ==
  ASSUME HostInv, NEW c \in Sessions, NEW b \in Boards, NEW d \in Bitfiles,
         OpenSession(c, b, d)
  PROVE  HostInv'
<1> USE DEF HostInv
<1>1. /\ call'[c] = "start_hw" /\ board'[c] = b /\ bitfile'[c] = d
      /\ ~failed'[c] /\ c \notin zips'
      /\ zips' = zips \ {c} /\ UNCHANGED <<extracted, starting, listening, installed>>
      /\ litter' = litter \ {c}
      /\ crossed' = IF AtBoard(b) = {} THEN crossed ELSE crossed \cup AtBoard(b) \cup {c}
      /\ \A e \in Sessions \ {c} :
           /\ call'[e] = call[e] /\ board'[e] = board[e] /\ bitfile'[e] = bitfile[e]
           /\ failed'[e] = failed[e]
  BY DEF HostTypeOK, OpenSession, Goto
<1>2. HostTypeOK'
  BY CallOrder DEF HostTypeOK, OpenSession, Goto, Tries, AtBoard
<1>3. BoardsApart'
  <2>1. \A e \in Sessions \ {c} : Active(e) /\ board[e] = b => {c, e} \subseteq crossed'
    BY <1>1 DEF AtBoard, Active
  <2>2. crossed \subseteq crossed'
    BY <1>1
  <2> QED
    BY <1>1, <2>1, <2>2 DEF BoardsApart, Active
<1>4. PortsOwn'
  BY <1>1 DEF PortsOwn
<1>5. SoFar(c)'
  BY <1>1, CallOrder DEF SoFar, OnBoard, ZipFree, Bridging, Tries
<1>6. ASSUME NEW e \in Sessions \ {c}
      PROVE  SoFar(e)'
  <2>1. e \in crossed => e \in crossed'
    BY <1>1
  <2>2. OnBoard(e) => OnBoard(e)'
    BY <1>1, <1>6 DEF OnBoard, Bridged, Com
  <2> QED
    BY <1>1, <1>6, <2>1, <2>2 DEF SoFar
<1> QED
  BY <1>2, <1>3, <1>4, <1>5, <1>6

\* A late server takes a port only when it is free.
LEMMA ComeUpKeepsInv ==
  ASSUME HostInv, NEW s \in Servers, ComeUp(s)
  PROVE  HostInv'
<1> USE DEF HostInv
<1>1. PortOf(s) \in Ports
  BY PortsTyped
<1>2. /\ listening' \in [Ports -> Servers \cup {NULL}]
      /\ \A p \in Ports : listening'[p] # NULL => PortOf(listening'[p]) = p
      /\ \A p \in Ports : listening[p] # NULL => listening'[p] = listening[p]
  BY <1>1, PortsKeptTyped DEF ComeUp, HostTypeOK, PortsOwn
<1>3. UNCHANGED <<call, board, bitfile, failed, litter, crossed, zips, extracted, installed>>
  BY DEF ComeUp, sessionVars
<1>4. HostTypeOK'
  BY <1>2, <1>3 DEF ComeUp, HostTypeOK
<1>5. BoardsApart'
  BY <1>3 DEF BoardsApart, Active
<1>6. ASSUME NEW c \in Sessions
      PROVE  SoFar(c)'
  <2>1. ASSUME Active(c), Bridged(c)
        PROVE  Bridged(c)'
    <3>1. SerialPort[board[c]] \in Ports /\ Com(c) \in Servers
      BY <2>1, PortsTyped DEF BoardsApart, Com
    <3>2. listening[SerialPort[board[c]]] # NULL
      BY <2>1, <3>1, PortsTyped DEF Bridged
    <3> QED
      BY <1>2, <1>3, <2>1, <3>1, <3>2 DEF Bridged, Com
  <2>2. call[c] \in Bridging => Active(c)
    BY DEF Bridging, Active
  <2> QED
    BY <1>3, <2>1, <2>2 DEF SoFar, OnBoard
<1> QED
  BY <1>2, <1>4, <1>5, <1>6 DEF PortsOwn

LEMMA HostNextKeepsInv ==
  ASSUME HostInv, [HostNext]_remoteVars
  PROVE  HostInv'
<1>1. CASE UNCHANGED remoteVars
  BY <1>1 DEF remoteVars, sessionVars, hostVars, HostInv, HostTypeOK, BoardsApart, PortsOwn,
              SoFar, OnBoard, Active, Bridged, Com
<1> QED
  BY <1>1, SessionStepKeepsInv, QuietStepKeepsInv, OpenKeepsInv, ComeUpKeepsInv DEF HostNext

-----------------------------------------------------------------------------
(* The results.                                                            *)

\* Whatever breaks, hangs or comes late, the invariant holds.
THEOREM HostInvHolds == HostSpec => []HostInv
<1>1. [HostNext /\ UNCHANGED faults]_<<remoteVars, faults>> => [HostNext]_remoteVars
  OBVIOUS
<1> QED
  BY <1>1, HostInitInv, HostNextKeepsInv, PTL DEF HostSpec

\* Every variable of the sessions and of the host keeps to its type.
THEOREM HostTyped == HostSpec => []HostTypeOK
<1>1. HostInv => HostTypeOK
  BY DEF HostInv
<1> QED
  BY <1>1, HostInvHolds, PTL

\* A session that gets to read the display has programmed its own bitstream, if no
\* other was given its board during the attempt.
THEOREM OwnBitfileRead == HostSpec => []ReadsOwnBitfile
<1>1. HostInv => ReadsOwnBitfile
  BY DEF HostInv, SoFar, OnBoard, ReadsOwnBitfile
<1> QED
  BY <1>1, HostInvHolds, PTL

\* A zip stays on the host only when its last cleanup failed.
THEOREM ZipsCleaned == HostSpec => []NoZipLeft
<1>1. HostInv => NoZipLeft
  BY DEF HostInv, SoFar, NoZipLeft, ZipFree
<1> QED
  BY <1>1, HostInvHolds, PTL

\* A serial port of its own keeps the bridge alive through the stop of hw_server, on a
\* board that is not shared.
THEOREM BridgeStays == HostSpec => []BridgeOutlivesHwServer
<1>1. HostInv => BridgeOutlivesHwServer
  BY DEF HostInv, SoFar, OnBoard, BridgeOutlivesHwServer, Bridging
<1> QED
  BY <1>1, HostInvHolds, PTL
=============================================================================
