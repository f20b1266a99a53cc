-------------------------------- MODULE Telnet --------------------------------
(***************************************************************************)
(* What the reader makes of the bytes of one recv, a piece of the bridge's *)
(* stream: payload of the board, and answers to Telnet requests.  The      *)
(* reader keeps nothing of a piece for the next one.                       *)
(***************************************************************************)
EXTENDS Naturals, SequencesExt

CONSTANTS
  Bytes,           \* the bytes that differ: commands, options and others
  Sendable,        \* those that the bridge sends as data or in a command of its own
  UNITS            \* bound: units that begin in one piece

Verbs   == {"DO", "DONT", "WILL", "WONT"}
Options == {"BINARY", "SUPPRESS_GO_AHEAD", "COM_PORT"}

ASSUME TelnetAssumption ==
  /\ {"IAC", "SB", "SE"} \cup Verbs \cup Options \subseteq Bytes
  /\ Sendable \subseteq Bytes
  /\ UNITS \in Nat

VARIABLES
  rest,            \* what is still to come of a unit that was broken off
  piece            \* what was made of the piece in hand

telnetVars == <<rest, piece>>

-----------------------------------------------------------------------------
(* handle_telnet_and_extract_payload.                                      *)

\* An option is agreed to or refused; giving up one that was agreed to is
\* answered as well.
TelnetResponse(command, option) ==
  CASE command = "DO" /\ option \in Options   -> <<"IAC", "WILL", option>>
    [] command = "WILL" /\ option \in Options -> <<"IAC", "DO", option>>
    [] command \in {"DO", "DONT"} /\ ~(command = "DO" /\ option \in Options)
         -> <<"IAC", "WONT", option>>
    [] command \in {"WILL", "WONT"} /\ ~(command = "WILL" /\ option \in Options)
         -> <<"IAC", "DONT", option>>

Holds(data, i, bytes) == i <= Len(data) /\ data[i] \in bytes

\* The SE is left to be read (a mutant of EndOfSubnegotiation).
BeforeSE(data, i) ==
  LET ends == {j \in i + 2 .. Len(data) : data[j] = "IAC" /\ Holds(data, j + 1, {"SE"})}
  IN  IF ends = {} THEN Len(data) + 1 ELSE Min(ends) + 1

\* Past the first IAC SE, or at the end of the piece when there is none.
EndOfSubnegotiation(data, i) ==
  LET ends == {j \in i + 2 .. Len(data) : data[j] = "IAC" /\ Holds(data, j + 1, {"SE"})}
  IN  IF ends = {} THEN Len(data) + 1 ELSE Min(ends) + 2

\* A request, unless the piece ends before its option.
Requested(data, i) ==
  data[i] = "IAC" /\ Holds(data, i + 1, Verbs) /\ Holds(data, i + 2, Bytes)

\* Where the loop goes on after the byte at i.
Onward(data, i) ==
  IF data[i] # "IAC" THEN i + 1
  ELSE IF Holds(data, i + 1, {"SB"}) THEN EndOfSubnegotiation(data, i)
  ELSE IF Requested(data, i) THEN i + 3
  ELSE i + 2

\* What the byte at i adds to the payload and to the answers.
FoundAt(data, i) ==
  [payload |-> IF data[i] # "IAC" \/ Holds(data, i + 1, {"IAC"}) THEN <<data[i]>> ELSE <<>>,
   answers |-> IF Requested(data, i) THEN TelnetResponse(data[i + 1], data[i + 2]) ELSE <<>>]

\* What the loop collects of the one or the other, from each byte on.
CollectedFrom(data, kind) ==
  LET from[i \in Nat \ {0}] ==
        IF i > Len(data) THEN <<>> ELSE FoundAt(data, i)[kind] \o from[Onward(data, i)]
  IN  from

Collected(data, kind) == CollectedFrom(data, kind)[1]

-----------------------------------------------------------------------------
(* What hub4com sends: bytes of the board, requests, and notices of its    *)
(* own, the escape sequence doubled.                                       *)

EscapeIac(b) == IF b = "IAC" THEN <<b, b>> ELSE <<b>>

Data(b) == [bytes |-> EscapeIac(b), payload |-> <<b>>, answers |-> <<>>]

Request(command, option) ==
  [bytes |-> <<"IAC", command, option>>, payload |-> <<>>,
   answers |-> TelnetResponse(command, option)]

Subnegotiation(b) ==
  [bytes |-> <<"IAC", "SB", "COM_PORT">> \o EscapeIac(b) \o <<"IAC", "SE">>,
   payload |-> <<>>, answers |-> <<>>]

Units ==
  {Data(b) : b \in Sendable} \cup {Subnegotiation(b) : b \in Sendable}
    \cup {Request(command, option) : command \in Verbs, option \in Sendable \cup {"BINARY"}}

Streams == UNION {[1 .. n -> Units] : n \in 1 .. UNITS}

All(stream, field) == FlattenSeq([n \in DOMAIN stream |-> stream[n][field]])

-----------------------------------------------------------------------------

\* between: did it begin between two units?  held: the units that it holds whole.
NoPiece == [between |-> FALSE, held |-> <<>>, payload |-> <<>>, answers |-> <<>>]

TelnetInit == rest = <<>> /\ piece = NoPiece

\* recv brings the rest of a unit and the stream that follows, down to a byte of
\* its last unit.
RecvPiece(stream, cut) ==
  LET last == Last(stream).bytes
      data == rest \o All(Front(stream), "bytes") \o SubSeq(last, 1, cut)
  IN  /\ piece' = [between |-> rest = <<>>,
                   held    |-> IF cut = Len(last) THEN stream ELSE Front(stream),
                   payload |-> Collected(data, "payload"),
                   answers |-> Collected(data, "answers")]
      /\ rest' = SubSeq(last, cut + 1, Len(last))

DropPiece == piece' = NoPiece /\ UNCHANGED rest

\* From here on the bytes are not looked at.
EndOfBytes == piece' = NoPiece /\ rest' = <<>>

-----------------------------------------------------------------------------
(* Properties.                                                             *)

\* A piece that begins between two units gives the payload and the answers of
\* those it holds whole, in their order, wherever it breaks off: data that look
\* like commands stay data, and a command that is cut short adds nothing.  Of a piece
\* that begins inside a command nothing is said: the rest of it is taken for payload.
PieceUnderstood ==
  piece.between =>
    /\ piece.payload = All(piece.held, "payload")
    /\ piece.answers = All(piece.held, "answers")
=============================================================================
