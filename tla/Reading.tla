------------------------------- MODULE Reading --------------------------------
(***************************************************************************)
(* read_tcp_serial on its connection: pieces of bytes are received, and    *)
(* those with payload become samples of SerialReader.                      *)
(***************************************************************************)
EXTENDS SerialReader, Telnet

readingVars == <<vars, telnetVars>>

ReadingInit == Init /\ TelnetInit

\* Bytes are looked at until the board's payload begins, a bound; after that a
\* piece of payload is received as a sample at once.
RecvBytes ==
  /\ phase = "reading" /\ now < DEADLINE /\ pieces = 0
  /\ piece = NoPiece
  /\ \E stream \in Streams : \E cut \in 1 .. Len(Last(stream).bytes) : RecvPiece(stream, cut)
  /\ UNCHANGED vars

\* A piece without payload leaves the reader as it was.
HandlePiece ==
  /\ piece # NoPiece
  /\ \/ piece.payload = <<>> /\ DropPiece /\ UNCHANGED vars
     \/ piece.payload # <<>> /\ EndOfBytes /\ \E s \in Samples \cup {NULL} : Receive(s)

ReaderStep ==
  /\ piece = NoPiece
  /\ \/ pieces > 0 /\ \E s \in Samples \cup {NULL} : Receive(s)
     \/ ReceiveTimesOut \/ ReceiveEnd \/ ReceiveFails \/ ReachDeadline \/ Judge
  /\ UNCHANGED telnetVars

TimePasses == piece = NoPiece /\ Tick /\ UNCHANGED telnetVars

ReadingNext == RecvBytes \/ HandlePiece \/ ReaderStep \/ TimePasses

\* Time passes however fast pieces come, and the loop looks at it; nothing need
\* ever arrive.
ReadingSpec ==
  /\ ReadingInit /\ [][ReadingNext]_readingVars
  /\ SF_readingVars(TimePasses)
  /\ WF_readingVars(HandlePiece)
  /\ WF_readingVars(ReachDeadline /\ UNCHANGED telnetVars)
  /\ WF_readingVars(Judge /\ UNCHANGED telnetVars)
=============================================================================
