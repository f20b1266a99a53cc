---------------------------- MODULE DisplayParser ----------------------------
(***************************************************************************)
(* parse_signal_bytes of parser.py in a process with several threads.      *)
(*                                                                         *)
(* The board multiplexes its eight digits: a frame shows the left or the   *)
(* right half.  The parser pairs the newest left half with the newest      *)
(* right half and keeps both in globals of the module, which all threads   *)
(* of a process share.  A step is one access to a global: that is how      *)
(* finely the interpreter interleaves threads.                             *)
(***************************************************************************)
EXTENDS CommandFaults, Naturals, Sequences

CONSTANTS
  Threads,         \* threads of the process that read displays
  Halves           \* what four digits show

ASSUME ParserAssumption == NULL \notin Halves

VARIABLES
  left_digits,     \* the global _left_digits
  right_digits,    \* the global _right_digits
  parsing,         \* parsing[t]: the access thread t is about to make
  frames,          \* frames[t]: the payload of t's call, frame by frame
  frame,           \* frame[t]: the frame it is at
  left_arg,        \* left_arg[t]: the left half it has read for zip
  parsed,          \* parsed[t]: the display so far, halves from the left
  disturbed        \* threads whose call overlapped another one's (history)

parserVars == <<left_digits, right_digits, parsing, frames, frame, left_arg,
                parsed, disturbed>>

Accesses == {"reset_left", "reset_right", "store", "test_left", "test_right",
             "zip_left", "zip_right", "clear_left", "clear_right"}

InCall(t) == parsing[t] \in Accesses

\* A frame as its selector bits and segments decode: which half it shows, or
\* "none" when it is for neither.
Frames == [side : {"left", "right", "none"}, half : Halves]

ParserInit ==
  /\ left_digits = NULL
  /\ right_digits = NULL
  /\ parsing = [t \in Threads |-> "idle"]
  /\ frames = [t \in Threads |-> <<>>]
  /\ frame = [t \in Threads |-> 1]
  /\ left_arg = [t \in Threads |-> NULL]
  /\ parsed = [t \in Threads |-> <<>>]
  /\ disturbed = {}

-----------------------------------------------------------------------------

Access(t, from, to) ==
  /\ parsing[t] = from
  /\ parsing' = [parsing EXCEPT ![t] = to]

Current(t) == frames[t][frame[t]]

\* Calls that run at the same time disturb each other.
Overlap(t) ==
  LET others == {u \in Threads \ {t} : InCall(u)}
  IN  disturbed' = IF others = {} THEN disturbed \ {t} ELSE disturbed \cup others \cup {t}

ParseSignal(t, payload) ==
  /\ ~InCall(t)
  /\ parsing' = [parsing EXCEPT ![t] = "reset_left"]
  /\ frames' = [frames EXCEPT ![t] = payload]
  /\ frame' = [frame EXCEPT ![t] = 1]
  /\ left_arg' = [left_arg EXCEPT ![t] = NULL]
  /\ parsed' = [parsed EXCEPT ![t] = <<>>]
  /\ Overlap(t)
  /\ UNCHANGED <<left_digits, right_digits>>

\* The left half of the last payload is kept (a mutant of LeftAtStart).
LeftOfLastCall == left_digits

LeftAtStart == NULL

ResetLeft(t) ==
  /\ Access(t, "reset_left", "reset_right")
  /\ left_digits' = LeftAtStart
  /\ UNCHANGED <<right_digits, frames, frame, left_arg, parsed, disturbed>>

ResetRight(t) ==
  /\ Access(t, "reset_right", IF frames[t] = <<>> THEN "returned" ELSE "store")
  /\ right_digits' = NULL
  /\ UNCHANGED <<left_digits, frames, frame, left_arg, parsed, disturbed>>

Store(t) ==
  /\ Access(t, "store", "test_left")
  /\ left_digits' = IF Current(t).side = "left" THEN Current(t).half ELSE left_digits
  /\ right_digits' = IF Current(t).side = "right" THEN Current(t).half ELSE right_digits
  /\ UNCHANGED <<frames, frame, left_arg, parsed, disturbed>>

\* On to the next frame, or back to the caller.
NextFrame(t) ==
  /\ parsing' = [parsing EXCEPT ![t] = IF frame[t] = Len(frames[t]) THEN "returned" ELSE "store"]
  /\ frame' = [frame EXCEPT ![t] = IF @ = Len(frames[t]) THEN @ ELSE @ + 1]
  /\ UNCHANGED <<frames, left_arg, disturbed>>

\* A half is still missing: the frame's own digits are the display.
ShowHalf(t) ==
  /\ \/ parsing[t] = "test_left" /\ left_digits = NULL
     \/ parsing[t] = "test_right" /\ right_digits = NULL
  /\ parsed' = [parsed EXCEPT ![t] = <<Current(t).half>>]
  /\ NextFrame(t)
  /\ UNCHANGED <<left_digits, right_digits>>

FindHalf(t) ==
  /\ \/ left_digits # NULL /\ Access(t, "test_left", "test_right")
     \/ right_digits # NULL /\ Access(t, "test_right", "zip_left")
  /\ UNCHANGED <<left_digits, right_digits, frames, frame, left_arg, parsed, disturbed>>

ReadLeft(t) ==
  /\ Access(t, "zip_left", "zip_right")
  /\ left_arg' = [left_arg EXCEPT ![t] = left_digits]
  /\ UNCHANGED <<left_digits, right_digits, frames, frame, parsed, disturbed>>

\* zip raises TypeError when a half has become None since it was tested.
CombineHalves(t) ==
  /\ IF NULL \in {left_arg[t], right_digits}
       THEN Access(t, "zip_right", "raised") /\ UNCHANGED parsed
       ELSE /\ Access(t, "zip_right", "clear_left")
            /\ parsed' = [parsed EXCEPT ![t] = <<left_arg[t], right_digits>>]
  /\ left_arg' = [left_arg EXCEPT ![t] = NULL]
  /\ UNCHANGED <<left_digits, right_digits, frames, frame, disturbed>>

ClearLeft(t) ==
  /\ Access(t, "clear_left", "clear_right")
  /\ left_digits' = NULL
  /\ UNCHANGED <<right_digits, frames, frame, left_arg, parsed, disturbed>>

ClearRight(t) ==
  /\ parsing[t] = "clear_right"
  /\ right_digits' = NULL
  /\ NextFrame(t)
  /\ UNCHANGED <<left_digits, parsed>>

\* The caller is done with the display: nothing of the call is left but the globals.
Forget(t) ==
  /\ parsing[t] \in {"idle", "returned", "raised"}
  /\ parsing' = [parsing EXCEPT ![t] = "idle"]
  /\ frames' = [frames EXCEPT ![t] = <<>>]
  /\ frame' = [frame EXCEPT ![t] = 1]
  /\ left_arg' = [left_arg EXCEPT ![t] = NULL]
  /\ parsed' = [parsed EXCEPT ![t] = <<>>]
  /\ disturbed' = disturbed \ {t}
  /\ UNCHANGED <<left_digits, right_digits>>

ParserStep(t) ==
  \/ ResetLeft(t) \/ ResetRight(t) \/ Store(t) \/ ShowHalf(t) \/ FindHalf(t)
  \/ ReadLeft(t) \/ CombineHalves(t) \/ ClearLeft(t) \/ ClearRight(t)

ParserNext ==
  \E t \in Threads : ParserStep(t) \/ Forget(t) \/ \E p \in Seq(Frames) : ParseSignal(t, p)

ParserSpec == ParserInit /\ [][ParserNext]_parserVars

-----------------------------------------------------------------------------
(* Properties.                                                             *)

ParserTypeOK ==
  /\ left_digits \in Halves \cup {NULL}
  /\ right_digits \in Halves \cup {NULL}
  /\ parsing \in [Threads -> Accesses \cup {"idle", "returned", "raised"}]
  /\ frames \in [Threads -> Seq(Frames)]
  /\ frame \in [Threads -> Nat \ {0}]
  /\ left_arg \in [Threads -> Halves \cup {NULL}]
  /\ parsed \in [Threads -> Seq(Halves)]
  /\ disturbed \subseteq Threads

\* The halves that payload p shows on a side, up to frame n.
Shown(p, n, side) == {p[i].half : i \in {j \in DOMAIN p : j <= n /\ p[j].side = side}}

\* A payload that one thread parses while no other does displays only halves it
\* holds, each on its own side, and the parser does not raise: nothing is left in
\* the globals by the calls before.
OwnHalves ==
  \A t \in Threads \ disturbed :
    /\ parsing[t] # "raised"
    /\ Len(parsed[t]) = 2 =>
         /\ parsed[t][1] \in Shown(frames[t], frame[t], "left")
         /\ parsed[t][2] \in Shown(frames[t], frame[t], "right")
=============================================================================
