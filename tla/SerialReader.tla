----------------------------- MODULE SerialReader -----------------------------
(***************************************************************************)
(* Reading a board's display: the loop of read_tcp_serial, the filter that *)
(* turns each payload into a sample for it, and the verdict run_bitfile    *)
(* reaches on the sample that is left in the end.                          *)
(*                                                                         *)
(* A sample is the display and the LEDs as the payload received so far     *)
(* parses; most are the two halves of the display taken alone, which are   *)
(* not legal.  Time is counted in ticks, and data may arrive in any tick.  *)
(***************************************************************************)
EXTENDS Integers

CONSTANTS
  Samples,         \* what payloads parse to
  Legal,           \* samples with a display of at least 0x37000000
  Passing,         \* samples with a display the task accepts
  NULL,            \* None, also the sample of a payload without a whole frame
  DEADLINE,        \* serial_read_seconds
  Settings         \* the modes of reading: records [stable, idle, max_payload]

ASSUME SerialReaderAssumption ==
  /\ NULL \notin Samples
  /\ NULL \notin Int
  /\ Legal \subseteq Samples
  /\ Passing \subseteq Legal
  /\ DEADLINE \in Nat
  /\ \A x \in Settings : x.stable \in Nat /\ x.idle \in Nat /\ x.max_payload \in Nat

VARIABLES
  settings,        \* how this reading ends
  phase,           \* "reading", then "read", "judged" or "broken"
  reason,          \* why the reading ended
  now,             \* ticks since the reading began
  pieces,          \* pieces of payload received, 1 for any number without a limit
  last_data,       \* when the last one came
  final_snapshot,  \* the sample the filter would report
  last_valid,      \* the last legal sample, or NULL
  last_key,        \* the sample the reader waits on to be stable
  stable_since,    \* since when it is, or NULL
  error,           \* result.error
  shown,           \* the newest legal sample received (history)
  shown_since,     \* since when only it was shown legally (history)
  raw,             \* the newest sample of any kind (history)
  raw_since        \* since when only it was received (history)

filterVars  == <<final_snapshot, last_valid>>
readerVars  == <<last_key, stable_since, last_data, pieces>>
historyVars == <<shown, shown_since, raw, raw_since>>
vars == <<settings, phase, reason, now, filterVars, readerVars, error, historyVars>>

\* serial_stable_seconds, 0 to not wait for stability; serial_idle_seconds;
\* serial_max_payload_bytes in received pieces, 0 for no limit.
STABLE      == settings.stable
IDLE        == settings.idle
MAX_PAYLOAD == settings.max_payload

Init ==
  /\ settings \in Settings
  /\ phase = "reading"
  /\ reason = "none"
  /\ now = 0
  /\ pieces = 0
  /\ last_data = 0
  /\ final_snapshot = NULL
  /\ last_valid = NULL
  /\ last_key = NULL
  /\ stable_since = NULL
  /\ error = "none"
  /\ shown = NULL /\ shown_since = 0
  /\ raw = NULL /\ raw_since = 0

-----------------------------------------------------------------------------
(* The filter and the reader's bookkeeping for a new sample.               *)

\* Illegal samples replace legal ones too (a mutant of FilterSample).
FilterSampleUnheld(s) ==
  /\ final_snapshot' = s
  /\ last_valid' = IF s \in Legal THEN s ELSE last_valid

\* A legal sample is kept against the illegal ones that follow.
FilterSample(s) ==
  /\ final_snapshot' = IF s \in Legal \/ last_valid = NULL THEN s ELSE final_snapshot
  /\ last_valid' = IF s \in Legal THEN s ELSE last_valid

\* What the filter returns, and with it the key compared for stability.
Snapshot(s) == IF s \in Legal \/ last_valid = NULL THEN s ELSE last_valid

\* The time is not set back by a change (a mutant of NoteKey).
NoteKeyUntimed(s) ==
  /\ last_key' = Snapshot(s)
  /\ stable_since' = IF stable_since = NULL THEN now ELSE stable_since

NoteKey(s) ==
  /\ last_key' = Snapshot(s)
  /\ stable_since' = IF Snapshot(s) # last_key \/ stable_since = NULL
                       THEN now ELSE stable_since

NoteHistory(s) ==
  /\ shown' = IF s \in Legal THEN s ELSE shown
  /\ shown_since' = IF s \in Legal /\ s # shown THEN now ELSE shown_since
  /\ raw' = s
  /\ raw_since' = IF s # raw THEN now ELSE raw_since

EndReading(why) == phase' = "read" /\ reason' = why

\* Stable for long enough, with the bookkeeping given.
StableAt(since) == STABLE > 0 /\ since # NULL /\ now - since >= STABLE

-----------------------------------------------------------------------------
(* One round of the loop, by what recv brings.                             *)

Receive(s) ==
  /\ phase = "reading" /\ now < DEADLINE
  /\ IF s = NULL
       THEN raw = NULL /\ UNCHANGED <<filterVars, last_key, stable_since, historyVars>>
       ELSE FilterSample(s) /\ NoteKey(s) /\ NoteHistory(s)
  /\ pieces' = IF MAX_PAYLOAD = 0 THEN 1 ELSE pieces + 1
  /\ last_data' = now
  /\ IF s # NULL /\ StableAt(stable_since') THEN EndReading("stable")
     ELSE IF MAX_PAYLOAD > 0 /\ pieces' >= MAX_PAYLOAD THEN EndReading("full")
     ELSE UNCHANGED <<phase, reason>>
  /\ UNCHANGED <<settings, now, error>>

\* Nothing for 0.2 seconds: the wait may be over.
ReceiveTimesOut ==
  /\ phase = "reading" /\ now < DEADLINE
  /\ \/ StableAt(stable_since) /\ EndReading("stable")
     \/ /\ STABLE = 0 /\ pieces > 0 /\ now - last_data >= IDLE
        /\ EndReading("idle")
  /\ UNCHANGED <<settings, now, filterVars, readerVars, error, historyVars>>

\* The bridge closes the connection.
ReceiveEnd ==
  /\ phase = "reading" /\ now < DEADLINE
  /\ EndReading("closed")
  /\ UNCHANGED <<settings, now, filterVars, readerVars, error, historyVars>>

\* The connection is refused or breaks: the exception ends the attempt.
ReceiveFails ==
  /\ phase = "reading" /\ now < DEADLINE
  /\ phase' = "broken"
  /\ error' = "error"
  /\ UNCHANGED <<settings, reason, now, filterVars, readerVars, historyVars>>

ReachDeadline ==
  /\ phase = "reading" /\ now = DEADLINE
  /\ EndReading("deadline")
  /\ UNCHANGED <<settings, now, filterVars, readerVars, error, historyVars>>

\* The deadline is computed anew in each round (a mutant of Tick).
TickFromNewDeadline ==
  /\ phase = "reading" /\ now < DEADLINE
  /\ now' = 0
  /\ UNCHANGED <<settings, phase, reason, filterVars, readerVars, error, historyVars>>

\* The loop runs past its deadline (a mutant of Tick).
TickPastDeadline ==
  /\ phase = "reading" /\ now <= DEADLINE
  /\ now' = now + 1
  /\ UNCHANGED <<settings, phase, reason, filterVars, readerVars, error, historyVars>>

Tick ==
  /\ phase = "reading" /\ now < DEADLINE
  /\ now' = now + 1
  /\ UNCHANGED <<settings, phase, reason, filterVars, readerVars, error, historyVars>>

-----------------------------------------------------------------------------
(* The verdict.                                                            *)

\* judge_task_result, then the timeout error of a reading that brought nothing:
\* it is only set when the judgment left no error.
Verdict(sample) ==
  LET judged == IF sample \in Passing THEN "none" ELSE "judgment"
  IN  IF judged = "none" /\ sample = NULL /\ STABLE > 0 /\ now = DEADLINE
        THEN "timeout" ELSE judged

\* Any legal display will do (a mutant of Judge).
JudgeLegal ==
  /\ phase = "read"
  /\ error' = IF final_snapshot \in Legal THEN "none" ELSE "judgment"
  /\ phase' = "judged"
  /\ UNCHANGED <<settings, reason, now, filterVars, readerVars, historyVars>>

Judge ==
  /\ phase = "read"
  /\ error' = Verdict(final_snapshot)
  /\ phase' = "judged"
  /\ UNCHANGED <<settings, reason, now, filterVars, readerVars, historyVars>>

\* Whether the retry loop would run the bitfile again.
Retryable == error \in {"error", "timeout"}

Next ==
  \/ \E s \in Samples \cup {NULL} : Receive(s)
  \/ ReceiveTimesOut \/ ReceiveEnd \/ ReceiveFails
  \/ ReachDeadline \/ Tick \/ Judge

Spec == Init /\ [][Next]_vars

-----------------------------------------------------------------------------
(* Properties.                                                             *)

Time == 0 .. DEADLINE

TypeOK ==
  /\ settings \in Settings
  /\ phase \in {"reading", "read", "judged", "broken"}
  /\ reason \in {"none", "stable", "idle", "closed", "full", "deadline"}
  /\ now \in Time
  /\ pieces \in Nat
  /\ last_data \in Time
  /\ final_snapshot \in Samples \cup {NULL}
  /\ last_valid \in Legal \cup {NULL}
  /\ last_key \in Samples \cup {NULL}
  /\ stable_since \in Time \cup {NULL}
  /\ error \in {"none", "judgment", "timeout", "error"}
  /\ shown \in Legal \cup {NULL}
  /\ shown_since \in Time
  /\ raw \in Samples \cup {NULL}
  /\ raw_since \in Time

\* Half displays and noise never displace a legal display: what is reported is the
\* newest legal sample if there was any, else the newest sample.
NewestLegalReported ==
  final_snapshot = IF shown # NULL THEN shown ELSE raw

\* A reading ended for stability was stable: no other legal display, nor other LEDs
\* with it, was received in all of the last STABLE ticks.  Illegal samples received
\* in between count for nothing: to the reader they are the legal one again, which
\* the filter hands it in their place.
StableIsSettled ==
  reason = "stable" =>
    now - (IF shown # NULL THEN shown_since ELSE raw_since) >= STABLE

\* A run that passes had a passing display on the board, legally read.
PassedWasShown == phase = "judged" /\ error = "none" => shown \in Passing

\* Every reading ends, though the board be silent or never stop changing.
ReadingEnds == <>(phase \in {"judged", "broken"})

-----------------------------------------------------------------------------
(* What the documentation says of the program.                             *)

\* "Retry when a run fails due to timeout" (--retry).
SilenceIsRetried ==
  phase = "judged" /\ reason = "deadline" /\ raw = NULL => Retryable
=============================================================================
