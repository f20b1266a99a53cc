------------------------- MODULE DisplayParserProofs -------------------------
(***************************************************************************)
(* Proofs about DisplayParser, for any threads and any payloads.           *)
(***************************************************************************)
EXTENDS DisplayParser, TLAPS

-----------------------------------------------------------------------------
(* The inductive invariant.                                                *)

Resets  == {"reset_left", "reset_right"}
MidCall == Accesses \ Resets

\* A thread is at a frame of its payload.
AtAFrame ==
  \A t \in Threads :
    /\ parsing[t] \in Resets => frame[t] = 1
    /\ parsing[t] \in MidCall => frame[t] <= Len(frames[t])

\* A thread in a call that nobody disturbs is alone in the parser.
Alone ==
  \A t \in Threads \ disturbed, u \in Threads :
    InCall(t) /\ InCall(u) => t = u

\* What it then finds in the globals: halves that the frames so far have shown, and
\* no half it has tested goes away before it is read.
GlobalsOwn(t) ==
  /\ parsing[t] = "reset_right" => left_digits = NULL
  /\ parsing[t] \in MidCall =>
       /\ left_digits \in {NULL} \cup Shown(frames[t], frame[t], "left")
       /\ right_digits \in {NULL} \cup Shown(frames[t], frame[t], "right")
  /\ parsing[t] \in {"test_right", "zip_left", "zip_right"} => left_digits # NULL
  /\ parsing[t] \in {"zip_left", "zip_right"} => right_digits # NULL
  /\ parsing[t] = "zip_right" => left_arg[t] = left_digits

DisplayOwn(t) ==
  /\ parsing[t] # "raised"
  /\ Len(parsed[t]) = 2 =>
       /\ parsed[t][1] \in Shown(frames[t], frame[t], "left")
       /\ parsed[t][2] \in Shown(frames[t], frame[t], "right")

ParserInv ==
  /\ ParserTypeOK
  /\ AtAFrame
  /\ Alone
  /\ \A t \in Threads \ disturbed : GlobalsOwn(t) /\ DisplayOwn(t)

-----------------------------------------------------------------------------
(* Lemmas about payloads.                                                  *)

LEMMA CurrentIsFrame ==
  ASSUME ParserTypeOK, AtAFrame, NEW t \in Threads, parsing[t] \in MidCall
  PROVE  /\ frame[t] \in 1 .. Len(frames[t])
         /\ Len(frames[t]) \in Nat
         /\ Current(t) \in Frames
         /\ Current(t).half \in Halves
<1>1. frames[t] \in Seq(Frames) /\ frame[t] \in Nat \ {0}
  BY DEF ParserTypeOK
<1>2. frame[t] \in 1 .. Len(frames[t])
  BY <1>1 DEF AtAFrame
<1>3. Current(t) \in Frames
  BY <1>1, <1>2 DEF Current
<1> QED
  BY <1>1, <1>2, <1>3 DEF Frames

\* More frames show more halves, and the current one is among them.
LEMMA ShownGrows ==
  ASSUME NEW p \in Seq(Frames), NEW n \in Nat \ {0}, NEW side
  PROVE  /\ Shown(p, n, side) \subseteq Shown(p, n + 1, side)
         /\ n \in DOMAIN p /\ p[n].side = side => p[n].half \in Shown(p, n, side)
BY DEF Shown

-----------------------------------------------------------------------------
(* Type correctness.                                                       *)

LEMMA ParserInitInv ==
  ASSUME ParserInit
  PROVE  ParserInv
<1>1. ParserTypeOK
  BY DEF ParserInit, ParserTypeOK
<1>2. \A t \in Threads : parsing[t] = "idle" /\ parsed[t] = <<>>
  BY DEF ParserInit
<1>3. AtAFrame /\ Alone
  BY <1>2 DEF AtAFrame, Alone, InCall, Accesses, Resets, MidCall
<1>4. \A t \in Threads : GlobalsOwn(t) /\ DisplayOwn(t)
  BY <1>2 DEF GlobalsOwn, DisplayOwn, Accesses, Resets, MidCall
<1> QED
  BY <1>1, <1>3, <1>4 DEF ParserInv

LEMMA StepTyped ==
  ASSUME ParserTypeOK, AtAFrame, NEW t \in Threads, ParserStep(t)
  PROVE  ParserTypeOK'
<1> USE DEF ParserTypeOK, Access
<1>1. CASE ResetLeft(t)
  BY <1>1 DEF ResetLeft, LeftAtStart, Accesses
<1>2. CASE ResetRight(t)
  BY <1>2 DEF ResetRight, Accesses
<1>3. CASE Store(t)
  <2>1. Current(t).half \in Halves
    BY <1>3, CurrentIsFrame DEF Store, MidCall, Accesses, Resets
  <2> QED
    BY <1>3, <2>1 DEF Store, Accesses
<1>4. CASE ShowHalf(t)
  <2>1. Current(t).half \in Halves
    BY <1>4, CurrentIsFrame DEF ShowHalf, MidCall, Accesses, Resets
  <2>2. <<Current(t).half>> \in Seq(Halves)
    BY <2>1
  <2> QED
    BY <1>4, <2>2 DEF ShowHalf, NextFrame, Accesses
<1>5. CASE FindHalf(t)
  BY <1>5 DEF FindHalf, Accesses
<1>6. CASE ReadLeft(t)
  BY <1>6 DEF ReadLeft, Accesses
<1>7. CASE CombineHalves(t)
  <2>1. NULL \notin {left_arg[t], right_digits} => <<left_arg[t], right_digits>> \in Seq(Halves)
    OBVIOUS
  <2> QED
    BY <1>7, <2>1 DEF CombineHalves, Accesses
<1>8. CASE ClearLeft(t)
  BY <1>8 DEF ClearLeft, Accesses
<1>9. CASE ClearRight(t)
  BY <1>9 DEF ClearRight, NextFrame, Accesses
<1> QED
  BY <1>1, <1>2, <1>3, <1>4, <1>5, <1>6, <1>7, <1>8, <1>9 DEF ParserStep

LEMMA CallTyped ==
  ASSUME ParserTypeOK, NEW t \in Threads,
         Forget(t) \/ \E p \in Seq(Frames) : ParseSignal(t, p)
  PROVE  ParserTypeOK'
<1>1. <<>> \in Seq(Halves) /\ <<>> \in Seq(Frames)
  OBVIOUS
<1>2. CASE Forget(t)
  BY <1>1, <1>2 DEF ParserTypeOK, Forget
<1>3. ASSUME NEW p \in Seq(Frames), ParseSignal(t, p)
      PROVE  ParserTypeOK'
  BY <1>1, <1>3 DEF ParserTypeOK, ParseSignal, Overlap, Accesses
<1> QED
  BY <1>2, <1>3

-----------------------------------------------------------------------------
(* A step inside a call.                                                   *)

\* What it leaves alone.
LEMMA StepFrame ==
  ASSUME ParserTypeOK, NEW t \in Threads, ParserStep(t)
  PROVE  /\ InCall(t)
         /\ frames' = frames /\ disturbed' = disturbed
         /\ \A u \in Threads \ {t} :
              /\ parsing'[u] = parsing[u] /\ frame'[u] = frame[u]
              /\ left_arg'[u] = left_arg[u] /\ parsed'[u] = parsed[u]
BY DEF ParserTypeOK, ParserStep, InCall, Accesses, Access, ResetLeft, ResetRight, Store, ShowHalf,
       FindHalf, ReadLeft, CombineHalves, ClearLeft, ClearRight, NextFrame

LEMMA StepAtAFrame ==
  ASSUME ParserTypeOK, AtAFrame, NEW t \in Threads, ParserStep(t)
  PROVE  AtAFrame'
<1>1. \A u \in Threads \ {t} :
        parsing'[u] = parsing[u] /\ frame'[u] = frame[u] /\ frames'[u] = frames[u]
  BY StepFrame
<1>2. /\ frames[t] \in Seq(Frames) /\ Len(frames[t]) \in Nat /\ frame[t] \in Nat
      /\ frames[t] # <<>> => Len(frames[t]) >= 1
  BY DEF ParserTypeOK
<1>3. /\ parsing'[t] \in Resets => frame'[t] = 1
      /\ parsing'[t] \in MidCall => frame'[t] <= Len(frames'[t])
  <2> USE <1>2 DEF ParserTypeOK, AtAFrame, Access, Resets, MidCall, Accesses
  <2>1. CASE ResetLeft(t) \/ ResetRight(t)
    BY <2>1 DEF ResetLeft, ResetRight
  <2>2. CASE Store(t) \/ FindHalf(t) \/ ReadLeft(t) \/ ClearLeft(t)
    BY <2>2 DEF Store, FindHalf, ReadLeft, ClearLeft
  <2>3. CASE ShowHalf(t) \/ ClearRight(t)
    <3>1. frame[t] <= Len(frames[t])
      BY <2>3 DEF ShowHalf, ClearRight
    <3>2. /\ parsing'[t] \notin Resets /\ frames'[t] = frames[t]
          /\ frame'[t] = frame[t] \/ (frame[t] # Len(frames[t]) /\ frame'[t] = frame[t] + 1)
      BY <2>3 DEF ShowHalf, ClearRight, NextFrame
    <3> QED
      BY <3>1, <3>2
  <2>4. CASE CombineHalves(t)
    BY <2>4 DEF CombineHalves
  <2> QED
    BY <2>1, <2>2, <2>3, <2>4 DEF ParserStep
<1> QED
  BY <1>1, <1>3 DEF AtAFrame

LEMMA StepKeepsAlone ==
  ASSUME ParserTypeOK, Alone, NEW t \in Threads, ParserStep(t)
  PROVE  Alone'
<1>1. \A u \in Threads : InCall(u)' => InCall(u)
  BY StepFrame DEF InCall
<1> QED
  BY <1>1, StepFrame DEF Alone

\* A thread that is not disturbed and not the one that steps is in no call.
LEMMA OthersKeepTheirs ==
  ASSUME ParserTypeOK, Alone, NEW t \in Threads, ParserStep(t),
         NEW u \in Threads \ disturbed, u # t, DisplayOwn(u)
  PROVE  GlobalsOwn(u)' /\ DisplayOwn(u)'
<1>1. /\ parsing'[u] = parsing[u] /\ frame'[u] = frame[u] /\ frames'[u] = frames[u]
      /\ left_arg'[u] = left_arg[u] /\ parsed'[u] = parsed[u]
  BY StepFrame
<1>2. parsing[u] \notin Accesses
  BY StepFrame DEF Alone, InCall
<1>3. GlobalsOwn(u)'
  BY <1>1, <1>2 DEF GlobalsOwn, MidCall, Accesses
<1>4. DisplayOwn(u)'
  BY <1>1 DEF DisplayOwn, Shown
<1> QED
  BY <1>3, <1>4

\* The thread that steps, when nobody disturbs it.
LEMMA StepKeepsOwn ==
  ASSUME ParserTypeOK, AtAFrame, NEW t \in Threads, ParserStep(t), GlobalsOwn(t), DisplayOwn(t)
  PROVE  GlobalsOwn(t)' /\ DisplayOwn(t)'
<1> DEFINE left(n)  == Shown(frames[t], n, "left")
           right(n) == Shown(frames[t], n, "right")
<1>0. /\ frames' = frames /\ frames[t] \in Seq(Frames) /\ frame[t] \in Nat \ {0}
      /\ left(frame[t]) \subseteq left(frame[t] + 1)
      /\ right(frame[t]) \subseteq right(frame[t] + 1)
  BY StepFrame, ShownGrows DEF ParserTypeOK
<1>1. /\ frames'[t] = frames[t]
      /\ frame'[t] \in {frame[t], frame[t] + 1}
      /\ parsing'[t] \in Accesses \cup {"returned", "raised"}
  BY <1>0 DEF ParserTypeOK, ParserStep, Access, ResetLeft, ResetRight, Store, ShowHalf, FindHalf,
              ReadLeft, CombineHalves, ClearLeft, ClearRight, NextFrame, Accesses
<1>2. /\ left(frame[t]) \subseteq left(frame'[t])
      /\ right(frame[t]) \subseteq right(frame'[t])
  BY <1>0, <1>1
<1>3. ASSUME parsed'[t] = parsed[t], parsing'[t] # "raised"
      PROVE  DisplayOwn(t)'
  BY <1>1, <1>2, <1>3 DEF DisplayOwn
<1> HIDE DEF left, right
<1>4. CASE ResetLeft(t)
  <2>1. parsing'[t] = "reset_right" /\ left_digits' = NULL /\ parsed'[t] = parsed[t]
    BY <1>4 DEF ParserTypeOK, ResetLeft, Access, LeftAtStart
  <2> QED
    BY <2>1, <1>3 DEF GlobalsOwn, MidCall, Resets
<1>5. CASE ResetRight(t)
  <2>1. /\ parsing'[t] \in {"returned", "store"} /\ parsed'[t] = parsed[t]
        /\ left_digits' = NULL /\ right_digits' = NULL
    BY <1>5 DEF ParserTypeOK, ResetRight, Access, GlobalsOwn
  <2> QED
    BY <2>1, <1>3 DEF GlobalsOwn
<1>6. CASE Store(t)
  <2>1. parsing[t] = "store" /\ parsing'[t] = "test_left" /\ parsed'[t] = parsed[t] /\ frame' = frame
    BY <1>6 DEF ParserTypeOK, Store, Access
  <2>2. /\ left_digits \in {NULL} \cup left(frame[t])
        /\ right_digits \in {NULL} \cup right(frame[t])
    BY <2>1 DEF GlobalsOwn, MidCall, Accesses, Resets, left, right
  <2>3. /\ Current(t).side = "left" => Current(t).half \in left(frame[t])
        /\ Current(t).side = "right" => Current(t).half \in right(frame[t])
    <3>1. frame[t] \in DOMAIN frames[t]
      BY <2>1, CurrentIsFrame DEF MidCall, Accesses, Resets
    <3> QED
      BY <1>0, <3>1, ShownGrows DEF Current, left, right
  <2>4. /\ left_digits' \in {NULL} \cup left(frame[t])
        /\ right_digits' \in {NULL} \cup right(frame[t])
    BY <1>6, <2>2, <2>3 DEF Store
  <2>5. GlobalsOwn(t)'
    BY <2>1, <2>4, <1>1 DEF GlobalsOwn, left, right
  <2> QED
    BY <2>1, <2>5, <1>3
<1>7. CASE ShowHalf(t)
  <2>1. /\ parsing[t] \in {"test_left", "test_right"} /\ parsing'[t] \in {"store", "returned"}
        /\ left_digits' = left_digits /\ right_digits' = right_digits
        /\ parsed'[t] = <<Current(t).half>>
    BY <1>7 DEF ParserTypeOK, ShowHalf, NextFrame
  <2>2. /\ left_digits \in {NULL} \cup left(frame[t])
        /\ right_digits \in {NULL} \cup right(frame[t])
    BY <2>1 DEF GlobalsOwn, MidCall, Accesses, Resets, left, right
  <2>3. GlobalsOwn(t)'
    BY <2>1, <2>2, <1>1, <1>2 DEF GlobalsOwn, left, right
  <2>4. DisplayOwn(t)'
    BY <2>1 DEF DisplayOwn
  <2> QED
    BY <2>3, <2>4
<1>8. CASE FindHalf(t)
  <2>1. /\ \/ parsing[t] = "test_left" /\ left_digits # NULL /\ parsing'[t] = "test_right"
           \/ parsing[t] = "test_right" /\ right_digits # NULL /\ parsing'[t] = "zip_left"
        /\ left_digits' = left_digits /\ right_digits' = right_digits
        /\ frame' = frame /\ parsed'[t] = parsed[t]
    BY <1>8 DEF ParserTypeOK, FindHalf, Access
  <2>2. GlobalsOwn(t)'
    BY <2>1, <1>1 DEF GlobalsOwn, MidCall, Accesses, Resets
  <2> QED
    BY <2>1, <2>2, <1>3
<1>9. CASE ReadLeft(t)
  <2>1. /\ parsing[t] = "zip_left" /\ parsing'[t] = "zip_right" /\ left_arg'[t] = left_digits
        /\ left_digits' = left_digits /\ right_digits' = right_digits
        /\ frame' = frame /\ parsed'[t] = parsed[t]
    BY <1>9 DEF ParserTypeOK, ReadLeft, Access
  <2>2. GlobalsOwn(t)'
    BY <2>1, <1>1 DEF GlobalsOwn, MidCall, Accesses, Resets
  <2> QED
    BY <2>1, <2>2, <1>3
<1>10. CASE CombineHalves(t)
  <2>1. parsing[t] = "zip_right"
    BY <1>10 DEF CombineHalves, Access
  <2>2. /\ left_arg[t] = left_digits /\ left_digits # NULL /\ right_digits # NULL
        /\ left_digits \in left(frame[t]) /\ right_digits \in right(frame[t])
    BY <2>1 DEF GlobalsOwn, MidCall, Accesses, Resets, left, right
  <2>3. /\ parsing'[t] = "clear_left" /\ parsed'[t] = <<left_digits, right_digits>>
        /\ left_digits' = left_digits /\ right_digits' = right_digits /\ frame' = frame
    BY <1>10, <2>2 DEF ParserTypeOK, CombineHalves, Access
  <2>4. GlobalsOwn(t)'
    BY <2>2, <2>3, <1>1 DEF GlobalsOwn, left, right
  <2>5. DisplayOwn(t)'
    BY <2>2, <2>3, <1>1 DEF DisplayOwn, left, right
  <2> QED
    BY <2>4, <2>5
<1>11. CASE ClearLeft(t)
  <2>1. /\ parsing[t] = "clear_left" /\ parsing'[t] = "clear_right"
        /\ left_digits' = NULL /\ right_digits' = right_digits
        /\ frame' = frame /\ parsed'[t] = parsed[t]
    BY <1>11 DEF ParserTypeOK, ClearLeft, Access
  <2>2. GlobalsOwn(t)'
    BY <2>1, <1>1 DEF GlobalsOwn, MidCall, Accesses, Resets
  <2> QED
    BY <2>1, <2>2, <1>3
<1>12. CASE ClearRight(t)
  <2>1. /\ parsing[t] = "clear_right" /\ parsing'[t] \in {"store", "returned"}
        /\ left_digits' = left_digits /\ right_digits' = NULL /\ parsed'[t] = parsed[t]
    BY <1>12 DEF ParserTypeOK, ClearRight, NextFrame
  <2>2. left_digits \in {NULL} \cup left(frame[t])
    BY <2>1 DEF GlobalsOwn, MidCall, Accesses, Resets, left, right
  <2>3. GlobalsOwn(t)'
    BY <2>1, <2>2, <1>1, <1>2 DEF GlobalsOwn, left, right
  <2> QED
    BY <2>1, <2>3, <1>3
<1> QED
  BY <1>4, <1>5, <1>6, <1>7, <1>8, <1>9, <1>10, <1>11, <1>12 DEF ParserStep

-----------------------------------------------------------------------------
(* Calls begin, and their callers forget them.                             *)

LEMMA ParseSignalKeepsInv ==
  ASSUME ParserInv, NEW t \in Threads, NEW p \in Seq(Frames), ParseSignal(t, p)
  PROVE  ParserInv'
<1> USE DEF ParserInv
<1>1. ParserTypeOK'
  BY CallTyped
<1>2. /\ parsing'[t] = "reset_left" /\ frame'[t] = 1 /\ parsed'[t] = <<>>
      /\ left_digits' = left_digits /\ right_digits' = right_digits
      /\ \A u \in Threads \ {t} :
           /\ parsing'[u] = parsing[u] /\ frames'[u] = frames[u] /\ frame'[u] = frame[u]
           /\ left_arg'[u] = left_arg[u] /\ parsed'[u] = parsed[u]
  BY DEF ParserTypeOK, ParseSignal
<1>3. AtAFrame'
  BY <1>2 DEF AtAFrame, Resets, MidCall
<1>4. /\ \A u \in Threads \ {t} : InCall(u) => u \in disturbed' /\ t \in disturbed'
      /\ disturbed \ {t} \subseteq disturbed'
  BY DEF ParseSignal, Overlap
<1>5. Alone'
  BY <1>2, <1>4 DEF Alone, InCall
<1>6. GlobalsOwn(t)' /\ DisplayOwn(t)'
  BY <1>2 DEF GlobalsOwn, DisplayOwn, MidCall, Resets
<1>7. ASSUME NEW u \in Threads \ disturbed', u # t
      PROVE  GlobalsOwn(u)' /\ DisplayOwn(u)'
  BY <1>2, <1>4, <1>7 DEF GlobalsOwn, DisplayOwn, Shown
<1> QED
  BY <1>1, <1>3, <1>5, <1>6, <1>7

LEMMA ForgetKeepsInv ==
  ASSUME ParserInv, NEW t \in Threads, Forget(t)
  PROVE  ParserInv'
<1> USE DEF ParserInv
<1>1. ParserTypeOK'
  BY CallTyped
<1>2. /\ parsing'[t] = "idle" /\ parsed'[t] = <<>>
      /\ left_digits' = left_digits /\ right_digits' = right_digits
      /\ disturbed' = disturbed \ {t}
      /\ \A u \in Threads \ {t} :
           /\ parsing'[u] = parsing[u] /\ frames'[u] = frames[u] /\ frame'[u] = frame[u]
           /\ left_arg'[u] = left_arg[u] /\ parsed'[u] = parsed[u]
  BY DEF ParserTypeOK, Forget
<1>3. AtAFrame'
  BY <1>2 DEF AtAFrame, Resets, MidCall, Accesses
<1>4. Alone'
  BY <1>2 DEF Alone, InCall, Accesses
<1>5. GlobalsOwn(t)' /\ DisplayOwn(t)'
  BY <1>2 DEF GlobalsOwn, DisplayOwn, MidCall, Accesses
<1>6. ASSUME NEW u \in Threads \ disturbed', u # t
      PROVE  GlobalsOwn(u)' /\ DisplayOwn(u)'
  BY <1>2, <1>6 DEF GlobalsOwn, DisplayOwn, Shown
<1> QED
  BY <1>1, <1>3, <1>4, <1>5, <1>6

-----------------------------------------------------------------------------
(* The results.                                                            *)

LEMMA ParserNextKeepsInv ==
  ASSUME ParserInv, [ParserNext]_parserVars
  PROVE  ParserInv'
<1>1. ASSUME NEW t \in Threads, ParserStep(t)
      PROVE  ParserInv'
  <2>1. ParserTypeOK' /\ AtAFrame' /\ Alone' /\ disturbed' = disturbed
    BY <1>1, StepTyped, StepAtAFrame, StepKeepsAlone, StepFrame DEF ParserInv
  <2>2. ASSUME NEW u \in Threads \ disturbed
        PROVE  GlobalsOwn(u)' /\ DisplayOwn(u)'
    BY <1>1, StepKeepsOwn, OthersKeepTheirs DEF ParserInv
  <2> QED
    BY <2>1, <2>2 DEF ParserInv
<1>2. CASE UNCHANGED parserVars
  BY <1>2 DEF parserVars, ParserInv, ParserTypeOK, AtAFrame, Alone, InCall, GlobalsOwn, DisplayOwn, Shown
<1> QED
  BY <1>1, <1>2, ParseSignalKeepsInv, ForgetKeepsInv DEF ParserNext

\* Threads may call the parser at any time: its invariant holds all the same.
THEOREM ParserInvHolds == ParserSpec => []ParserInv
<1> QED
  BY ParserInitInv, ParserNextKeepsInv, PTL DEF ParserSpec

\* Every variable of the parser keeps to its type.
THEOREM ParserTyped == ParserSpec => []ParserTypeOK
<1>1. ParserInv => ParserTypeOK
  BY DEF ParserInv
<1> QED
  BY <1>1, ParserInvHolds, PTL

\* Whatever calls went before, a call that no other thread disturbs shows only
\* halves of its own payload, each on its own side, and does not raise.
THEOREM DisplayIsOwn == ParserSpec => []OwnHalves
<1>1. ParserInv => OwnHalves
  BY DEF ParserInv, OwnHalves, DisplayOwn
<1> QED
  BY <1>1, ParserInvHolds, PTL
=============================================================================
