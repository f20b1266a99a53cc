---------------------------- MODULE DriversProofs ----------------------------
(***************************************************************************)
(* Proofs about Drivers, for every command line, however many bitfiles and *)
(* boards it has.                                                          *)
(***************************************************************************)
EXTENDS Drivers, TLAPS

-----------------------------------------------------------------------------
(* The inductive invariant.                                                *)

\* A worker at work has a future that no other worker has and that is not settled.
Assigned ==
  /\ \A w \in Workers :
       /\ doing[w] = NULL <=> stage[w] = "idle"
       /\ stage[w] = "record" => outcome[w] \in Outcomes
       /\ doing[w] # NULL =>
            /\ doing[w] < next_future /\ settled[doing[w]] = "pending"
            /\ \A v \in Workers \ {w} : doing[v] # doing[w]
       /\ stage[w] = "count" => command.kind = "batch"
  /\ \A t \in Futures :
       /\ t >= next_future => settled[t] = "pending"
       /\ settled[t] = "raised" => command.kind = "batch"

RowsPassed(t) == \A r \in rows : r[1] = t => Passed(r[3])

\* The first n runs of future t are recorded; when all of them count as a success,
\* all of its rows are of runs that passed.
RecordedUpTo(t, n) ==
  /\ passes[t] <= n
  /\ command.kind # "batch" =>
       /\ \A i \in 1 .. n : <<t, i>> \in Written
       /\ passes[t] = n => RowsPassed(t)

\* The row of a batch is written when its future is collected.
BatchRows(t) ==
  /\ settled[t] \in Outcomes /\ passes[t] = 1 => Passed(settled[t])
  /\ settled[t] = "collected" => <<t, 1>> \in Written /\ (passes[t] = 1 => RowsPassed(t))
  /\ \A r \in rows : r[1] = t => settled[t] = "collected"

Recorded ==
  /\ \A w \in Workers : doing[w] # NULL => RecordedUpTo(doing[w], run[w] - 1)
  /\ \A t \in Futures :
       /\ t >= next_future => RecordedUpTo(t, 0)
       /\ settled[t] \in Outcomes \cup {"collected"} => RecordedUpTo(t, command.runs)
       /\ command.kind = "batch" => BatchRows(t)

\* The counts agree only when every collected future is a full success.
Counted ==
  /\ success <= total
  /\ success = total => \A t \in Futures : settled[t] = "collected" => passes[t] = command.runs

AllCollected == \A t \in Futures : settled[t] = "collected"
SomeRaised   == \E t \in Futures : settled[t] = "raised"
NotBegun     == next_future = 1 /\ total = 0

MainSoFar ==
  /\ main = "starting" => NotBegun
  /\ main = "draining" => SomeRaised
  /\ main = "ending" => AllCollected \/ SomeRaised
  /\ main = "exited" => AllCollected \/ SomeRaised \/ NotBegun
  /\ exit = 0 => main = "exited" /\ AllCollected /\ success = total

DriversInv == DriversTypeOK /\ Assigned /\ Recorded /\ Counted /\ MainSoFar

LEMMA CommandTyped ==
  ASSUME DriversTypeOK
  PROVE  /\ command.kind \in {"batch", "sweep", "stability"}
         /\ command.futures \in Nat /\ command.runs \in Nat \ {0} /\ command.max_retries \in Nat
         /\ command.kind = "batch" => command.runs = 1
         /\ Jobs \in 1 .. 3
         /\ NULL \notin Nat
BY DriversAssumption DEF DriversTypeOK, Jobs

LEMMA DriversInitInv ==
  ASSUME DriversInit
  PROVE  DriversInv
<1>1. /\ command \in Commands /\ command.futures \in Nat /\ command.runs \in Nat \ {0}
      /\ command.max_retries \in Nat /\ NULL \notin Nat
  BY DriversAssumption DEF DriversInit
<1>2. DriversTypeOK
  BY <1>1 DEF DriversInit, DriversTypeOK, Workers, Futures
<1>3. Assigned
  BY <1>1 DEF DriversInit, Assigned, Workers, Futures
<1>4. Recorded
  BY <1>1 DEF DriversInit, Recorded, RecordedUpTo, BatchRows, RowsPassed, Workers, Futures, Outcomes
<1>5. Counted /\ MainSoFar
  BY <1>1 DEF DriversInit, Counted, MainSoFar, NotBegun
<1> QED
  BY <1>2, <1>3, <1>4, <1>5 DEF DriversInv

-----------------------------------------------------------------------------
(* Workers.                                                                *)

\* Steps of a worker that only change what it is about to do.
LEMMA MoveKeepsInv ==
  ASSUME DriversInv, NEW w \in Workers,
         CountBitfile(w) \/ RefuseBitfile(w) \/ \E o \in Outcomes : EndAttempt(w, o)
  PROVE  DriversInv'
<1> USE DEF DriversInv
<1>1. /\ UNCHANGED <<command, mainVars, next_future, doing, run, settled, passes, rows>>
      /\ stage[w] \in {"count", "run"} /\ stage'[w] \in {"run", "record"}
      /\ stage'[w] = "record" => outcome'[w] \in Outcomes
      /\ \A v \in Workers \ {w} : stage'[v] = stage[v] /\ outcome'[v] = outcome[v]
  BY DEF DriversTypeOK, CountBitfile, RefuseBitfile, EndAttempt, EnterStage, Outcomes
<1>2. DriversTypeOK'
  <2>1. /\ stage' \in [Workers -> {"idle", "count", "run", "record"}]
        /\ outcome' \in [Workers -> Outcomes \cup {NULL}]
    BY DEF DriversTypeOK, CountBitfile, RefuseBitfile, EndAttempt, EnterStage, Outcomes
  <2>2. attempt' \in [Workers -> 0 .. command.max_retries]
    BY CommandTyped DEF DriversTypeOK, CountBitfile, RefuseBitfile, EndAttempt, Retries
  <2> QED
    BY <1>1, <2>1, <2>2 DEF DriversTypeOK, mainVars, Futures
<1>3. Assigned'
  BY <1>1 DEF Assigned, Futures
<1>4. Recorded' /\ Counted' /\ MainSoFar'
  BY <1>1 DEF Recorded, RecordedUpTo, BatchRows, RowsPassed, Written, Passed, Counted, MainSoFar,
              AllCollected, SomeRaised, NotBegun, Futures, mainVars
<1> QED
  BY <1>2, <1>3, <1>4

LEMMA TakeFutureKeepsInv ==
  ASSUME DriversInv, NEW w \in Workers, TakeFuture(w)
  PROVE  DriversInv'
<1> USE DEF DriversInv
<1>1. /\ UNCHANGED <<command, mainVars, outcome, settled, passes, rows>>
      /\ main \in {"collecting", "draining"}
      /\ stage[w] = "idle" /\ stage'[w] \in {"count", "run"}
      /\ stage'[w] = "count" => command.kind = "batch"
      /\ next_future \in Futures /\ next_future' = next_future + 1
      /\ doing'[w] = next_future /\ run'[w] = 1
      /\ \A v \in Workers \ {w} :
           doing'[v] = doing[v] /\ run'[v] = run[v] /\ stage'[v] = stage[v]
  BY CommandTyped DEF DriversTypeOK, TakeFuture, EnterStage, Futures
<1>2. DriversTypeOK'
  <2>1. /\ stage' \in [Workers -> {"idle", "count", "run", "record"}]
        /\ doing' \in [Workers -> Futures \cup {NULL}]
        /\ run' \in [Workers -> 1 .. command.runs]
        /\ attempt' \in [Workers -> 0 .. command.max_retries]
    BY <1>1, CommandTyped DEF DriversTypeOK, TakeFuture, EnterStage
  <2>2. next_future' \in 1 .. (command.futures + 1)
    BY <1>1, CommandTyped DEF Futures
  <2> QED
    BY <1>1, <2>1, <2>2 DEF DriversTypeOK, Futures, mainVars
<1>3. Assigned'
  <2>1. settled[next_future] = "pending" /\ next_future \in Nat /\ NULL \notin Nat
    BY <1>1, CommandTyped DEF Assigned, Futures
  <2>2. \A v \in Workers : doing[v] \in Nat \cup {NULL}
    BY DEF DriversTypeOK, Futures
  <2> QED
    BY <1>1, <2>1, <2>2, CommandTyped DEF Assigned, Futures
<1>4. Recorded'
  <2>1. RecordedUpTo(next_future, 0)
    BY <1>1 DEF Recorded, Futures
  <2>2. \A t \in Futures : \A n \in Nat : RecordedUpTo(t, n)' <=> RecordedUpTo(t, n)
    BY <1>1 DEF RecordedUpTo, RowsPassed, Written, Passed
  <2>3. \A t \in Futures : BatchRows(t)' <=> BatchRows(t)
    BY <1>1 DEF BatchRows, RowsPassed, Written, Passed
  <2>4. /\ Futures' = Futures /\ Futures \subseteq Nat /\ command.runs \in Nat
        /\ \A v \in Workers : doing[v] \in Futures \cup {NULL} /\ run[v] - 1 \in Nat
    <3>1. Futures' = Futures /\ Futures \subseteq Nat /\ command.runs \in Nat
      BY <1>1, CommandTyped DEF Futures
    <3>2. \A v \in Workers : doing[v] \in Futures \cup {NULL} /\ run[v] \in 1 .. command.runs
      BY DEF DriversTypeOK
    <3> QED
      BY <3>1, <3>2
  <2>5. ASSUME NEW v \in Workers, doing'[v] # NULL
        PROVE  RecordedUpTo(doing[v], run[v] - 1)'
    <3>1. PICK t \in Futures, n \in Nat : doing'[v] = t /\ run'[v] - 1 = n
      <4>1. CASE v = w
        BY <1>1, <4>1
      <4>2. CASE v # w
        BY <1>1, <2>4, <2>5, <4>2
      <4> QED
        BY <4>1, <4>2
    <3>2. RecordedUpTo(t, n)
      <4>1. CASE v = w
        BY <1>1, <2>1, <3>1, <4>1
      <4>2. CASE v # w
        <5>1. t = doing[v] /\ n = run[v] - 1 /\ doing[v] # NULL
          BY <1>1, <2>5, <3>1, <4>2
        <5> QED
          BY <5>1 DEF Recorded
      <4> QED
        BY <4>1, <4>2
    <3>3. RecordedUpTo(t, n)'
      BY <2>2, <3>2
    <3> QED
      BY <3>1, <3>3 DEF RecordedUpTo, RowsPassed, Written
  <2>6. ASSUME NEW t \in Futures
        PROVE  /\ t >= next_future' => RecordedUpTo(t, 0)'
               /\ settled'[t] \in Outcomes \cup {"collected"} => RecordedUpTo(t, command.runs)'
               /\ command.kind = "batch" => BatchRows(t)'
    BY <1>1, <2>2, <2>3, <2>4 DEF Recorded
  <2> QED
    BY <1>1, <2>4, <2>5, <2>6 DEF Recorded
<1>5. Counted' /\ MainSoFar'
  BY <1>1 DEF Counted, MainSoFar, AllCollected, SomeRaised, Futures, mainVars
<1> QED
  BY <1>2, <1>3, <1>4, <1>5

\* A future whose worker raises has no row and no success.
LEMMA CountRaisesKeepsInv ==
  ASSUME DriversInv, NEW w \in Workers, CountRaises(w)
  PROVE  DriversInv'
<1> USE DEF DriversInv
<1>1. /\ UNCHANGED <<command, mainVars, next_future, run, passes, rows>>
      /\ stage[w] = "count" /\ stage'[w] = "idle" /\ doing'[w] = NULL
      /\ doing[w] \in Futures /\ settled'[doing[w]] = "raised"
      /\ command.kind = "batch" /\ settled[doing[w]] = "pending" /\ doing[w] < next_future
      /\ \A t \in Futures \ {doing[w]} : settled'[t] = settled[t]
      /\ \A v \in Workers \ {w} :
           /\ doing'[v] = doing[v] /\ stage'[v] = stage[v] /\ outcome'[v] = outcome[v]
           /\ doing[v] # doing[w]
  BY DEF DriversTypeOK, Assigned, CountRaises, Settle, EnterStage, Futures
<1>2. DriversTypeOK'
  BY <1>1 DEF DriversTypeOK, CountRaises, Settle, EnterStage, Futures, mainVars
<1>3. Assigned'
  <2>1. /\ Futures' = Futures /\ Futures \subseteq Nat /\ next_future \in Nat /\ NULL \notin Nat
        /\ \A v \in Workers : doing[v] \in Futures \cup {NULL}
    <3>1. Futures' = Futures /\ Futures \subseteq Nat /\ NULL \notin Nat
      BY <1>1, CommandTyped DEF Futures
    <3>2. next_future \in Nat /\ \A v \in Workers : doing[v] \in Futures \cup {NULL}
      BY CommandTyped DEF DriversTypeOK
    <3> QED
      BY <3>1, <3>2
  <2>2. ASSUME NEW v \in Workers
        PROVE  /\ doing'[v] = NULL <=> stage'[v] = "idle"
               /\ stage'[v] = "record" => outcome'[v] \in Outcomes
               /\ doing'[v] # NULL =>
                    /\ doing'[v] < next_future' /\ settled'[doing'[v]] = "pending"
                    /\ \A u \in Workers \ {v} : doing'[u] # doing'[v]
               /\ stage'[v] = "count" => command'.kind = "batch"
    <3>1. CASE v = w
      BY <1>1, <3>1
    <3>2. CASE v # w
      <4>1. /\ doing'[v] = doing[v] /\ stage'[v] = stage[v] /\ outcome'[v] = outcome[v]
            /\ doing[v] # NULL => settled'[doing[v]] = settled[doing[v]]
        BY <1>1, <2>1, <3>2
      <4>2. \A u \in Workers \ {v} : doing'[u] \in {doing[u], NULL}
        BY <1>1
      <4> QED
        BY <1>1, <4>1, <4>2 DEF Assigned
    <3> QED
      BY <3>1, <3>2
  <2>3. \A t \in Futures : /\ t >= next_future' => settled'[t] = "pending"
                           /\ settled'[t] = "raised" => command'.kind = "batch"
    BY <1>1, <2>1 DEF Assigned
  <2> QED
    BY <2>1, <2>2, <2>3 DEF Assigned
<1>4. Recorded'
  <2>1. \A t \in Futures : \A n \in Nat : RecordedUpTo(t, n)' <=> RecordedUpTo(t, n)
    BY <1>1 DEF RecordedUpTo, RowsPassed, Written, Passed
  <2>2. \A t \in Futures : BatchRows(t) => BatchRows(t)'
    BY <1>1 DEF BatchRows, RowsPassed, Written, Passed, Outcomes
  <2>3. /\ Futures' = Futures
        /\ \A v \in Workers : doing[v] \in Futures \cup {NULL} /\ run[v] - 1 \in Nat
        /\ command.runs \in Nat
    BY <1>1, CommandTyped DEF Futures, DriversTypeOK
  <2>4. ASSUME NEW v \in Workers, doing'[v] # NULL
        PROVE  RecordedUpTo(doing[v], run[v] - 1)'
    BY <1>1, <2>1, <2>3, <2>4 DEF Recorded
  <2>5. ASSUME NEW t \in Futures
        PROVE  /\ t >= next_future' => RecordedUpTo(t, 0)'
               /\ settled'[t] \in Outcomes \cup {"collected"} => RecordedUpTo(t, command.runs)'
               /\ command.kind = "batch" => BatchRows(t)'
    BY <1>1, <2>1, <2>2, <2>3 DEF Recorded, Outcomes
  <2> QED
    BY <1>1, <2>3, <2>4, <2>5 DEF Recorded
<1>5. Counted' /\ MainSoFar'
  BY <1>1 DEF Counted, MainSoFar, AllCollected, SomeRaised, NotBegun, Futures, mainVars
<1> QED
  BY <1>2, <1>3, <1>4, <1>5

LEMMA RecordKeepsInv ==
  ASSUME DriversInv, NEW w \in Workers, Record(w)
  PROVE  DriversInv'
<1> USE DEF DriversInv
<1>0. PICK t \in Futures, n \in 1 .. command.runs, o \in Outcomes :
        t = doing[w] /\ n = run[w] /\ o = outcome[w] /\ stage[w] = "record"
  BY DEF DriversTypeOK, Assigned, Record
<1>1. /\ Futures' = Futures /\ Futures \subseteq Nat /\ next_future \in Nat /\ NULL \notin Nat
      /\ command.runs \in Nat \ {0} /\ n \in Nat \ {0} /\ n - 1 \in Nat
      /\ \A v \in Workers : doing[v] \in Futures \cup {NULL} /\ run[v] - 1 \in Nat
  <2>1. command.runs \in Nat \ {0} /\ NULL \notin Nat /\ n \in 1 .. command.runs
    BY CommandTyped
  <2>2. \A v \in Workers : doing[v] \in Futures \cup {NULL} /\ run[v] \in 1 .. command.runs
    BY DEF DriversTypeOK
  <2>3. next_future \in Nat
    BY DEF DriversTypeOK
  <2>4. command' = command
    BY DEF Record
  <2> QED
    BY <2>1, <2>2, <2>3, <2>4 DEF Futures
<1>2. /\ UNCHANGED <<command, mainVars, next_future>>
      /\ t < next_future /\ settled[t] = "pending"
      /\ rows' = IF command.kind = "batch" THEN rows ELSE rows \cup {<<t, n, o>>}
      /\ passes' = [passes EXCEPT ![t] = @ + Tally(o)]
  BY <1>0, <1>1 DEF Assigned, Record, Row
<1>3. \/ /\ n < command.runs /\ settled' = settled /\ doing' = doing /\ outcome' = outcome
         /\ run' = [run EXCEPT ![w] = n + 1] /\ attempt' = [attempt EXCEPT ![w] = 0]
         /\ stage' = [stage EXCEPT ![w] = "run"]
      \/ /\ n = command.runs /\ settled' = [settled EXCEPT ![t] = o]
         /\ doing' = [doing EXCEPT ![w] = NULL] /\ outcome' = [outcome EXCEPT ![w] = NULL]
         /\ stage' = [stage EXCEPT ![w] = "idle"] /\ UNCHANGED <<run, attempt>>
  BY <1>0, <1>1 DEF Record, Settle, EnterStage
<1>4. RecordedUpTo(t, n - 1)
  BY <1>0, <1>1 DEF Recorded
<1>5. /\ passes[t] \in Nat /\ passes'[t] = passes[t] + Tally(o) /\ passes'[t] <= n
      /\ Tally(o) \in {0, 1} /\ (Tally(o) = 1 => Passed(o))
      /\ \A u \in Futures \ {t} : passes'[u] = passes[u]
  BY <1>1, <1>2, <1>4 DEF RecordedUpTo, Tally, DriversTypeOK
<1>6. RecordedUpTo(t, n)'
  <2>1. CASE command.kind = "batch"
    BY <1>2, <1>5, <2>1 DEF RecordedUpTo
  <2>2. CASE command.kind # "batch"
    <3>1. rows' = rows \cup {<<t, n, o>>}
      BY <1>2, <2>2
    <3>2. <<t, n, o>> \in rows' /\ <<t, n, o>>[1] = t /\ <<t, n, o>>[2] = n /\ <<t, n, o>>[3] = o
      BY <3>1
    <3>3. <<t, n>> \in Written' /\ Written \subseteq Written'
      BY <3>1, <3>2 DEF Written
    <3>4. \A i \in 1 .. n : <<t, i>> \in Written'
      BY <1>1, <1>4, <2>2, <3>3 DEF RecordedUpTo
    <3>5. ASSUME passes'[t] = n
          PROVE  RowsPassed(t)'
      <4>1. passes[t] = n - 1 /\ Passed(o)
        BY <1>1, <1>4, <1>5, <3>5 DEF RecordedUpTo
      <4>2. RowsPassed(t) /\ Passed(o)'
        BY <1>2, <1>4, <2>2, <4>1 DEF RecordedUpTo, Passed
      <4> QED
        BY <1>2, <3>1, <3>2, <4>2 DEF RowsPassed, Passed
    <3> QED
      BY <1>2, <1>5, <3>4, <3>5 DEF RecordedUpTo
  <2> QED
    BY <2>1, <2>2
<1>7. DriversTypeOK'
  <2>1. /\ rows' \subseteq Futures \X (1 .. command.runs) \X Outcomes
        /\ passes' \in [Futures -> 0 .. command.runs]
    BY <1>1, <1>2, <1>5 DEF DriversTypeOK
  <2>2. /\ stage' \in [Workers -> {"idle", "count", "run", "record"}]
        /\ doing' \in [Workers -> Futures \cup {NULL}]
        /\ run' \in [Workers -> 1 .. command.runs]
        /\ attempt' \in [Workers -> 0 .. command.max_retries]
        /\ outcome' \in [Workers -> Outcomes \cup {NULL}]
        /\ settled' \in [Futures -> Outcomes \cup {"pending", "raised", "collected"}]
    BY <1>1, <1>3, CommandTyped DEF DriversTypeOK
  <2> QED
    BY <1>1, <1>2, <2>1, <2>2 DEF DriversTypeOK, mainVars
<1>8. Assigned'
  <2>1. ASSUME NEW v \in Workers
        PROVE  /\ doing'[v] = NULL <=> stage'[v] = "idle"
               /\ stage'[v] = "record" => outcome'[v] \in Outcomes
               /\ doing'[v] # NULL =>
                    /\ doing'[v] < next_future' /\ settled'[doing'[v]] = "pending"
                    /\ \A u \in Workers \ {v} : doing'[u] # doing'[v]
               /\ stage'[v] = "count" => command'.kind = "batch"
    BY <1>0, <1>1, <1>2, <1>3, <2>1 DEF Assigned, DriversTypeOK
  <2>2. \A u \in Futures : /\ u >= next_future' => settled'[u] = "pending"
                           /\ settled'[u] = "raised" => command'.kind = "batch"
    BY <1>1, <1>2, <1>3 DEF Assigned, DriversTypeOK, Outcomes
  <2> QED
    BY <1>1, <2>1, <2>2 DEF Assigned
<1>9. Recorded'
  <2>1. \A u \in Futures \ {t} : /\ \A m \in Nat : RecordedUpTo(u, m) => RecordedUpTo(u, m)'
                                 /\ RowsPassed(u) => RowsPassed(u)'
    <3>1. Written \subseteq Written'
      BY <1>2 DEF Written
    <3>2. \A u \in Futures \ {t} : RowsPassed(u) => RowsPassed(u)'
      BY <1>2 DEF RowsPassed, Passed
    <3> QED
      BY <1>1, <1>2, <1>5, <3>1, <3>2 DEF RecordedUpTo
  <2>2. ASSUME NEW v \in Workers, doing'[v] # NULL
        PROVE  RecordedUpTo(doing[v], run[v] - 1)'
    <3>1. CASE v = w
      BY <1>0, <1>1, <1>3, <1>6, <2>2, <3>1 DEF DriversTypeOK
    <3>2. CASE v # w
      <4>1. doing'[v] = doing[v] /\ run'[v] = run[v] /\ doing[v] \in Futures \ {t}
        BY <1>0, <1>1, <1>3, <2>2, <3>2 DEF DriversTypeOK, Assigned
      <4> QED
        BY <1>1, <2>1, <4>1 DEF Recorded
    <3> QED
      BY <3>1, <3>2
  <2>3. ASSUME NEW u \in Futures
        PROVE  /\ u >= next_future' => RecordedUpTo(u, 0)'
               /\ settled'[u] \in Outcomes \cup {"collected"} => RecordedUpTo(u, command.runs)'
    <3>1. CASE u = t
      BY <1>1, <1>2, <1>3, <1>6, <3>1 DEF DriversTypeOK, Outcomes
    <3>2. CASE u # t
      BY <1>1, <1>2, <1>3, <2>1, <3>2 DEF DriversTypeOK, Recorded
    <3> QED
      BY <3>1, <3>2
  <2>4. ASSUME NEW u \in Futures, command.kind = "batch"
        PROVE  BatchRows(u)'
    <3>1. rows' = rows /\ Written' = Written /\ RowsPassed(u)' = RowsPassed(u)
      BY <1>2, <2>4 DEF Written, RowsPassed, Passed
    <3>2. CASE u = t
      <4>1. command.runs = 1 /\ n = 1 /\ settled'[t] = o
        BY <1>1, <1>3, <2>4, CommandTyped DEF DriversTypeOK
      <4>2. passes'[t] = 1 => Passed(o)'
        BY <1>2, <1>4, <1>5, <4>1 DEF RecordedUpTo, Passed
      <4>3. \A r \in rows : r[1] # t
        BY <1>2, <2>4 DEF Recorded, BatchRows
      <4> QED
        BY <3>1, <3>2, <4>1, <4>2, <4>3 DEF BatchRows, Outcomes
    <3>3. CASE u # t
      BY <1>2, <1>3, <1>5, <2>4, <3>1, <3>3 DEF Recorded, BatchRows, DriversTypeOK, Passed
    <3> QED
      BY <3>2, <3>3
  <2> QED
    BY <1>1, <1>2, <2>2, <2>3, <2>4 DEF Recorded
<1>10. Counted' /\ MainSoFar'
  <2>1. \A u \in Futures : settled'[u] \in {"collected", "raised"} <=> settled[u] \in {"collected", "raised"} /\ settled'[u] = settled[u]
    BY <1>2, <1>3 DEF DriversTypeOK, Outcomes
  <2>2. \A u \in Futures : settled[u] \in {"collected", "raised"} => u # t
    BY <1>2
  <2>3. Counted'
    BY <1>1, <1>2, <1>5, <2>1, <2>2 DEF Counted, mainVars
  <2>4. ~AllCollected /\ (SomeRaised => SomeRaised') /\ (NotBegun => NotBegun')
    BY <1>1, <1>2, <2>1, <2>2, <1>3 DEF AllCollected, SomeRaised, NotBegun, mainVars, DriversTypeOK
  <2>5. MainSoFar'
    BY <1>2, <2>4 DEF MainSoFar, mainVars
  <2> QED
    BY <2>3, <2>5
<1> QED
  BY <1>7, <1>8, <1>9, <1>10

-----------------------------------------------------------------------------
(* The main thread.                                                        *)

LEMMA CollectKeepsInv ==
  ASSUME DriversInv, NEW t \in Futures, Collect(t)
  PROVE  DriversInv'
<1> USE DEF DriversInv
<1>0. /\ Futures' = Futures /\ Futures \subseteq Nat /\ command.runs \in Nat \ {0}
      /\ \A u \in Futures : passes[u] \in Nat
      /\ \A v \in Workers : doing[v] \in Futures \cup {NULL} /\ run[v] - 1 \in Nat
  <2>1. command.runs \in Nat \ {0} /\ command' = command
    BY CommandTyped DEF Collect
  <2>2. \A v \in Workers : doing[v] \in Futures \cup {NULL} /\ run[v] \in 1 .. command.runs
    BY DEF DriversTypeOK
  <2>3. \A u \in Futures : passes[u] \in 0 .. command.runs
    BY DEF DriversTypeOK
  <2> QED
    BY <2>1, <2>2, <2>3 DEF Futures
<1>1. /\ UNCHANGED <<command, workerVars, exit>> /\ main = "collecting" /\ main' = main
      /\ settled[t] \in Outcomes /\ settled' = [settled EXCEPT ![t] = "collected"]
      /\ rows' = IF command.kind = "batch" THEN rows \cup {<<t, 1, settled[t]>>} ELSE rows
      /\ success' = success + passes[t] /\ total' = total + command.runs
  BY DEF Collect
<1>2. RecordedUpTo(t, command.runs) /\ t < next_future
  <2>1. next_future \in Nat
    BY DEF DriversTypeOK
  <2>2. t >= next_future \/ t < next_future
    BY <1>0, <2>1
  <2> QED
    BY <1>1, <2>2 DEF Recorded, Assigned, Outcomes
<1>3. DriversTypeOK'
  <2>1. settled' \in [Futures -> Outcomes \cup {"pending", "raised", "collected"}]
    BY <1>1 DEF DriversTypeOK
  <2>2. rows' \subseteq Futures \X (1 .. command.runs) \X Outcomes
    BY <1>0, <1>1 DEF DriversTypeOK
  <2>3. success' \in Nat /\ total' \in Nat
    BY <1>0, <1>1 DEF DriversTypeOK
  <2> QED
    BY <1>0, <1>1, <2>1, <2>2, <2>3 DEF DriversTypeOK, workerVars
<1>4. Assigned'
  BY <1>0, <1>1, <1>2 DEF Assigned, workerVars, DriversTypeOK, Outcomes
<1>5. Recorded'
  <2>1. Written \subseteq Written'
    BY <1>1 DEF Written
  <2>2. command.kind # "batch" => rows' = rows
    BY <1>1
  <2>3. \A u \in Futures, m \in Nat : RecordedUpTo(u, m) => RecordedUpTo(u, m)'
    BY <1>1, <2>1, <2>2 DEF RecordedUpTo, RowsPassed, Passed, workerVars
  <2>4. ASSUME NEW u \in Futures, command.kind = "batch"
        PROVE  BatchRows(u)'
    <3>1. rows' = rows \cup {<<t, 1, settled[t]>>}
      BY <1>1, <2>4
    <3>2. /\ <<t, 1, settled[t]>> \in rows' /\ <<t, 1, settled[t]>>[1] = t
          /\ <<t, 1, settled[t]>>[2] = 1 /\ <<t, 1, settled[t]>>[3] = settled[t]
      BY <3>1
    <3>3. CASE u = t
      <4>1. <<t, 1>> \in Written'
        BY <3>2 DEF Written
      <4>2. \A r \in rows : r[1] # t
        BY <1>1, <2>4 DEF Recorded, BatchRows, Outcomes
      <4>3. passes'[t] = 1 => RowsPassed(t)'
        BY <1>1, <2>4, <3>1, <3>2, <4>2 DEF RowsPassed, Recorded, BatchRows, Passed, workerVars
      <4>4. settled'[t] = "collected"
        BY <1>1 DEF DriversTypeOK
      <4> QED
        BY <3>3, <4>1, <4>3, <4>4 DEF BatchRows, Outcomes
    <3>4. CASE u # t
      <4>1. settled'[u] = settled[u] /\ passes'[u] = passes[u]
        BY <1>1, <3>4 DEF DriversTypeOK, workerVars
      <4>2. RowsPassed(u) => RowsPassed(u)'
        BY <1>1, <3>1, <3>2, <3>4 DEF RowsPassed, Passed
      <4>3. \A r \in rows' : r[1] = u => r \in rows
        BY <3>1, <3>2, <3>4
      <4> QED
        BY <1>1, <2>1, <2>4, <4>1, <4>2, <4>3 DEF Recorded, BatchRows, Passed
    <3> QED
      BY <3>3, <3>4
  <2>5. ASSUME NEW v \in Workers, doing'[v] # NULL
        PROVE  RecordedUpTo(doing[v], run[v] - 1)'
    <3>1. doing' = doing /\ run' = run
      BY <1>1 DEF workerVars
    <3> QED
      BY <1>0, <2>3, <2>5, <3>1 DEF Recorded
  <2>6. ASSUME NEW u \in Futures
        PROVE  /\ u >= next_future' => RecordedUpTo(u, 0)'
               /\ settled'[u] \in Outcomes \cup {"collected"} => RecordedUpTo(u, command.runs)'
    <3>1. next_future' = next_future /\ command' = command
      BY <1>1 DEF workerVars
    <3>2. settled'[u] \in Outcomes \cup {"collected"} => settled[u] \in Outcomes \cup {"collected"}
      BY <1>1 DEF DriversTypeOK
    <3> QED
      BY <1>0, <2>3, <3>1, <3>2 DEF Recorded
  <2> QED
    BY <1>0, <1>1, <2>4, <2>5, <2>6 DEF Recorded
<1>6. Counted'
  <2>1. passes[t] <= command.runs /\ success <= total /\ success \in Nat /\ total \in Nat
    BY <1>2 DEF RecordedUpTo, Counted, DriversTypeOK
  <2>2. success' = total' => success = total /\ passes[t] = command.runs
    BY <1>0, <1>1, <2>1
  <2> QED
    BY <1>0, <1>1, <2>1, <2>2 DEF Counted, DriversTypeOK, workerVars
<1>7. MainSoFar'
  BY <1>1 DEF MainSoFar
<1> QED
  BY <1>3, <1>4, <1>5, <1>6, <1>7

\* Steps of the main thread that only say how far it is.
LEMMA MainKeepsInv ==
  ASSUME DriversInv,
         \/ OpenOutput \/ StartFails \/ ShutDown \/ ExitCommand
         \/ \E t \in Futures : CollectRaises(t)
  PROVE  DriversInv'
<1> USE DEF DriversInv
<1>1. UNCHANGED <<command, workerVars, settled, success, total, rows>>
  BY DEF OpenOutput, StartFails, ShutDown, ExitCommand, CollectRaises
<1>2. DriversTypeOK'
  BY <1>1 DEF DriversTypeOK, OpenOutput, StartFails, ShutDown, ExitCommand, ExitCodes, CollectRaises,
              workerVars, Futures
<1>3. Assigned' /\ Counted'
  BY <1>1 DEF Assigned, Counted, workerVars, Futures
<1>4. Recorded'
  BY <1>1 DEF Recorded, RecordedUpTo, BatchRows, RowsPassed, Written, Passed, workerVars, Futures
<1>5. /\ AllCollected' <=> AllCollected
      /\ SomeRaised' <=> SomeRaised
      /\ NotBegun' <=> NotBegun
  BY <1>1 DEF AllCollected, SomeRaised, NotBegun, workerVars, Futures
<1>6. MainSoFar'
  <2>1. CASE OpenOutput
    BY <2>1, <1>5 DEF MainSoFar, OpenOutput
  <2>2. CASE StartFails
    BY <2>2, <1>5 DEF MainSoFar, StartFails
  <2>3. CASE ShutDown
    BY <2>3, <1>5 DEF MainSoFar, ShutDown, PoolDone, AllCollected
  <2>4. CASE ExitCommand
    BY <2>4, <1>1, <1>5 DEF MainSoFar, ExitCommand, ExitCodes, SomeRaised
  <2>5. CASE \E t \in Futures : CollectRaises(t)
    BY <2>5, <1>5 DEF MainSoFar, CollectRaises, SomeRaised
  <2> QED
    BY <2>1, <2>2, <2>3, <2>4, <2>5
<1> QED
  BY <1>2, <1>3, <1>4, <1>6

-----------------------------------------------------------------------------
(* The results.                                                            *)

LEMMA DriversNextKeepsInv ==
  ASSUME DriversInv, [DriversNext]_driverVars
  PROVE  DriversInv'
<1>1. CASE UNCHANGED driverVars
  BY <1>1 DEF driverVars, DriversInv, DriversTypeOK, Assigned, Recorded, RecordedUpTo, BatchRows,
              RowsPassed, Written, Passed, Counted, MainSoFar, AllCollected, SomeRaised, NotBegun, Futures
<1> QED
  BY <1>1, MoveKeepsInv, TakeFutureKeepsInv, CountRaisesKeepsInv, RecordKeepsInv, CollectKeepsInv,
     MainKeepsInv DEF DriversNext, MainStep, WorkerStep

\* Whatever the runs come to and whenever a worker raises, the invariant holds.
THEOREM DriversInvHolds == DriversSpec => []DriversInv
<1> QED
  BY DriversInitInv, DriversNextKeepsInv, PTL DEF DriversSpec

\* Every variable of the drivers keeps to its type.
THEOREM DriversTyped == DriversSpec => []DriversTypeOK
<1>1. DriversInv => DriversTypeOK
  BY DEF DriversInv
<1> QED
  BY <1>1, DriversInvHolds, PTL

\* When every future has been collected, every run has its row.
LEMMA CollectedWritten ==
  ASSUME DriversInv, AllCollected
  PROVE  Written = AllRuns
<1> USE DEF DriversInv
<1>1. Written \subseteq AllRuns
  BY DEF DriversTypeOK, Written, AllRuns
<1>2. ASSUME NEW t \in Futures, NEW i \in 1 .. command.runs
      PROVE  <<t, i>> \in Written
  <2>1. CASE command.kind = "batch"
    <3>1. i = 1
      BY <2>1, CommandTyped
    <3> QED
      BY <2>1, <3>1 DEF AllCollected, Recorded, BatchRows
  <2>2. CASE command.kind # "batch"
    BY <2>2 DEF AllCollected, Recorded, RecordedUpTo
  <2> QED
    BY <2>1, <2>2
<1> QED
  BY <1>1, <1>2 DEF AllRuns

\* An exit code of 0 means that every run was recorded and passed.
THEOREM ExitCodeHonest == DriversSpec => []ZeroMeansAllPassed
<1>1. ASSUME DriversInv
      PROVE  ZeroMeansAllPassed
  <2> SUFFICES ASSUME exit = 0
               PROVE  Written = AllRuns /\ \A r \in rows : Passed(r[3])
    BY DEF ZeroMeansAllPassed
  <2>1. AllCollected /\ success = total
    BY <1>1 DEF DriversInv, MainSoFar
  <2>2. ASSUME NEW r \in rows
        PROVE  Passed(r[3])
    <3>1. r[1] \in Futures
      BY <1>1 DEF DriversInv, DriversTypeOK
    <3>2. settled[r[1]] = "collected" /\ passes[r[1]] = command.runs
      BY <1>1, <2>1, <3>1 DEF DriversInv, AllCollected, Counted
    <3>3. CASE command.kind = "batch"
      <4>1. passes[r[1]] = 1
        BY <1>1, <3>2, <3>3, CommandTyped DEF DriversInv
      <4> QED
        BY <1>1, <3>1, <3>2, <3>3, <4>1 DEF DriversInv, Recorded, BatchRows, RowsPassed
    <3>4. CASE command.kind # "batch"
      BY <1>1, <3>1, <3>2, <3>4 DEF DriversInv, Recorded, RecordedUpTo, RowsPassed
    <3> QED
      BY <3>3, <3>4
  <2> QED
    BY <1>1, <2>1, <2>2, CollectedWritten
<1> QED
  BY <1>1, DriversInvHolds, PTL

\* A finished run lacks its row only after a worker has raised.
THEOREM RunsWritten == DriversSpec => []NoRunUnwritten
<1>1. ASSUME DriversInv
      PROVE  NoRunUnwritten
  <2>1. SomeRaised => command.kind = "batch"
    BY <1>1 DEF DriversInv, Assigned, SomeRaised
  <2>2. main \in {"ending", "exited"} => AllCollected \/ SomeRaised \/ NotBegun
    BY <1>1 DEF DriversInv, MainSoFar
  <2> QED
    BY <1>1, <2>1, <2>2, CollectedWritten DEF NoRunUnwritten, SomeRaised, NotBegun
<1> QED
  BY <1>1, DriversInvHolds, PTL
=============================================================================
