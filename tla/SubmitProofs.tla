----------------------------- MODULE SubmitProofs -----------------------------
(***************************************************************************)
(* Submit, for any submitters, numbers of runs, pages, retries and faults: *)
(* how many tests one submission costs, whose result it reports, and what  *)
(* a printed success rests on.                                             *)
(***************************************************************************)
EXTENDS Submit, FiniteSetTheorems, TLAPS

-----------------------------------------------------------------------------
(* Types.                                                                  *)

\* Whoever waits for a run or reads its artifact has taken one for its own.
Flow == \A s \in Submitters : pc[s] \in {"wait", "artifact"} => run_id[s] # NULL

Typed == TypeOK /\ Flow

LEMMA TypedInit == Init => Typed
BY SubmitAssumption DEF Init, Typed, TypeOK, Flow, Phases, Stages, Outcomes

\* The workflow's variables, whose part in TypeOK they are.
WorkflowTyped ==
  /\ owner \in [RunIds -> Submitters \cup {NULL}]
  /\ listed \subseteq RunIds
  /\ stage \in [RunIds -> Stages]
  /\ outcome \in [RunIds -> Outcomes]
  /\ artifact \in [RunIds -> Outcomes \cup {NULL}]
  /\ conclusion \in [RunIds -> {"success", "failure", "cancelled", NULL}]

LEMMA CreateRunTyped ==
  ASSUME TypeOK, NEW s \in Submitters,
         UNCHANGED workflowVars \/ \E r \in RunIds : CreateRun(s, r)
  PROVE  WorkflowTyped'
BY DEF CreateRun, TypeOK, WorkflowTyped, workflowVars

LEMMA TypedSubmitter ==
  ASSUME Typed, NEW s \in Submitters, Step(s) \/ Fault(s)
  PROVE  Typed'
<1> USE SubmitAssumption DEF Typed, TypeOK, Flow, Phases, Goto
<1>1. CASE Upload(s)
  BY <1>1 DEF Upload, workflowVars
<1>2. CASE ListKnownRuns(s)
  BY <1>2 DEF ListKnownRuns, ListedPage, workflowVars
<1>3. CASE Dispatch(s)
  <2>1. WorkflowTyped'
    BY <1>3, CreateRunTyped DEF Dispatch
  <2> QED
    BY <1>3, <2>1 DEF Dispatch, WorkflowTyped
<1>4. CASE FindRun(s)
  BY <1>4 DEF FindRun, ListedPage, workflowVars
<1>5. CASE LookAgain(s)
  BY <1>5 DEF LookAgain, workflowVars
<1>6. ASSUME Fail(s) PROVE Typed'
  BY <1>6 DEF Fail, Output, ErrorResult, workflowVars
<1>7. CASE SeeCompleted(s)
  BY <1>7 DEF SeeCompleted, workflowVars
<1>8. CASE PollAgain(s)
  BY <1>8 DEF PollAgain, workflowVars
<1>9. CASE PrintResult(s)
  <2>1. run_id[s] \in RunIds
    BY <1>9 DEF PrintResult
  <2>2. PublicResults(run_id[s]) \subseteq [conclusion : {"success", "failure", "cancelled", NULL},
                                            has_error : BOOLEAN]
    BY <2>1 DEF PublicResults, HasError
  <2> QED
    BY <1>9, <2>2 DEF PrintResult, Output, workflowVars
<1>10. CASE RetryDispatch(s)
  <2>1. WorkflowTyped'
    BY <1>10, CreateRunTyped DEF RetryDispatch
  <2> QED
    BY <1>10, <2>1 DEF RetryDispatch, WorkflowTyped
<1>11. CASE DispatchFails(s)
  <2>1. WorkflowTyped'
    BY <1>11, CreateRunTyped DEF DispatchFails
  <2> QED
    BY <1>11, <2>1 DEF DispatchFails, Output, ErrorResult, WorkflowTyped
<1>12. CASE AnswerIsGarbled(s)
  <2>1. WorkflowTyped'
    BY <1>12, CreateRunTyped DEF AnswerIsGarbled
  <2> QED
    BY <1>12, <2>1 DEF AnswerIsGarbled, WorkflowTyped
<1>14. CASE CallHangs(s)
  <2>1. WorkflowTyped'
    BY <1>14, CreateRunTyped DEF CallHangs
  <2> QED
    BY <1>14, <2>1 DEF CallHangs, WorkflowTyped
<1>13. CASE UploadFails(s)
  <2>1. CASE /\ Goto(s, "fallback")
             /\ UNCHANGED <<github, known, retries, polls, run_id, printed, newest, workflowVars>>
    BY <2>1 DEF workflowVars
  <2>2. CASE Fail(s)
    BY <1>6, <2>2
  <2> QED
    BY <1>13, <2>1, <2>2 DEF UploadFails
<1> QED
  BY <1>1, <1>2, <1>3, <1>4, <1>5, <1>6, <1>7, <1>8, <1>9, <1>10, <1>11, <1>12, <1>13, <1>14
     DEF Step, Fault, FindTimesOut, WaitTimesOut, NoArtifact, ApiFails

LEMMA TypedJob ==
  ASSUME Typed, NEW r \in RunIds, JobStep(r)
  PROVE  Typed'
<1> USE DEF Typed, TypeOK, Flow, Stages, Outcomes, submitterVars
<1>1. CASE ListRun(r)
  BY <1>1 DEF ListRun
<1>2. CASE TestBitstream(r)
  BY <1>2 DEF TestBitstream, FaultKinds
<1>3. CASE ReportResult(r)
  BY <1>3 DEF ReportResult, ConclusionOf
<1>4. CASE CancelJob(r)
  BY <1>4 DEF CancelJob
<1> QED
  BY <1>1, <1>2, <1>3, <1>4 DEF JobStep

LEMMA TypedStep == Typed /\ [Next]_vars => Typed'
<1> SUFFICES ASSUME Typed, [Next]_vars PROVE Typed'
  OBVIOUS
<1>1. CASE UNCHANGED vars
  BY <1>1 DEF vars, submitterVars, workflowVars, Typed, TypeOK, Flow
<1> QED
  BY <1>1, TypedSubmitter, TypedJob DEF Next

LEMMA TypedHolds == Spec => []Typed
<1> QED
  BY TypedInit, TypedStep, PTL DEF Spec

\* Every variable keeps to its values, and the repetitions of the POST and the
\* polls of each wait to their bounds, whatever fails.
THEOREM SubmitTyped == Spec => []TypeOK
<1>1. Typed => TypeOK
  BY DEF Typed
<1> QED
  BY <1>1, TypedHolds, PTL

-----------------------------------------------------------------------------
(* One test for each time the POST is sent.                                *)

Runs(s) == {r \in RunIds : owner[r] = s}

\* Times the POST was sent: the first is counted when the submitter goes on.
Sent(s) == IF pc[s] \in {"upload", "fallback", "list", "post"} THEN retries[s] ELSE retries[s] + 1

RunsSent ==
  \A s \in Submitters : IsFiniteSet(Runs(s)) /\ Cardinality(Runs(s)) <= Sent(s)

LEMMA RunsSentInit == Init => RunsSent
<1> SUFFICES ASSUME Init, NEW s \in Submitters
             PROVE  IsFiniteSet(Runs(s)) /\ Cardinality(Runs(s)) <= Sent(s)
  BY DEF RunsSent
<1>1. Runs(s) = {}
  BY SubmitAssumption DEF Init, Runs
<1>2. Sent(s) = 0
  BY DEF Init, Sent
<1> QED
  BY <1>1, <1>2, FS_EmptySet

\* A run is only created by a submitter that is sending its POST, and then the POST
\* counts as sent.
LEMMA SendingStep ==
  ASSUME TypeOK, NEW s \in Submitters, Step(s) \/ Fault(s)
  PROVE  /\ \/ UNCHANGED owner /\ Sent(s) <= Sent(s)'
            \/ (\E r \in RunIds : CreateRun(s, r)) /\ Sent(s) + 1 <= Sent(s)'
         /\ \A d \in Submitters \ {s} : Sent(d)' = Sent(d)
<1> USE DEF TypeOK, Phases, Sent, Goto, workflowVars
<1>1. CASE Upload(s)
  BY <1>1 DEF Upload
<1>2. CASE ListKnownRuns(s)
  BY <1>2 DEF ListKnownRuns
<1>3. CASE Dispatch(s)
  BY <1>3 DEF Dispatch
<1>4. CASE FindRun(s)
  BY <1>4 DEF FindRun
<1>5. CASE LookAgain(s)
  BY <1>5 DEF LookAgain
<1>6. CASE Fail(s)
  BY <1>6 DEF Fail, Output
<1>7. CASE SeeCompleted(s)
  BY <1>7 DEF SeeCompleted
<1>8. CASE PollAgain(s)
  BY <1>8 DEF PollAgain
<1>9. CASE PrintResult(s)
  BY <1>9 DEF PrintResult, Output
<1>10. CASE RetryDispatch(s)
  BY <1>10 DEF RetryDispatch
<1>11. CASE DispatchFails(s)
  BY <1>11 DEF DispatchFails, Output
<1>12. CASE AnswerIsGarbled(s)
  BY <1>12 DEF AnswerIsGarbled
<1>15. CASE CallHangs(s)
  BY <1>15 DEF CallHangs
<1>13. CASE UploadFails(s)
  BY <1>13, <1>6 DEF UploadFails
<1> QED
  BY <1>1, <1>2, <1>3, <1>4, <1>5, <1>6, <1>7, <1>8, <1>9, <1>10, <1>11, <1>12, <1>13, <1>15
     DEF Step, Fault, FindTimesOut, WaitTimesOut, NoArtifact, ApiFails

\* A run that is created is new, and its creator's.
LEMMA CreatedRun ==
  ASSUME TypeOK, NEW s \in Submitters, NEW r \in RunIds, CreateRun(s, r)
  PROVE  /\ ~Exists(r)
         /\ owner' = [owner EXCEPT ![r] = s]
         /\ r \notin Runs(s) /\ Runs(s)' = Runs(s) \cup {r}
         /\ \A d \in Submitters \ {s} : Runs(d)' = Runs(d)
<1>1. ~Exists(r) /\ owner' = [owner EXCEPT ![r] = s]
  BY SubmitAssumption DEF CreateRun
<1> QED
  BY <1>1, SubmitAssumption DEF TypeOK, Runs, Exists

LEMMA RunsSentStep == TypeOK /\ TypeOK' /\ RunsSent /\ [Next]_vars => RunsSent'
<1> SUFFICES ASSUME TypeOK, TypeOK', RunsSent, [Next]_vars, NEW d \in Submitters
             PROVE  (IsFiniteSet(Runs(d)) /\ Cardinality(Runs(d)) <= Sent(d))'
  BY DEF RunsSent
<1>0. IsFiniteSet(Runs(d)) /\ Cardinality(Runs(d)) \in Nat /\ Cardinality(Runs(d)) <= Sent(d)
  BY FS_CardinalityType DEF RunsSent
<1>1. \A s \in Submitters : Sent(s) \in Nat /\ Sent(s)' \in Nat
  BY SubmitAssumption DEF Sent, TypeOK
<1>2. CASE UNCHANGED <<owner, pc, retries>>
  BY <1>0, <1>2 DEF Runs, Sent
<1>3. ASSUME NEW s \in Submitters, Step(s) \/ Fault(s)
      PROVE  (IsFiniteSet(Runs(d)) /\ Cardinality(Runs(d)) <= Sent(d))'
  <2>1. CASE UNCHANGED owner /\ Sent(s) <= Sent(s)'
    <3>1. Runs(d)' = Runs(d)
      BY <2>1 DEF Runs
    <3>2. Sent(d) <= Sent(d)'
      BY <1>1, <1>3, <2>1, SendingStep
    <3> QED
      BY <1>0, <1>1, <3>1, <3>2
  <2>2. ASSUME NEW r \in RunIds, CreateRun(s, r), Sent(s) + 1 <= Sent(s)'
        PROVE  (IsFiniteSet(Runs(d)) /\ Cardinality(Runs(d)) <= Sent(d))'
    <3>1. CASE d = s
      <4>1. /\ IsFiniteSet(Runs(d) \cup {r})
            /\ Cardinality(Runs(d) \cup {r}) <= Cardinality(Runs(d)) + 1
        BY <1>0, FS_AddElement
      <4>2. Runs(d)' = Runs(d) \cup {r}
        BY <2>2, <3>1, CreatedRun
      <4>3. Cardinality(Runs(d) \cup {r}) \in Nat
        BY <4>1, FS_CardinalityType
      <4>4. Cardinality(Runs(d) \cup {r}) <= Sent(d)'
        BY <1>0, <1>1, <2>2, <3>1, <4>1, <4>3
      <4> QED
        BY <4>1, <4>2, <4>4
    <3>2. CASE d # s
      <4>1. Runs(d)' = Runs(d) /\ Sent(d)' = Sent(d)
        BY <1>3, <2>2, <3>2, CreatedRun, SendingStep
      <4> QED
        BY <1>0, <4>1
    <3> QED
      BY <3>1, <3>2
  <2> QED
    BY <1>3, <2>1, <2>2, SendingStep
<1>4. ASSUME NEW r \in RunIds, JobStep(r)
      PROVE  UNCHANGED <<owner, pc, retries>>
  BY <1>4 DEF JobStep, ListRun, TestBitstream, ReportResult, CancelJob, submitterVars
<1>5. CASE UNCHANGED vars
  BY <1>2, <1>5 DEF vars, submitterVars, workflowVars
<1> QED
  BY <1>2, <1>3, <1>4, <1>5 DEF Next

\* However often the answer to the POST is lost, a submission costs at most one test
\* for each time it was sent.
THEOREM SubmissionsArePaidFor == Spec => []OneRunPerTry
<1>1. TypeOK /\ RunsSent => OneRunPerTry
  <2> SUFFICES ASSUME TypeOK, RunsSent, NEW s \in Submitters
               PROVE  Cardinality(Runs(s)) <= retries[s] + 1
    BY DEF OneRunPerTry, Runs
  <2>1. IsFiniteSet(Runs(s)) /\ Cardinality(Runs(s)) <= Sent(s)
    BY DEF RunsSent
  <2>2. Cardinality(Runs(s)) \in Nat
    BY <2>1, FS_CardinalityType
  <2>3. Sent(s) \in {retries[s], retries[s] + 1} /\ retries[s] \in Nat
    BY SubmitAssumption DEF Sent, TypeOK
  <2> QED
    BY <2>1, <2>2, <2>3
<1> QED
  BY <1>1, SubmitTyped, RunsSentInit, RunsSentStep, PTL DEF Spec

-----------------------------------------------------------------------------
(* Whose run it is.                                                        *)

\* Where ids are returned, nobody looks for a run, and the one taken is one's own.
OwnTaken ==
  github.returns_id =>
    \A s \in Submitters : pc[s] # "find" /\ (run_id[s] # NULL => owner[run_id[s]] = s)

LEMMA OwnTakenInit == Init => OwnTaken
BY DEF Init, OwnTaken

\* A submitter takes a run when the POST answers with its id or when it finds one, and
\* looks for one only when the POST answered with none.
LEMMA TakingStep ==
  ASSUME TypeOK, NEW s \in Submitters, Step(s) \/ Fault(s)
  PROVE  /\ \/ UNCHANGED run_id
            \/ pc[s] = "find" /\ FindRun(s)
            \/ pc[s] = "post" /\ Dispatch(s)
         /\ \A d \in Submitters \ {s} : pc'[d] = pc[d] /\ run_id'[d] = run_id[d]
         /\ pc'[s] = "find" => pc[s] = "find" \/ ~github.returns_id
         /\ pc'[s] \in {"upload", "fallback", "list", "post"} =>
              pc[s] \in {"upload", "fallback", "list", "post"} /\ UNCHANGED run_id
         /\ github' = github
<1> USE DEF TypeOK, Phases, Goto
<1>1. CASE Upload(s)
  BY <1>1 DEF Upload
<1>2. CASE ListKnownRuns(s)
  BY <1>2 DEF ListKnownRuns
<1>3. CASE Dispatch(s)
  BY <1>3 DEF Dispatch
<1>4. CASE FindRun(s)
  BY <1>4 DEF FindRun
<1>5. CASE LookAgain(s)
  BY <1>5 DEF LookAgain
<1>6. CASE Fail(s)
  BY <1>6 DEF Fail, Output
<1>7. CASE SeeCompleted(s)
  BY <1>7 DEF SeeCompleted
<1>8. CASE PollAgain(s)
  BY <1>8 DEF PollAgain
<1>9. CASE PrintResult(s)
  BY <1>9 DEF PrintResult, Output
<1>10. CASE RetryDispatch(s)
  BY <1>10 DEF RetryDispatch
<1>11. CASE DispatchFails(s)
  BY <1>11 DEF DispatchFails, Output
<1>12. CASE AnswerIsGarbled(s)
  BY <1>12 DEF AnswerIsGarbled
<1>15. CASE CallHangs(s)
  BY <1>15 DEF CallHangs
<1>13. CASE UploadFails(s)
  BY <1>13, <1>6 DEF UploadFails
<1> QED
  BY <1>1, <1>2, <1>3, <1>4, <1>5, <1>6, <1>7, <1>8, <1>9, <1>10, <1>11, <1>12, <1>13, <1>15
     DEF Step, Fault, FindTimesOut, WaitTimesOut, NoArtifact, ApiFails

\* Whose bitstream a run tests never changes.
LEMMA OwnersStay ==
  ASSUME TypeOK, [Next]_vars, NEW r \in RunIds, Exists(r)
  PROVE  Exists(r)' /\ owner'[r] = owner[r]
<1>1. CASE UNCHANGED owner
  BY <1>1 DEF Exists
<1>2. ASSUME NEW s \in Submitters, Step(s) \/ Fault(s) PROVE Exists(r)' /\ owner'[r] = owner[r]
  <2>1. ASSUME NEW q \in RunIds, CreateRun(s, q) PROVE Exists(r)' /\ owner'[r] = owner[r]
    BY <2>1, CreatedRun DEF Exists, TypeOK
  <2> QED
    BY <1>1, <1>2, <2>1, SendingStep
<1>3. ASSUME NEW q \in RunIds, JobStep(q) PROVE UNCHANGED owner
  BY <1>3 DEF JobStep, ListRun, TestBitstream, ReportResult, CancelJob
<1>4. CASE UNCHANGED vars
  BY <1>1, <1>4 DEF vars, workflowVars
<1> QED
  BY <1>1, <1>2, <1>3, <1>4 DEF Next

LEMMA OwnTakenStep == TypeOK /\ OwnTaken /\ [Next]_vars => OwnTaken'
<1> SUFFICES ASSUME TypeOK, OwnTaken, [Next]_vars, github'.returns_id, NEW d \in Submitters
             PROVE  pc'[d] # "find" /\ (run_id'[d] # NULL => owner'[run_id'[d]] = d)
  BY DEF OwnTaken
<1>1. github' = github
  BY DEF Next, vars, Step, Fault, JobStep, Upload, ListKnownRuns, Dispatch, FindRun, LookAgain,
         FindTimesOut, SeeCompleted, PollAgain, WaitTimesOut, PrintResult, NoArtifact, UploadFails,
         RetryDispatch, DispatchFails, ApiFails, AnswerIsGarbled, CallHangs, ListRun,
         TestBitstream, ReportResult, CancelJob, Fail
<1>2. /\ pc[d] # "find"
      /\ run_id[d] \in RunIds \cup {NULL}
      /\ run_id[d] # NULL => owner[run_id[d]] = d
  BY <1>1 DEF OwnTaken, TypeOK
<1>3. ASSUME run_id'[d] = run_id[d] PROVE run_id'[d] # NULL => owner'[run_id'[d]] = d
  <2> SUFFICES ASSUME run_id[d] # NULL PROVE owner'[run_id[d]] = d
    BY <1>3
  <2>1. run_id[d] \in RunIds /\ Exists(run_id[d])
    BY <1>2, SubmitAssumption DEF Exists
  <2> QED
    BY <1>2, <2>1, OwnersStay
<1>4. ASSUME NEW s \in Submitters, Step(s) \/ Fault(s)
      PROVE  pc'[d] # "find" /\ (run_id'[d] # NULL => owner'[run_id'[d]] = d)
  <2>1. pc'[d] # "find" /\ pc[s] # "find"
    BY <1>1, <1>2, <1>4, TakingStep DEF TypeOK, OwnTaken
  <2>2. CASE Dispatch(s)
    <3>1. PICK r \in RunIds : CreateRun(s, r) /\ run_id' = [run_id EXCEPT ![s] = r]
      BY <1>1, <2>2 DEF Dispatch
    <3>2. CASE d = s
      <4>1. owner' = [owner EXCEPT ![r] = s]
        BY <3>1, CreatedRun
      <4> QED
        BY <2>1, <3>1, <3>2, <4>1 DEF TypeOK
    <3>3. CASE d # s
      BY <1>3, <2>1, <3>1, <3>3 DEF TypeOK
    <3> QED
      BY <2>1, <3>2, <3>3
  <2> QED
    BY <1>3, <1>4, <2>1, <2>2, TakingStep
<1>5. ASSUME NEW r \in RunIds, JobStep(r) PROVE UNCHANGED <<pc, run_id>>
  BY <1>5 DEF JobStep, ListRun, TestBitstream, ReportResult, CancelJob, submitterVars
<1>6. CASE UNCHANGED <<pc, run_id>>
  BY <1>2, <1>3, <1>6
<1> QED
  BY <1>4, <1>5, <1>6 DEF Next, vars, submitterVars

\* Where GitHub answers with ids, a submission never reports the result of another's
\* bitstream, however the runs of several submitters interleave.
THEOREM OwnRunIsReported == Spec => []ReportsOwnRun
<1>1. OwnTaken => ReportsOwnRun
  BY DEF OwnTaken, ReportsOwnRun
<1> QED
  BY <1>1, SubmitTyped, OwnTakenInit, OwnTakenStep, PTL DEF Spec

-----------------------------------------------------------------------------
(* A run that was not there before.                                        *)

Existing == {r \in RunIds : Exists(r)}

Later(set, r) == {q \in set : q > r}

\* The runs there were at the beginning are still there, and those the page of
\* known runs did not show had a page of later ones before them.
BeforeDispatch(s) ==
  /\ newest[s] \subseteq Existing
  /\ github.lists_promptly =>
       \A r \in newest[s] \ known[s] : Cardinality(Later(newest[s], r)) >= PAGE

Listing ==
  /\ IsFiniteSet(Existing)
  /\ listed \subseteq Existing
  /\ github.lists_promptly => listed = Existing

Fresh ==
  /\ Listing
  /\ \A s \in Submitters :
       pc[s] \in {"upload", "fallback", "list", "post"} => run_id[s] = NULL
  /\ \A s \in Submitters : BeforeDispatch(s)
  /\ FreshRun

LEMMA FreshInit == Init => Fresh
<1> SUFFICES ASSUME Init PROVE Fresh
  OBVIOUS
<1>1. Existing = {}
  BY DEF Init, Existing, Exists
<1>2. IsFiniteSet(Existing)
  BY <1>1, FS_EmptySet
<1> QED
  BY <1>1, <1>2 DEF Init, Fresh, Listing, BeforeDispatch, FreshRun

\* A submitter's step takes down the runs there are, or creates a run at most.
LEMMA ListingStep ==
  ASSUME NEW s \in Submitters, Step(s) \/ Fault(s)
  PROVE  /\ github' = github
         /\ \/ ListKnownRuns(s)
            \/ /\ UNCHANGED <<known, newest>>
               /\ UNCHANGED <<owner, listed>> \/ \E r \in RunIds : CreateRun(s, r)
<1>1. ASSUME UNCHANGED workflowVars PROVE UNCHANGED <<owner, listed>>
  BY <1>1 DEF workflowVars
<1>2. CASE Dispatch(s) \/ RetryDispatch(s) \/ DispatchFails(s) \/ AnswerIsGarbled(s)
               \/ CallHangs(s)
  BY <1>1, <1>2 DEF Dispatch, RetryDispatch, DispatchFails, AnswerIsGarbled, CallHangs
<1>3. CASE Fail(s)
  BY <1>1, <1>3 DEF Fail
<1>4. CASE ListKnownRuns(s)
  BY <1>4 DEF ListKnownRuns
<1> QED
  BY <1>1, <1>2, <1>3, <1>4
     DEF Step, Fault, Upload, FindRun, LookAgain, FindTimesOut, SeeCompleted, PollAgain,
         WaitTimesOut, PrintResult, NoArtifact, UploadFails, ApiFails

LEMMA ListingKept ==
  ASSUME TypeOK, Listing, [Next]_vars
  PROVE  Listing' /\ github' = github /\ Existing \subseteq Existing'
<1>1. CASE UNCHANGED <<github, owner, listed>>
  BY <1>1 DEF Listing, Existing, Exists
<1>2. ASSUME NEW s \in Submitters, NEW r \in RunIds, CreateRun(s, r), github' = github
      PROVE  Listing' /\ Existing \subseteq Existing'
  <2>1. Existing' = Existing \cup {r}
    <3>1. owner' = [owner EXCEPT ![r] = s] /\ s # NULL
      BY <1>2, CreatedRun, SubmitAssumption
    <3> QED
      BY <3>1 DEF Existing, Exists, TypeOK
  <2>2. IsFiniteSet(Existing \cup {r})
    BY FS_AddElement DEF Listing
  <2>3. listed' = IF github.lists_promptly THEN listed \cup {r} ELSE listed
    BY <1>2 DEF CreateRun
  <2> QED
    BY <1>2, <2>1, <2>2, <2>3 DEF Listing
<1>3. ASSUME NEW s \in Submitters, Step(s) \/ Fault(s)
      PROVE  Listing' /\ github' = github /\ Existing \subseteq Existing'
  <2>1. CASE ListKnownRuns(s)
    BY <1>1, <2>1 DEF ListKnownRuns, workflowVars
  <2> QED
    BY <1>1, <1>2, <1>3, <2>1, ListingStep
<1>4. ASSUME NEW r \in RunIds, JobStep(r)
      PROVE  Listing' /\ github' = github /\ Existing \subseteq Existing'
  <2>1. CASE ListRun(r)
    BY <2>1 DEF ListRun, Listing, Existing, Exists
  <2> QED
    BY <1>1, <1>4, <2>1 DEF JobStep, TestBitstream, ReportResult, CancelJob
<1> QED
  BY <1>1, <1>3, <1>4 DEF Next, vars, workflowVars

\* A run that was there before the dispatch, and that the page of known runs did not
\* show, is on no later page either.
LEMMA PageMovesOn ==
  ASSUME TypeOK, Fresh, github.lists_promptly, NEW s \in Submitters,
         NEW r \in ListedPage \ known[s]
  PROVE  r \notin newest[s]
<1> SUFFICES ASSUME r \in newest[s] PROVE FALSE
  OBVIOUS
<1>1. Cardinality(Later(newest[s], r)) >= PAGE
  BY DEF Fresh, BeforeDispatch
<1>2. IsFiniteSet(listed) /\ newest[s] \subseteq listed
  BY DEF Fresh, Listing, BeforeDispatch
<1>3. IsFiniteSet(Later(listed, r))
  BY <1>2, FS_Subset DEF Later
<1>4. Later(newest[s], r) \subseteq Later(listed, r)
  BY <1>2 DEF Later
<1>5. /\ Cardinality(Later(newest[s], r)) <= Cardinality(Later(listed, r))
      /\ IsFiniteSet(Later(newest[s], r))
  BY <1>3, <1>4, FS_Subset
<1>6. Cardinality(Later(newest[s], r)) \in Nat /\ Cardinality(Later(listed, r)) \in Nat
  BY <1>3, <1>5, FS_CardinalityType
<1>7. Cardinality(Later(listed, r)) < PAGE
  BY DEF ListedPage, Later
<1> QED
  BY <1>1, <1>5, <1>6, <1>7, SubmitAssumption

\* The page that is taken down before the dispatch shows the newest runs.
LEMMA KnownPage ==
  ASSUME TypeOK, Listing, github.lists_promptly, NEW r \in Existing \ ListedPage
  PROVE  Cardinality(Later(Existing, r)) >= PAGE
<1>1. listed = Existing
  BY DEF Listing
<1>2. IsFiniteSet(Later(Existing, r))
  BY FS_Subset DEF Listing, Later
<1>3. ~(Cardinality(Later(Existing, r)) < PAGE)
  BY <1>1 DEF ListedPage, Later
<1> QED
  BY <1>2, <1>3, FS_CardinalityType, SubmitAssumption

LEMMA FreshSubmitter ==
  ASSUME TypeOK, Fresh, [Next]_vars, NEW s \in Submitters, Step(s) \/ Fault(s)
  PROVE  Fresh'
<1>1. Listing /\ Listing' /\ github' = github /\ Existing \subseteq Existing'
  BY ListingKept DEF Fresh
<1>2. ASSUME NEW d \in Submitters, pc'[d] \in {"upload", "fallback", "list", "post"}
      PROVE  run_id'[d] = NULL
  <2>1. pc[d] \in {"upload", "fallback", "list", "post"} /\ run_id'[d] = run_id[d]
    BY <1>2, TakingStep
  <2> QED
    BY <2>1 DEF Fresh
<1>3. ASSUME NEW d \in Submitters PROVE BeforeDispatch(d)'
  <2>1. CASE UNCHANGED <<known, newest>>
    BY <1>1, <2>1 DEF Fresh, BeforeDispatch, Later
  <2>2. CASE ListKnownRuns(s)
    <3>1. CASE d # s
      BY <1>1, <2>2, <3>1 DEF Fresh, BeforeDispatch, Later, ListKnownRuns, TypeOK
    <3>2. CASE d = s
      <4>1. newest'[d] = Existing /\ known'[d] = ListedPage
        BY <2>2, <3>2 DEF ListKnownRuns, TypeOK, Existing
      <4>2. \A r : Later(newest[d], r)' = Later(Existing, r)
        BY <4>1 DEF Later
      <4> QED
        BY <1>1, <4>1, <4>2, KnownPage DEF BeforeDispatch
    <3> QED
      BY <3>1, <3>2
  <2> QED
    BY <2>1, <2>2, ListingStep
<1>4. FreshRun'
  <2> SUFFICES ASSUME github.lists_promptly, NEW d \in Submitters, run_id'[d] # NULL
               PROVE  run_id'[d] \notin newest'[d]
    BY <1>1 DEF FreshRun
  <2>1. CASE UNCHANGED <<run_id, newest>>
    BY <2>1 DEF Fresh, FreshRun
  <2>2. CASE ListKnownRuns(s)
    <3>1. d # s /\ UNCHANGED run_id
      BY <2>2 DEF ListKnownRuns, Fresh
    <3> QED
      BY <2>2, <3>1 DEF ListKnownRuns, Fresh, FreshRun, TypeOK
  <2>3. CASE FindRun(s)
    <3>1. PICK r \in ListedPage \ known[s] :
            run_id' = [run_id EXCEPT ![s] = r] /\ newest' = newest
      BY <2>3 DEF FindRun
    <3>2. r \notin newest[s]
      BY <3>1, PageMovesOn
    <3> QED
      BY <3>1, <3>2 DEF Fresh, FreshRun, TypeOK
  <2>4. CASE Dispatch(s)
    <3>1. PICK r \in RunIds :
            /\ CreateRun(s, r) /\ newest' = newest
            /\ run_id' = [run_id EXCEPT ![s] = IF github.returns_id THEN r ELSE NULL]
      BY <2>4 DEF Dispatch
    <3>2. r \notin newest[s]
      BY <3>1, CreatedRun DEF Fresh, BeforeDispatch, Existing
    <3> QED
      BY <3>1, <3>2 DEF Fresh, FreshRun, TypeOK
  <2> QED
    BY <2>1, <2>2, <2>3, <2>4, TakingStep, ListingStep
<1> QED
  BY <1>1, <1>2, <1>3, <1>4 DEF Fresh

LEMMA FreshStep == TypeOK /\ Fresh /\ [Next]_vars => Fresh'
<1> SUFFICES ASSUME TypeOK, Fresh, [Next]_vars PROVE Fresh'
  OBVIOUS
<1>1. CASE UNCHANGED <<pc, run_id, known, newest>>
  BY <1>1, ListingKept DEF Fresh, BeforeDispatch, FreshRun, Later
<1>2. ASSUME NEW r \in RunIds, JobStep(r) PROVE UNCHANGED <<pc, run_id, known, newest>>
  BY <1>2 DEF JobStep, ListRun, TestBitstream, ReportResult, CancelJob, submitterVars
<1> QED
  BY <1>1, <1>2, FreshSubmitter DEF Next, vars, submitterVars

\* Where no id is returned, but runs are listed at once, the run that is found did not
\* exist before the dispatch, however many runs there are and however short a page is.
THEOREM FoundRunIsFresh == Spec => []FreshRun
<1>1. Fresh => FreshRun
  BY DEF Fresh
<1> QED
  BY <1>1, SubmitTyped, FreshInit, FreshStep, PTL DEF Spec

-----------------------------------------------------------------------------
(* What a success means.                                                   *)

\* GitHub's verdict "success" is the test's own, uploaded, and final.
Judged ==
  \A r \in RunIds :
    conclusion[r] = "success" =>
      stage[r] = "completed" /\ outcome[r] = "success" /\ artifact[r] = "success"

\* Who printed a success has ended and read it from such a run.
Told ==
  \A s \in Submitters :
    printed[s] # NULL /\ printed[s].conclusion = "success" =>
      /\ pc[s] = "ended"
      /\ run_id[s] \in RunIds
      /\ conclusion[run_id[s]] = "success"
      /\ ~printed[s].has_error

LEMMA JudgedInit == Init => Judged /\ Told
BY SubmitAssumption DEF Init, Judged, Told

\* The submitters leave to the workflow how far it is and what it says.
LEMMA WorkflowAlone ==
  ASSUME NEW s \in Submitters, Step(s) \/ Fault(s)
  PROVE  UNCHANGED <<stage, outcome, artifact, conclusion>>
BY DEF Step, Fault, Upload, ListKnownRuns, Dispatch, FindRun, LookAgain, FindTimesOut,
       SeeCompleted, PollAgain, WaitTimesOut, PrintResult, NoArtifact, UploadFails, RetryDispatch,
       DispatchFails, ApiFails, AnswerIsGarbled, CallHangs, Fail, CreateRun, workflowVars

LEMMA JudgedStep == TypeOK /\ Judged /\ [Next]_vars => Judged'
<1> SUFFICES ASSUME TypeOK, Judged, [Next]_vars PROVE Judged'
  OBVIOUS
<1>1. CASE UNCHANGED <<stage, outcome, artifact, conclusion>>
  BY <1>1 DEF Judged
<1>2. ASSUME NEW r \in RunIds, JobStep(r) PROVE Judged'
  <2> USE DEF Judged, TypeOK
  <2>1. CASE ListRun(r)
    BY <2>1 DEF ListRun
  <2>2. CASE TestBitstream(r)
    BY <2>2 DEF TestBitstream
  <2>3. CASE ReportResult(r)
    BY <2>3 DEF ReportResult, ConclusionOf
  <2>4. CASE CancelJob(r)
    BY <2>4 DEF CancelJob
  <2> QED
    BY <1>2, <2>1, <2>2, <2>3, <2>4 DEF JobStep
<1> QED
  BY <1>1, <1>2, WorkflowAlone DEF Next, vars, workflowVars

\* A verdict of success is final.
LEMMA SuccessStays ==
  ASSUME TypeOK, Judged, [Next]_vars, NEW r \in RunIds, conclusion[r] = "success"
  PROVE  conclusion'[r] = "success"
<1>1. stage[r] = "completed"
  BY DEF Judged
<1>2. ASSUME NEW q \in RunIds, JobStep(q) PROVE conclusion'[r] = "success"
  BY <1>1, <1>2 DEF JobStep, ListRun, TestBitstream, ReportResult, CancelJob, TypeOK
<1> QED
  BY <1>2, WorkflowAlone DEF Next, vars, workflowVars

\* What is printed is an error, or the result of the run whose artifact was read, and
\* a submission that has ended does nothing more.
LEMMA PrintingStep ==
  ASSUME TypeOK, NEW s \in Submitters, Step(s) \/ Fault(s)
  PROVE  /\ pc[s] \notin {"ended", "raised", "hung"}
         /\ \/ UNCHANGED printed
            \/ printed' = [printed EXCEPT ![s] = ErrorResult]
            \/ PrintResult(s)
<1> USE DEF TypeOK, Phases, Goto
<1>1. CASE Upload(s)
  BY <1>1 DEF Upload
<1>2. CASE ListKnownRuns(s)
  BY <1>2 DEF ListKnownRuns
<1>3. CASE Dispatch(s)
  BY <1>3 DEF Dispatch
<1>4. CASE FindRun(s)
  BY <1>4 DEF FindRun
<1>5. CASE LookAgain(s)
  BY <1>5 DEF LookAgain
<1>6. ASSUME Fail(s) PROVE printed' = [printed EXCEPT ![s] = ErrorResult]
  BY <1>6 DEF Fail, Output
<1>7. CASE SeeCompleted(s)
  BY <1>7 DEF SeeCompleted
<1>8. CASE PollAgain(s)
  BY <1>8 DEF PollAgain
<1>9. CASE PrintResult(s)
  BY <1>9 DEF PrintResult
<1>10. CASE RetryDispatch(s)
  BY <1>10 DEF RetryDispatch
<1>11. CASE DispatchFails(s)
  BY <1>11 DEF DispatchFails, Output
<1>12. CASE AnswerIsGarbled(s)
  BY <1>12 DEF AnswerIsGarbled
<1>15. CASE CallHangs(s)
  BY <1>15 DEF CallHangs
<1>13. CASE UploadFails(s)
  BY <1>13, <1>6 DEF UploadFails
<1>14. CASE FindTimesOut(s) \/ WaitTimesOut(s) \/ NoArtifact(s) \/ ApiFails(s)
  BY <1>6, <1>14 DEF FindTimesOut, WaitTimesOut, NoArtifact, ApiFails
<1> QED
  BY <1>1, <1>2, <1>3, <1>4, <1>5, <1>7, <1>8, <1>9, <1>10, <1>11, <1>12, <1>13, <1>14, <1>15
     DEF Step, Fault

LEMMA ToldStep == Typed /\ Judged /\ Told /\ [Next]_vars => Told'
<1> SUFFICES ASSUME Typed, Judged, Told, [Next]_vars, NEW d \in Submitters,
                    printed'[d] # NULL, printed'[d].conclusion = "success"
             PROVE  /\ pc'[d] = "ended"
                    /\ run_id'[d] \in RunIds
                    /\ conclusion'[run_id'[d]] = "success"
                    /\ ~printed'[d].has_error
  BY DEF Told
<1>0. TypeOK /\ Flow
  BY DEF Typed
<1> USE <1>0
<1>1. ASSUME printed'[d] = printed[d], pc'[d] = pc[d], run_id'[d] = run_id[d]
      PROVE  /\ pc'[d] = "ended"
             /\ run_id'[d] \in RunIds
             /\ conclusion'[run_id'[d]] = "success"
             /\ ~printed'[d].has_error
  BY <1>1, SuccessStays DEF Told
<1>2. CASE UNCHANGED <<printed, pc, run_id>>
  BY <1>1, <1>2
<1>3. ASSUME NEW s \in Submitters, Step(s) \/ Fault(s)
      PROVE  /\ pc'[d] = "ended"
             /\ run_id'[d] \in RunIds
             /\ conclusion'[run_id'[d]] = "success"
             /\ ~printed'[d].has_error
  <2>1. CASE d # s
    <3>1. printed'[d] = printed[d]
      BY <1>3, <2>1, PrintingStep DEF PrintResult, Output, TypeOK
    <3>2. pc'[d] = pc[d] /\ run_id'[d] = run_id[d]
      BY <1>3, <2>1, TakingStep
    <3> QED
      BY <1>1, <3>1, <3>2
  <2>2. CASE d = s /\ printed' = printed
    BY <1>3, <2>2, PrintingStep DEF Told
  <2>3. CASE d = s /\ printed' = [printed EXCEPT ![s] = ErrorResult]
    BY <2>3, SubmitAssumption DEF ErrorResult, TypeOK
  <2>4. CASE d = s /\ PrintResult(s)
    <3>1. /\ run_id' = run_id /\ conclusion' = conclusion
          /\ pc' = [pc EXCEPT ![s] = "ended"]
      BY <2>4 DEF PrintResult, Output, Goto, workflowVars
    <3>2. PICK result \in PublicResults(run_id[s]) : printed' = [printed EXCEPT ![s] = result]
      BY <2>4 DEF PrintResult, Output
    <3>3. printed'[d] = result /\ pc'[d] = "ended"
      BY <2>4, <3>1, <3>2 DEF TypeOK
    <3>4. /\ result.conclusion = conclusion[run_id[d]]
          /\ result.has_error \in HasError(artifact[run_id[d]])
      BY <2>4, <3>2 DEF PublicResults
    <3>5. run_id[d] \in RunIds
      BY <1>0, <2>4 DEF PrintResult, Flow, TypeOK
    <3> QED
      BY <3>1, <3>3, <3>4, <3>5 DEF Judged, HasError
  <2> QED
    BY <1>3, <2>1, <2>2, <2>3, <2>4, PrintingStep
<1>4. ASSUME NEW r \in RunIds, JobStep(r) PROVE UNCHANGED <<printed, pc, run_id>>
  BY <1>4 DEF JobStep, ListRun, TestBitstream, ReportResult, CancelJob, submitterVars
<1> QED
  BY <1>2, <1>3, <1>4 DEF Next, vars, submitterVars

\* Who reads "success" knows that jyd_client ran in that run and exited with 0, and
\* finds no error beside it, though a job may be cancelled or lose its artifact.
THEOREM SuccessWasTested == Spec => []SuccessIsTested
<1>1. Judged /\ Told => SuccessIsTested
  BY DEF Judged, Told, SuccessIsTested
<1> QED
  BY <1>1, SubmitTyped, TypedHolds, JudgedInit, JudgedStep, ToldStep, PTL DEF Spec

=============================================================================
