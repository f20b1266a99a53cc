------------------------------- MODULE Submit --------------------------------
(***************************************************************************)
(* call_submit.py and the GitHub workflow test-bitstream.yml it drives:    *)
(* every submitter uploads one encrypted bitstream, dispatches a workflow  *)
(* run for it, finds out the id of that run, polls it until it completes   *)
(* and prints what its artifact says as one JSON object.                   *)
(*                                                                         *)
(* The GitHub API answers a GET or fails; run_gh_api's own retries of a    *)
(* GET change nothing and are part of that one step.  The POST that        *)
(* dispatches is retried step by step, because each try may create a run.  *)
(* The submitter's deadlines are counted in polls.                         *)
(***************************************************************************)
EXTENDS Integers, FiniteSets

CONSTANTS
  Submitters,           \* processes of call_submit.py, each with its bitstream
  RunIds,               \* the ids GitHub gives workflow runs, in their order
  NULL,
  GH_API_MAX_RETRIES,
  FIND_POLLS,           \* listings find_recent_workflow_run has time for
  WAIT_POLLS,           \* polls wait_for_run has time for
  PAGE,                 \* per_page, the runs one listing shows
  GitHubs,              \* ways GitHub answers: records [returns_id, lists_promptly]
  Faults                \* what may go wrong: a subset of FaultKinds

FaultKinds == {"upload", "lost", "rejected", "api", "garbled", "hang", "workflow"}

ASSUME SubmitAssumption ==
  /\ NULL \notin Submitters
  /\ RunIds \subseteq Nat
  /\ NULL \notin Nat \cup {"success"}
  /\ GH_API_MAX_RETRIES \in Nat
  /\ FIND_POLLS \in Nat
  /\ WAIT_POLLS \in Nat
  /\ PAGE \in Nat \ {0}
  /\ \A g \in GitHubs : g.returns_id \in BOOLEAN /\ g.lists_promptly \in BOOLEAN
  /\ Faults \subseteq FaultKinds

VARIABLES
  github,      \* does the POST answer with the id of the run, and is a run listed
               \* as soon as it exists?
  pc,          \* pc[s]: what submitter s is about to do
  known,       \* known[s]: the runs listed before s dispatched
  retries,     \* retries[s]: times s has repeated the POST
  polls,       \* polls[s]: listings or polls made in the current wait
  run_id,      \* run_id[s]: the run s takes for its own, or NULL
  printed,     \* printed[s]: the JSON object s wrote to stdout, or NULL
  owner,       \* owner[r]: whose bitstream run r tests, NULL before r exists
  listed,      \* the runs that GitHub's listing shows
  stage,       \* stage[r]: how far the workflow has come
  outcome,     \* outcome[r]: what became of the step that runs jyd_client
  artifact,    \* artifact[r]: the outcome in the uploaded result, or NULL
  conclusion,  \* conclusion[r]: GitHub's verdict on the run, or NULL
  newest       \* newest[s]: the runs there were when s began (history)

submitterVars == <<pc, known, retries, polls, run_id, printed, newest>>
workflowVars  == <<owner, listed, stage, outcome, artifact, conclusion>>
vars == <<github, submitterVars, workflowVars>>

Phases == {"upload", "fallback", "list", "post", "find", "wait", "artifact",
           "ended", "raised", "hung"}
Stages == {"queued", "tested", "completed"}
\* "success" is exit code 0, "failure" exit code 1 with its JSON, "error" an exit
\* without JSON, and "none" that the step never ran.
Outcomes == {"success", "failure", "error", "none"}

Exists(r) == owner[r] # NULL

Init ==
  /\ github \in GitHubs
  /\ pc = [s \in Submitters |-> "upload"]
  /\ known = [s \in Submitters |-> {}]
  /\ retries = [s \in Submitters |-> 0]
  /\ polls = [s \in Submitters |-> 0]
  /\ run_id = [s \in Submitters |-> NULL]
  /\ printed = [s \in Submitters |-> NULL]
  /\ owner = [r \in RunIds |-> NULL]
  /\ listed = {}
  /\ stage = [r \in RunIds |-> "queued"]
  /\ outcome = [r \in RunIds |-> "none"]
  /\ artifact = [r \in RunIds |-> NULL]
  /\ conclusion = [r \in RunIds |-> NULL]
  /\ newest = [s \in Submitters |-> {}]

-----------------------------------------------------------------------------
(* How a submission goes on and how it ends.                               *)

Goto(s, phase) == pc' = [pc EXCEPT ![s] = phase]

\* The error in the artifact is jyd_client's, or the workflow's when there is no JSON
\* of jyd_client; one that failed by an exception without a message has none.
HasError(a) ==
  {e \in BOOLEAN : (a = "success" => ~e) /\ (a \in {"error", "none"} => e)}

\* print_public_result
PublicResults(r) == [conclusion : {conclusion[r]}, has_error : HasError(artifact[r])]

\* print_error_result
ErrorResult == [conclusion |-> NULL, has_error |-> TRUE]

Output(s, result) ==
  /\ printed' = [printed EXCEPT ![s] = result]
  /\ Goto(s, "ended")

\* A SubmitError ends in main, which prints an error result.
Fail(s) ==
  /\ Output(s, ErrorResult)
  /\ UNCHANGED <<github, known, retries, polls, run_id, newest, workflowVars>>

\* GitHub creates the next run.
CreateRun(s, r) ==
  /\ \A q \in RunIds : Exists(q) <=> q < r
  /\ owner' = [owner EXCEPT ![r] = s]
  /\ listed' = IF github.lists_promptly THEN listed \cup {r} ELSE listed
  /\ UNCHANGED <<stage, outcome, artifact, conclusion>>

\* Any other exception leaves main with nothing printed on stdout.
AnswerIsGarbled(s) ==
  /\ "garbled" \in Faults
  /\ \/ pc[s] \in {"list", "find", "wait", "artifact"} /\ UNCHANGED workflowVars
     \/ pc[s] = "post" /\ \E r \in RunIds : CreateRun(s, r)
  /\ Goto(s, "raised")
  /\ UNCHANGED <<github, known, retries, polls, run_id, printed, newest>>

\* gh never returns: it is run without a timeout, and the try is never repeated.
CallHangs(s) ==
  /\ "hang" \in Faults
  /\ \/ pc[s] \in {"list", "post", "find", "wait", "artifact"} /\ UNCHANGED workflowVars
     \/ pc[s] = "post" /\ \E r \in RunIds : CreateRun(s, r)
  /\ Goto(s, "hung")
  /\ UNCHANGED <<github, known, retries, polls, run_id, printed, newest>>

ApiFails(s) ==
  /\ "api" \in Faults
  /\ pc[s] \in {"list", "find", "wait", "artifact"}
  /\ Fail(s)

-----------------------------------------------------------------------------
(* Uploading and dispatching.                                              *)

Upload(s) ==
  /\ pc[s] \in {"upload", "fallback"}
  /\ Goto(s, "list")
  /\ UNCHANGED <<github, known, retries, polls, run_id, printed, newest, workflowVars>>

\* Filebin is tried when TempFile.org fails.
UploadFails(s) ==
  /\ "upload" \in Faults
  /\ \/ /\ pc[s] = "upload"
        /\ Goto(s, "fallback")
        /\ UNCHANGED <<github, known, retries, polls, run_id, printed, newest, workflowVars>>
     \/ pc[s] = "fallback" /\ Fail(s)

\* One page of workflow runs, the newest ones.
ListedPage == {r \in listed : Cardinality({q \in listed : q > r}) < PAGE}

ListKnownRuns(s) ==
  /\ pc[s] = "list"
  /\ known' = [known EXCEPT ![s] = ListedPage]
  /\ newest' = [newest EXCEPT ![s] = {r \in RunIds : Exists(r)}]
  /\ Goto(s, "post")
  /\ UNCHANGED <<github, retries, polls, run_id, printed, workflowVars>>

\* The id in the answer is ignored (a mutant of Dispatch).
DispatchIgnoringId(s) ==
  /\ pc[s] = "post"
  /\ \E r \in RunIds : CreateRun(s, r)
  /\ Goto(s, "find")
  /\ UNCHANGED <<github, known, retries, polls, run_id, printed, newest>>

\* The answer holds the id of the run, or is empty.
Dispatch(s) ==
  /\ pc[s] = "post"
  /\ \E r \in RunIds :
       /\ CreateRun(s, r)
       /\ run_id' = [run_id EXCEPT ![s] = IF github.returns_id THEN r ELSE NULL]
  /\ Goto(s, IF github.returns_id THEN "wait" ELSE "find")
  /\ UNCHANGED <<github, known, retries, polls, printed, newest>>

\* The repetition is not counted (a mutant of RetryDispatch).
RetryDispatchUncounted(s) ==
  /\ pc[s] = "post"
  /\ "lost" \in Faults
  /\ UNCHANGED workflowVars \/ \E r \in RunIds : CreateRun(s, r)
  /\ UNCHANGED <<github, pc, known, retries, polls, run_id, printed, newest>>

\* One repetition too many (a mutant of RetryDispatch).
RetryDispatchOnceMore(s) ==
  /\ pc[s] = "post"
  /\ "lost" \in Faults
  /\ retries[s] <= GH_API_MAX_RETRIES
  /\ retries' = [retries EXCEPT ![s] = @ + 1]
  /\ UNCHANGED workflowVars \/ \E r \in RunIds : CreateRun(s, r)
  /\ UNCHANGED <<github, pc, known, polls, run_id, printed, newest>>

\* The POST or its answer is lost, with an error that run_gh_api retries: the run
\* may exist, and the next try creates another.
RetryDispatch(s) ==
  /\ pc[s] = "post"
  /\ "lost" \in Faults
  /\ retries[s] < GH_API_MAX_RETRIES
  /\ retries' = [retries EXCEPT ![s] = @ + 1]
  /\ UNCHANGED workflowVars \/ \E r \in RunIds : CreateRun(s, r)
  /\ UNCHANGED <<github, pc, known, polls, run_id, printed, newest>>

DispatchFails(s) ==
  /\ pc[s] = "post"
  /\ \/ "rejected" \in Faults
     \/ "lost" \in Faults /\ retries[s] = GH_API_MAX_RETRIES
  /\ Output(s, ErrorResult)
  /\ UNCHANGED workflowVars \/ \E r \in RunIds : CreateRun(s, r)
  /\ UNCHANGED <<github, known, retries, polls, run_id, newest>>

-----------------------------------------------------------------------------
(* Finding the run, waiting for it and reading its result.                 *)

\* The runs known before are not told apart (a mutant of FindRun).
FindAnyRun(s) ==
  /\ pc[s] = "find" /\ polls[s] < FIND_POLLS
  /\ \E r \in ListedPage : run_id' = [run_id EXCEPT ![s] = r]
  /\ polls' = [polls EXCEPT ![s] = 0]
  /\ Goto(s, "wait")
  /\ UNCHANGED <<github, known, retries, printed, newest, workflowVars>>

\* The newest run of the page that was not there before the dispatch.
FindRun(s) ==
  /\ pc[s] = "find" /\ polls[s] < FIND_POLLS
  /\ \E r \in ListedPage \ known[s] :
       /\ \A q \in ListedPage \ known[s] : q <= r
       /\ run_id' = [run_id EXCEPT ![s] = r]
  /\ polls' = [polls EXCEPT ![s] = 0]
  /\ Goto(s, "wait")
  /\ UNCHANGED <<github, known, retries, printed, newest, workflowVars>>

LookAgain(s) ==
  /\ pc[s] = "find" /\ polls[s] < FIND_POLLS
  /\ ListedPage \subseteq known[s]
  /\ polls' = [polls EXCEPT ![s] = @ + 1]
  /\ UNCHANGED <<github, pc, known, retries, run_id, printed, newest, workflowVars>>

FindTimesOut(s) ==
  /\ pc[s] = "find" /\ polls[s] = FIND_POLLS
  /\ Fail(s)

SeeCompleted(s) ==
  /\ pc[s] = "wait" /\ polls[s] < WAIT_POLLS
  /\ stage[run_id[s]] = "completed"
  /\ Goto(s, "artifact")
  /\ UNCHANGED <<github, known, retries, polls, run_id, printed, newest, workflowVars>>

\* The deadline is computed anew in each round (a mutant of PollAgain).
PollWithNewDeadline(s) ==
  /\ pc[s] = "wait" /\ polls[s] < WAIT_POLLS
  /\ stage[run_id[s]] # "completed"
  /\ polls' = [polls EXCEPT ![s] = 0]
  /\ UNCHANGED <<github, pc, known, retries, run_id, printed, newest, workflowVars>>

PollAgain(s) ==
  /\ pc[s] = "wait" /\ polls[s] < WAIT_POLLS
  /\ stage[run_id[s]] # "completed"
  /\ polls' = [polls EXCEPT ![s] = @ + 1]
  /\ UNCHANGED <<github, pc, known, retries, run_id, printed, newest, workflowVars>>

WaitTimesOut(s) ==
  /\ pc[s] = "wait" /\ polls[s] = WAIT_POLLS
  /\ Fail(s)

\* The exit status is 0 when the run's conclusion is "success".
PrintResult(s) ==
  /\ pc[s] = "artifact"
  /\ artifact[run_id[s]] # NULL
  /\ \E result \in PublicResults(run_id[s]) : Output(s, result)
  /\ UNCHANGED <<github, known, retries, polls, run_id, newest, workflowVars>>

NoArtifact(s) ==
  /\ pc[s] = "artifact"
  /\ artifact[run_id[s]] = NULL
  /\ Fail(s)

-----------------------------------------------------------------------------
(* The workflow.                                                           *)

ListRun(r) ==
  /\ Exists(r) /\ r \notin listed
  /\ listed' = listed \cup {r}
  /\ UNCHANGED <<github, submitterVars, owner, stage, outcome, artifact, conclusion>>

\* Download, decrypt, connect, install, run.  A step before the test fails, or the
\* job is cancelled, and the test does not run; the exit code of the test itself
\* does not fail its step.
TestBitstream(r) ==
  /\ Exists(r) /\ stage[r] = "queued"
  /\ \E o \in IF "workflow" \in Faults THEN Outcomes ELSE {"success", "failure"} :
       outcome' = [outcome EXCEPT ![r] = o]
  /\ stage' = [stage EXCEPT ![r] = "tested"]
  /\ UNCHANGED <<github, submitterVars, owner, listed, artifact, conclusion>>

\* The last step fails unless the test exited with 0, and so does any step before.
ConclusionOf(o, uploaded) ==
  IF o = "success" /\ uploaded THEN "success" ELSE "failure"

\* The exit code is lost on the way to the last step (a mutant of ReportResult).
ReportResultUnjudged(r) ==
  /\ stage[r] = "tested"
  /\ artifact' = [artifact EXCEPT ![r] = outcome[r]]
  /\ conclusion' = [conclusion EXCEPT ![r] = "success"]
  /\ stage' = [stage EXCEPT ![r] = "completed"]
  /\ UNCHANGED <<github, submitterVars, owner, listed, outcome>>

\* The steps that always run: summary, upload, disconnect, verdict.
ReportResult(r) ==
  /\ stage[r] = "tested"
  /\ \E uploaded \in IF "workflow" \in Faults THEN BOOLEAN ELSE {TRUE} :
       /\ artifact' = [artifact EXCEPT ![r] = IF uploaded THEN outcome[r] ELSE NULL]
       /\ conclusion' = [conclusion EXCEPT ![r] = ConclusionOf(outcome[r], uploaded)]
  /\ stage' = [stage EXCEPT ![r] = "completed"]
  /\ UNCHANGED <<github, submitterVars, owner, listed, outcome>>

\* The job is cancelled, by hand or by its 45 minutes, and its last steps with it.
CancelJob(r) ==
  /\ "workflow" \in Faults
  /\ Exists(r) /\ stage[r] # "completed"
  /\ conclusion' = [conclusion EXCEPT ![r] = "cancelled"]
  /\ stage' = [stage EXCEPT ![r] = "completed"]
  /\ \E a \in {NULL, outcome[r]} : artifact' = [artifact EXCEPT ![r] = a]
  /\ UNCHANGED <<github, submitterVars, owner, listed, outcome>>

-----------------------------------------------------------------------------
(* The specification.                                                      *)

Step(s) ==
  \/ Upload(s) \/ ListKnownRuns(s) \/ Dispatch(s)
  \/ FindRun(s) \/ LookAgain(s) \/ FindTimesOut(s)
  \/ SeeCompleted(s) \/ PollAgain(s) \/ WaitTimesOut(s)
  \/ PrintResult(s) \/ NoArtifact(s)

Fault(s) ==
  \/ UploadFails(s) \/ RetryDispatch(s) \/ DispatchFails(s)
  \/ ApiFails(s) \/ AnswerIsGarbled(s) \/ CallHangs(s)

JobStep(r) == ListRun(r) \/ TestBitstream(r) \/ ReportResult(r) \/ CancelJob(r)

Next == (\E s \in Submitters : Step(s) \/ Fault(s)) \/ (\E r \in RunIds : JobStep(r))

Spec == Init /\ [][Next]_vars

\* A submitter goes on to its next step once the call it made has returned; one whose
\* call never returns is hung and takes none.  Faults need not happen, and neither
\* need any step of a workflow run.
FairSpec == Spec /\ \A s \in Submitters : WF_vars(Step(s))

-----------------------------------------------------------------------------
(* Properties.                                                             *)

\* Every variable keeps to its values, the counters to their bounds included.
TypeOK ==
  /\ github \in GitHubs
  /\ pc \in [Submitters -> Phases]
  /\ known \in [Submitters -> SUBSET RunIds]
  /\ retries \in [Submitters -> 0 .. GH_API_MAX_RETRIES]
  /\ polls \in [Submitters -> 0 .. (FIND_POLLS + WAIT_POLLS)]
  /\ run_id \in [Submitters -> RunIds \cup {NULL}]
  /\ printed \in [Submitters -> [conclusion : {"success", "failure", "cancelled", NULL},
                                 has_error : BOOLEAN] \cup {NULL}]
  /\ owner \in [RunIds -> Submitters \cup {NULL}]
  /\ listed \subseteq RunIds
  /\ stage \in [RunIds -> Stages]
  /\ outcome \in [RunIds -> Outcomes]
  /\ artifact \in [RunIds -> Outcomes \cup {NULL}]
  /\ conclusion \in [RunIds -> {"success", "failure", "cancelled", NULL}]
  /\ newest \in [Submitters -> SUBSET RunIds]

\* When GitHub answers with ids, nobody is shown the result of another's bitstream,
\* though the POST is repeated when its answer was lost and each try may have
\* created a run.
ReportsOwnRun ==
  github.returns_id => \A s \in Submitters : run_id[s] # NULL => owner[run_id[s]] = s

\* A printed success was tested: jyd_client ran in that run and exited with 0, and
\* the error flag, which comes from the artifact, agrees with the conclusion.
SuccessIsTested ==
  \A s \in Submitters :
    printed[s] # NULL /\ printed[s].conclusion = "success" =>
      ~printed[s].has_error /\ outcome[run_id[s]] = "success"

\* Without an id in the answer, the run that is found is at least one that did not
\* exist when the submitter dispatched, as long as GitHub lists runs at once.
FreshRun ==
  github.lists_promptly =>
    \A s \in Submitters : run_id[s] # NULL => run_id[s] \notin newest[s]

\* A bitstream is tested at most once for each time its POST was sent.
OneRunPerTry ==
  \A s \in Submitters : Cardinality({r \in RunIds : owner[r] = s}) <= retries[s] + 1

\* Every submission ends with a JSON object on stdout, though its run be never listed,
\* never start or never complete.  What is excepted is a call of gh that never
\* returns, for which the program has no timeout, and an answer it cannot decode.
SubmissionEnds ==
  \A s \in Submitters :
    <>(\/ pc[s] = "ended" /\ printed[s] # NULL
       \/ pc[s] \in {"hung", "raised"})

-----------------------------------------------------------------------------
(* What a message of the program says of it.                               *)

\* "could not find the dispatched workflow run": the one that is found is the
\* submitter's own.
FindsDispatchedRun == \A s \in Submitters : run_id[s] # NULL => owner[run_id[s]] = s
=============================================================================
