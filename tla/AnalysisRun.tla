---------------------------- MODULE AnalysisRun ----------------------------
(***************************************************************************)
(* One claimed attempt in a worker: loading the material, with the retries *)
(* of the bilibili client, the supervised commands of MediaCommand and the *)
(* polling of BCut; the detectors and their aggregation; the end of the    *)
(* workspace; and the one write that ends the attempt.  wait_for may       *)
(* cancel all of it at any await.  What other processes do to the attempt  *)
(* is OwnershipLost; AnalysisSystem models it in full.                     *)
(***************************************************************************)
EXTENDS MediaCommand, Scoring

CONSTANTS
    MaxRetries,    \* bilibili_max_retries
    Answers        \* the [score, confidence] a detector may answer

ASSUME RunAssumption ==
    /\ MaxRetries \in Nat
    /\ Answers \subseteq [score: 0..Unit, confidence: 0..Unit]

VARIABLES
    stage,       \* where run_analysis, or run_once around it, is
    tries,       \* failed requests of the present get_json
    clips, clip, \* audio samples, and the one in work
    textFactor, visualFactor,
    saved,       \* rows written by the load: "default_cid", "declaration"
    outputs,     \* by detector, those that have ended
    result,      \* the AnalysisResultWrite
    workspace,   \* the directory, and rmtree in its thread
    error,       \* the code the attempt will fail with
    attempt,     \* the status of the row
    owned,       \* the fence of the row still holds for this claim
    timedOut     \* job_timeout_seconds have passed

runVars == <<stage, tries, clips, clip, textFactor, visualFactor, saved,
             outputs, result, workspace, error, attempt, owned, timedOut>>
vars == <<runVars, mediaVars>>
materialVars == <<tries, clips, clip, textFactor, visualFactor>>
analysisVars == <<outputs, result>>
rowVars == <<attempt, owned>>

LoadStages == {"view", "tags", "cid", "declaration"}
MediaStages == {"subtitles", "audio", "samples", "video", "frames"}
BCutStages == {"upload", "poll"}
WorkStages == LoadStages \cup MediaStages \cup BCutStages \cup {"start", "detect"}
Stages == WorkStages \cup {"cleanup", "write", "report", "ended"}

Codes == MediaCodes \cup {"risk_control", "video_unavailable", "cleanup_failed"}
NoResult == [score |-> 0, confidence |-> 0, label |-> "no result"]

TypeOK ==
    /\ MediaTypeOK
    /\ stage \in Stages
    /\ tries \in 0..MaxRetries
    /\ clips \in {0, 1, 3} /\ clip \in 0..3 /\ clip <= clips
    /\ textFactor \in {0, 7, 10} /\ visualFactor \in {0, 6, 10}
    /\ saved \subseteq {"default_cid", "declaration"}
    /\ DOMAIN outputs \subseteq Kinds
    /\ \A k \in DOMAIN outputs :
         outputs[k] \in [score: 0..Unit, confidence: 0..Unit, factor: 0..10]
    /\ result \in [score: 0..100, confidence: 0..100, label: Labels] \cup {NoResult}
    /\ workspace \in {"present", "removing", "removed", "left"}
    /\ error \in Codes
    /\ attempt \in {"fetching", "analyzing", "completed", "failed"}
    /\ {owned, timedOut} \subseteq BOOLEAN

\* claim_attempt succeeded; task_workspace made its directory.
Init ==
    /\ MediaInit
    /\ stage = "view" /\ tries = 0 /\ clips = 0 /\ clip = 0
    /\ textFactor = 0 /\ visualFactor = 0
    /\ saved = {} /\ outputs = <<>> /\ result = NoResult
    /\ workspace = "present" /\ error = "none"
    /\ attempt = "fetching" /\ owned = TRUE /\ timedOut = FALSE

----------------------------------------------------------------------------
(* The ends of a stage *)

\* An exception, or the return, leaves the body of task_workspace.
Leave(code) ==
    /\ stage' = "cleanup"
    /\ workspace' = "removing"
    /\ error' = code

Fail(code) ==
    /\ Leave(code)
    /\ UNCHANGED <<materialVars, saved, analysisVars, rowVars, timedOut>>

GoTo(s) == stage' = s /\ UNCHANGED <<workspace, error>>

\* The row that the database call of this await writes may be written although
\* the call raises or is cancelled.
RowOfLoad == CASE stage = "cid" -> {"default_cid"}
               [] stage = "declaration" -> {"declaration"}
               [] OTHER -> {}

MaybeWritten ==
    /\ \E rows \in SUBSET RowOfLoad : saved' = saved \cup rows
    /\ UNCHANGED attempt \/ (stage = "start" /\ owned /\ attempt' = "analyzing")
    /\ UNCHANGED owned

\* What an exception of a database call becomes: asyncpg's connect timeout and an
\* ETIMEDOUT of the socket are TimeoutErrors like the one of wait_for, and
\* _attempt_error_code looks at the type alone; nothing else has a code.
DatabaseCodes == {"analysis_failed", "detector_timeout"}

DatabaseRaises == MaybeWritten /\ \E code \in DatabaseCodes : Leave(code)

----------------------------------------------------------------------------
(* Metadata and declaration *)

\* Mutant: the last failure is retried, too.
NoTryLeftLate == tries > MaxRetries

NoTryLeft == tries = MaxRetries

\* A timeout, a network error or an HTTP status.
RequestFails ==
    /\ stage \in {"view", "tags"}
    /\ \/ NoTryLeft /\ Fail("temporary_upstream_failure")
       \/ /\ ~NoTryLeft /\ tries' = tries + 1
          /\ UNCHANGED <<stage, workspace, error, clips, clip, textFactor,
                         visualFactor, saved, analysisVars, rowVars, timedOut>>
    /\ UNCHANGED mediaVars

\* A code in the payload, or an answer that is no JSON object, is not retried.
RequestRefused ==
    /\ stage \in {"view", "tags"}
    /\ \E code \in {"risk_control", "video_unavailable",
                    "temporary_upstream_failure", "analysis_failed"} : Fail(code)
    /\ UNCHANGED mediaVars

RequestAnswered ==
    /\ stage \in {"view", "tags"}
    /\ GoTo(IF stage = "view" THEN "tags" ELSE "cid")
    /\ tries' = 0
    /\ UNCHANGED <<clips, clip, textFactor, visualFactor, saved, analysisVars,
                   rowVars, timedOut, mediaVars>>

\* MetadataService.load ends: there are parts, and the first is the default.  An
\* answer without parts is a ValueError, which has no code either.
LoadMetadata ==
    /\ stage = "cid"
    /\ \/ /\ GoTo("declaration") /\ saved' = saved \cup {"default_cid"}
          /\ UNCHANGED rowVars
       \/ DatabaseRaises
    /\ UNCHANGED <<materialVars, analysisVars, timedOut, mediaVars>>

NextCommand(s) == GoTo(s) /\ Begin

\* The target must be one of the parts; its declaration is saved before any
\* medium is touched, and the first command is started.
SaveDeclaration ==
    /\ stage = "declaration"
    /\ \/ /\ NextCommand("subtitles") /\ saved' = saved \cup {"declaration"}
          /\ UNCHANGED rowVars
       \/ Leave("video_unavailable") /\ UNCHANGED <<saved, rowVars, mediaVars>>
       \/ DatabaseRaises /\ UNCHANGED mediaVars
    /\ UNCHANGED <<materialVars, analysisVars, timedOut>>

----------------------------------------------------------------------------
(* Media *)

CommandRuns ==
    /\ CommandStep
    /\ UNCHANGED runVars

Returned(s) == stage = s /\ pipe = "returned"

\* extract_subtitles: a file with text, none (or one without), or a broken one.
Subtitles ==
    /\ Returned("subtitles")
    /\ \/ NextCommand("video") /\ textFactor' = 10
       \/ NextCommand("audio") /\ textFactor' = 0
    /\ UNCHANGED <<tries, clips, clip, visualFactor, saved, analysisVars, rowVars, timedOut>>

BrokenSubtitles ==
    /\ Returned("subtitles")
    /\ Fail("analysis_failed")
    /\ UNCHANGED mediaVars

\* sample_starts: one sample of a short video, three of a longer one.
Audio ==
    /\ Returned("audio")
    /\ NextCommand("samples")
    /\ clips' \in {1, 3} /\ clip' = 1
    /\ UNCHANGED <<tries, textFactor, visualFactor, saved, analysisVars, rowVars, timedOut>>

Sample ==
    /\ Returned("samples")
    /\ IF clip < clips
       THEN NextCommand("samples") /\ clip' = clip + 1
       ELSE /\ GoTo("upload") /\ clip' = 1
            /\ UNCHANGED mediaVars
    /\ UNCHANGED <<tries, clips, textFactor, visualFactor, saved, analysisVars, rowVars, timedOut>>

Video ==
    /\ Returned("video")
    /\ NextCommand("frames")
    /\ UNCHANGED <<materialVars, saved, analysisVars, rowVars, timedOut>>

\* The frames ffmpeg left: at least six, three to five, or fewer.
Frames ==
    /\ Returned("frames")
    /\ GoTo("start")
    /\ visualFactor' \in {10, 6, 0}
    /\ UNCHANGED <<tries, clips, clip, textFactor, saved, analysisVars, rowVars,
                   timedOut, mediaVars>>

\* _run raised: its code goes with the attempt.
CommandRaised ==
    /\ stage \in MediaStages /\ pipe = "failed"
    /\ Fail(raised)
    /\ UNCHANGED mediaVars

----------------------------------------------------------------------------
(* BCut: upload, then poll, sample by sample *)

Upload ==
    /\ stage = "upload"
    /\ GoTo("poll")
    /\ late' = FALSE
    /\ UNCHANGED <<materialVars, saved, analysisVars, rowVars, timedOut, pipeVars,
                   runner, stopper, processVars>>

\* None of BCut's errors has a code: an HTTP error, a failed transcription, or
\* the deadline of the polling.
BCutRaises(step) ==
    /\ stage = step
    /\ Fail("analysis_failed")
    /\ UNCHANGED mediaVars

\* A transcript, which may be empty, is sampled speech.
Transcribed ==
    /\ stage = "poll"
    /\ IF clip < clips
       THEN /\ GoTo("upload") /\ clip' = clip + 1
            /\ UNCHANGED <<mediaVars, textFactor>>
       ELSE NextCommand("video") /\ textFactor' = 7 /\ clip' = clip
    /\ UNCHANGED <<tries, clips, visualFactor, saved, analysisVars, rowVars, timedOut>>

PollDeadline ==
    /\ stage = "poll" /\ ~late
    /\ late' = TRUE
    /\ UNCHANGED <<runVars, pipeVars, runner, stopper, processVars>>

\* Whether BCut ever answers other than "pending" is open.
PollAnswered == Transcribed \/ BCutRaises("poll")
PollTimesOut == late /\ BCutRaises("poll")

----------------------------------------------------------------------------
(* Analysis *)

\* start_analyzing: the fence, or a return without a result, or an error.
StartAnalyzing ==
    /\ stage = "start"
    /\ \/ owned /\ GoTo("detect") /\ attempt' = "analyzing" /\ UNCHANGED <<saved, owned>>
       \/ ~owned /\ Leave("none") /\ UNCHANGED <<saved, rowVars>>
       \/ DatabaseRaises
    /\ UNCHANGED <<materialVars, analysisVars, timedOut, mediaVars>>

WithOutput(k, o) == [j \in DOMAIN outputs \cup {k} |-> IF j = k THEN o ELSE outputs[j]]

MaterialFactor == [text |-> textFactor, visual |-> visualFactor]

\* _safe_detector: the factor of the material replaces the one answered, and
\* every exception becomes an output without weight.
Detect(k) ==
    /\ stage = "detect" /\ k \notin DOMAIN outputs
    /\ \E o \in {Output(a.score, a.confidence, MaterialFactor[k]) : a \in Answers}
                  \cup {Unavailable} :
         outputs' = WithOutput(k, o)
    /\ UNCHANGED <<stage, materialVars, saved, result, workspace, error, rowVars,
                   timedOut, mediaVars>>

\* Both have ended: the metadata detector's output joins them, and the body of
\* task_workspace is left with the result.
AggregateOutputs ==
    /\ stage = "detect" /\ DOMAIN outputs = {"text", "visual"}
    /\ \E declared \in BOOLEAN, markers \in 0..3 :
         outputs' = WithOutput("metadata", MetadataOutput(declared, markers))
    /\ result' = Aggregate(outputs')
    /\ Leave("none")
    /\ UNCHANGED <<materialVars, saved, rowVars, timedOut, mediaVars>>

----------------------------------------------------------------------------
(* The end of the workspace and of the attempt *)

\* rmtree runs in a thread, whoever still waits for it.
RemoverEnds ==
    /\ workspace = "removing"
    /\ workspace' \in {"removed", "left"}
    /\ UNCHANGED <<stage, materialVars, saved, analysisVars, error, rowVars,
                   timedOut, mediaVars>>

\* Mutant: rmtree ignores its errors.
CleanedUpAnyway ==
    /\ stage = "cleanup" /\ workspace # "removing"
    /\ stage' = IF error # "none" THEN "report"
                ELSE IF result = NoResult THEN "ended" ELSE "write"
    /\ UNCHANGED <<materialVars, saved, analysisVars, workspace, error, rowVars, timedOut, mediaVars>>

\* MediaCleanupError takes the place of whatever was raised; without an
\* exception the result, if there is one, is written after the workspace is gone.
CleanedUp ==
    /\ stage = "cleanup" /\ workspace # "removing"
    /\ error' = IF workspace = "left" THEN "cleanup_failed" ELSE error
    /\ stage' = IF error' # "none" THEN "report"
                ELSE IF result = NoResult THEN "ended" ELSE "write"
    /\ UNCHANGED <<materialVars, saved, analysisVars, workspace, rowVars, timedOut, mediaVars>>

WriteCompleted ==
    /\ owned
    /\ attempt' = "completed"
    /\ owned' = FALSE

\* complete_attempt; the exception may follow the commit.
CompleteAttempt ==
    /\ stage = "write"
    /\ \/ /\ WriteCompleted \/ (~owned /\ UNCHANGED rowVars)
          /\ stage' = "ended" /\ UNCHANGED error
       \/ /\ WriteCompleted \/ UNCHANGED rowVars
          /\ stage' = "report" /\ error' \in DatabaseCodes
    /\ UNCHANGED <<materialVars, saved, analysisVars, workspace, timedOut, mediaVars>>

\* fail_attempt; an exception of it ends the worker.
FailAttempt ==
    /\ stage = "report"
    /\ stage' = "ended"
    /\ \/ owned /\ attempt' = "failed" /\ owned' = FALSE
       \/ UNCHANGED rowVars
    /\ UNCHANGED <<materialVars, saved, analysisVars, workspace, error, timedOut, mediaVars>>

----------------------------------------------------------------------------
(* The job timeout, and others *)

CancelCommand == Interrupt /\ UNCHANGED <<stage, workspace, error, saved, rowVars>>

CancelWork == Leave("detector_timeout") /\ MaybeWritten /\ UNCHANGED mediaVars

\* The thread of rmtree is not cancelled, but nobody waits for it any more.
CancelCleanup ==
    /\ stage' = "report" /\ error' = "detector_timeout"
    /\ UNCHANGED <<workspace, saved, rowVars, mediaVars>>

\* The commit may have been sent.
CancelWrite ==
    /\ WriteCompleted \/ UNCHANGED rowVars
    /\ stage' = "report" /\ error' = "detector_timeout"
    /\ UNCHANGED <<workspace, saved, mediaVars>>

\* Mutant: _safe_detector takes the cancellation for a failed request.
JobTimeoutSwallowed ==
    /\ ~timedOut /\ timedOut' = TRUE
    /\ stage = "detect" /\ DOMAIN outputs # {"text", "visual"}
    /\ outputs' = [k \in {"text", "visual"} |-> Unavailable]
    /\ UNCHANGED <<stage, materialVars, saved, result, workspace, error, rowVars, mediaVars>>

\* wait_for cancels the task that runs run_analysis, once.
JobTimeout ==
    /\ ~timedOut /\ timedOut' = TRUE
    /\ \/ stage \in MediaStages /\ CancelCommand
       \/ stage \in WorkStages \ MediaStages /\ CancelWork
       \/ stage = "cleanup" /\ CancelCleanup
       \/ stage = "write" /\ CancelWrite
    /\ UNCHANGED <<materialVars, analysisVars>>

\* Superseded, or reclaimed after the lease expired.
OwnershipLost ==
    /\ owned /\ stage # "ended"
    /\ owned' = FALSE
    /\ UNCHANGED <<stage, materialVars, saved, analysisVars, workspace, error,
                   attempt, timedOut, mediaVars>>

Request == RequestFails \/ RequestRefused \/ RequestAnswered
Material == Subtitles \/ BrokenSubtitles \/ Audio \/ Sample \/ Video \/ Frames \/ CommandRaised
BCut == Upload \/ BCutRaises("upload") \/ PollTimesOut
Detection == Detect("text") \/ Detect("visual") \/ AggregateOutputs
Ending == CleanedUp \/ CompleteAttempt \/ FailAttempt
Work == Request \/ LoadMetadata \/ SaveDeclaration \/ Material \/ BCut
          \/ StartAnalyzing \/ Detection \/ Ending

Next == Work \/ CommandRuns \/ PollAnswered \/ PollDeadline \/ RemoverEnds \/ JobTimeout \/ OwnershipLost

\* Every call the run awaits returns or raises (each client has a timeout), the
\* tasks of the event loop go on, and time passes.  The command, its helper
\* and the transcription may take for ever, and no job timeout is needed.
Fairness ==
    /\ WF_vars(Work)
    /\ WF_vars(RemoverEnds)
    /\ WF_vars(PollDeadline)
    /\ WF_vars(LoopStep /\ UNCHANGED runVars)
    /\ WF_vars(RunnerStep /\ UNCHANGED runVars)
    /\ WF_vars(StopperStep /\ UNCHANGED runVars)
    /\ WF_vars(DeadlinePasses /\ UNCHANGED runVars)

Spec == Init /\ [][Next]_vars /\ Fairness

----------------------------------------------------------------------------
(* Properties *)

\* A command is accepted only when the files it leaves are within the limit,
\* although size and end of the command are looked at one after the other: the
\* work that follows never has an oversized workspace.
AcceptedWithinLimit ==
    pipe = "returned" \/ stage \in BCutStages \cup {"start", "detect", "write"} => ~over

\* When _run has returned or raised, and when the attempt ends, the leader of the
\* last command is dead: the workspace is not removed under it.  Only a job
\* timeout that strikes while a command is being stopped leaves one behind.
CommandsAreOver ==
    pipe \notin Watching \cup {"stopping"} /\ leader = "alive" => interrupted

\* The attempt is completed only after its workspace has been removed and every
\* process of its commands, helpers too, has ended.
PublishedAfterCleanup ==
    attempt = "completed" => workspace = "removed" /\ ~Living

\* After job_timeout_seconds nothing is begun but stopping the command, the
\* removal of the workspace and the failure of the attempt: no detector, no
\* further command and no completion is started by an attempt that ran out of time.
TimeoutStopsWork ==
    timedOut => \/ stage \in {"cleanup", "report", "ended"}
                \/ stage \in MediaStages /\ pipe \in {"stopping", "failed"}

Heard == {k \in Kinds : outputs[k] # Unavailable /\ outputs[k].factor > 0}
SumHeard(f) == SumFunctionOnSet(f, Heard)

\* The published score is the weighted mean of the detectors that answered and
\* had material, but for the rounding to four decimals and then to a whole
\* number, and the label is given exactly when their confidence reaches 0.4.
ResultFollowsEvidence ==
    result # NoResult =>
      LET weighted == [k \in Kinds |-> Weight[k] * outputs[k].score]
          part == [k \in Kinds |-> Weight[k] * outputs[k].confidence * outputs[k].factor]
          off == result.score * 1000 * SumHeard(Weight) - SumHeard(weighted)
      IN  /\ off \in (-505 * SumHeard(Weight)) .. (505 * SumHeard(Weight))
          /\ (result.label # NoLabel) <=> (SumHeard(part) >= 3999500)
          /\ result.label # NoLabel => result.label = LabelForScore(result.score)

\* The code an attempt fails with is what happened to it: a limit or a deadline
\* that was really passed, a workspace really left, and a removal that failed is
\* hidden by the job's timeout only.  The job's timeout in turn is not hidden behind
\* the error it interrupted.  A "detector_timeout" without it is a database call's:
\* no command had failed, and no detector's own timeout ever ends an attempt.
\* Whatever fails in the deep analysis, the declaration has been saved before.
FailureTellsWhy ==
    attempt = "failed" =>
      /\ error = "workspace_limit_exceeded" => over
      /\ error = "media_command_timeout" => late
      /\ error = "cleanup_failed" => workspace = "left"
      /\ workspace = "left" => error = "cleanup_failed" \/ timedOut
      /\ timedOut => error \in {"detector_timeout", "cleanup_failed"}
      /\ error = "detector_timeout" /\ ~timedOut =>
           pipe \in {"idle", "returned"} /\ DOMAIN outputs \in {{}, Kinds}
      /\ error \in {"workspace_limit_exceeded", "media_command_timeout"} \/ result # NoResult
           => "declaration" \in saved

\* Every run ends, with one write or none, and the leader of its last command
\* does not outlive it for ever, however commands, requests and time interleave.
RunEnds == <>[](stage = "ended" /\ leader # "alive" /\ workspace # "removing")
=============================================================================
