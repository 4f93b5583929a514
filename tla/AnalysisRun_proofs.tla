------------------------- MODULE AnalysisRun_proofs -------------------------
(***************************************************************************)
(* The run of an attempt: what a finished run tells is true, and the       *)
(* leaders of its commands are dead.                                       *)
(*                                                                         *)
(* The loop of _run looks at the task, at the size and at the clock one    *)
(* after the other, while the command goes on.  MediaInv says what remains *)
(* true of each look (VerdictsHold), because of what is known of the       *)
(* processes from the runner and its stopper.  The codes of the attempt    *)
(* follow from it: CodesAreTrue carries them from the command, through the *)
(* removal of the workspace, to the row.                                   *)
(***************************************************************************)
EXTENDS AnalysisRun, TLAPS

----------------------------------------------------------------------------
(* The invariant of a command *)

\* What the runner's state says of the processes, and of its stopper.
RunnerKnowsProcesses ==
    /\ leader = "none" => helper = "none"
    /\ runner \in {"none", "starting", "unstarted"} => leader = "none" /\ stopper = "none"
    /\ runner \in {"talking", "shielded"} => leader # "none"
    /\ runner = "talking" => stopper = "none"
    /\ runner = "shielded" => stopper # "none"
    /\ runner \in {"returned", "exited"} => ~Living
    /\ runner = "cancelled" /\ leader = "alive" => interrupted
    /\ stopper = "done" => leader = "dead"

\* The loop has what its runner has, whatever it looked at first.
LoopFollowsRunner ==
    /\ pipe = "idle" => runner = "none"
    /\ pipe \in Watching => runner \in {"starting", "talking", "returned", "exited", "unstarted"}
    /\ pipe \in Watching /\ seen => runner \in Finished
    /\ pipe = "stopping" => runner \in Finished \cup {"shielded"}
    /\ pipe = "returned" => runner = "returned"
    /\ pipe = "failed" => runner \in Finished

\* The verdict on the command is true when it is given, and stays true.
VerdictsHold ==
    /\ pipe = "deciding" /\ measured => over
    /\ pipe = "deciding" /\ ~measured /\ seen /\ runner = "returned" => ~over
    /\ pipe = "returned" => ~over
    /\ raised = "workspace_limit_exceeded" => over
    /\ pipe \in {"stopping", "failed"} => raised # "none"
    /\ pipe \in {"stopping", "failed"} /\ raised = "media_command_timeout" => late

MediaInv == MediaTypeOK /\ RunnerKnowsProcesses /\ LoopFollowsRunner /\ VerdictsHold

----------------------------------------------------------------------------
(* The invariant of the run *)

\* What the stage says of the command, and of what the load has saved.
StagesAndCommands ==
    /\ stage \in LoadStages => pipe = "idle"
    /\ stage \in MediaStages => pipe # "idle"
    /\ pipe \in Watching \cup {"stopping"} => stage \in MediaStages
    /\ stage \in BCutStages \cup {"start", "detect", "write"} => pipe = "returned"
    /\ stage = "cleanup" /\ error = "none" => pipe = "returned"
    /\ result # NoResult \/ attempt = "completed" => pipe = "returned"
    /\ pipe # "idle" => "declaration" \in saved
    /\ stage \in {"samples"} \cup BCutStages => clips # 0

\* The workspace goes once, before the one write that ends the attempt.
EndsInOrder ==
    /\ stage \in WorkStages => workspace = "present" /\ error = "none" /\ result = NoResult
    /\ stage \notin WorkStages => workspace # "present"
    /\ stage = "write" => workspace = "removed" /\ error = "none" /\ result # NoResult
    /\ stage \in WorkStages \ {"detect"} => DOMAIN outputs = {}
    /\ attempt = "completed" => stage \in {"report", "ended"} /\ workspace = "removed" /\ ~owned
    /\ attempt = "failed" => stage = "ended"

\* The code of the attempt, and of the command, tells what has happened.
CodesAreTrue ==
    /\ error = "workspace_limit_exceeded" => over /\ pipe # "idle"
    /\ error = "media_command_timeout" => late /\ pipe # "idle"
    /\ error = "cleanup_failed" => stage # "cleanup"
    /\ stage \in {"report", "ended"} =>
         /\ error = "cleanup_failed" => workspace = "left"
         /\ workspace = "left" => error = "cleanup_failed" \/ timedOut
         /\ workspace = "removing" => timedOut
    /\ raised = "detector_timeout" => timedOut
    /\ error = "detector_timeout" /\ ~timedOut =>
         pipe \in {"idle", "returned"} /\ DOMAIN outputs \in {{}, Kinds}
    /\ timedOut =>
         \/ stage = "cleanup" /\ error = "detector_timeout"
         \/ stage \in {"report", "ended"} /\ error \in {"detector_timeout", "cleanup_failed"}
         \/ stage \in MediaStages /\ pipe \in {"stopping", "failed"} /\ raised = "detector_timeout"

ResultIsAggregate ==
    result # NoResult => DOMAIN outputs = Kinds /\ result = Aggregate(outputs)

\* TypeOK in parts: the counters, the rest of the run, and the detectors.
CountersTyped ==
    /\ tries \in 0..MaxRetries
    /\ clips \in {0, 1, 3} /\ clip \in 0..3 /\ clip <= clips
    /\ textFactor \in {0, 7, 10} /\ visualFactor \in {0, 6, 10}

RunTyped ==
    /\ stage \in Stages
    /\ saved \subseteq {"default_cid", "declaration"}
    /\ workspace \in {"present", "removing", "removed", "left"}
    /\ error \in Codes

RowTyped ==
    /\ attempt \in {"fetching", "analyzing", "completed", "failed"}
    /\ owned \in BOOLEAN /\ timedOut \in BOOLEAN

OutputsTyped ==
    /\ DOMAIN outputs \subseteq Kinds
    /\ \A k \in DOMAIN outputs :
         outputs[k] \in [score: 0..Unit, confidence: 0..Unit, factor: 0..10]
    /\ result \in [score: 0..100, confidence: 0..100, label: Labels] \cup {NoResult}

AnalysisInv == OutputsTyped /\ ResultIsAggregate
ControlInv == CountersTyped /\ RunTyped /\ RowTyped /\ StagesAndCommands /\ EndsInOrder /\ CodesAreTrue
RunInv == MediaInv /\ ControlInv /\ AnalysisInv
----------------------------------------------------------------------------
(* A command *)

\* No command has run.
LEMMA MediaInitInv == MediaInit => MediaInv
BY DEF MediaInit, MediaInv, MediaTypeOK, RunnerKnowsProcesses, LoopFollowsRunner,
       VerdictsHold, PipeSteps, Watching, MediaCodes, RunnerSteps, Finished, Life, Living

\* A command is started when the last one is over.
LEMMA BeginStep ==
    ASSUME MediaInv, pipe \in {"idle", "returned"}, Begin
    PROVE  MediaInv'
BY DEF Begin, MediaInv, MediaTypeOK, RunnerKnowsProcesses, LoopFollowsRunner,
       VerdictsHold, PipeSteps, Watching, MediaCodes, RunnerSteps, Finished, Life, Living

\* The command and its helper go on by themselves.
LEMMA ProcessStepInv ==
    ASSUME MediaInv, ProcessStep
    PROVE  MediaInv'
<1>0. UNCHANGED <<pipeVars, runner, stopper, late>>
  BY DEF ProcessStep
<1>1. CASE LeaderExits
  BY <1>0, <1>1 DEF LeaderExits, pipeVars, processVars,
       MediaInv, MediaTypeOK, RunnerKnowsProcesses, LoopFollowsRunner,
       VerdictsHold, PipeSteps, Watching, MediaCodes, RunnerSteps, Finished, Life, Living
<1>2. CASE HelperStarts
  BY <1>0, <1>2 DEF HelperStarts, pipeVars, processVars,
       MediaInv, MediaTypeOK, RunnerKnowsProcesses, LoopFollowsRunner,
       VerdictsHold, PipeSteps, Watching, MediaCodes, RunnerSteps, Finished, Life, Living
<1>3. CASE HelperExits
  BY <1>0, <1>3 DEF HelperExits, pipeVars, processVars,
       MediaInv, MediaTypeOK, RunnerKnowsProcesses, LoopFollowsRunner,
       VerdictsHold, PipeSteps, Watching, MediaCodes, RunnerSteps, Finished, Life, Living
<1>4. CASE Grow
  BY <1>0, <1>4 DEF Grow, pipeVars, processVars,
       MediaInv, MediaTypeOK, RunnerKnowsProcesses, LoopFollowsRunner,
       VerdictsHold, PipeSteps, Watching, MediaCodes, RunnerSteps, Finished, Life, Living
<1> QED
  BY <1>1, <1>2, <1>3, <1>4 DEF ProcessStep

\* The runner returns when the processes have ended, or is cancelled.
LEMMA RunnerStepInv ==
    ASSUME MediaInv, RunnerStep
    PROVE  MediaInv'
<1>1. CASE Spawn
  BY <1>1 DEF Spawn, pipeVars, processVars,
       MediaInv, MediaTypeOK, RunnerKnowsProcesses, LoopFollowsRunner,
       VerdictsHold, PipeSteps, Watching, MediaCodes, RunnerSteps, Finished, Life, Living
<1>2. CASE Communicated
  BY <1>2 DEF Communicated, pipeVars, processVars,
       MediaInv, MediaTypeOK, RunnerKnowsProcesses, LoopFollowsRunner,
       VerdictsHold, PipeSteps, Watching, MediaCodes, RunnerSteps, Finished, Life, Living
<1>3. CASE ShieldEnds
  BY <1>3 DEF ShieldEnds, pipeVars, processVars,
       MediaInv, MediaTypeOK, RunnerKnowsProcesses, LoopFollowsRunner,
       VerdictsHold, PipeSteps, Watching, MediaCodes, RunnerSteps, Finished, Life, Living
<1> QED
  BY <1>1, <1>2, <1>3 DEF RunnerStep

\* The stopper ends them.
LEMMA StopperStepInv ==
    ASSUME MediaInv, StopperStep
    PROVE  MediaInv'
<1>1. CASE LeaderStopped
  BY <1>1 DEF LeaderStopped, pipeVars, processVars,
       MediaInv, MediaTypeOK, RunnerKnowsProcesses, LoopFollowsRunner,
       VerdictsHold, PipeSteps, Watching, MediaCodes, RunnerSteps, Finished, Life, Living
<1>2. CASE Escalate
  BY <1>2 DEF Escalate, pipeVars, processVars,
       MediaInv, MediaTypeOK, RunnerKnowsProcesses, LoopFollowsRunner,
       VerdictsHold, PipeSteps, Watching, MediaCodes, RunnerSteps, Finished, Life, Living
<1> QED
  BY <1>1, <1>2 DEF StopperStep

\* The loop looks at the command, decides, and stops it.
LEMMA LoopStepInv ==
    ASSUME MediaInv, LoopStep
    PROVE  MediaInv'
<1>1. CASE Wake
  BY <1>1 DEF Wake, processVars,
       MediaInv, MediaTypeOK, RunnerKnowsProcesses, LoopFollowsRunner,
       VerdictsHold, PipeSteps, Watching, MediaCodes, RunnerSteps, Finished, Life, Living
<1>2. CASE Measure
  BY <1>2 DEF Measure, Raise, CancelRunner, processVars,
       MediaInv, MediaTypeOK, RunnerKnowsProcesses, LoopFollowsRunner,
       VerdictsHold, PipeSteps, Watching, MediaCodes, RunnerSteps, Finished, Life, Living
<1>3. CASE Decide
  BY <1>3 DEF Decide, Outgrown, Accept, CommandFailed, TimedOut, WaitAgain, Done, Raise, CancelRunner, processVars,
       MediaInv, MediaTypeOK, RunnerKnowsProcesses, LoopFollowsRunner,
       VerdictsHold, PipeSteps, Watching, MediaCodes, RunnerSteps, Finished, Life, Living
<1>4. CASE Gathered
  BY <1>4 DEF Gathered, processVars,
       MediaInv, MediaTypeOK, RunnerKnowsProcesses, LoopFollowsRunner,
       VerdictsHold, PipeSteps, Watching, MediaCodes, RunnerSteps, Finished, Life, Living
<1> QED
  BY <1>1, <1>2, <1>3, <1>4 DEF LoopStep

\* Time passes, and the job timeout may strike.
LEMMA DeadlineStepInv ==
    ASSUME MediaInv, DeadlinePasses
    PROVE  MediaInv'
BY DEF DeadlinePasses, pipeVars, processVars,
       MediaInv, MediaTypeOK, RunnerKnowsProcesses, LoopFollowsRunner,
       VerdictsHold, PipeSteps, Watching, MediaCodes, RunnerSteps, Finished, Life, Living

LEMMA InterruptInv ==
    ASSUME MediaInv, Interrupt
    PROVE  MediaInv'
BY DEF Interrupt, Raise, CancelRunner, processVars,
       MediaInv, MediaTypeOK, RunnerKnowsProcesses, LoopFollowsRunner,
       VerdictsHold, PipeSteps, Watching, MediaCodes, RunnerSteps, Finished, Life, Living
----------------------------------------------------------------------------
(* What a step of the command leaves to the run *)

CommandMoves ==
    /\ pipe \in {"idle", "returned", "failed"} =>
         UNCHANGED <<pipe, raised, interrupted>>
    /\ pipe = "stopping" => pipe' \in {"stopping", "failed"}
    /\ pipe \in Watching => pipe' \in Watching \cup {"stopping", "returned"}
    /\ raised' # raised => raised' # "detector_timeout"
    /\ pipe = "stopping" => raised' = raised
    /\ late => late'
    /\ over => over'

\* An ended command is left alone, one that is stopped keeps its code, and none
\* takes a code from the run.
LEMMA CommandMovesSo ==
    ASSUME MediaTypeOK, CommandStep
    PROVE  CommandMoves
BY DEF CommandStep, LoopStep, Wake, Measure, Decide, Outgrown, Accept, CommandFailed,
       TimedOut, WaitAgain, Gathered, RunnerStep, Spawn, Communicated, ShieldEnds,
       StopperStep, LeaderStopped, Escalate, ProcessStep, LeaderExits, HelperStarts,
       HelperExits, Grow, DeadlinePasses, Raise, CancelRunner, pipeVars, processVars,
       CommandMoves, MediaTypeOK, PipeSteps, Watching, Life

\* However the command moves, its invariant is kept.
LEMMA CommandStepInv ==
    ASSUME MediaInv, CommandStep
    PROVE  MediaInv'
BY LoopStepInv, RunnerStepInv, StopperStepInv, ProcessStepInv, DeadlineStepInv DEF CommandStep

\* So it is by what does not touch the command,
LEMMA MediaRests ==
    ASSUME MediaInv, UNCHANGED mediaVars
    PROVE  MediaInv'
BY DEF mediaVars, MediaInv, MediaTypeOK, RunnerKnowsProcesses, LoopFollowsRunner,
       VerdictsHold, Living

\* by the deadlines of BCut's polling,
LEMMA LateRests ==
    ASSUME MediaInv, pipe = "returned", late' \in BOOLEAN,
           UNCHANGED <<pipeVars, runner, stopper, processVars>>
    PROVE  MediaInv'
BY DEF pipeVars, processVars, MediaInv, MediaTypeOK, RunnerKnowsProcesses, LoopFollowsRunner,
       VerdictsHold, Living, Watching

\* and that of the result by what does not touch outputs and result.
LEMMA AnalysisRests ==
    ASSUME AnalysisInv, UNCHANGED analysisVars
    PROVE  AnalysisInv'
BY DEF AnalysisInv, OutputsTyped, ResultIsAggregate, analysisVars

----------------------------------------------------------------------------
(* The load *)

\* All a step needs to know of the retries.
LEMMA RetriesBound == MaxRetries \in Nat
BY RunAssumption

\* A run starts with nothing done.
LEMMA RunInitInv == Init => RunInv
<1> SUFFICES ASSUME Init PROVE RunInv
  OBVIOUS
<1>1. MediaInv
  BY MediaInitInv DEF Init
<1>2. ControlInv
  <2> USE DEF Init, MediaInit, Stages, WorkStages, LoadStages, MediaStages, BCutStages,
          Codes, MediaCodes, Watching
  <2>0. CountersTyped
    BY RetriesBound DEF CountersTyped
  <2>1. RunTyped
    BY DEF RunTyped
  <2>5. RowTyped
    BY DEF RowTyped
  <2>2. StagesAndCommands
    BY DEF StagesAndCommands
  <2>3. EndsInOrder
    BY DEF EndsInOrder
  <2>4. CodesAreTrue
    BY DEF CodesAreTrue
  <2> QED
    BY <2>0, <2>1, <2>2, <2>3, <2>4, <2>5 DEF ControlInv
<1>3. DOMAIN outputs = {}
  BY DEF Init
<1>4. AnalysisInv
  BY <1>3 DEF Init, AnalysisInv, OutputsTyped, ResultIsAggregate
<1> QED
  BY <1>1, <1>2, <1>4 DEF RunInv

\* The client retries a request while tries are left.
LEMMA RequestInv ==
    ASSUME RunInv, Request
    PROVE  RunInv'
<1>1. MediaInv'
  BY MediaRests DEF RunInv, Request, RequestFails, RequestRefused, RequestAnswered, mediaVars, Fail
<1>2. AnalysisInv'
  BY AnalysisRests DEF RunInv, Request, RequestFails, RequestRefused, RequestAnswered, analysisVars, Fail
<1>3. ControlInv'
  <2> USE DEF Request, RequestFails, RequestRefused, RequestAnswered, NoTryLeft,
          Fail, Leave, GoTo, NextCommand, Begin, Returned, materialVars,
          analysisVars, rowVars, mediaVars, RunInv, ControlInv, Stages, WorkStages,
          LoadStages, MediaStages, BCutStages, Codes, MediaCodes, Watching
  <2>1. CountersTyped'
    BY RetriesBound DEF CountersTyped
  <2>2. RunTyped'
    BY DEF RunTyped
  <2>3. RowTyped'
    BY DEF RowTyped
  <2>4. StagesAndCommands'
    BY DEF StagesAndCommands, EndsInOrder
  <2>5. EndsInOrder'
    BY DEF EndsInOrder
  <2>6. CodesAreTrue'
    BY DEF CodesAreTrue, EndsInOrder, StagesAndCommands
  <2> QED
    BY <2>1, <2>2, <2>3, <2>4, <2>5, <2>6 DEF ControlInv
<1> QED
  BY <1>1, <1>2, <1>3 DEF RunInv

\* The load writes its rows before a medium is touched.
LEMMA LoadMetadataInv ==
    ASSUME RunInv, LoadMetadata
    PROVE  RunInv'
<1>1. MediaInv'
  BY MediaRests DEF RunInv, LoadMetadata, Fail
<1>2. AnalysisInv'
  BY AnalysisRests DEF RunInv, LoadMetadata, Fail
<1>3. ControlInv'
  <2> USE DEF LoadMetadata, DatabaseRaises, DatabaseCodes, MaybeWritten, RowOfLoad,
          Fail, Leave, GoTo, NextCommand, Begin, Returned,
          materialVars, analysisVars, rowVars, mediaVars, RunInv, ControlInv,
          Stages, WorkStages, LoadStages, MediaStages, BCutStages, Codes,
          MediaCodes, Watching
  <2>1. CountersTyped'
    BY RetriesBound DEF CountersTyped
  <2>2. RunTyped'
    BY DEF RunTyped
  <2>3. RowTyped'
    BY DEF RowTyped
  <2>4. StagesAndCommands'
    BY DEF StagesAndCommands, EndsInOrder
  <2>5. EndsInOrder'
    BY DEF EndsInOrder
  <2>6. CodesAreTrue'
    BY DEF CodesAreTrue, EndsInOrder, StagesAndCommands
  <2> QED
    BY <2>1, <2>2, <2>3, <2>4, <2>5, <2>6 DEF ControlInv
<1> QED
  BY <1>1, <1>2, <1>3 DEF RunInv

\* The declaration is saved, and the first command started.
LEMMA SaveDeclarationInv ==
    ASSUME RunInv, SaveDeclaration
    PROVE  RunInv'
<1>1. MediaInv'
  <2>1. pipe = "idle"
    BY DEF RunInv, ControlInv, StagesAndCommands, LoadStages, SaveDeclaration
  <2> QED
    BY <2>1, BeginStep, MediaRests DEF RunInv, SaveDeclaration, NextCommand
<1>2. AnalysisInv'
  BY AnalysisRests DEF RunInv, SaveDeclaration, Fail
<1>3. ControlInv'
  <2> USE DEF SaveDeclaration, DatabaseRaises, DatabaseCodes, MaybeWritten, RowOfLoad,
          Fail, Leave, GoTo, NextCommand, Begin, Returned,
          materialVars, analysisVars, rowVars, mediaVars, RunInv, ControlInv,
          Stages, WorkStages, LoadStages, MediaStages, BCutStages, Codes,
          MediaCodes, Watching
  <2>1. CountersTyped'
    BY RetriesBound DEF CountersTyped
  <2>2. RunTyped'
    BY DEF RunTyped
  <2>3. RowTyped'
    BY DEF RowTyped
  <2>4. StagesAndCommands'
    BY DEF StagesAndCommands, EndsInOrder
  <2>5. EndsInOrder'
    BY DEF EndsInOrder
  <2>6. CodesAreTrue'
    BY DEF CodesAreTrue, EndsInOrder, StagesAndCommands
  <2> QED
    BY <2>1, <2>2, <2>3, <2>4, <2>5, <2>6 DEF ControlInv
<1> QED
  BY <1>1, <1>2, <1>3 DEF RunInv

\* Each command is started after the one before has returned.
LEMMA SubtitlesInv ==
    ASSUME RunInv, Subtitles
    PROVE  RunInv'
<1>1. MediaInv'
  BY BeginStep DEF RunInv, Subtitles, Returned, NextCommand
<1>2. AnalysisInv'
  BY AnalysisRests DEF RunInv, Subtitles, Fail
<1>3. ControlInv'
  <2> USE DEF Subtitles, Fail, Leave, GoTo, NextCommand, Begin, Returned,
          materialVars, analysisVars, rowVars, mediaVars, RunInv, ControlInv,
          Stages, WorkStages, LoadStages, MediaStages, BCutStages, Codes,
          MediaCodes, Watching
  <2>1. CountersTyped'
    BY RetriesBound DEF CountersTyped
  <2>2. RunTyped'
    BY DEF RunTyped
  <2>3. RowTyped'
    BY DEF RowTyped
  <2>4. StagesAndCommands'
    BY DEF StagesAndCommands, EndsInOrder
  <2>5. EndsInOrder'
    BY DEF EndsInOrder
  <2>6. CodesAreTrue'
    BY DEF CodesAreTrue, EndsInOrder, StagesAndCommands
  <2> QED
    BY <2>1, <2>2, <2>3, <2>4, <2>5, <2>6 DEF ControlInv
<1> QED
  BY <1>1, <1>2, <1>3 DEF RunInv

\* The audio is there to be sampled.
LEMMA AudioInv ==
    ASSUME RunInv, Audio
    PROVE  RunInv'
<1>1. MediaInv'
  BY BeginStep DEF RunInv, Audio, Returned, NextCommand
<1>2. AnalysisInv'
  BY AnalysisRests DEF RunInv, Audio, Fail
<1>3. ControlInv'
  <2> USE DEF Audio, Fail, Leave, GoTo, NextCommand, Begin, Returned, materialVars,
          analysisVars, rowVars, mediaVars, RunInv, ControlInv, Stages, WorkStages,
          LoadStages, MediaStages, BCutStages, Codes, MediaCodes, Watching
  <2>1. CountersTyped'
    BY RetriesBound DEF CountersTyped
  <2>2. RunTyped'
    BY DEF RunTyped
  <2>3. RowTyped'
    BY DEF RowTyped
  <2>4. StagesAndCommands'
    BY DEF StagesAndCommands, EndsInOrder
  <2>5. EndsInOrder'
    BY DEF EndsInOrder
  <2>6. CodesAreTrue'
    BY DEF CodesAreTrue, EndsInOrder, StagesAndCommands
  <2> QED
    BY <2>1, <2>2, <2>3, <2>4, <2>5, <2>6 DEF ControlInv
<1> QED
  BY <1>1, <1>2, <1>3 DEF RunInv

\* Sample by sample, up to the last.
LEMMA SampleInv ==
    ASSUME RunInv, Sample
    PROVE  RunInv'
<1>1. MediaInv'
  BY BeginStep, MediaRests DEF RunInv, Sample, Returned, NextCommand
<1>2. AnalysisInv'
  BY AnalysisRests DEF RunInv, Sample, Fail
<1>3. ControlInv'
  <2> USE DEF Sample, Fail, Leave, GoTo, NextCommand, Begin, Returned, materialVars,
          analysisVars, rowVars, mediaVars, RunInv, ControlInv, Stages, WorkStages,
          LoadStages, MediaStages, BCutStages, Codes, MediaCodes, Watching
  <2>1. CountersTyped'
    <3>1. clips \in {0, 1, 3} /\ clip \in 0..3 /\ clips' = clips
      BY DEF CountersTyped
    <3>2. clips # 0
      BY DEF StagesAndCommands
    <3>3. \/ clip' = 1
          \/ clip < clips /\ clip' = clip + 1
          \/ clip' = clip /\ clip <= clips
      BY DEF CountersTyped
    <3>4. clip' \in 0..3 /\ clip' <= clips'
      BY <3>1, <3>2, <3>3
    <3>5. UNCHANGED <<tries, visualFactor>> /\ textFactor' \in {textFactor, 7}
      OBVIOUS
    <3> QED
      BY <3>1, <3>4, <3>5 DEF CountersTyped
  <2>2. RunTyped'
    BY DEF RunTyped
  <2>3. RowTyped'
    BY DEF RowTyped
  <2>4. StagesAndCommands'
    BY DEF StagesAndCommands, EndsInOrder
  <2>5. EndsInOrder'
    BY DEF EndsInOrder
  <2>6. CodesAreTrue'
    BY DEF CodesAreTrue, EndsInOrder, StagesAndCommands
  <2> QED
    BY <2>1, <2>2, <2>3, <2>4, <2>5, <2>6 DEF ControlInv
<1> QED
  BY <1>1, <1>2, <1>3 DEF RunInv

\* The video is there to be cut into frames.
LEMMA VideoInv ==
    ASSUME RunInv, Video
    PROVE  RunInv'
<1>1. MediaInv'
  BY BeginStep DEF RunInv, Video, Returned, NextCommand
<1>2. AnalysisInv'
  BY AnalysisRests DEF RunInv, Video, Fail
<1>3. ControlInv'
  <2> USE DEF Video, Fail, Leave, GoTo, NextCommand, Begin, Returned, materialVars,
          analysisVars, rowVars, mediaVars, RunInv, ControlInv, Stages, WorkStages,
          LoadStages, MediaStages, BCutStages, Codes, MediaCodes, Watching
  <2>1. CountersTyped'
    BY RetriesBound DEF CountersTyped
  <2>2. RunTyped'
    BY DEF RunTyped
  <2>3. RowTyped'
    BY DEF RowTyped
  <2>4. StagesAndCommands'
    BY DEF StagesAndCommands, EndsInOrder
  <2>5. EndsInOrder'
    BY DEF EndsInOrder
  <2>6. CodesAreTrue'
    BY DEF CodesAreTrue, EndsInOrder, StagesAndCommands
  <2> QED
    BY <2>1, <2>2, <2>3, <2>4, <2>5, <2>6 DEF ControlInv
<1> QED
  BY <1>1, <1>2, <1>3 DEF RunInv

\* With the frames the material is complete.
LEMMA FramesInv ==
    ASSUME RunInv, Frames
    PROVE  RunInv'
<1>1. MediaInv'
  BY MediaRests DEF RunInv, Frames, Fail
<1>2. AnalysisInv'
  BY AnalysisRests DEF RunInv, Frames, Fail
<1>3. ControlInv'
  <2> USE DEF Frames, Fail, Leave, GoTo, NextCommand, Begin, Returned, materialVars,
          analysisVars, rowVars, mediaVars, RunInv, ControlInv, Stages, WorkStages,
          LoadStages, MediaStages, BCutStages, Codes, MediaCodes, Watching
  <2>1. CountersTyped'
    BY RetriesBound DEF CountersTyped
  <2>2. RunTyped'
    BY DEF RunTyped
  <2>3. RowTyped'
    BY DEF RowTyped
  <2>4. StagesAndCommands'
    BY DEF StagesAndCommands, EndsInOrder
  <2>5. EndsInOrder'
    BY DEF EndsInOrder
  <2>6. CodesAreTrue'
    BY DEF CodesAreTrue, EndsInOrder, StagesAndCommands
  <2> QED
    BY <2>1, <2>2, <2>3, <2>4, <2>5, <2>6 DEF ControlInv
<1> QED
  BY <1>1, <1>2, <1>3 DEF RunInv

\* What a command raised is true of it, and not of another.
LEMMA CommandRaisedInv ==
    ASSUME RunInv, CommandRaised
    PROVE  RunInv'
<1>1. MediaInv'
  BY MediaRests DEF RunInv, CommandRaised, Fail
<1>2. AnalysisInv'
  BY AnalysisRests DEF RunInv, CommandRaised, Fail
<1>3. ControlInv'
  <2> USE DEF CommandRaised, MediaInv, VerdictsHold, MediaTypeOK, Fail, Leave, GoTo,
          NextCommand, Begin, Returned, materialVars, analysisVars, rowVars,
          mediaVars, RunInv, ControlInv, Stages, WorkStages, LoadStages,
          MediaStages, BCutStages, Codes, MediaCodes, Watching
  <2>1. CountersTyped'
    BY RetriesBound DEF CountersTyped
  <2>2. RunTyped'
    BY DEF RunTyped
  <2>3. RowTyped'
    BY DEF RowTyped
  <2>4. StagesAndCommands'
    BY DEF StagesAndCommands, EndsInOrder
  <2>5. EndsInOrder'
    BY DEF EndsInOrder
  <2>6. CodesAreTrue'
    BY DEF CodesAreTrue, EndsInOrder, StagesAndCommands
  <2> QED
    BY <2>1, <2>2, <2>3, <2>4, <2>5, <2>6 DEF ControlInv
<1> QED
  BY <1>1, <1>2, <1>3 DEF RunInv

\* A broken file of subtitles fails the attempt.
LEMMA BrokenSubtitlesInv ==
    ASSUME RunInv, BrokenSubtitles
    PROVE  RunInv'
<1>1. MediaInv'
  BY MediaRests DEF RunInv, BrokenSubtitles, Fail
<1>2. AnalysisInv'
  BY AnalysisRests DEF RunInv, BrokenSubtitles, Fail
<1>3. ControlInv'
  <2> USE DEF BrokenSubtitles, Fail, Leave, GoTo, NextCommand, Begin, Returned,
          materialVars, analysisVars, rowVars, mediaVars, RunInv, ControlInv,
          Stages, WorkStages, LoadStages, MediaStages, BCutStages, Codes,
          MediaCodes, Watching
  <2>1. CountersTyped'
    BY RetriesBound DEF CountersTyped
  <2>2. RunTyped'
    BY DEF RunTyped
  <2>3. RowTyped'
    BY DEF RowTyped
  <2>4. StagesAndCommands'
    BY DEF StagesAndCommands, EndsInOrder
  <2>5. EndsInOrder'
    BY DEF EndsInOrder
  <2>6. CodesAreTrue'
    BY DEF CodesAreTrue, EndsInOrder, StagesAndCommands
  <2> QED
    BY <2>1, <2>2, <2>3, <2>4, <2>5, <2>6 DEF ControlInv
<1> QED
  BY <1>1, <1>2, <1>3 DEF RunInv

----------------------------------------------------------------------------
(* BCut *)

\* A deadline of the polling leaves the accepted command as it is.
LEMMA UploadInv ==
    ASSUME RunInv, Upload
    PROVE  RunInv'
<1>1. MediaInv'
  <2>1. pipe = "returned"
    BY DEF RunInv, ControlInv, StagesAndCommands, BCutStages, Upload
  <2> QED
    BY <2>1, BeginStep, MediaRests, LateRests DEF RunInv, Upload
<1>2. AnalysisInv'
  BY AnalysisRests DEF RunInv, Upload, Fail
<1>3. ControlInv'
  <2> USE DEF Upload, pipeVars, processVars, Fail, Leave, GoTo, NextCommand, Begin,
          Returned, materialVars, analysisVars, rowVars, mediaVars, RunInv,
          ControlInv, Stages, WorkStages, LoadStages, MediaStages, BCutStages,
          Codes, MediaCodes, Watching
  <2>1. CountersTyped'
    BY RetriesBound DEF CountersTyped
  <2>2. RunTyped'
    BY DEF RunTyped
  <2>3. RowTyped'
    BY DEF RowTyped
  <2>4. StagesAndCommands'
    BY DEF StagesAndCommands, EndsInOrder
  <2>5. EndsInOrder'
    BY DEF EndsInOrder
  <2>6. CodesAreTrue'
    BY DEF CodesAreTrue, EndsInOrder, StagesAndCommands
  <2> QED
    BY <2>1, <2>2, <2>3, <2>4, <2>5, <2>6 DEF ControlInv
<1> QED
  BY <1>1, <1>2, <1>3 DEF RunInv

\* What BCut raises fails the attempt.
LEMMA BCutRaisesInv ==
    ASSUME RunInv, BCutRaises("upload") \/ BCutRaises("poll")
    PROVE  RunInv'
<1>1. MediaInv'
  BY MediaRests DEF RunInv, BCutRaises, Fail
<1>2. AnalysisInv'
  BY AnalysisRests DEF RunInv, BCutRaises, Fail
<1>3. ControlInv'
  <2> USE DEF BCutRaises, Fail, Leave, GoTo, NextCommand, Begin, Returned,
          materialVars, analysisVars, rowVars, mediaVars, RunInv, ControlInv,
          Stages, WorkStages, LoadStages, MediaStages, BCutStages, Codes,
          MediaCodes, Watching
  <2>1. CountersTyped'
    BY RetriesBound DEF CountersTyped
  <2>2. RunTyped'
    BY DEF RunTyped
  <2>3. RowTyped'
    BY DEF RowTyped
  <2>4. StagesAndCommands'
    BY DEF StagesAndCommands, EndsInOrder
  <2>5. EndsInOrder'
    BY DEF EndsInOrder
  <2>6. CodesAreTrue'
    BY DEF CodesAreTrue, EndsInOrder, StagesAndCommands
  <2> QED
    BY <2>1, <2>2, <2>3, <2>4, <2>5, <2>6 DEF ControlInv
<1> QED
  BY <1>1, <1>2, <1>3 DEF RunInv

\* Sample by sample again, and then the video.
LEMMA TranscribedInv ==
    ASSUME RunInv, Transcribed
    PROVE  RunInv'
<1>1. MediaInv'
  <2>1. pipe = "returned"
    BY DEF RunInv, ControlInv, StagesAndCommands, BCutStages, Transcribed
  <2> QED
    BY <2>1, BeginStep, MediaRests, LateRests DEF RunInv, Transcribed, NextCommand
<1>2. AnalysisInv'
  BY AnalysisRests DEF RunInv, Transcribed, Fail
<1>3. ControlInv'
  <2> USE DEF Transcribed, Fail, Leave, GoTo, NextCommand, Begin, Returned,
          materialVars, analysisVars, rowVars, mediaVars, RunInv, ControlInv,
          Stages, WorkStages, LoadStages, MediaStages, BCutStages, Codes,
          MediaCodes, Watching
  <2>1. CountersTyped'
    <3>1. clips \in {0, 1, 3} /\ clip \in 0..3 /\ clips' = clips
      BY DEF CountersTyped
    <3>2. clips # 0
      BY DEF StagesAndCommands
    <3>3. \/ clip' = 1
          \/ clip < clips /\ clip' = clip + 1
          \/ clip' = clip /\ clip <= clips
      BY DEF CountersTyped
    <3>4. clip' \in 0..3 /\ clip' <= clips'
      BY <3>1, <3>2, <3>3
    <3>5. UNCHANGED <<tries, visualFactor>> /\ textFactor' \in {textFactor, 7}
      OBVIOUS
    <3> QED
      BY <3>1, <3>4, <3>5 DEF CountersTyped
  <2>2. RunTyped'
    BY DEF RunTyped
  <2>3. RowTyped'
    BY DEF RowTyped
  <2>4. StagesAndCommands'
    BY DEF StagesAndCommands, EndsInOrder
  <2>5. EndsInOrder'
    BY DEF EndsInOrder
  <2>6. CodesAreTrue'
    BY DEF CodesAreTrue, EndsInOrder, StagesAndCommands
  <2> QED
    BY <2>1, <2>2, <2>3, <2>4, <2>5, <2>6 DEF ControlInv
<1> QED
  BY <1>1, <1>2, <1>3 DEF RunInv

\* Time passes while BCut is polled.
LEMMA PollDeadlineInv ==
    ASSUME RunInv, PollDeadline
    PROVE  RunInv'
<1>1. MediaInv'
  <2>1. pipe = "returned"
    BY DEF RunInv, ControlInv, StagesAndCommands, BCutStages, PollDeadline
  <2> QED
    BY <2>1, BeginStep, MediaRests, LateRests DEF RunInv, PollDeadline
<1>2. AnalysisInv'
  BY AnalysisRests DEF RunInv, PollDeadline, runVars, analysisVars, Fail
<1>3. ControlInv'
  <2> USE DEF PollDeadline, runVars, pipeVars, processVars, Fail, Leave, GoTo,
          NextCommand, Begin, Returned, materialVars, analysisVars, rowVars,
          mediaVars, RunInv, ControlInv, Stages, WorkStages, LoadStages,
          MediaStages, BCutStages, Codes, MediaCodes, Watching
  <2>1. CountersTyped'
    BY RetriesBound DEF CountersTyped
  <2>2. RunTyped'
    BY DEF RunTyped
  <2>3. RowTyped'
    BY DEF RowTyped
  <2>4. StagesAndCommands'
    BY DEF StagesAndCommands, EndsInOrder
  <2>5. EndsInOrder'
    BY DEF EndsInOrder
  <2>6. CodesAreTrue'
    BY DEF CodesAreTrue, EndsInOrder, StagesAndCommands
  <2> QED
    BY <2>1, <2>2, <2>3, <2>4, <2>5, <2>6 DEF ControlInv
<1> QED
  BY <1>1, <1>2, <1>3 DEF RunInv

----------------------------------------------------------------------------
(* The end of the run *)

\* The fence is asked before the detectors.
LEMMA StartAnalyzingInv ==
    ASSUME RunInv, StartAnalyzing
    PROVE  RunInv'
<1>1. MediaInv'
  BY MediaRests DEF RunInv, StartAnalyzing, mediaVars, Fail
<1>2. AnalysisInv'
  BY AnalysisRests DEF RunInv, StartAnalyzing, analysisVars, Fail
<1>3. ControlInv'
  <2> USE DEF StartAnalyzing, DatabaseRaises, DatabaseCodes, MaybeWritten, RowOfLoad,
          Fail, Leave, GoTo, NextCommand, Begin, Returned,
          materialVars, analysisVars, rowVars, mediaVars, RunInv, ControlInv,
          Stages, WorkStages, LoadStages, MediaStages, BCutStages, Codes,
          MediaCodes, Watching
  <2>1. CountersTyped'
    BY RetriesBound DEF CountersTyped
  <2>2. RunTyped'
    BY DEF RunTyped
  <2>3. RowTyped'
    BY DEF RowTyped
  <2>4. StagesAndCommands'
    BY DEF StagesAndCommands, EndsInOrder
  <2>5. EndsInOrder'
    BY DEF EndsInOrder
  <2>6. CodesAreTrue'
    BY DEF CodesAreTrue, EndsInOrder, StagesAndCommands
  <2> QED
    BY <2>1, <2>2, <2>3, <2>4, <2>5, <2>6 DEF ControlInv
<1> QED
  BY <1>1, <1>2, <1>3 DEF RunInv

\* rmtree leaves the workspace removed, or some of it.
LEMMA RemoverEndsInv ==
    ASSUME RunInv, RemoverEnds
    PROVE  RunInv'
<1>1. MediaInv'
  BY MediaRests DEF RunInv, RemoverEnds, mediaVars, Fail
<1>2. AnalysisInv'
  BY AnalysisRests DEF RunInv, RemoverEnds, analysisVars, Fail
<1>3. ControlInv'
  <2> USE DEF RemoverEnds, Fail, Leave, GoTo, NextCommand, Begin, Returned,
          materialVars, analysisVars, rowVars, mediaVars, RunInv, ControlInv,
          Stages, WorkStages, LoadStages, MediaStages, BCutStages, Codes,
          MediaCodes, Watching
  <2>1. CountersTyped'
    BY RetriesBound DEF CountersTyped
  <2>2. RunTyped'
    BY DEF RunTyped
  <2>3. RowTyped'
    BY DEF RowTyped
  <2>4. StagesAndCommands'
    BY DEF StagesAndCommands, EndsInOrder
  <2>5. EndsInOrder'
    BY DEF EndsInOrder
  <2>6. CodesAreTrue'
    BY DEF CodesAreTrue, EndsInOrder, StagesAndCommands
  <2> QED
    BY <2>1, <2>2, <2>3, <2>4, <2>5, <2>6 DEF ControlInv
<1> QED
  BY <1>1, <1>2, <1>3 DEF RunInv

\* A workspace that is left has the last word on an error.
LEMMA CleanedUpInv ==
    ASSUME RunInv, CleanedUp
    PROVE  RunInv'
<1>1. MediaInv'
  BY MediaRests DEF RunInv, CleanedUp, mediaVars, Fail
<1>2. AnalysisInv'
  BY AnalysisRests DEF RunInv, CleanedUp, analysisVars, Fail
<1>3. ControlInv'
  <2> USE DEF CleanedUp, Fail, Leave, GoTo, NextCommand, Begin, Returned,
          materialVars, analysisVars, rowVars, mediaVars, RunInv, ControlInv,
          Stages, WorkStages, LoadStages, MediaStages, BCutStages, Codes,
          MediaCodes, Watching
  <2>1. CountersTyped'
    BY RetriesBound DEF CountersTyped
  <2>2. RunTyped'
    BY DEF RunTyped
  <2>3. RowTyped'
    BY DEF RowTyped
  <2>4. StagesAndCommands'
    BY DEF StagesAndCommands, EndsInOrder
  <2>5. EndsInOrder'
    BY DEF EndsInOrder, RunTyped
  <2>6. CodesAreTrue'
    BY DEF CodesAreTrue, EndsInOrder, StagesAndCommands
  <2> QED
    BY <2>1, <2>2, <2>3, <2>4, <2>5, <2>6 DEF ControlInv
<1> QED
  BY <1>1, <1>2, <1>3 DEF RunInv

\* The attempt is completed once, or its worker reports a failure.
LEMMA CompleteAttemptInv ==
    ASSUME RunInv, CompleteAttempt
    PROVE  RunInv'
<1>1. MediaInv'
  BY MediaRests DEF RunInv, CompleteAttempt, mediaVars, WriteCompleted, Fail
<1>2. AnalysisInv'
  BY AnalysisRests DEF RunInv, CompleteAttempt, analysisVars, WriteCompleted, Fail
<1>3. ControlInv'
  <2> USE DEF CompleteAttempt, DatabaseCodes,
          WriteCompleted, Fail, Leave, GoTo, NextCommand,
          Begin, Returned, materialVars, analysisVars, rowVars, mediaVars, RunInv,
          ControlInv, Stages, WorkStages, LoadStages, MediaStages, BCutStages,
          Codes, MediaCodes, Watching
  <2>1. CountersTyped'
    BY RetriesBound DEF CountersTyped
  <2>2. RunTyped'
    BY DEF RunTyped
  <2>3. RowTyped'
    BY DEF RowTyped
  <2>4. StagesAndCommands'
    BY DEF StagesAndCommands, EndsInOrder
  <2>5. EndsInOrder'
    BY DEF EndsInOrder
  <2>6. CodesAreTrue'
    BY DEF CodesAreTrue, EndsInOrder, StagesAndCommands, AnalysisInv, ResultIsAggregate
  <2> QED
    BY <2>1, <2>2, <2>3, <2>4, <2>5, <2>6 DEF ControlInv
<1> QED
  BY <1>1, <1>2, <1>3 DEF RunInv

\* A failure is written once, by the owner.
LEMMA FailAttemptInv ==
    ASSUME RunInv, FailAttempt
    PROVE  RunInv'
<1>1. MediaInv'
  BY MediaRests DEF RunInv, FailAttempt, mediaVars, Fail
<1>2. AnalysisInv'
  BY AnalysisRests DEF RunInv, FailAttempt, analysisVars, Fail
<1>3. ControlInv'
  <2> USE DEF FailAttempt, Fail, Leave, GoTo, NextCommand, Begin, Returned,
          materialVars, analysisVars, rowVars, mediaVars, RunInv, ControlInv,
          Stages, WorkStages, LoadStages, MediaStages, BCutStages, Codes,
          MediaCodes, Watching
  <2>1. CountersTyped'
    BY RetriesBound DEF CountersTyped
  <2>2. RunTyped'
    BY DEF RunTyped
  <2>3. RowTyped'
    BY DEF RowTyped
  <2>4. StagesAndCommands'
    BY DEF StagesAndCommands, EndsInOrder
  <2>5. EndsInOrder'
    BY DEF EndsInOrder
  <2>6. CodesAreTrue'
    BY DEF CodesAreTrue, EndsInOrder, StagesAndCommands
  <2> QED
    BY <2>1, <2>2, <2>3, <2>4, <2>5, <2>6 DEF ControlInv
<1> QED
  BY <1>1, <1>2, <1>3 DEF RunInv

\* Another takes the attempt over.
LEMMA OwnershipLostInv ==
    ASSUME RunInv, OwnershipLost
    PROVE  RunInv'
<1>1. MediaInv'
  BY MediaRests DEF RunInv, OwnershipLost, mediaVars, Fail
<1>2. AnalysisInv'
  BY AnalysisRests DEF RunInv, OwnershipLost, analysisVars, Fail
<1>3. ControlInv'
  <2> USE DEF OwnershipLost, Fail, Leave, GoTo, NextCommand, Begin, Returned,
          materialVars, analysisVars, rowVars, mediaVars, RunInv, ControlInv,
          Stages, WorkStages, LoadStages, MediaStages, BCutStages, Codes,
          MediaCodes, Watching
  <2>1. CountersTyped'
    BY RetriesBound DEF CountersTyped
  <2>2. RunTyped'
    BY DEF RunTyped
  <2>3. RowTyped'
    BY DEF RowTyped
  <2>4. StagesAndCommands'
    BY DEF StagesAndCommands, EndsInOrder
  <2>5. EndsInOrder'
    BY DEF EndsInOrder
  <2>6. CodesAreTrue'
    BY DEF CodesAreTrue, EndsInOrder, StagesAndCommands
  <2> QED
    BY <2>1, <2>2, <2>3, <2>4, <2>5, <2>6 DEF ControlInv
<1> QED
  BY <1>1, <1>2, <1>3 DEF RunInv

\* wait_for interrupts the run wherever it is.
LEMMA JobTimeoutInv ==
    ASSUME RunInv, JobTimeout
    PROVE  RunInv'
<1>1. MediaInv'
  BY InterruptInv, MediaRests DEF RunInv, JobTimeout, CancelCommand, CancelWork,
     CancelCleanup, CancelWrite
<1>2. AnalysisInv'
  BY AnalysisRests DEF RunInv, JobTimeout, CancelCommand, CancelWork, CancelCleanup, CancelWrite, analysisVars, Fail
<1>3. ControlInv'
  <2> USE DEF JobTimeout, CancelCommand, CancelWork, CancelCleanup, CancelWrite,
          MaybeWritten, RowOfLoad,
          WriteCompleted, Interrupt, Raise, Fail, Leave, GoTo, NextCommand, Begin,
          Returned, materialVars, analysisVars, rowVars, mediaVars, RunInv,
          ControlInv, Stages, WorkStages, LoadStages, MediaStages, BCutStages,
          Codes, MediaCodes, Watching
  <2>1. CountersTyped'
    BY RetriesBound DEF CountersTyped
  <2>2. RunTyped'
    BY DEF RunTyped
  <2>3. RowTyped'
    BY DEF RowTyped
  <2>4. StagesAndCommands'
    BY DEF StagesAndCommands, EndsInOrder
  <2>5. EndsInOrder'
    BY DEF EndsInOrder
  <2>6. CodesAreTrue'
    BY DEF CodesAreTrue, EndsInOrder, StagesAndCommands
  <2> QED
    BY <2>1, <2>2, <2>3, <2>4, <2>5, <2>6 DEF ControlInv
<1> QED
  BY <1>1, <1>2, <1>3 DEF RunInv

\* The command goes on beside the run.
LEMMA CommandRunsInv ==
    ASSUME RunInv, CommandRuns
    PROVE  RunInv'
<1>0. MediaInv' /\ CommandMoves
  BY CommandStepInv, CommandMovesSo DEF RunInv, MediaInv, CommandRuns
<1>1. MediaInv'
  BY <1>0
<1>2. AnalysisInv'
  BY AnalysisRests DEF RunInv, CommandRuns, runVars, analysisVars, Fail
<1>3. ControlInv'
  <2> USE DEF CommandRuns, runVars, CommandMoves, MediaInv, VerdictsHold, Fail,
          Leave, GoTo, NextCommand, Begin, Returned, materialVars, analysisVars,
          rowVars, mediaVars, RunInv, ControlInv, Stages, WorkStages, LoadStages,
          MediaStages, BCutStages, Codes, MediaCodes, Watching
  <2>1. CountersTyped'
    BY RetriesBound DEF CountersTyped
  <2>2. RunTyped'
    BY DEF RunTyped
  <2>3. RowTyped'
    BY DEF RowTyped
  <2>4. StagesAndCommands'
    BY <1>0 DEF StagesAndCommands, MediaTypeOK, PipeSteps
  <2>5. EndsInOrder'
    BY DEF EndsInOrder
  <2>6. CodesAreTrue'
    BY <1>0 DEF CodesAreTrue, MediaTypeOK, PipeSteps
  <2> QED
    BY <2>1, <2>2, <2>3, <2>4, <2>5, <2>6 DEF ControlInv
<1> QED
  BY <1>1, <1>2, <1>3 DEF RunInv

----------------------------------------------------------------------------
(* Sums over the detectors *)

\* The three detectors.
LEMMA KindsAre == Kinds = {"text", "visual", "metadata"}
BY DEF Kinds, Weight

At(f, A, k) == IF k \in A THEN f[k] ELSE 0

\* The fold of the community modules adds what each detector in A contributes.
LEMMA SumOverKinds ==
    ASSUME NEW f \in [Kinds -> Int], NEW A \in SUBSET Kinds
    PROVE  SumFunctionOnSet(f, A) = At(f, A, "text") + At(f, A, "visual") + At(f, A, "metadata")
<1> DEFINE Ch(s) == CHOOSE x \in s : TRUE
           Unfold(g) == [s \in SUBSET A |->
                           IF s = {} THEN 0 ELSE f[Ch(s)] + g[s \ {Ch(s)}]]
           sum == CHOOSE g : g = Unfold(g)
           total(s) == At(f, s, "text") + At(f, s, "visual") + At(f, s, "metadata")
           explicit == [s \in SUBSET A |-> total(s)]
<1>1. SumFunctionOnSet(f, A) = sum[A]
  BY DEF SumFunctionOnSet, FoldFunctionOnSet, MapThenFoldSet
<1>2. ASSUME NEW s \in SUBSET A, s # {}
      PROVE  Ch(s) \in s /\ s \ {Ch(s)} \in SUBSET A /\ Ch(s) \in Kinds
  BY <1>2
<1>3. ASSUME NEW s \in SUBSET A, NEW x \in s
      PROVE  total(s) = f[x] + total(s \ {x})
  <2>1. f["text"] \in Int /\ f["visual"] \in Int /\ f["metadata"] \in Int
    BY KindsAre
  <2>2. x \in {"text", "visual", "metadata"}
    BY KindsAre
  <2> QED
    BY <2>1, <2>2 DEF At
<1>4. explicit = Unfold(explicit)
  <2>1. ASSUME NEW s \in SUBSET A
        PROVE  explicit[s] = IF s = {} THEN 0 ELSE f[Ch(s)] + explicit[s \ {Ch(s)}]
    <3>1. CASE s = {}
      BY <3>1 DEF At
    <3>2. CASE s # {}
      <4> HIDE DEF Ch, total
      <4> QED
        BY <1>2, <1>3, <3>2
    <3> QED
      BY <3>1, <3>2
  <2> QED
    BY <2>1
<1>5. sum = Unfold(sum)
  BY <1>4
<1> HIDE DEF sum
<1>6. ASSUME NEW s \in SUBSET A
      PROVE  sum[s] = IF s = {} THEN 0 ELSE f[Ch(s)] + sum[s \ {Ch(s)}]
  BY <1>5
<1> HIDE DEF Ch
<1>7. sum[{}] = 0
  BY <1>6
<1>8. \A x \in A : sum[{x}] = f[x]
  <2> SUFFICES ASSUME NEW x \in A PROVE sum[{x}] = f[x]
    OBVIOUS
  <2>1. Ch({x}) = x
    BY <1>2
  <2>2. {x} \ {x} = {}
    OBVIOUS
  <2>3. sum[{x}] = f[x] + 0
    BY <1>6, <1>7, <2>1, <2>2
  <2> QED
    BY <2>3
<1>9. \A x, y \in A : x # y => sum[{x, y}] = f[x] + f[y]
  <2> SUFFICES ASSUME NEW x \in A, NEW y \in A, x # y PROVE sum[{x, y}] = f[x] + f[y]
    OBVIOUS
  <2>1. sum[{x, y}] = f[Ch({x, y})] + sum[{x, y} \ {Ch({x, y})}]
    BY <1>6
  <2>2. Ch({x, y}) = x \/ Ch({x, y}) = y
    BY <1>2
  <2>3. {x, y} \ {x} = {y} /\ {x, y} \ {y} = {x}
    OBVIOUS
  <2>4. f[x] \in Int /\ f[y] \in Int
    OBVIOUS
  <2>5. sum[{x}] = f[x] /\ sum[{y}] = f[y]
    BY <1>8
  <2>6. CASE Ch({x, y}) = x
    BY <2>1, <2>3, <2>5, <2>6
  <2>7. CASE Ch({x, y}) = y
    <3>1. sum[{x, y}] = f[y] + f[x]
      BY <2>1, <2>3, <2>5, <2>7
    <3> QED
      BY <3>1, <2>4
  <2> QED
    BY <2>2, <2>6, <2>7
<1>10. A = {"text", "visual", "metadata"} =>
         sum[A] = f["text"] + f["visual"] + f["metadata"]
  <2> SUFFICES ASSUME A = {"text", "visual", "metadata"}
               PROVE  sum[A] = f["text"] + f["visual"] + f["metadata"]
    OBVIOUS
  <2>1. sum[A] = f[Ch(A)] + sum[A \ {Ch(A)}]
    BY <1>6
  <2>2. Ch(A) \in {"text", "visual", "metadata"}
    BY <1>2
  <2>3. /\ A \ {"text"} = {"visual", "metadata"}
        /\ A \ {"visual"} = {"text", "metadata"}
        /\ A \ {"metadata"} = {"text", "visual"}
    OBVIOUS
  <2>4. f["text"] \in Int /\ f["visual"] \in Int /\ f["metadata"] \in Int
    BY KindsAre
  <2>5. /\ sum[{"visual", "metadata"}] = f["visual"] + f["metadata"]
        /\ sum[{"text", "metadata"}] = f["text"] + f["metadata"]
        /\ sum[{"text", "visual"}] = f["text"] + f["visual"]
    BY <1>9
  <2>6. CASE Ch(A) = "text"
    <3>1. sum[A] = f["text"] + (f["visual"] + f["metadata"])
      BY <2>1, <2>3, <2>5, <2>6
    <3> QED
      BY <3>1, <2>4
  <2>7. CASE Ch(A) = "visual"
    <3>1. sum[A] = f["visual"] + (f["text"] + f["metadata"])
      BY <2>1, <2>3, <2>5, <2>7
    <3> QED
      BY <3>1, <2>4
  <2>8. CASE Ch(A) = "metadata"
    <3>1. sum[A] = f["metadata"] + (f["text"] + f["visual"])
      BY <2>1, <2>3, <2>5, <2>8
    <3> QED
      BY <3>1, <2>4
  <2> QED
    BY <2>2, <2>6, <2>7, <2>8
<1>11. f["text"] \in Int /\ f["visual"] \in Int /\ f["metadata"] \in Int
  BY KindsAre
<1>12. sum[A] = total(A)
  <2>1. CASE A = {}
    BY <1>7, <2>1 DEF At
  <2>2. ASSUME NEW x \in Kinds, A = {x}
        PROVE  sum[A] = total(A)
    <3>1. sum[A] = f[x]
      BY <1>8, <2>2
    <3>2. x = "text" \/ x = "visual" \/ x = "metadata"
      BY KindsAre
    <3> QED
      BY <1>11, <2>2, <3>1, <3>2 DEF At
  <2>3. CASE A = {"text", "visual"}
    <3>1. sum[A] = f["text"] + f["visual"]
      BY <1>9, <2>3
    <3> QED
      BY <1>11, <2>3, <3>1 DEF At
  <2>4. CASE A = {"text", "metadata"}
    <3>1. sum[A] = f["text"] + f["metadata"]
      BY <1>9, <2>4
    <3> QED
      BY <1>11, <2>4, <3>1 DEF At
  <2>5. CASE A = {"visual", "metadata"}
    <3>1. sum[A] = f["visual"] + f["metadata"]
      BY <1>9, <2>5
    <3> QED
      BY <1>11, <2>5, <3>1 DEF At
  <2>6. CASE A = {"text", "visual", "metadata"}
    BY <1>10, <2>6 DEF At
  <2>7. \/ A = {} \/ \E x \in Kinds : A = {x}
        \/ A = {"text", "visual"} \/ A = {"text", "metadata"} \/ A = {"visual", "metadata"}
        \/ A = {"text", "visual", "metadata"}
    BY KindsAre
  <2> QED
    BY <2>1, <2>2, <2>3, <2>4, <2>5, <2>6, <2>7
<1> QED
  BY <1>1, <1>12
----------------------------------------------------------------------------
(* The aggregation.  Bounds are written with <=: the provers write a range *)
(* of numbers out.                                                         *)

\* Division rounds down.
LEMMA DivIs ==
    ASSUME NEW a \in Nat, NEW b \in Nat, b > 0
    PROVE  a \div b \in Nat /\ b * (a \div b) <= a /\ a < b * (a \div b) + b
<1>1. a \div b \in Nat
  BY SMT
<1>2. b * (a \div b) <= a /\ a < b * (a \div b) + b
  BY SMT
<1> QED
  BY <1>1, <1>2

\* Rounding half up is off by at most a half.
LEMMA HalfUpIs ==
    ASSUME NEW n \in Nat, NEW d \in Nat, d > 0
    PROVE  /\ HalfUp(n, d) \in Nat
           /\ (2 * d) * HalfUp(n, d) <= 2 * n + d
           /\ 2 * n + d < (2 * d) * HalfUp(n, d) + 2 * d
<1>1. 2 * n + d \in Nat /\ 2 * d \in Nat /\ 2 * d > 0
  BY SMT
<1>2. HalfUp(n, d) = (2 * n + d) \div (2 * d)
  BY DEF HalfUp
<1> QED
  BY <1>1, <1>2, DivIs

\* The three roundings of an aggregation: a mean over a weight w,
LEMMA HalfUpOfMean ==
    ASSUME NEW w \in Nat, w > 0, NEW s \in Nat, NEW n, n = HalfUp(s, 10 * w)
    PROVE  /\ n \in Nat
           /\ 20 * (w * n) <= 2 * s + 10 * w
           /\ 2 * s < 20 * (w * n) + 10 * w
<1> DEFINE d == 10 * w
<1>1. d \in Nat /\ d > 0
  BY SMT
<1>2. n = HalfUp(s, d)
  OBVIOUS
<1> HIDE DEF d
<1>3. /\ n \in Nat
      /\ (2 * d) * n <= 2 * s + d
      /\ 2 * s + d < (2 * d) * n + 2 * d
  BY <1>1, <1>2, HalfUpIs
<1>4. (2 * d) * n = 20 * (w * n) /\ w * n \in Nat
  BY SMT, <1>3 DEF d
<1> QED
  BY SMT, <1>3, <1>4 DEF d

\* a published value,
LEMMA HalfUpOfHundreds ==
    ASSUME NEW n \in Nat, NEW h, h = HalfUp(n, 100)
    PROVE  h \in Nat /\ 200 * h <= 2 * n + 100 /\ 2 * n < 200 * h + 100
BY SMT DEF HalfUp

\* and a confidence.
LEMMA HalfUpOfThousands ==
    ASSUME NEW n \in Nat, NEW h, h = HalfUp(n, 1000)
    PROVE  h \in Nat /\ 2000 * h <= 2 * n + 1000 /\ 2 * n < 2000 * h + 1000
BY SMT DEF HalfUp

\* Each score has its label.
LEMMA LabelsOfScores ==
    ASSUME NEW s \in Nat
    PROVE  LabelForScore(s) \in Labels /\ LabelForScore(s) # NoLabel
BY DEF LabelForScore, Labels, NoLabel

TypedOutputs(outs) ==
    /\ DOMAIN outs = Kinds
    /\ \A k \in Kinds : outs[k] \in [score: 0..Unit, confidence: 0..Unit, factor: 0..10]

\* What the provers need of Unit, which they must not count to.
LEMMA UnitIs == Unit \in Nat /\ Unit = 100000
BY DEF Unit

WeightedScores(outs) == [k \in Kinds |-> Weight[k] * outs[k].score]
WeightedConfidences(outs) == [k \in Kinds |-> Weight[k] * outs[k].confidence * outs[k].factor]

\* An output lies within its bounds.
LEMMA OutputBounded ==
    ASSUME NEW outs, TypedOutputs(outs), NEW k \in Kinds
    PROVE  /\ outs[k].score \in Nat /\ outs[k].score <= 100000
           /\ outs[k].confidence \in Nat /\ outs[k].factor \in Nat
           /\ outs[k].confidence * outs[k].factor \in Nat
           /\ outs[k].confidence * outs[k].factor <= 1000000
<1>1. /\ outs[k].score \in 0..Unit /\ outs[k].confidence \in 0..Unit
      /\ outs[k].factor \in 0..10
  BY DEF TypedOutputs
<1>2. /\ outs[k].score \in Nat /\ outs[k].score <= Unit
      /\ outs[k].confidence \in Nat /\ outs[k].confidence <= Unit
  <2>1. Unit \in Nat
    BY UnitIs
  <2> QED
    BY SMT, <1>1, <2>1
<1>3. ASSUME NEW a \in Nat, NEW b \in 0..10, a <= 100000
      PROVE  a * b \in Nat /\ a * b <= 1000000
  BY SMT, <1>3
<1>4. outs[k].score <= 100000 /\ outs[k].confidence <= 100000
  BY SMT, <1>2, UnitIs
<1> QED
  BY SMT, <1>1, <1>2, <1>3, <1>4

\* The three sums of an aggregation, and how far they can go.
LEMMA SumsBounded ==
    ASSUME NEW outs, TypedOutputs(outs), NEW A \in SUBSET Kinds
    PROVE  LET w == SumFunctionOnSet(Weight, A)
               s == SumFunctionOnSet(WeightedScores(outs), A)
               p == SumFunctionOnSet(WeightedConfidences(outs), A)
           IN  /\ w \in 0..10 /\ (A # {} => w > 0)
               /\ s \in Nat /\ s <= w * 100000
               /\ p \in Nat /\ p <= 10000000
               /\ A = {} => w = 0 /\ s = 0 /\ p = 0
<1> DEFINE w == SumFunctionOnSet(Weight, A)
           s == SumFunctionOnSet(WeightedScores(outs), A)
           p == SumFunctionOnSet(WeightedConfidences(outs), A)
           x(k) == outs[k].score
           c(k) == outs[k].confidence * outs[k].factor
<1>1. ASSUME NEW k \in Kinds
      PROVE  /\ x(k) \in Nat /\ x(k) <= 100000
             /\ c(k) \in Nat /\ c(k) <= 1000000
             /\ outs[k].confidence \in Nat /\ outs[k].factor \in Nat
  BY OutputBounded
<1>2. Weight["text"] = 5 /\ Weight["visual"] = 4 /\ Weight["metadata"] = 1
  BY SMT DEF Weight
<1> HIDE DEF x, c
<1>3. /\ x("text") \in Nat /\ x("visual") \in Nat /\ x("metadata") \in Nat
      /\ x("text") <= 100000 /\ x("visual") <= 100000 /\ x("metadata") <= 100000
      /\ c("text") \in Nat /\ c("visual") \in Nat /\ c("metadata") \in Nat
      /\ c("text") <= 1000000 /\ c("visual") <= 1000000 /\ c("metadata") <= 1000000
  BY SMT, <1>1, KindsAre
<1>4. /\ Weight \in [Kinds -> Int]
      /\ WeightedScores(outs) \in [Kinds -> Int]
      /\ WeightedConfidences(outs) \in [Kinds -> Int]
  <2>1. \A k \in Kinds : Weight[k] \in Int
    BY SMT, <1>2, KindsAre
  <2>2. Weight = [k \in Kinds |-> Weight[k]]
    BY SMT DEF Weight, Kinds
  <2>3. \A k \in Kinds : outs[k].score \in Int /\ outs[k].confidence \in Int /\ outs[k].factor \in Int
    BY SMT, <1>1 DEF x
  <2> QED
    BY SMT, <2>1, <2>2, <2>3 DEF WeightedScores, WeightedConfidences
<1>5. /\ w = At(Weight, A, "text") + At(Weight, A, "visual") + At(Weight, A, "metadata")
      /\ s = At(WeightedScores(outs), A, "text") + At(WeightedScores(outs), A, "visual")
               + At(WeightedScores(outs), A, "metadata")
      /\ p = At(WeightedConfidences(outs), A, "text") + At(WeightedConfidences(outs), A, "visual")
               + At(WeightedConfidences(outs), A, "metadata")
  BY SMT, <1>4, SumOverKinds
<1>6. /\ WeightedScores(outs)["text"] = 5 * x("text")
      /\ WeightedScores(outs)["visual"] = 4 * x("visual")
      /\ WeightedScores(outs)["metadata"] = 1 * x("metadata")
  BY SMT, <1>2, KindsAre DEF WeightedScores, x
<1>7. /\ WeightedConfidences(outs)["text"] = 5 * c("text")
      /\ WeightedConfidences(outs)["visual"] = 4 * c("visual")
      /\ WeightedConfidences(outs)["metadata"] = 1 * c("metadata")
  <2>1. ASSUME NEW u \in Nat, NEW v \in Nat, NEW n \in Nat
        PROVE  n * u * v = n * (u * v)
    BY SMT
  <2>2. ASSUME NEW k \in Kinds, Weight[k] \in Nat
        PROVE  WeightedConfidences(outs)[k] = Weight[k] * c(k)
    <3>1. WeightedConfidences(outs)[k] = Weight[k] * outs[k].confidence * outs[k].factor
      BY DEF WeightedConfidences
    <3> QED
      BY SMT, <1>1, <2>1, <2>2, <3>1 DEF c
  <2> QED
    BY SMT, <1>2, <2>2, KindsAre
<1> HIDE DEF w, s, p
<1>8. w \in 0..10 /\ s \in Nat /\ s <= w * 100000
  BY SMT, <1>2, <1>3, <1>5, <1>6 DEF At
<1>9. p \in Nat /\ p <= 10000000
  BY SMT, <1>3, <1>5, <1>7 DEF At
<1>10. A # {} => w > 0
  <2> SUFFICES ASSUME NEW k \in A PROVE w > 0
    OBVIOUS
  <2>1. k = "text" \/ k = "visual" \/ k = "metadata"
    BY KindsAre
  <2> QED
    BY SMT, <1>2, <1>5, <2>1 DEF At
<1>11. A = {} => w = 0 /\ s = 0 /\ p = 0
  BY SMT, <1>5 DEF At
<1> QED
  BY SMT, <1>8, <1>9, <1>10, <1>11 DEF w, s, p

\* Both roundings of a score together.
LEMMA ScoreIsClose ==
    ASSUME NEW w \in 1..10, NEW s \in Nat, s <= w * 100000,
           NEW n \in Nat, 20 * (w * n) <= 2 * s + 10 * w, 2 * s < 20 * (w * n) + 10 * w,
           NEW r \in Nat, 200 * r <= 2 * n + 100, 2 * n < 200 * r + 100
    PROVE  /\ r \in 0..100
           /\ -(505 * w) <= r * 1000 * w - s
           /\ r * 1000 * w - s <= 505 * w
<1>1. w = 1 \/ w = 2 \/ w = 3 \/ w = 4 \/ w = 5 \/ w = 6 \/ w = 7 \/ w = 8 \/ w = 9 \/ w = 10
  BY SMT
<1>2. 200 * (w * r) <= 2 * (w * n) + 100 * w /\ 2 * (w * n) < 200 * (w * r) + 100 * w
  BY SMT, <1>1
<1>3. w * n \in Int /\ w * r \in Int
  BY SMT
<1>4. r * 1000 * w = 1000 * (w * r)
  BY SMT
<1>5. ASSUME NEW x \in Int, NEW y \in Int,
             20 * x <= 2 * s + 10 * w, 2 * s < 20 * x + 10 * w,
             200 * y <= 2 * x + 100 * w, 2 * x < 200 * y + 100 * w
      PROVE  -(505 * w) <= 1000 * y - s /\ 1000 * y - s <= 505 * w
  BY SMT, <1>5
<1>6. n <= 10000
  BY SMT, <1>1
<1>7. r \in 0..100
  BY SMT, <1>6
<1>8. -(505 * w) <= r * 1000 * w - s /\ r * 1000 * w - s <= 505 * w
  BY SMT, <1>2, <1>3, <1>4, <1>5
<1> QED
  BY SMT, <1>7, <1>8

\* And of a confidence: it reaches 0.4 exactly when the sum does, half a unit early.
LEMMA ConfidenceIsClose ==
    ASSUME NEW p \in Nat, p <= 10000000,
           NEW c \in Nat, 2000 * c <= 2 * p + 1000, 2 * p < 2000 * c + 1000,
           NEW r \in Nat, 200 * r <= 2 * c + 100, 2 * c < 200 * r + 100
    PROVE  r \in 0..100 /\ (c >= 4000 <=> p >= 3999500)
<1>1. c >= 4000 <=> p >= 3999500
  BY SMT
<1>2. r <= 100
  BY SMT
<1> QED
  BY SMT, <1>1, <1>2

\* What is published, against the exact sums over the detectors that were heard.
LEMMA AggregateIs ==
    ASSUME NEW outs, TypedOutputs(outs)
    PROVE  LET A == Available(outs)
               agg == Aggregate(outs)
               w == SumFunctionOnSet(Weight, A)
               s == SumFunctionOnSet(WeightedScores(outs), A)
               p == SumFunctionOnSet(WeightedConfidences(outs), A)
           IN  /\ agg \in [score: 0..100, confidence: 0..100, label: Labels]
               /\ w \in Nat /\ s \in Nat
               /\ -(505 * w) <= agg.score * 1000 * w - s
               /\ agg.score * 1000 * w - s <= 505 * w
               /\ agg.label # NoLabel <=> p >= 3999500
               /\ agg.label # NoLabel => agg.label = LabelForScore(agg.score)
<1> DEFINE A == Available(outs)
           agg == Aggregate(outs)
           w == SumFunctionOnSet(Weight, A)
           s == SumFunctionOnSet(WeightedScores(outs), A)
           p == SumFunctionOnSet(WeightedConfidences(outs), A)
           n == NormalizedScore(outs)
           c == InternalConfidence(outs)
<1>1. A \in SUBSET Kinds
  BY DEF Available
<1>2. /\ w \in 0..10 /\ (A # {} => w > 0)
      /\ s \in Nat /\ s <= w * 100000
      /\ p \in Nat /\ p <= 10000000
      /\ A = {} => w = 0 /\ s = 0 /\ p = 0
  <2> HIDE DEF A
  <2> QED
    BY SMT, <1>1, SumsBounded
<1>3. n = IF A = {} THEN 0 ELSE HalfUp(s, 10 * w)
  BY DEF NormalizedScore, WeightedScores
<1>4. c = HalfUp(p, 1000)
  BY DEF InternalConfidence, WeightedConfidences
<1>5. agg = [score |-> HalfUp(n, 100), confidence |-> HalfUp(c, 100),
             label |-> Label(HalfUp(n, 100), c)]
  BY DEF Aggregate
<1> HIDE DEF A, agg, w, s, p, n, c
<1> DEFINE score == HalfUp(n, 100)
<1>6. /\ score \in 0..100
      /\ -(505 * w) <= score * 1000 * w - s /\ score * 1000 * w - s <= 505 * w
  <2>1. CASE A = {}
    <3>1. n = 0 /\ w = 0 /\ s = 0
      BY SMT, <1>2, <1>3, <2>1
    <3>2. HalfUp(0, 100) = 0
      BY SMT DEF HalfUp
    <3> QED
      BY SMT, <3>1, <3>2
  <2>2. CASE A # {}
    <3>1. w \in 1..10 /\ n = HalfUp(s, 10 * w)
      BY SMT, <1>2, <1>3, <2>2
    <3>2. w \in Nat /\ w > 0 /\ s \in Nat
      BY SMT, <1>2, <3>1
    <3>3. n = HalfUp(s, 10 * w)
      BY SMT, <3>1
    <3>4. n \in Nat /\ 20 * (w * n) <= 2 * s + 10 * w /\ 2 * s < 20 * (w * n) + 10 * w
      BY Zenon, <3>2, <3>3, HalfUpOfMean
    <3>5. score \in Nat /\ 200 * score <= 2 * n + 100 /\ 2 * n < 200 * score + 100
      BY SMT, <3>4, HalfUpOfHundreds
    <3> HIDE DEF score
    <3> QED
      BY SMT, <1>2, <3>1, <3>4, <3>5, ScoreIsClose
  <2> QED
    BY <2>1, <2>2
<1>7. /\ c \in Nat /\ HalfUp(c, 100) \in 0..100
      /\ c >= 4000 <=> p >= 3999500
  <2> DEFINE r == HalfUp(c, 100)
  <2>1. c \in Nat /\ 2000 * c <= 2 * p + 1000 /\ 2 * p < 2000 * c + 1000
    BY SMT, <1>2, <1>4, HalfUpOfThousands
  <2>2. r \in Nat /\ 200 * r <= 2 * c + 100 /\ 2 * c < 200 * r + 100
    <3>1. c \in Nat
      BY SMT, <2>1
    <3> QED
      BY SMT, <3>1, HalfUpOfHundreds
  <2> HIDE DEF r
  <2>3. r \in 0..100 /\ (c >= 4000 <=> p >= 3999500)
    BY SMT, <1>2, <2>1, <2>2, ConfidenceIsClose
  <2> QED
    BY SMT, <2>1, <2>3 DEF r
<1> HIDE DEF score
<1>8. LabelForScore(score) \in Labels /\ LabelForScore(score) # NoLabel
  BY SMT, <1>6, LabelsOfScores
<1>9. Label(score, c) = IF p >= 3999500 THEN LabelForScore(score) ELSE NoLabel
  BY SMT, <1>2, <1>7 DEF Label
<1>10. NoLabel \in Labels
  BY DEF Labels
<1>11. /\ agg.score = score
       /\ agg.label = Label(score, c)
       /\ agg \in [score: 0..100, confidence: 0..100, label: Labels]
  BY SMT, <1>5, <1>6, <1>7, <1>8, <1>9, <1>10 DEF score
<1>12. w \in Nat /\ s \in Nat
  BY SMT, <1>2
<1> QED
  BY SMT, <1>6, <1>8, <1>9, <1>11, <1>12 DEF A, agg, w, s, p
----------------------------------------------------------------------------
(* The detectors *)

\* What a detector adds is an output of the right shape.
LEMMA AnswersAreTyped ==
    ASSUME NEW o, NEW f \in 0..10,
           o \in {Output(a.score, a.confidence, f) : a \in Answers} \cup {Unavailable}
    PROVE  o \in [score: 0..Unit, confidence: 0..Unit, factor: 0..10]
<1>1. Unit \in Nat
  BY UnitIs
<1>2. Unavailable \in [score: 0..Unit, confidence: 0..Unit, factor: 0..10]
  BY <1>1 DEF Unavailable, Output
<1>3. ASSUME NEW a \in Answers
      PROVE  Output(a.score, a.confidence, f) \in [score: 0..Unit, confidence: 0..Unit, factor: 0..10]
  <2>1. a \in [score: 0..Unit, confidence: 0..Unit]
    BY RunAssumption
  <2> QED
    BY <2>1 DEF Output
<1> QED
  BY <1>2, <1>3

\* So is that of the metadata.
LEMMA MetadataIsTyped ==
    ASSUME NEW declared \in BOOLEAN, NEW markers \in 0..3
    PROVE  MetadataOutput(declared, markers) \in [score: 0..Unit, confidence: 0..Unit, factor: 0..10]
<1> DEFINE o == MetadataOutput(declared, markers)
<1>1. o = [score |-> o.score, confidence |-> o.confidence, factor |-> 10]
  BY SMT DEF MetadataOutput, Output
<1>2. /\ o.score \in Nat /\ o.score <= 100000
      /\ o.confidence \in Nat /\ o.confidence <= 100000
  BY SMT, UnitIs DEF MetadataOutput, Output
<1>3. Unit \in Nat /\ o.score <= Unit /\ o.confidence <= Unit
  BY SMT, <1>2, UnitIs
<1> HIDE DEF o
<1>4. o.score \in 0..Unit /\ o.confidence \in 0..Unit
  <2>1. o.score \in Nat /\ o.confidence \in Nat
    BY SMT, <1>2
  <2> QED
    BY <1>3, <2>1
<1>5. o \in [score: 0..Unit, confidence: 0..Unit, factor: 0..10]
  BY <1>1, <1>4
<1> QED
  BY <1>5 DEF o

\* Until the result is there, outputs may join.
LEMMA DetectInv ==
    ASSUME RunInv, NEW k \in {"text", "visual"}, Detect(k)
    PROVE  RunInv'
<1>1. MediaInv'
  BY MediaRests DEF RunInv, Detect
<1>2. AnalysisInv'
  <2>1. PICK o \in {Output(a.score, a.confidence, MaterialFactor[k]) : a \in Answers} \cup {Unavailable} :
          outputs' = WithOutput(k, o)
    BY DEF Detect
  <2>2. MaterialFactor[k] \in 0..10
    BY DEF RunInv, ControlInv, CountersTyped, MaterialFactor
  <2>3. o \in [score: 0..Unit, confidence: 0..Unit, factor: 0..10]
    BY <2>1, <2>2, AnswersAreTyped
  <2>4. /\ DOMAIN outputs' = DOMAIN outputs \cup {k} /\ outputs'[k] = o
        /\ \A j \in DOMAIN outputs : outputs'[j] = outputs[j]
    <3>1. k \notin DOMAIN outputs
      BY DEF Detect
    <3>2. /\ DOMAIN WithOutput(k, o) = DOMAIN outputs \cup {k} /\ WithOutput(k, o)[k] = o
          /\ \A j \in DOMAIN outputs : WithOutput(k, o)[j] = outputs[j]
      BY <3>1 DEF WithOutput
    <3> QED
      BY <2>1, <3>2
  <2>5. OutputsTyped'
    BY <2>3, <2>4, KindsAre DEF RunInv, AnalysisInv, OutputsTyped, Detect
  <2>6. result' = NoResult
    BY DEF RunInv, ControlInv, EndsInOrder, WorkStages, Detect
  <2> QED
    BY <2>5, <2>6 DEF AnalysisInv, ResultIsAggregate
<1>3. ControlInv'
  <2> USE DEF Detect, materialVars, analysisVars, rowVars, mediaVars, RunInv, ControlInv,
          Stages, WorkStages, LoadStages, MediaStages, BCutStages, Codes, MediaCodes, Watching
  <2>1. CountersTyped'
    BY RetriesBound DEF CountersTyped
  <2>2. RunTyped'
    BY DEF RunTyped
  <2>3. RowTyped'
    BY DEF RowTyped
  <2>4. StagesAndCommands'
    BY DEF StagesAndCommands, EndsInOrder
  <2>5. EndsInOrder'
    BY DEF EndsInOrder
  <2>6. CodesAreTrue'
    BY DEF CodesAreTrue, EndsInOrder, StagesAndCommands
  <2> QED
    BY <2>1, <2>2, <2>3, <2>4, <2>5, <2>6 DEF ControlInv
<1> QED
  BY <1>1, <1>2, <1>3 DEF RunInv

\* The result is the aggregate of the three.
LEMMA AggregateOutputsInv ==
    ASSUME RunInv, AggregateOutputs
    PROVE  RunInv'
<1>1. MediaInv'
  BY MediaRests DEF RunInv, AggregateOutputs
<1>2. AnalysisInv'
  <2>1. PICK declared \in BOOLEAN, markers \in 0..3 :
          outputs' = WithOutput("metadata", MetadataOutput(declared, markers))
    BY DEF AggregateOutputs
  <2>2. DOMAIN outputs = {"text", "visual"} /\ result' = Aggregate(outputs')
    BY DEF AggregateOutputs
  <2>3. /\ DOMAIN outputs' = DOMAIN outputs \cup {"metadata"}
        /\ outputs'["metadata"] = MetadataOutput(declared, markers)
        /\ \A j \in DOMAIN outputs : outputs'[j] = outputs[j]
    <3> DEFINE o == MetadataOutput(declared, markers)
    <3>1. outputs' = WithOutput("metadata", o) /\ "metadata" \notin DOMAIN outputs
      BY <2>1, <2>2
    <3> HIDE DEF o
    <3>2. /\ DOMAIN WithOutput("metadata", o) = DOMAIN outputs \cup {"metadata"}
          /\ WithOutput("metadata", o)["metadata"] = o
          /\ \A j \in DOMAIN outputs : WithOutput("metadata", o)[j] = outputs[j]
      BY <3>1 DEF WithOutput
    <3> QED
      BY <3>1, <3>2 DEF o
  <2>4. DOMAIN outputs' = Kinds
    BY <2>2, <2>3, KindsAre
  <2>5. \A k \in Kinds : outputs'[k] \in [score: 0..Unit, confidence: 0..Unit, factor: 0..10]
    BY <2>2, <2>3, <2>4, MetadataIsTyped DEF RunInv, AnalysisInv, OutputsTyped
  <2>6. TypedOutputs(outputs')
    BY <2>4, <2>5 DEF TypedOutputs
  <2>7. result' \in [score: 0..100, confidence: 0..100, label: Labels]
    BY SMT, <2>2, <2>6, AggregateIs
  <2>8. OutputsTyped'
    BY <2>4, <2>5, <2>7 DEF OutputsTyped
  <2> QED
    BY <2>2, <2>4, <2>8 DEF AnalysisInv, ResultIsAggregate
<1>3. ControlInv'
  <2> USE DEF AggregateOutputs, Leave, materialVars, analysisVars, rowVars, mediaVars, RunInv,
          ControlInv, Stages, WorkStages, LoadStages, MediaStages, BCutStages, Codes, MediaCodes,
          Watching
  <2>1. CountersTyped'
    BY RetriesBound DEF CountersTyped
  <2>2. RunTyped'
    BY DEF RunTyped
  <2>3. RowTyped'
    BY DEF RowTyped
  <2>4. StagesAndCommands'
    BY DEF StagesAndCommands, EndsInOrder
  <2>5. EndsInOrder'
    BY DEF EndsInOrder
  <2>6. CodesAreTrue'
    BY DEF CodesAreTrue, EndsInOrder, StagesAndCommands
  <2> QED
    BY <2>1, <2>2, <2>3, <2>4, <2>5, <2>6 DEF ControlInv
<1> QED
  BY <1>1, <1>2, <1>3 DEF RunInv

----------------------------------------------------------------------------
(* The run *)

\* A stuttering step.
LEMMA RunRests ==
    ASSUME RunInv, UNCHANGED vars
    PROVE  RunInv'
<1>1. MediaInv'
  BY MediaRests DEF RunInv, vars
<1>2. AnalysisInv'
  BY AnalysisRests DEF RunInv, vars, runVars, analysisVars
<1>3. ControlInv'
  BY DEF vars, runVars, mediaVars, pipeVars, processVars, RunInv, ControlInv, CountersTyped, RunTyped,
         RowTyped, StagesAndCommands, EndsInOrder, CodesAreTrue
<1> QED
  BY <1>1, <1>2, <1>3 DEF RunInv

\* Every step keeps the invariant: one case for each action of the run.
LEMMA RunStep == RunInv /\ [Next]_vars => RunInv'
<1> SUFFICES ASSUME RunInv, [Next]_vars PROVE RunInv'
  OBVIOUS
<1>1. CASE Work
  <2>1. CASE Request
    BY <2>1, RequestInv
  <2>2. CASE LoadMetadata
    BY <2>2, LoadMetadataInv
  <2>3. CASE SaveDeclaration
    BY <2>3, SaveDeclarationInv
  <2>4. CASE Material
    BY <2>4, SubtitlesInv, BrokenSubtitlesInv, AudioInv, SampleInv, VideoInv, FramesInv,
       CommandRaisedInv DEF Material
  <2>5. CASE BCut
    BY <2>5, UploadInv, BCutRaisesInv DEF BCut, PollTimesOut
  <2>6. CASE StartAnalyzing
    BY <2>6, StartAnalyzingInv
  <2>7. CASE Detection
    BY <2>7, DetectInv, AggregateOutputsInv DEF Detection
  <2>8. CASE Ending
    BY <2>8, CleanedUpInv, CompleteAttemptInv, FailAttemptInv DEF Ending
  <2> QED
    BY <1>1, <2>1, <2>2, <2>3, <2>4, <2>5, <2>6, <2>7, <2>8 DEF Work
<1>2. CASE CommandRuns
  BY <1>2, CommandRunsInv
<1>3. CASE PollAnswered
  BY <1>3, TranscribedInv, BCutRaisesInv DEF PollAnswered
<1>4. CASE PollDeadline
  BY <1>4, PollDeadlineInv
<1>5. CASE RemoverEnds
  BY <1>5, RemoverEndsInv
<1>6. CASE JobTimeout
  BY <1>6, JobTimeoutInv
<1>7. CASE OwnershipLost
  BY <1>7, OwnershipLostInv
<1>8. CASE UNCHANGED vars
  BY <1>8, RunRests
<1> QED
  BY <1>1, <1>2, <1>3, <1>4, <1>5, <1>6, <1>7, <1>8 DEF Next

\* The invariant of the run holds.
LEMMA RunInvHolds == Spec => []RunInv
BY RunInitInv, RunStep, PTL DEF Spec

----------------------------------------------------------------------------
(* Theorems *)

\* Type correctness of a run, whatever the retries allowed and the answers of
\* the detectors.
THEOREM RunTypes == Spec => []TypeOK
<1>1. RunInv => TypeOK
  BY DEF RunInv, MediaInv, ControlInv, CountersTyped, RunTyped, RowTyped, AnalysisInv,
         OutputsTyped, TypeOK
<1> QED
  BY <1>1, RunInvHolds, PTL

\* _wait_for_process looks at the end of the command and at the size of the
\* workspace one after the other, and _run still accepts none that is oversized.
THEOREM CommandsWithinLimit == Spec => []AcceptedWithinLimit
<1>1. RunInv => AcceptedWithinLimit
  BY DEF RunInv, MediaInv, VerdictsHold, ControlInv, StagesAndCommands, AcceptedWithinLimit
<1> QED
  BY <1>1, RunInvHolds, PTL

\* _stop_process has seen the leader die before _run raises, but for a job timeout
\* that cancels the stopping itself.
THEOREM CommandsEnd == Spec => []CommandsAreOver
<1>1. RunInv => CommandsAreOver
  BY DEF RunInv, MediaInv, MediaTypeOK, RunnerKnowsProcesses, LoopFollowsRunner, Living, Finished,
         Watching, PipeSteps, CommandsAreOver
<1> QED
  BY <1>1, RunInvHolds, PTL

\* complete_attempt follows the end of task_workspace, which follows the last command.
THEOREM CompletedLast == Spec => []PublishedAfterCleanup
<1>1. RunInv => PublishedAfterCleanup
  BY DEF RunInv, MediaInv, RunnerKnowsProcesses, LoopFollowsRunner, ControlInv, StagesAndCommands,
         EndsInOrder, PublishedAfterCleanup
<1> QED
  BY <1>1, RunInvHolds, PTL

\* wait_for's cancellation reaches every stage of run_analysis, and none goes on.
THEOREM TimeoutIsFinal == Spec => []TimeoutStopsWork
<1>1. RunInv => TimeoutStopsWork
  BY DEF RunInv, ControlInv, CodesAreTrue, TimeoutStopsWork
<1> QED
  BY <1>1, RunInvHolds, PTL

\* aggregate_detector_outputs publishes the rounded weighted mean of the detectors
\* that were heard, and a label exactly when their confidence reaches 0.4.
THEOREM ResultIsRounded == Spec => []ResultFollowsEvidence
<1>1. RunInv => ResultFollowsEvidence
  <2> SUFFICES ASSUME RunInv, result # NoResult
               PROVE  ResultFollowsEvidence
    BY DEF ResultFollowsEvidence
  <2> DEFINE A == Available(outputs)
             w == SumFunctionOnSet(Weight, A)
             s == SumFunctionOnSet(WeightedScores(outputs), A)
             p == SumFunctionOnSet(WeightedConfidences(outputs), A)
             off == result.score * 1000 * w - s
  <2>1. result = Aggregate(outputs) /\ TypedOutputs(outputs)
    BY DEF RunInv, AnalysisInv, ResultIsAggregate, OutputsTyped, TypedOutputs
  <2>2. Heard = A
    <3>1. Unavailable.factor = 0
      BY DEF Unavailable, Output
    <3> QED
      BY <3>1 DEF Available, Heard
  <2>3. /\ result.score \in Int /\ w \in Nat /\ s \in Nat
        /\ -(505 * w) <= off /\ off <= 505 * w
        /\ result.label # NoLabel <=> p >= 3999500
        /\ result.label # NoLabel => result.label = LabelForScore(result.score)
    BY SMT, <2>1, AggregateIs
  <2>4. /\ SumHeard(Weight) = w /\ SumHeard(WeightedScores(outputs)) = s
        /\ SumHeard(WeightedConfidences(outputs)) = p
    BY <2>2 DEF SumHeard
  <2> HIDE DEF A, w, s, p
  <2>5. off \in (-505 * w)..(505 * w)
    BY SMT, <2>3
  <2> QED
    BY SMT, <2>3, <2>4, <2>5 DEF ResultFollowsEvidence, WeightedScores, WeightedConfidences
<1> QED
  BY <1>1, RunInvHolds, PTL

\* The code that fail_attempt writes is what happened to the attempt; the type of
\* exception that a database timeout shares with wait_for's is no command's and no
\* detector's.
THEOREM FailuresTell == Spec => []FailureTellsWhy
<1>1. RunInv => FailureTellsWhy
  BY DEF RunInv, ControlInv, CodesAreTrue, EndsInOrder, StagesAndCommands, MediaStages,
         FailureTellsWhy
<1> QED
  BY <1>1, RunInvHolds, PTL
=============================================================================
