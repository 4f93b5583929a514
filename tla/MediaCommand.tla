---------------------------- MODULE MediaCommand ----------------------------
(***************************************************************************)
(* MediaAcquirer._run: a command in a session of its own, its runner task, *)
(* and the loop that watches its time and the size of the workspace.       *)
(*                                                                         *)
(* The command is a leader (yt-dlp, ffmpeg) and a helper that it may start *)
(* and that inherits its standard error.  Either may ignore SIGTERM.       *)
(***************************************************************************)

VARIABLES
    pipe,         \* where _run is
    seen,         \* task in done, at the last asyncio.wait
    measured,     \* the size _workspace_size returned is above the limit
    raised,       \* the code of the exception _run is raising
    runner,       \* run_command, a task of its own
    stopper,      \* _stop_process_group, shielded
    leader, helper,
    over,         \* the files in the workspace exceed the limit
    late,         \* the deadline of the command has passed
    interrupted   \* history: _run was cancelled while it was stopping a command

mediaVars == <<pipe, seen, measured, raised, runner, stopper, leader, helper,
               over, late, interrupted>>
pipeVars == <<pipe, seen, measured, raised, interrupted>>
processVars == <<leader, helper, over>>

\* waiting   in asyncio.wait          sizing    in _workspace_size
\* deciding  has the size             stopping  in gather, after an exception
Watching == {"waiting", "sizing", "deciding"}
PipeSteps == Watching \cup {"idle", "stopping", "returned", "failed"}

\* talking   in process.communicate   shielded  waits for the stopper
\* exited    raises: nonzero status   unstarted raises: no such program
Finished == {"returned", "exited", "unstarted", "cancelled"}
RunnerSteps == Finished \cup {"none", "starting", "talking", "shielded"}

MediaCodes == {"none", "media_command_timeout", "workspace_limit_exceeded",
               "temporary_upstream_failure", "analysis_failed", "detector_timeout"}
Life == {"none", "alive", "dead"}

MediaTypeOK ==
    /\ pipe \in PipeSteps
    /\ raised \in MediaCodes
    /\ runner \in RunnerSteps
    /\ stopper \in {"none", "term", "done"}
    /\ leader \in Life /\ helper \in Life
    /\ {seen, measured, over, late, interrupted} \subseteq BOOLEAN

MediaInit ==
    /\ pipe = "idle" /\ raised = "none" /\ runner = "none" /\ stopper = "none"
    /\ leader = "none" /\ helper = "none"
    /\ seen = FALSE /\ measured = FALSE /\ over = FALSE /\ late = FALSE
    /\ interrupted = FALSE

Living == leader = "alive" \/ helper = "alive"

\* _run is called: the runner is scheduled and the deadline set.
Begin ==
    /\ pipe' = "waiting" /\ runner' = "starting" /\ stopper' = "none"
    /\ leader' = "none" /\ helper' = "none"
    /\ seen' = FALSE /\ late' = FALSE
    /\ UNCHANGED <<measured, raised, over, interrupted>>

----------------------------------------------------------------------------
(* The processes *)

LeaderExits == leader = "alive" /\ leader' = "dead" /\ UNCHANGED <<helper, over>>
HelperStarts == leader = "alive" /\ helper = "none" /\ helper' = "alive" /\ UNCHANGED <<leader, over>>
HelperExits == helper = "alive" /\ helper' = "dead" /\ UNCHANGED <<leader, over>>
Grow == Living /\ ~over /\ over' = TRUE /\ UNCHANGED <<leader, helper>>

ProcessStep ==
    /\ LeaderExits \/ HelperStarts \/ HelperExits \/ Grow
    /\ UNCHANGED <<pipeVars, runner, stopper, late>>

----------------------------------------------------------------------------
(* The runner and the stopper *)

Spawn ==
    /\ runner = "starting"
    /\ \/ runner' = "talking" /\ leader' = "alive"
       \/ runner' = "unstarted" /\ leader' = leader
    /\ UNCHANGED <<pipeVars, stopper, helper, over, late>>

\* communicate() returns when the standard error is closed by all that
\* inherited it, and the leader has been waited for.
Communicated ==
    /\ runner = "talking"
    /\ leader = "dead" /\ helper # "alive"
    /\ runner' \in {"returned", "exited"}
    /\ UNCHANGED <<pipeVars, stopper, processVars, late>>

ShieldEnds ==
    /\ runner = "shielded" /\ stopper = "done"
    /\ runner' = "cancelled"
    /\ UNCHANGED <<pipeVars, stopper, processVars, late>>

\* process.wait() returns within the five seconds: a helper may live on.
LeaderStopped ==
    /\ stopper = "term" /\ leader = "dead"
    /\ stopper' = "done"
    /\ UNCHANGED <<pipeVars, runner, processVars, late>>

\* Mutant: it stays with SIGTERM.
EscalateNever ==
    /\ stopper = "term" /\ leader = "dead"
    /\ UNCHANGED mediaVars

\* It does not: SIGKILL to the group, which nothing survives.
Escalate ==
    /\ stopper = "term" /\ leader = "alive"
    /\ leader' = "dead"
    /\ helper' = IF helper = "alive" THEN "dead" ELSE helper
    /\ stopper' = "done"
    /\ UNCHANGED <<pipeVars, runner, over, late>>

RunnerStep == Spawn \/ Communicated \/ ShieldEnds
StopperStep == LeaderStopped \/ Escalate

\* task.cancel(), which communicate() passes on to _stop_process_group: that
\* returns at once when the leader has ended, whatever the group does, and
\* otherwise sends SIGTERM.  A second cancellation ends the shield, not the
\* stopper behind it.
CancelRunner ==
    CASE runner = "talking" ->
           /\ runner' = "shielded"
           /\ stopper' = IF leader = "alive" THEN "term" ELSE "done"
      [] runner \in {"starting", "shielded"} ->
           runner' = "cancelled" /\ UNCHANGED stopper
      [] OTHER -> UNCHANGED <<runner, stopper>>

----------------------------------------------------------------------------
(* The loop of _run *)

Raise(code) ==
    /\ raised' = code
    /\ pipe' = "stopping"
    /\ CancelRunner
    /\ UNCHANGED processVars

\* asyncio.wait ends with the task or after a quarter of a second.
Wake ==
    /\ pipe = "waiting"
    /\ pipe' = "sizing"
    /\ seen' = (runner \in Finished)
    /\ UNCHANGED <<measured, raised, interrupted, runner, stopper, processVars, late>>

\* The walk over the files ends; a file that disappears under it is an OSError.
Measure ==
    /\ pipe = "sizing"
    /\ \/ /\ pipe' = "deciding" /\ measured' = over
          /\ UNCHANGED <<raised, runner, stopper, processVars>>
       \/ /\ Living
          /\ Raise("analysis_failed")
          /\ UNCHANGED measured
    /\ UNCHANGED <<seen, interrupted, late>>

\* Mutant: the task is asked again after the walk.
DoneAgain == runner \in Finished

\* task in done: what asyncio.wait returned before the walk.
Done == seen

Outgrown == measured /\ Raise("workspace_limit_exceeded")

Accept ==
    /\ ~measured /\ Done /\ runner = "returned"
    /\ pipe' = "returned"
    /\ UNCHANGED <<raised, runner, stopper, processVars>>

CommandFailed ==
    /\ ~measured /\ Done
    /\ \/ runner = "exited" /\ Raise("temporary_upstream_failure")
       \/ runner = "unstarted" /\ Raise("analysis_failed")

TimedOut == ~measured /\ ~Done /\ late /\ Raise("media_command_timeout")

WaitAgain ==
    /\ ~measured /\ ~Done /\ ~late
    /\ pipe' = "waiting"
    /\ UNCHANGED <<raised, runner, stopper, processVars>>

Decide ==
    /\ pipe = "deciding"
    /\ Outgrown \/ Accept \/ CommandFailed \/ TimedOut \/ WaitAgain
    /\ UNCHANGED <<seen, measured, interrupted, late>>

\* Mutant: gather is not awaited.
GatheredSoon ==
    /\ pipe = "stopping"
    /\ pipe' = "failed"
    /\ UNCHANGED <<seen, measured, raised, interrupted, runner, stopper, processVars, late>>

\* gather returns when the runner has ended; _run raises.
Gathered ==
    /\ pipe = "stopping" /\ runner \in Finished
    /\ pipe' = "failed"
    /\ UNCHANGED <<seen, measured, raised, interrupted, runner, stopper, processVars, late>>

DeadlinePasses ==
    /\ pipe \in Watching /\ ~late
    /\ late' = TRUE
    /\ UNCHANGED <<pipeVars, runner, stopper, processVars>>

\* Mutant: gather takes the cancellation for one of its task.
InterruptLost ==
    /\ pipe \in {"waiting", "sizing", "stopping"}
    /\ Raise(IF pipe = "stopping" THEN raised ELSE "detector_timeout")
    /\ interrupted' = (interrupted \/ (pipe = "stopping" /\ runner \notin Finished))
    /\ UNCHANGED <<seen, measured, late>>

\* The task that awaits _run is cancelled: gather hands a cancellation on.
Interrupt ==
    /\ pipe \in {"waiting", "sizing", "stopping"}
    /\ Raise("detector_timeout")
    /\ interrupted' = (interrupted \/ (pipe = "stopping" /\ runner \notin Finished))
    /\ UNCHANGED <<seen, measured, late>>

LoopStep == Wake \/ Measure \/ Decide \/ Gathered
CommandStep == LoopStep \/ RunnerStep \/ StopperStep \/ ProcessStep \/ DeadlinePasses
=============================================================================
