------------------------------- MODULE DeviceSide -------------------------------
(***************************************************************************)
(* What is done about one drive, side by side: how a write is authorized   *)
(* and its helper finds the drive, one transfer of bytes, the workflow     *)
(* that owns a write, and the executor that changes a drive through        *)
(* commands of the system.  One of them runs, and the variables of the     *)
(* others rest: each knows the next one by what it returns alone, and has  *)
(* that in its own module.                                                 *)
(***************************************************************************)
EXTENDS Authorizations, PositionalRetry

VARIABLES
  part,  \* who runs: "authorization", "transfer", "workflow" or "executor"
  \* the workflow, and the control points of its threads: see WorkflowOwner
  workflow, at,
  state, cancelEvent, closeRequested, owned, prepared, workspace, runner, runnerCancelled,
  device, deferred, after, taken, saw, failure,
  \* the executor, and the control point of its worker: see Executor
  executor, stands, raised, staged,
  signal, target, disk, harm, mounts, child, stray, told

Workflows == INSTANCE DeviceWorkflows
  WITH kind <- workflow, pc <- at, Kinds <- {"raw", "syslinux", "grub", "restore", "fast-zero"}
Executors == INSTANCE DeviceExecutors
  WITH kind <- executor, pc <- stands, cancelled <- raised, input <- staged

workflowVars ==
  <<workflow, at, state, cancelEvent, closeRequested, owned, prepared, workspace, runner,
    runnerCancelled, device, deferred, after, taken, saw, failure>>
executorVars ==
  <<executor, stands, raised, staged, signal, target, disk, harm, mounts, child, stray, told>>
sideVars == <<part, vars, retryVars, workflowVars, executorVars>>

SideInit ==
  /\ part \in {"authorization", "transfer", "workflow", "executor"}
  /\ Init /\ RetryInit /\ Workflows!Init /\ Executors!Init
  /\ part # "authorization" =>
       kind = "fast-zero" /\ ~mounted /\ \A g \in Generations : drive[g].look = "ours"
  /\ part # "transfer" => writer = "helper"
  /\ part # "workflow" => workflow = "raw"
  /\ part # "executor" => executor = "erase" /\ mounts = {}

AuthorizationSteps ==
  part = "authorization" /\ Next /\ UNCHANGED <<part, retryVars, workflowVars, executorVars>>
TransferSteps ==
  part = "transfer" /\ RetryNext /\ UNCHANGED <<part, vars, workflowVars, executorVars>>
WorkflowSteps ==
  part = "workflow" /\ Workflows!Next /\ UNCHANGED <<part, vars, retryVars, executorVars>>
ExecutorSteps ==
  part = "executor" /\ Executors!Next /\ UNCHANGED <<part, vars, retryVars, workflowVars>>

SideNext == AuthorizationSteps \/ TransferSteps \/ WorkflowSteps \/ ExecutorSteps

\* That of each part; nobody has to authorize anything.
SideFairness ==
  /\ WF_retryVars(part = "transfer" /\ Writing)
  /\ \A t \in Workflows!Threads : WF_workflowVars(part = "workflow" /\ Workflows!Inside(t))
  /\ WF_executorVars(part = "executor" /\ Executors!Worker)
  /\ WF_executorVars(part = "executor" /\ Executors!CancelSignals)
  /\ WF_executorVars(part = "executor" /\ Executors!ForcedChild)

SideSpec == SideInit /\ [][SideNext]_sideVars /\ SideFairness

-----------------------------------------------------------------------------
(* The properties of the parts that are instances, and the one that only   *)
(* the part that runs can have.                                            *)

\* However often the kernel interrupts or stalls, a transfer comes to an end (PositionalIo).
TransferEnds == part = "transfer" => Terminates

\* A workflow that has ended holds no prepared image and leaves no workspace behind
\* (DeviceWorkflows).
WorkflowLeaksNothing == Workflows!NothingLeaks

\* A write that was committed is never reported as a cancellation (DeviceWorkflows).
CommitIsNotHidden == Workflows!CommitIsNotHidden

\* Once the cancel() of a workflow has returned, a later execute() starts no runner, and a
\* runner that it found sends no COMMIT (DeviceWorkflows).
WorkflowCancelIsHeard == Workflows!CancelIsHeard

\* A workflow that was cancelled or closed comes to its end (DeviceWorkflows).
WorkflowCallsEnd == Workflows!CallsEnd

\* What an executor reports is true of the drive (DeviceExecutors).
ExecutorReportIsTrue == Executors!ReportIsTrue

\* A drive that took the place of ours is spared by all commands but one (DeviceExecutors).
OnlyTheTarget == Executors!OnlyTheTarget

\* No command outlives the report of an executor in silence (DeviceExecutors).
ExecutorLeaksNothing == Executors!NothingLeaks

\* A cancelled executor ends, although a command hangs (DeviceExecutors).
ExecutorCancelEnds == Executors!CancelEnds
=============================================================================
