----------------------------- MODULE WorkflowOwner ------------------------------
(***************************************************************************)
(* What the five lifecycle owners of a privileged device write have in     *)
(* common (raw_workflow.py, syslinux_workflow.py, grub_rescue_workflow.py, *)
(* restore_workflow.py, fast_zero.py): the worker calls prepare(),         *)
(* confirm() and execute() in that order, another thread calls cancel(),   *)
(* and the owner may call close(), all on one object with one lock.  Every *)
(* `with self._lock` block is one action, and so is every stretch of code  *)
(* between two of them that touches shared state.                          *)
(*                                                                         *)
(* The runner is reduced to what a workflow depends on: it starts, it      *)
(* decides COMMIT or CANCEL under its own lock, and it returns a result.   *)
(***************************************************************************)
EXTENDS TLC

\* The threads, by what they call.
worker == "worker"
canceller == "canceller"
closer == "closer"
Threads == {worker, canceller, closer}

VARIABLES
  state,           \* _state
  cancelEvent,     \* _cancelled
  closeRequested,  \* _close_requested
  owned,           \* which of "prepared" and "workspace" the workflow refers to
  prepared,        \* the prepared image: none, ready, transferred, closed
  workspace,       \* the temporary directory: none, present, removed
  runner,          \* _runner: none, active
  runnerCancelled, \* _cancelled of the runner
  device,          \* intact, committed (COMMIT was sent), written (a verified result)
  deferred,        \* cancellation_deferred of the runner's result
  pc,              \* control point of every thread
  after,           \* where a thread goes when the clean-up returns
  taken,           \* what the clean-up of a thread has taken over to close
  saw,             \* cancel(): the state it read, and whether it found a runner
  failure          \* the exception the worker is about to translate

flags == <<cancelEvent, closeRequested>>
resources == <<owned, prepared, workspace>>
execution == <<runner, runnerCancelled, device, deferred>>
local == <<after, taken, saw>>
ownerVars == <<state, flags, resources, execution, pc, local, failure>>

States == {"created", "preparing", "prepared", "confirmed", "executing",
           "completed", "partial", "cancelled", "failed", "closed"}
Ended == {"completed", "partial", "cancelled", "failed", "closed"}

\* The states in which cancel() acts by itself, without the worker.
Immediate == {"created", "prepared", "confirmed"}

\* Nobody has called anything; a workflow with a workspace is handed it.
OwnerInit(workspaces) ==
  /\ state = "created" /\ cancelEvent = FALSE /\ closeRequested = FALSE
  /\ owned = workspaces /\ prepared = "none"
  /\ workspace = IF workspaces = {} THEN "none" ELSE "present"
  /\ runner = "none" /\ runnerCancelled = FALSE /\ device = "intact" /\ deferred = FALSE
  /\ pc = [t \in Threads |-> "idle"]
  /\ after = [t \in Threads |-> "done"]
  /\ taken = [t \in Threads |-> {}]
  /\ saw = [t \in Threads |-> [state |-> "created", runner |-> "none"]]
  /\ failure = "none"

Goto(t, from, to) == pc[t] = from /\ pc' = [pc EXCEPT ![t] = to]

\* A step that changes nothing but the control point, or the state as well.
Move(t, from, to) ==
  Goto(t, from, to) /\ UNCHANGED <<state, flags, resources, execution, local, failure>>
Become(t, from, to, s) ==
  /\ Goto(t, from, to) /\ state' = s
  /\ UNCHANGED <<flags, resources, execution, local, failure>>

\* The state of a workflow that ends, or CLOSED if somebody asked for that.
Final(s) == IF closeRequested THEN "closed" ELSE s

CleanupThen(t, next) == after' = [after EXCEPT ![t] = next]

\* A clean-up drops the references under the lock; r is what it leaves of _runner.
Take(t, r) ==
  /\ Goto(t, "take", "release")
  /\ taken' = [taken EXCEPT ![t] = owned]
  /\ owned' = {}
  /\ runner' = r
  /\ UNCHANGED <<state, flags, prepared, workspace, runnerCancelled, device, deferred, after,
                 saw, failure>>

\* After the lock it closes what the references referred to.
Release(t) ==
  /\ Goto(t, "release", after[t])
  /\ prepared' = IF "prepared" \in taken[t] THEN "closed" ELSE prepared
  /\ workspace' = IF "workspace" \in taken[t] THEN "removed" ELSE workspace
  /\ taken' = [taken EXCEPT ![t] = {}]
  /\ UNCHANGED <<state, flags, owned, execution, after, saw, failure>>

\* An exception of the given kind, translated and followed by a clean-up.
FailsWith(from, kind) ==
  /\ Goto(worker, from, "take")
  /\ CleanupThen(worker, "fail-final")
  /\ failure' = kind
  /\ UNCHANGED <<state, flags, resources, execution, taken, saw>>

\* A new runner is registered together with the state EXECUTING.
StartRunner(from, to) ==
  /\ Goto(worker, from, to)
  /\ state' = "executing"
  /\ runner' = "active"
  /\ UNCHANGED <<flags, resources, runnerCancelled, device, deferred, local, failure>>

\* The runner sends COMMIT, if nobody has cancelled it.
SendCommit(from, to) ==
  /\ ~runnerCancelled
  /\ Goto(worker, from, to)
  /\ device' = "committed"
  /\ UNCHANGED <<state, flags, resources, runner, runnerCancelled, deferred, local, failure>>

\* The runner returns a verified result.
RunnerReturns(from, to) ==
  /\ Goto(worker, from, to)
  /\ device' = "written"
  /\ deferred' = runnerCancelled
  /\ UNCHANGED <<state, flags, resources, runner, runnerCancelled, local, failure>>

\* cancel(): the event is set before the lock is taken.
SetEvent(t) ==
  /\ Goto(t, "cancel", "cancel-read")
  /\ cancelEvent' = TRUE
  /\ UNCHANGED <<state, closeRequested, resources, execution, local, failure>>

\* Under the lock cancel() reads the state and the runner ...
ReadForCancel(t) ==
  /\ Goto(t, "cancel-read", "cancel-signal")
  /\ saw' = [saw EXCEPT ![t] = [state |-> state, runner |-> runner]]
  /\ UNCHANGED <<state, flags, resources, execution, after, taken, failure>>

\* ... and after it, it cancels the runner it has found.
SignalRunner(t, next) ==
  /\ Goto(t, "cancel-signal", next)
  /\ runnerCancelled' = (runnerCancelled \/ saw[t].runner = "active")
  /\ CleanupThen(t, "cancel-final")
  /\ UNCHANGED <<state, flags, resources, runner, device, deferred, taken, saw, failure>>

\* close() sets its flag and looks, in one block, whether a call is running.
RequestClose(active, inactive) ==
  /\ closeRequested' = TRUE
  /\ Goto(closer, "idle", IF state = "closed" THEN "done"
                          ELSE IF active THEN "cancel" ELSE inactive)
  /\ CleanupThen(closer, "close-final")
  /\ UNCHANGED <<state, cancelEvent, resources, execution, taken, saw, failure>>
=============================================================================
