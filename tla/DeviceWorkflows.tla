---------------------------- MODULE DeviceWorkflows -----------------------------
(***************************************************************************)
(* The five lifecycle owners side by side.  They promise the application   *)
(* the same things and differ in how: which of them looks at the           *)
(* cancellation a second time, which decides under the lock, which owns    *)
(* files.  One of them runs.                                               *)
(***************************************************************************)
EXTENDS WorkflowOwner

CONSTANT Kinds  \* the owners that are looked at

VARIABLE kind   \* the owner that runs

vars == <<ownerVars, kind>>

Source == INSTANCE SourceWorkflows
Erasure == INSTANCE ErasureWorkflows

Init ==
  /\ kind \in Kinds
  /\ CASE kind = "raw"       -> Source!RawInit
       [] kind = "syslinux"  -> Source!SyslinuxInit
       [] kind = "grub"      -> Source!GrubInit
       [] kind = "restore"   -> Erasure!RestoreInit
       [] kind = "fast-zero" -> Erasure!FastZeroInit

RawSteps == kind = "raw" /\ Source!RawNext /\ UNCHANGED kind
SyslinuxSteps == kind = "syslinux" /\ Source!SyslinuxNext /\ UNCHANGED kind
GrubSteps == kind = "grub" /\ Source!GrubNext /\ UNCHANGED kind
RestoreSteps == kind = "restore" /\ Erasure!RestoreNext /\ UNCHANGED kind
FastZeroSteps == kind = "fast-zero" /\ Erasure!FastZeroNext /\ UNCHANGED kind

Next == RawSteps \/ SyslinuxSteps \/ GrubSteps \/ RestoreSteps \/ FastZeroSteps

Spec == Init /\ [][Next]_vars

\* Every thread that is inside a call goes on; nobody has to call anything.
Inside(t) ==
  Next /\ pc[t] # pc'[t] /\ ~(t # worker /\ pc[t] = "idle")

FairSpec == Spec /\ \A t \in Threads : WF_vars(Inside(t))

-----------------------------------------------------------------------------
(* Properties. *)

Quiet == \A t \in Threads : pc[t] \in {"idle", "done"}

\* Whatever order the three threads ran in, a workflow that has ended holds no
\* prepared image and leaves no workspace behind.
NothingLeaks ==
  Quiet /\ state \in Ended => owned = {} /\ workspace # "present" /\ prepared # "ready"

\* A write that was committed is never reported as a cancellation, unless the
\* cancel() had found the workflow before its execution.
CommitIsNotHidden ==
  Quiet /\ device # "intact" /\ (pc[canceller] = "idle" \/ saw[canceller].state \notin Immediate)
    => state # "cancelled"

\* Once cancel() has returned, a later execute() starts no runner, in every state
\* in which cancel() may have found the workflow.  If it found the workflow preparing,
\* or found its runner, no COMMIT is sent, however far the worker has come.
CancelIsHeard ==
  [][pc[canceller] = "done" =>
       /\ pc[worker] \in {"may-execute", "register"} => state' # "executing"
       /\ saw[canceller].state = "preparing" \/ saw[canceller].runner = "active"
            => ~(device = "intact" /\ device' = "committed")]_vars

\* A workflow that was cancelled ends, and one that was closed is closed for good,
\* whichever of the threads finishes last.  The restore workflow has one exception:
\* close() between the failure of prepare() and its return leaves the state alone.
CallsEnd ==
  /\ (pc[canceller] = "done") ~> (state \in Ended)
  /\ closeRequested ~> [](state = "closed" \/ (kind = "restore" /\ state \in {"failed", "cancelled"}))

\* What cancellation promises, without any close(): once cancel() has returned,
\* no COMMIT is sent for a device that had not been committed.
CancelIsEffective ==
  [][pc[canceller] = "done" /\ ~closeRequested
       => ~(device = "intact" /\ device' = "committed")]_vars
=============================================================================
