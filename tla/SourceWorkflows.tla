---------------------------- MODULE SourceWorkflows -----------------------------
(***************************************************************************)
(* The three owners that have a source.                                    *)
(*                                                                         *)
(* RawWriteWorkflow of isopropyl/raw_workflow.py: one source, its          *)
(* anonymous snapshot, a private workspace and one privileged write.       *)
(*                                                                         *)
(* SyslinuxWriteWorkflow of isopropyl/syslinux_workflow.py: an ISO is      *)
(* staged in a workspace that the workflow is handed, bound to a plan, and *)
(* written.  The runner builds the private image from the staged tree, so  *)
(* that the workspace must be there until the helper has the image.        *)
(*                                                                         *)
(* GrubRescueWriteWorkflow of isopropyl/grub_rescue_workflow.py: a bundle  *)
(* is downloaded, an image built in the workspace that the workflow is     *)
(* handed, and written.  Its clean-up keeps the runner, and it compares    *)
(* the runner's word about a late cancellation with its own.               *)
(***************************************************************************)
EXTENDS WorkflowOwner

-----------------------------------------------------------------------------
(* RawWriteWorkflow. *)

RawInit == OwnerInit({})

\* _cleanup_owned forgets the runner as well.
RawTakeOwned(t) == Take(t, "none")
RawReleaseTaken(t) == Release(t)

\* An exception leaves prepare, confirm or execute through _fail.
RawFails(from, kind) == FailsWith(from, kind)

\* What _check_cancelled, or the operation itself, raises at this point.
RawWorkFails(from) ==
  \/ cancelEvent /\ RawFails(from, "cancelled")
  \/ RawFails(from, "failed")

(* The worker. *)

RawPrepareBegins ==
  IF state = "created"
    THEN Become(worker, "idle", "workspace", "preparing")
    ELSE Move(worker, "idle", "done")

\* Preflight, topology and the private workspace, after a last check.
RawCreateWorkspace ==
  /\ ~cancelEvent
  /\ Goto(worker, "workspace", "image")
  /\ workspace' = "present"
  /\ owned' = owned \union {"workspace"}
  /\ UNCHANGED <<state, flags, prepared, execution, local, failure>>

\* The builder polls _check_cancelled up to its last block.
RawBuildSnapshot ==
  /\ ~cancelEvent
  /\ Goto(worker, "image", "publish")
  /\ prepared' = "ready"
  /\ owned' = owned \union {"prepared"}
  /\ UNCHANGED <<state, flags, workspace, execution, local, failure>>

RawPreparationFails == \E from \in {"workspace", "image", "publish"} : RawWorkFails(from)

\* The plan is published only if nobody has cancelled or closed meanwhile.
RawPublishPlan ==
  IF closeRequested \/ cancelEvent \/ state # "preparing"
    THEN RawFails("publish", "cancelled")
    ELSE Become(worker, "publish", "may-confirm", "prepared")

RawConfirmBegins == Move(worker, "may-confirm", IF state = "prepared" THEN "confirm" ELSE "done")

RawConfirmFails == RawWorkFails("confirm")

RawConfirmEnds ==
  IF state # "prepared"
    THEN RawFails("confirm", "cancelled")
    ELSE Become(worker, "confirm", "may-execute", "confirmed")

\* A new runner is registered and started: no look at the cancellation.
RawExecuteBegins ==
  IF state = "confirmed" /\ "prepared" \in owned
    THEN StartRunner("may-execute", "transfer")
    ELSE Move(worker, "may-execute", "done")

\* RawDeviceWriteRunner.run up to transfer_to_helper.
RawTransferSnapshot ==
  /\ prepared = "ready" /\ ~runnerCancelled
  /\ Goto(worker, "transfer", "decide")
  /\ prepared' = "transferred"
  /\ UNCHANGED <<state, flags, owned, workspace, execution, local, failure>>

\* The runner was cancelled, found the snapshot closed, or its preflight failed.
RawRunFails ==
  \E from \in {"transfer", "decide"} :
    \/ runnerCancelled /\ RawFails(from, "cancelled")
    \/ RawFails(from, "failed")

\* _decide_prepared.
\* Mutation: COMMIT without a look at the cancellation.
RawDecideUnchecked ==
  /\ Goto(worker, "decide", "helper")
  /\ device' = "committed"
  /\ UNCHANGED <<state, flags, resources, runner, runnerCancelled, deferred, local, failure>>

RawDecide == SendCommit("decide", "helper")

RawHelperFails == RawFails("helper", "failed")

\* run() returns a verified result; execute keeps it and cleans up.
RawHelperSucceeds == RunnerReturns("helper", "store")
RawStoreResult ==
  /\ Goto(worker, "store", "take")
  /\ CleanupThen(worker, "complete-final")
  /\ UNCHANGED <<state, flags, resources, execution, taken, saw, failure>>

RawCompleteFinal == Become(worker, "complete-final", "done", Final("completed"))
RawFailFinal == Become(worker, "fail-final", "done", Final(failure))

(* cancel() and close(). *)

RawCancelBegins == Move(canceller, "idle", "cancel")
RawCancelSetsEvent(t) == SetEvent(t)
RawCancelReads(t) == ReadForCancel(t)
RawCancelSignals(t) == SignalRunner(t, IF saw[t].state \in Immediate THEN "take" ELSE "done")

RawCancelFinal(t) == Become(t, "cancel-final", "done", Final("cancelled"))

RawCloseBegins == RequestClose(state \in {"preparing", "executing"}, "take")
RawCloseFinal == Become(closer, "close-final", "done", "closed")

RawWorker ==
  \/ RawPrepareBegins \/ RawCreateWorkspace \/ RawBuildSnapshot \/ RawPreparationFails
  \/ RawPublishPlan \/ RawConfirmBegins \/ RawConfirmFails \/ RawConfirmEnds
  \/ RawExecuteBegins \/ RawTransferSnapshot \/ RawRunFails \/ RawDecide \/ RawHelperFails
  \/ RawHelperSucceeds \/ RawStoreResult \/ RawCompleteFinal \/ RawFailFinal
  \/ RawTakeOwned(worker) \/ RawReleaseTaken(worker)

RawCancels(t) ==
  \/ RawCancelSetsEvent(t) \/ RawCancelReads(t) \/ RawCancelSignals(t) \/ RawCancelFinal(t)
  \/ RawTakeOwned(t) \/ RawReleaseTaken(t)

RawNext ==
  \/ RawWorker \/ RawCancelBegins \/ RawCloseBegins \/ RawCloseFinal
  \/ RawCancels(canceller) \/ RawCancels(closer)

-----------------------------------------------------------------------------
(* SyslinuxWriteWorkflow. *)

SyslinuxInit == OwnerInit({"workspace"})

\* _cleanup_owned forgets the runner as well.
SyslinuxTakeOwned(t) == Take(t, "none")
SyslinuxReleaseTaken(t) == Release(t)

SyslinuxFails(from, kind) == FailsWith(from, kind)
SyslinuxWorkFails(from) ==
  \/ cancelEvent /\ SyslinuxFails(from, "cancelled")
  \/ SyslinuxFails(from, "failed")

SyslinuxPrepareBegins ==
  IF state = "created"
    THEN Become(worker, "idle", "workspace", "preparing")
    ELSE Move(worker, "idle", "done")

\* The space is reckoned, the helper resolved, the tree staged and published; the
\* stager is cancelled by cancel() through its own flag, which it polls.
SyslinuxStageTree == ~cancelEvent /\ workspace = "present" /\ Move(worker, "workspace", "image")

\* The composite plan and the target plan, each with _check_cancelled.
SyslinuxBuildPlans == ~cancelEvent /\ workspace = "present" /\ Move(worker, "image", "publish")

SyslinuxPreparationFails == \E from \in {"workspace", "image", "publish"} : SyslinuxWorkFails(from)

SyslinuxPublishPlan ==
  IF closeRequested \/ cancelEvent \/ state # "preparing"
    THEN SyslinuxFails("publish", "cancelled")
    ELSE Become(worker, "publish", "may-confirm", "prepared")

SyslinuxConfirmBegins == Move(worker, "may-confirm", IF state = "prepared" THEN "confirm" ELSE "done")
SyslinuxConfirmFails == SyslinuxWorkFails("confirm")
SyslinuxConfirmEnds ==
  IF state # "prepared"
    THEN SyslinuxFails("confirm", "cancelled")
    ELSE Become(worker, "confirm", "may-execute", "confirmed")

\* execute() looks twice: before and after it has made a runner.
SyslinuxExecuteBegins ==
  Move(worker, "may-execute",
       IF state = "confirmed" /\ "workspace" \in owned THEN "register" ELSE "done")

SyslinuxRegisterRunner ==
  IF state # "confirmed" \/ cancelEvent \/ closeRequested
    THEN SyslinuxFails("register", "cancelled")
    ELSE StartRunner("register", "transfer")

SyslinuxRegisterFails == SyslinuxFails("register", "failed")

\* SyslinuxDeviceWriteRunner.run: the private image is built from the staged tree.
SyslinuxBuildImage == workspace = "present" /\ ~runnerCancelled /\ Move(worker, "transfer", "decide")

SyslinuxRunFails ==
  \E from \in {"transfer", "decide"} :
    \/ runnerCancelled /\ SyslinuxFails(from, "cancelled")
    \/ SyslinuxFails(from, "failed")

SyslinuxDecide == SendCommit("decide", "helper")
SyslinuxHelperFails == SyslinuxFails("helper", "failed")
SyslinuxHelperSucceeds == RunnerReturns("helper", "store")
SyslinuxStoreResult ==
  /\ Goto(worker, "store", "take")
  /\ CleanupThen(worker, "complete-final")
  /\ UNCHANGED <<state, flags, resources, execution, taken, saw, failure>>

SyslinuxCompleteFinal == Become(worker, "complete-final", "done", Final("completed"))
SyslinuxFailFinal == Become(worker, "fail-final", "done", Final(failure))

SyslinuxCancelBegins == Move(canceller, "idle", "cancel")
SyslinuxCancelSetsEvent(t) == SetEvent(t)
SyslinuxCancelReads(t) == ReadForCancel(t)
SyslinuxCancelSignals(t) == SignalRunner(t, IF saw[t].state \in Immediate THEN "take" ELSE "done")
SyslinuxCancelFinal(t) == Become(t, "cancel-final", "done", Final("cancelled"))

SyslinuxCloseBegins == RequestClose(state \in {"preparing", "executing"}, "take")
SyslinuxCloseFinal == Become(closer, "close-final", "done", "closed")

SyslinuxWorker ==
  \/ SyslinuxPrepareBegins \/ SyslinuxStageTree \/ SyslinuxBuildPlans
  \/ SyslinuxPreparationFails \/ SyslinuxPublishPlan \/ SyslinuxConfirmBegins
  \/ SyslinuxConfirmFails \/ SyslinuxConfirmEnds \/ SyslinuxExecuteBegins
  \/ SyslinuxRegisterRunner \/ SyslinuxRegisterFails \/ SyslinuxBuildImage \/ SyslinuxRunFails
  \/ SyslinuxDecide \/ SyslinuxHelperFails \/ SyslinuxHelperSucceeds \/ SyslinuxStoreResult
  \/ SyslinuxCompleteFinal \/ SyslinuxFailFinal \/ SyslinuxTakeOwned(worker)
  \/ SyslinuxReleaseTaken(worker)

SyslinuxCancels(t) ==
  \/ SyslinuxCancelSetsEvent(t) \/ SyslinuxCancelReads(t) \/ SyslinuxCancelSignals(t)
  \/ SyslinuxCancelFinal(t) \/ SyslinuxTakeOwned(t) \/ SyslinuxReleaseTaken(t)

SyslinuxNext ==
  \/ SyslinuxWorker \/ SyslinuxCancelBegins \/ SyslinuxCloseBegins \/ SyslinuxCloseFinal
  \/ SyslinuxCancels(canceller) \/ SyslinuxCancels(closer)

-----------------------------------------------------------------------------
(* GrubRescueWriteWorkflow. *)

GrubInit == OwnerInit({"workspace"})

\* Mutation: the prepared image is forgotten in place of closed.
GrubCleanupWorkspace(t) ==
  /\ Goto(t, "take", "release")
  /\ taken' = [taken EXCEPT ![t] = owned \ {"prepared"}]
  /\ owned' = {}
  /\ UNCHANGED <<state, flags, prepared, workspace, execution, after, saw, failure>>

\* _cleanup, under the lock and after it.
GrubCleanup(t) == Take(t, runner)
GrubCleanupEnds(t) == Release(t)

GrubFails(from, kind) == FailsWith(from, kind)
GrubWorkFails(from) ==
  \/ cancelEvent /\ GrubFails(from, "cancelled")
  \/ GrubFails(from, "failed")

GrubPrepareBegins ==
  IF state = "created"
    THEN Become(worker, "idle", "workspace", "preparing")
    ELSE Move(worker, "idle", "done")

\* The workspace is checked, the helper resolved, the pinned bundle fetched.
GrubFetchBundle == ~cancelEvent /\ workspace = "present" /\ Move(worker, "workspace", "image")

GrubBuildRescueImage ==
  /\ ~cancelEvent
  /\ Goto(worker, "image", "publish")
  /\ prepared' = "ready"
  /\ owned' = owned \union {"prepared"}
  /\ UNCHANGED <<state, flags, workspace, execution, local, failure>>

GrubPreparationFails == \E from \in {"workspace", "image", "publish"} : GrubWorkFails(from)

GrubPublishPlan ==
  IF closeRequested \/ cancelEvent \/ state # "preparing"
    THEN GrubFails("publish", "cancelled")
    ELSE Become(worker, "publish", "may-confirm", "prepared")

GrubConfirmBegins == Move(worker, "may-confirm", IF state = "prepared" THEN "confirm" ELSE "done")
GrubConfirmFails == GrubWorkFails("confirm")
GrubConfirmEnds ==
  IF state # "prepared"
    THEN GrubFails("confirm", "cancelled")
    ELSE Become(worker, "confirm", "may-execute", "confirmed")

GrubExecuteBegins ==
  IF state = "confirmed" /\ "prepared" \in owned
    THEN StartRunner("may-execute", "transfer")
    ELSE Move(worker, "may-execute", "done")

\* GrubRescueDeviceWriteRunner.run, as far as the image is sent to the helper.
GrubSendImage ==
  /\ prepared = "ready" /\ ~runnerCancelled
  /\ Goto(worker, "transfer", "decide")
  /\ prepared' = "transferred"
  /\ UNCHANGED <<state, flags, owned, workspace, execution, local, failure>>

GrubRunFails ==
  \E from \in {"transfer", "decide"} :
    \/ runnerCancelled /\ GrubFails(from, "cancelled")
    \/ GrubFails(from, "failed")

GrubDecide == SendCommit("decide", "helper")
GrubHelperFails == GrubFails("helper", "failed")
GrubHelperSucceeds == RunnerReturns("helper", "validate")

\* _validate_result: cancellation_deferred must be what _cancelled says now.
GrubValidateResult ==
  IF deferred # cancelEvent
    THEN GrubFails("validate", "failed")
    ELSE Move(worker, "validate", "store")

GrubStoreResult ==
  /\ Goto(worker, "store", "take")
  /\ CleanupThen(worker, "complete-final")
  /\ UNCHANGED <<state, flags, resources, execution, taken, saw, failure>>

GrubCompleteFinal == Become(worker, "complete-final", "done", Final("completed"))

\* A cancellation is a failure once COMMIT was sent.
GrubFailFinal ==
  Become(worker, "fail-final", "done",
         Final(IF failure = "cancelled" /\ device = "intact" THEN "cancelled" ELSE "failed"))

GrubCancelBegins == Move(canceller, "idle", "cancel")
GrubCancelSetsEvent(t) == SetEvent(t)
GrubCancelReads(t) == ReadForCancel(t)

GrubCancelSignals(t) == SignalRunner(t, IF saw[t].state \in Immediate THEN "take" ELSE "done")
GrubCancelFinal(t) == Become(t, "cancel-final", "done", Final("cancelled"))

GrubCloseBegins == RequestClose(state \in {"preparing", "executing"}, "take")
GrubCloseFinal == Become(closer, "close-final", "done", "closed")

GrubWorker ==
  \/ GrubPrepareBegins \/ GrubFetchBundle \/ GrubBuildRescueImage \/ GrubPreparationFails
  \/ GrubPublishPlan \/ GrubConfirmBegins \/ GrubConfirmFails \/ GrubConfirmEnds
  \/ GrubExecuteBegins \/ GrubSendImage \/ GrubRunFails \/ GrubDecide \/ GrubHelperFails
  \/ GrubHelperSucceeds \/ GrubValidateResult \/ GrubStoreResult \/ GrubCompleteFinal
  \/ GrubFailFinal \/ GrubCleanup(worker) \/ GrubCleanupEnds(worker)

GrubCancels(t) ==
  \/ GrubCancelSetsEvent(t) \/ GrubCancelReads(t) \/ GrubCancelSignals(t) \/ GrubCancelFinal(t)
  \/ GrubCleanup(t) \/ GrubCleanupEnds(t)

GrubNext ==
  \/ GrubWorker \/ GrubCancelBegins \/ GrubCloseBegins \/ GrubCloseFinal
  \/ GrubCancels(canceller) \/ GrubCancels(closer)
=============================================================================
