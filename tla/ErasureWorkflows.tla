------------------------------ MODULE ErasureWorkflows ------------------------------
(***************************************************************************)
(* The two owners that have no source, and own no file.                    *)
(*                                                                         *)
(* RestoreWorkflow of isopropyl/restore_workflow.py: its state stays       *)
(* CREATED while prepare() runs (_preparing is the worker being there),    *)
(* its cancel() decides under the lock, and the runner asks it once more   *)
(* right before COMMIT.                                                    *)
(*                                                                         *)
(* FastZeroWorkflow of isopropyl/fast_zero.py: its cancel() changes the    *)
(* state under the lock, and its runner may stop after COMMIT with a       *)
(* partial result.                                                         *)
(***************************************************************************)
EXTENDS WorkflowOwner

RestoreInit == OwnerInit({})

Preparing == pc[worker] \in {"plan", "publish", "return", "failed-return"}

\* _terminal_failure: nothing is called cancelled once COMMIT was sent.
TerminalFailure(from, to, kind) ==
  Become(worker, from, to,
         Final(IF kind = "cancelled" /\ device = "intact" THEN "cancelled" ELSE "failed"))

WorkFails(from, to) ==
  \/ cancelEvent /\ TerminalFailure(from, to, "cancelled")
  \/ TerminalFailure(from, to, "failed")

RestorePrepareBegins == Move(worker, "idle", IF state = "created" THEN "plan" ELSE "done")

\* The helper is resolved, the target observed, the plan built.
RestoreBuildPlan == ~cancelEvent /\ Move(worker, "plan", "publish")

RestorePublishPlan ==
  IF closeRequested \/ cancelEvent
    THEN TerminalFailure("publish", "failed-return", "cancelled")
    ELSE Become(worker, "publish", "return", "prepared")

RestorePreparationFails == \E from \in {"plan", "publish"} : WorkFails(from, "failed-return")

\* The finally clause takes the lock once more to reset _preparing.
PrepareReturns == Move(worker, "return", "may-confirm") \/ Move(worker, "failed-return", "done")

RestoreConfirmBegins == Move(worker, "may-confirm", IF state = "prepared" THEN "confirm" ELSE "done")
RestoreConfirmFails == WorkFails("confirm", "done")
RestoreConfirmEnds ==
  IF state # "prepared"
    THEN TerminalFailure("confirm", "done", "cancelled")
    ELSE Become(worker, "confirm", "may-execute", "confirmed")

RestoreExecuteBegins ==
  Move(worker, "may-execute", IF state = "confirmed" THEN "register" ELSE "done")

RegisterRunner ==
  IF state # "confirmed" \/ cancelEvent \/ closeRequested
    THEN TerminalFailure("register", "done", "cancelled")
    ELSE StartRunner("register", "transfer")

RegisterFails == TerminalFailure("register", "done", "failed")

\* RestoreDeviceRunner.run up to PREPARED, and confirm_commit of the workflow.
ConfirmCommit == ~runnerCancelled /\ ~cancelEvent /\ Move(worker, "transfer", "decide")

RestoreRunFails ==
  \E from \in {"transfer", "decide"} :
    \/ (runnerCancelled \/ cancelEvent) /\ TerminalFailure(from, "done", "cancelled")
    \/ TerminalFailure(from, "done", "failed")

RestoreDecide == SendCommit("decide", "helper")

RestoreHelperFails == TerminalFailure("helper", "done", "failed")
RestoreHelperSucceeds == RunnerReturns("helper", "store")
RestoreStoreResult == Become(worker, "store", "done", Final("completed"))

RestoreCancelBegins == Move(canceller, "idle", "cancel")

\* All of the decision is one block; runner.cancel() follows it.
RestoreCancelDecides(t) ==
  IF state \in Ended
    THEN Move(t, "cancel", "done")
    ELSE /\ Goto(t, "cancel", "cancel-signal")
         /\ cancelEvent' = TRUE
         /\ saw' = [saw EXCEPT ![t] = [state |-> state, runner |-> runner]]
         /\ state' = IF state \in Immediate THEN Final("cancelled") ELSE state
         /\ UNCHANGED <<closeRequested, resources, execution, after, taken, failure>>

RestoreCancelSignals(t) == SignalRunner(t, "done")

RestoreCloseBegins == RequestClose(Preparing \/ state = "executing", "close-final")
RestoreCloseFinal == Become(closer, "close-final", "done", "closed")

RestoreWorker ==
  \/ RestorePrepareBegins \/ RestoreBuildPlan \/ RestorePublishPlan \/ RestorePreparationFails \/ PrepareReturns
  \/ RestoreConfirmBegins \/ RestoreConfirmFails \/ RestoreConfirmEnds \/ RestoreExecuteBegins \/ RegisterRunner
  \/ RegisterFails \/ ConfirmCommit \/ RestoreRunFails \/ RestoreDecide \/ RestoreHelperFails \/ RestoreHelperSucceeds
  \/ RestoreStoreResult

RestoreCancels(t) == RestoreCancelDecides(t) \/ RestoreCancelSignals(t)

RestoreNext ==
  \/ RestoreWorker \/ RestoreCancelBegins \/ RestoreCloseBegins \/ RestoreCloseFinal
  \/ RestoreCancels(canceller) \/ RestoreCancels(closer)

-----------------------------------------------------------------------------
FastZeroInit == OwnerInit({})

\* What the except clause of prepare and confirm makes of any exception.
Stops(from) ==
  Become(worker, from, "done", Final(IF cancelEvent THEN "cancelled" ELSE "failed"))

FastZeroPrepareBegins ==
  IF state = "created"
    THEN Become(worker, "idle", "plan", "preparing")
    ELSE Move(worker, "idle", "done")

FastZeroBuildPlan == ~cancelEvent /\ Move(worker, "plan", "publish")

FastZeroPublishPlan ==
  IF closeRequested \/ cancelEvent \/ state # "preparing"
    THEN Stops("publish")
    ELSE Become(worker, "publish", "may-confirm", "prepared")

FastZeroPreparationFails == \E from \in {"plan", "publish"} : Stops(from)

FastZeroConfirmBegins == Move(worker, "may-confirm", IF state = "prepared" THEN "confirm" ELSE "done")
FastZeroConfirmFails == Stops("confirm")
FastZeroConfirmEnds ==
  IF state # "prepared"
    THEN Stops("confirm")
    ELSE Become(worker, "confirm", "may-execute", "confirmed")

FastZeroExecuteBegins ==
  IF state = "confirmed"
    THEN StartRunner("may-execute", "transfer")
    ELSE Move(worker, "may-execute", "done")

\* FastZeroRunner.run: validation, unmounting, authorization, the request.
Authorize == ~runnerCancelled /\ Move(worker, "transfer", "decide")

FastZeroRunFails ==
  \E from \in {"transfer", "decide"} :
    \/ runnerCancelled /\ Become(worker, from, "done", Final("cancelled"))
    \/ Become(worker, from, "done", Final("failed"))

FastZeroDecide == SendCommit("decide", "helper")

\* Mutation: a partial result is shown as a cancellation.
PartialAsCancelled ==
  runnerCancelled /\ Become(worker, "helper", "done", Final("cancelled"))

\* The helper heard the CANCEL after COMMIT and has cleaned the ends.
HelperStops == runnerCancelled /\ Become(worker, "helper", "done", Final("partial"))

\* A partial failure, or no terminal packet at all.
FastZeroHelperFails == Become(worker, "helper", "done", Final("failed"))
FastZeroHelperSucceeds == RunnerReturns("helper", "store")

\* Mutation: a close() in between is forgotten.
StoreAlways == Become(worker, "store", "done", "completed")

FastZeroStoreResult == Become(worker, "store", "done", Final("completed"))

FastZeroCancelBegins == Move(canceller, "idle", "cancel")
CancelSetsEvent(t) == SetEvent(t)

FastZeroCancelDecides(t) ==
  /\ Goto(t, "cancel-read", "cancel-signal")
  /\ saw' = [saw EXCEPT ![t] = [state |-> state, runner |-> runner]]
  /\ state' = IF state \in Immediate THEN Final("cancelled") ELSE state
  /\ UNCHANGED <<flags, resources, execution, after, taken, failure>>

FastZeroCancelSignals(t) == SignalRunner(t, "done")

FastZeroCloseBegins == RequestClose(state \in {"preparing", "executing"}, "close-final")
FastZeroCloseFinal == Become(closer, "close-final", "done", "closed")

FastZeroWorker ==
  \/ FastZeroPrepareBegins \/ FastZeroBuildPlan \/ FastZeroPublishPlan \/ FastZeroPreparationFails
  \/ FastZeroConfirmBegins \/ FastZeroConfirmFails \/ FastZeroConfirmEnds \/ FastZeroExecuteBegins \/ Authorize \/ FastZeroRunFails
  \/ FastZeroDecide \/ HelperStops \/ FastZeroHelperFails \/ FastZeroHelperSucceeds \/ FastZeroStoreResult

FastZeroCancels(t) == CancelSetsEvent(t) \/ FastZeroCancelDecides(t) \/ FastZeroCancelSignals(t)

FastZeroNext ==
  \/ FastZeroWorker \/ FastZeroCancelBegins \/ FastZeroCloseBegins \/ FastZeroCloseFinal
  \/ FastZeroCancels(canceller) \/ FastZeroCancels(closer)
=============================================================================
